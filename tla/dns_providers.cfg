SPECIFICATION Spec
CONSTANTS
    c1 = c1
    c2 = c2
    Other = Other
    Spf = Spf
    Clients = {c1, c2}
    Apis <- Providers
    Layouts <- Accounts
INVARIANTS UpMeansPublished NothingLeft
PROPERTIES OnlyItsOwnerRemoves
SYMMETRY Sym
CHECK_DEADLOCK FALSE
