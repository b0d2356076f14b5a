SPECIFICATION Spec
CONSTANTS
    s1 = s1
    s2 = s2
    s3 = s3
    a1 = a1
    a2 = a2
    a3 = a3
    a4 = a4
    p1 = p1
    p2 = p2
    None = None
    Proc = {p1, p2}
    Server = {s1, s2, s3}
    Name = {"ca_1", "ca_2"}
    Slug <- SharedName
    Acct = {a1, a2, a3, a4}
    EabNeeded = {s3}
    Legacy <- SomeLegacy
    MaxLost = 1
INVARIANTS TypeOK AccountsStayApart OneAccountPerServer
PROPERTIES StoredStays
SYMMETRY Sym
