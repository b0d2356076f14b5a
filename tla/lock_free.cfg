SPECIFICATION Spec
CONSTANTS
    Proc = {p1, p2, p3, p4}
    Pid = {i1, i2, i3}
    None = None
    Faults = {"crash", "write", "reuse"}
SYMMETRY Symmetry
INVARIANTS ExclusiveUnlessStolen HolderIsLinked LeftoverExplained
CHECK_DEADLOCK FALSE
