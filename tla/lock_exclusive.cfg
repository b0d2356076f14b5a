SPECIFICATION Spec
CONSTANTS
    Proc = {p1, p2, p3}
    Pid = {i1, i2, i3}
    None = None
    Faults = {}
INVARIANT MutualExclusion
CHECK_DEADLOCK FALSE
