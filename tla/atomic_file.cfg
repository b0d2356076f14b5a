SPECIFICATION Spec
CONSTANTS
    Writer = {w1, w2, w3}
    Initial = Initial
    Faults = {"io", "crash", "power"}
SYMMETRY Symmetry
INVARIANTS NeverPartial
PROPERTIES OpenedFileIsStable ImplementsRegister
CHECK_DEADLOCK FALSE
