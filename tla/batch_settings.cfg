SPECIFICATION Spec
CONSTANTS
    None = None
    Presets <- PRESETS
    N = 1
    Initial <- Nothing
    Lives <- Expiring
    Options <- AnyCommand
    Threshold = 0
    Demanding <- Demands
    Faults = {"order", "io", "crash"}
    MaxRuns = 3
INVARIANTS RenewedWhereIssued NoNeedlessRefusal
CHECK_DEADLOCK FALSE
