SPECIFICATION Spec
CONSTANTS
    None = None
    Presets <- PRESETS
    N = 2
    Initial <- AnySetting
    Lives <- AnyLife
    Options <- AnyRun
    Threshold = 0
    Demanding <- Demands
    Faults = {"order", "io", "hook", "crash"}
    MaxRuns = 1
INVARIANTS TypeOK HooksEnclose EveryDueOrdered
CHECK_DEADLOCK FALSE
