SPECIFICATION FairSpec
CONSTANTS
    Gen = {1, 2, 3, 4, 5, 6, 7, 8, 9, 10, 11, 12, 13, 14}
    None = 0
    Life = 4
    Threshold = 2
    Paths <- AllPaths
    Flags <- NoFlags
    Faults = {"ca", "io", "hook", "crash"}
    MaxFaults = 2
INVARIANT ServedValid
PROPERTIES TornHeals ServiceCatchesUp
