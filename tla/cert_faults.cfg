SPECIFICATION Spec
CONSTANTS
    Gen = {1, 2, 3, 4, 5, 6, 7, 8, 9, 10, 11, 12}
    None = 0
    Life = 1
    Threshold = 0
    Paths <- SomePaths
    Flags <- ServerFlags
    Faults = {"io", "crash", "delete"}
    MaxFaults = 1
INVARIANTS LoadedPairMatches PresetStagingStaysInStore
PROPERTY DryRunTouchesNothing
VIEW View
