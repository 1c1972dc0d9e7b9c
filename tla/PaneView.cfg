SPECIFICATION Spec
CONSTANTS
    HistoryLimit = 2
    TabInterval = 2
    Starts <- MCStarts
    Functions <- MCFunctions
    Sizes <- MCSizes
    ChangeHistory = 2
    WheelLines = 1
    MaxFunctions = 2
    MaxOthers = 2
INVARIANTS
    IndicesInRange
    DeltaExact
CHECK_DEADLOCK FALSE
