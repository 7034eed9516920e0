CONSTANTS
    L = 4
    N = 3
    W = 3
    Keys = {1, 2}
    ScanVals = {1, 2, 3}
    MaxInserts = 3
    RestartScan = TRUE
    InsertDuringScan = FALSE
    AscendingKeys = FALSE
    MaxFailures = 0
SPECIFICATION Spec
INVARIANT
    ScanOrderedBelowHigh
VIEW ScanView
CONSTRAINT PinBound
