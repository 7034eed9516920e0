CONSTANTS
    L = 4
    N = 3
    W = 3
    Keys = {1, 2, 3}
    ScanVals = {1, 2}
    MaxInserts = 6
    RestartScan = FALSE
    InsertDuringScan = TRUE
    AscendingKeys = FALSE
    MaxFailures = 0
SPECIFICATION Spec
INVARIANTS
    ScanComplete
VIEW ScanView
