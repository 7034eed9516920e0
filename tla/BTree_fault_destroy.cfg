CONSTANTS
    L = 4
    N = 3
    W = 3
    Keys = {1, 2, 3}
    ScanVals = {1}
    MaxInserts = 5
    RestartScan = FALSE
    InsertDuringScan = FALSE
    AscendingKeys = FALSE
    MaxFailures = 1
SPECIFICATION DestroySpec
INVARIANT DestroyNoThrow
CHECK_DEADLOCK FALSE
