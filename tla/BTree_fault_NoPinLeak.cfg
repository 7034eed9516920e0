CONSTANTS
    L = 4
    N = 3
    W = 3
    Keys = {1, 2, 3}
    ScanVals = {}
    MaxInserts = 6
    RestartScan = FALSE
    InsertDuringScan = FALSE
    AscendingKeys = FALSE
    MaxFailures = 1
SPECIFICATION Spec
INVARIANT NoPinLeak
