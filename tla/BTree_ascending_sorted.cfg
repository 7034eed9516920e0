CONSTANTS
    L = 4
    N = 3
    W = 5
    Keys <- DistinctKeys
    ScanVals = {}
    MaxInserts = 12
    RestartScan = FALSE
    InsertDuringScan = FALSE
    AscendingKeys = TRUE
    MaxFailures = 0
SPECIFICATION Spec
INVARIANTS
    ChainSorted
