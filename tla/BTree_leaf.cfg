CONSTANTS
    L = 4
    N = 3
    W = 3
    Keys = {1, 2, 3}
    ScanVals = {1, 2, 3}
    MaxInserts = 6
    RestartScan = FALSE
    InsertDuringScan = FALSE
    AscendingKeys = FALSE
    MaxFailures = 0
SPECIFICATION Spec
INVARIANTS
    TypeOK
    EntriesPreserved
    ChainSorted
    TreeCoversChain
    ScanComplete
    ScanOrderedBelowHigh
    NoPinLeak
VIEW ScanView
