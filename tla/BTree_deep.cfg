CONSTANTS
    L = 4
    N = 3
    W = 3
    Keys = {1, 2, 3}
    ScanVals = {}
    MaxInserts = 9
    RestartScan = FALSE
    InsertDuringScan = FALSE
    AscendingKeys = FALSE
    MaxFailures = 0
SPECIFICATION Spec
INVARIANTS
    EntriesPreserved
    OccupancyExact
