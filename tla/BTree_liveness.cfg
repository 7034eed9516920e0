CONSTANTS
    L = 4
    N = 3
    W = 3
    Keys = {1, 2}
    ScanVals = {1, 2}
    MaxInserts = 5
    RestartScan = FALSE
    InsertDuringScan = FALSE
    AscendingKeys = FALSE
    MaxFailures = 0
    Operators <- NoGTOperators
SPECIFICATION FairSpec
VIEW LivenessView
PROPERTIES
    ScanTerminates
    OrderedIndexRefinement
