CONSTANTS
    f1 = f1
    f2 = f2
    NoFile = NoFile
    Files <- MCFiles
    PageNos <- MCPageNos
    NumBufs = 2
    MaxWrites = 1
    MaxPins = 2
SYMMETRY MCSymmetry
SPECIFICATION DestroySpec
INVARIANT DestroyKeepsWrites
CHECK_DEADLOCK FALSE
