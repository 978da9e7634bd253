SPECIFICATION Spec
CONSTANTS
    MaxHeap = 80
    CHUNKSIZE = 32
    Builds = {FALSE, TRUE}
    UintMod = 4096
    SizeMod = 16777216
    Ids = {0, 1, 2}
    Sizes = {1, 9, 24}
    MaxOps = 5
INVARIANTS DriverAccepts HeapConsistent AllocatedAreHeld
    PayloadsDisjoint DataIntact
    UtilizationAtMostOne
PROPERTY GrowsOnlyWithoutFit
\* an evaluation ends
CHECK_DEADLOCK FALSE
