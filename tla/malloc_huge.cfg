SPECIFICATION Spec
CONSTANTS
    MaxHeap = 64
    CHUNKSIZE = 32
    Builds = {FALSE, TRUE}
    UintMod = 256
    SizeMod = 65536
    Requests = {1, 100, 127, 128, 200, 240, 248, 255}
INVARIANT AtLeastSizeBytes
CHECK_DEADLOCK FALSE
