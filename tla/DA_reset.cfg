SPECIFICATION SpecAllocator
CONSTANTS
    Pools = {0, 1, 2}
    Base <- PoolBase
    Gap = 1
    ChunkSize = 4
    WordInts = 2
    DebugOffset = 0
    FreeLists = 4
    INC = 8
    Sizes = {1, 3}
    CanThrow = FALSE
    PtrLimit = 0
    Wild = Wild
CHECK_DEADLOCK FALSE
PROPERTIES
    ResetDeletesPools
