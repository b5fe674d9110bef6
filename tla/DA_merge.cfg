SPECIFICATION SpecAllocator
CONSTANTS
    Pools = {0, 1}
    Base <- PoolBase
    Gap = 1
    ChunkSize = 4
    WordInts = 2
    DebugOffset = 1
    FreeLists = 2
    INC = 2
    Sizes = {1, 3, 5}
    CanThrow = TRUE
    PtrLimit = 11
    Wild = Wild
CHECK_DEADLOCK FALSE
PROPERTIES
    FreedBlocksAreNotInPools
