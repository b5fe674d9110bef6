SPECIFICATION SpecAllocator
CONSTANTS
    Pools = {0, 1, 2}
    Base <- PoolBase
    Gap = 1
    ChunkSize = 5
    WordInts = 1
    DebugOffset = 1
    FreeLists = 6
    INC = 8
    Sizes = {1, 2, 3}
    CanThrow = FALSE
    PtrLimit = 0
    Wild = Wild
CHECK_DEADLOCK FALSE
INVARIANTS
    AllocatorTypeOK
    NoOverlap
    BlocksInPools
    StatsMatchLive
PROPERTIES
    FreedBlocksAreNotInPools
