SPECIFICATION SpecThrow
CONSTANTS
    CanThrow = TRUE
    Pools = {0, 1}
    Base <- PoolBase
    Gap = 1
    ChunkSize = 4
    WordInts = 2
    DebugOffset = 1
    FreeLists = 2
    INC = 2
    Sizes = {1, 3, 5}
    PtrLimit = 11
    Wild = Wild
    b1 = b1
    b2 = b2
    b3 = b3
    b4 = b4
    RehashThrows = TRUE
    NULL = NULL
    Buckets = {b1, b2, b3, b4}
    HashOf <- Hashes
    SizePower2 = 0
    ShiftThreshold = 0
    MaxTableSize = 4
    RefMask = 0
    Doubly = FALSE
CHECK_DEADLOCK FALSE
INVARIANTS
    Inv
    GarbageOnlyInGrownLists
    LiveBlocksAreInPools
    CountIsExact
    EnumeratesAll
PROPERTIES
    ImplementsAllocator
    LoadIsBounded
    EnumeratesOnce
    EnumerationEnds
