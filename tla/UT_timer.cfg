SPECIFICATION SpecUtilities
CONSTANTS
    Pools = {0, 1}
    First <- PoolFirst
    NumberOfItems = 3
    Words = 3
    WordBits = 2
    Undefined = Undefined
    WordBytes = 8
    MaxLength = 26
    PathLength = 6
    MemorySizes <- Quantities
    ListLength = 4
    Infos = {1, 2, 3}
    Values = {{}, {1}, {1, 2}}
    Addresses = {8, 12, 16}
    AllocationTable = 2
    IntSizes = {0, 2}
    Overwritten = 0
    p1 = p1
    p2 = p2
    Ptrs = {p1, p2}
    Home <- HomeSlots
    NULL = NULL
    x = x
    Sizes = {1, 2}
    Positions = {x}
    NoPosition = NoPosition
    ExtensionBit = 4
    InitSize = 2
    SlotBytes = 1
    RecordBytes = 3
    ExtRecordBytes = 6
    SelfBytes = 7
    MaxBuckets = 3
    CanFail = TRUE
    MaxClock = 3
    MaxRan = 4
    Adjustments <- Settings
    MilliTicks = 2
    Period = 4
    Paces = {0, 1, 3, 5}
    MaxDelay = 9
    MaxBurst = 3
    MaxEvents = 40
    n1 = n1
    n2 = n2
    StatNames = {n1, n2}
    SubNames = {1, 2}
    NameHash <- SameHash
    NoSub = 0
    MaxCount = 2
    Recording = {TRUE, FALSE}
    MaxActors = 4
    MaxEntries = 3
CHECK_DEADLOCK FALSE
PROPERTIES
    ElapsedSinceLastCall
