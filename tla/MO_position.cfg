SPECIFICATION Spec
CONSTANTS
    p1 = p1
    p2 = p2
    Ptrs = {p1, p2}
    Home <- HomeSlots
    NULL = NULL
    x = x
    Sizes = {1, 2}
    Positions = {x}
    NoPosition = NoPosition
    ExtensionBit = 4
    InitSize = 2
    SlotBytes = 1
    RecordBytes = 3
    ExtRecordBytes = 6
    SelfBytes = 7
    MaxBuckets = 3
    CanFail = TRUE
CHECK_DEADLOCK FALSE
INVARIANTS
    ReportedPositionIsOwn
