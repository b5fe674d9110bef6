SPECIFICATION SpecPair
CONSTANTS
    a = a
    b = b
    d = d
    e = e
    Ptrs = {a, b, d, e}
    Home <- HomeSlots
    Deletable = {a}
    MaxRetries = 1
    MaxSize = 16
    NULL = NULL
    TOMBSTONE = TOMBSTONE
INVARIANTS
    TypeOK
    AtMostHalfFull
    EveryEntryReachable
    EqualIsSetEquality
PROPERTIES
    OnlyDeletionRemoves
    SetWhileDistinct
    OtherImplementsSet
