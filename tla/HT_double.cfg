SPECIFICATION Spec
CONSTANTS
    b1 = b1
    b2 = b2
    b3 = b3
    b4 = b4
    NULL = NULL
    Buckets = {b1, b2, b3, b4}
    HashOf <- Hashes
    SizePower2 = 2
    ShiftThreshold = 1
    MaxTableSize = 16
    RefMask = 3
    Doubly = TRUE
    RehashThrows = FALSE
SYMMETRY SameHash
INVARIANTS
    BucketsOnTheirChains
    PreviousPointsBack
    HashBitsKept
