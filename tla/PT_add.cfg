SPECIFICATION Spec
CONSTANTS
    a = a
    b = b
    c = c
    d = d
    e = e
    Ptrs = {a, b, c, d, e}
    Home <- HomeSlots
    Deletable = {a, b, c, d, e}
    MaxRetries = 1
    MaxSize = 32
    NULL = NULL
    TOMBSTONE = TOMBSTONE
PROPERTIES
    AddReportsNewPointers
