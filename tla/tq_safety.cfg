SPECIFICATION Spec
CONSTANTS
    p1 = p1
    p2 = p2
    c1 = c1
    c2 = c2
    freezer = freezer
    Threads = {p1, p2, c1, c2}
    MayCall <- TwoConsumers
    Data = {d1, d2}
    NULL = NULL
    Nobody = Nobody
    OutOfMemory = TRUE
    Spurious = TRUE
    MaxLen = 2
INVARIANTS
    NoLostWakeup
PROPERTIES
    Linearizable
