SPECIFICATION FairSpec
CONSTANTS
    p1 = p1
    p2 = p2
    c1 = c1
    c2 = c2
    freezer = freezer
    Threads = {p1, p2, c1, freezer}
    MayCall <- OneConsumer
    Data = {d1}
    NULL = NULL
    Nobody = Nobody
    OutOfMemory = FALSE
    Spurious = FALSE
    MaxLen = 2
INVARIANTS
    NothingMeansFrozen
PROPERTIES
    NobodyForgotten
