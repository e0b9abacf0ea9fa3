SPECIFICATION Spec
CONSTANTS
    k1 = k1
    k2 = k2
    k3 = k3
    k4 = k4
    p1 = p1
    p2 = p2
    p3 = p3
    p4 = p4
    Place <- Places
    Key = {k1, k2, k3, k4}
    Value = {a, b}
    NULL = NULL
    Anchor = Anchor
    Pair = {p1, p2, p3, p4}
    Hash <- Hashes
    Primes <- Sizes
PROPERTIES
    ImplementsMap
CHECK_DEADLOCK FALSE
