SPECIFICATION LibSpec
CONSTANTS
    Pool = {1, 2, 3}
    Static = {jtrue}
    Bound <- Bounds
    BadKey = 0
    ArraySize = 1
    Buckets <- FewBuckets
    NULL = NULL
    Junk = Junk
    FailAt = {0, 1, 2, 6}
    MaxRefs = 2
    Node = {1, 2, 3, 10, 11}
    Nil = Nil
    Heads = {10, 11}
    Alphabet <- Alphabets
    MaxInput <- Lengths
    IntMax = 99
    Base = 4
    Second = 3
    Sizes <- MCSizes
    WordBytes = 2
    HashWords = 2
    atoi <- Numbers
    algo_names = {"c"}
    HttpUrls = {"http:"}
    UserPasses = {"joe:x"}
    File <- Files
    num_processors = 8
    NullString = NullString
INVARIANTS
    ValuesRefcountExact ValuesFaithful DumpLoads LoadsExact StringRoundTrip 
    HexExact TargetExact TimeExact OptionsExact ListsKeepOrder
CHECK_DEADLOCK FALSE
