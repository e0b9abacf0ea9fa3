SPECIFICATION FairSpec
CONSTANTS
    WantLongpoll = TRUE
    Paths = {p1, p2}
    NoPath = NoPath
    Units = 2
    MaxCalls = 3
    MaxLines = 2
INVARIANTS
    CallbacksLive RequestInOrder ReplyInOrder MemoryKept
PROPERTIES
    AnswerFaithful CallEnds
