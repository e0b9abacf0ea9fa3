SPECIFICATION FairSpec
CONSTANTS
    N = 2
    OptRetries = 1
    LpRetries = 0
    WantLongpoll = TRUE
    Faults = {"rpc", "curl"}
    MaxBlock = 2
    MaxBatch = 1
INVARIANTS
    NoOrphanWait SolutionTracked LongpollOnce
PROPERTIES
    WaitEnds SolutionSent WorkioDeathEnds StaleWorkLeaves
