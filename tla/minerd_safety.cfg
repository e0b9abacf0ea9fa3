SPECIFICATION Spec
CONSTANTS
    N = 2
    OptRetries = 1
    LpRetries = 0
    WantLongpoll = TRUE
    Faults = {"spurious", "rpc", "curl", "create", "oom"}
    MaxBlock = 2
    MaxBatch = 0
INVARIANTS
    SubmitBeforeGet FreshWork LongpollOnce
PROPERTIES
    Conversation
CHECK_DEADLOCK FALSE
