SPECIFICATION OutageSpec
CONSTANTS
    N = 2
    OptRetries <- Never
    LpRetries = 0
    WantLongpoll = TRUE
    Faults = {"rpc"}
    MaxBlock = 2
    MaxBatch = 0
PROPERTIES
    OutageSurvived
