SPECIFICATION FairSpec
CONSTANTS
    NumTasks = 3
    InitThreads = 2
    MinThreads = 1
    DequeLimit = 1
    GlobalLimit = 1
    MaxPending = 2
    HighWater = 1
    Stealing = TRUE
    Balancing = TRUE
    StartFaults = TRUE
    WaitOnShutdown = TRUE
    MayShutdown = TRUE
INVARIANTS  BackPressure 
 
CHECK_DEADLOCK FALSE
