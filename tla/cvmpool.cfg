SPECIFICATION FairSpec
CONSTANTS
    Requests = {r1, r2, r3, r4}
    Releasing = {r1, r2}
    Capacity = 3
    Initial = 2
    StartFaults = TRUE
    WaitOnShutdown = TRUE
INVARIANTS TypeOK Exclusive Accounting
PROPERTIES ExpandWhenExhausted  ImplementsAllocator
CHECK_DEADLOCK FALSE
