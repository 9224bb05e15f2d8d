SPECIFICATION FairSpec
CONSTANTS
    Threads = {t1, t2}
    Slots = 2
    InitialSize = 2
    ChunkSize = 1
    MaxTotal = 3
    MaxActive = 2
    MaxCache = 1
    CountModulus = 16
    MaxChunks = 3
INVARIANTS  CapacityBound
PROPERTY CallsReturn
CHECK_DEADLOCK FALSE
