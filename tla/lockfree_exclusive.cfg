SPECIFICATION Spec
CONSTANTS
    Threads = {t1}
    Slots = 1
    InitialSize = 2
    ChunkSize = 1
    MaxTotal = 2
    MaxActive = 2
    MaxCache = 1
    CountModulus = 16
    MaxChunks = 3
INVARIANT Exclusive
CHECK_DEADLOCK FALSE
