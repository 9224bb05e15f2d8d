SPECIFICATION CollectionSpec
CONSTANTS
    Keys = {"a", "b", "c"}
    Values = {"x", "y"}
    Hashes = {0, 3}
    InitCapacity = 2
    CapacityLimit = 4
INVARIANTS CountsRight LookupRight IterationComplete
CHECK_DEADLOCK FALSE
