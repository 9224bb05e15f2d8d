SPECIFICATION Spec
CONSTANTS
    Thieves = {h1}
    InitCapacity = 2
    MaxCapacity = 4
    MaxTasks = 3
    SharedPush = FALSE
INVARIANTS Conserved
CHECK_DEADLOCK FALSE
