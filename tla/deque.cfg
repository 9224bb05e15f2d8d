SPECIFICATION Spec
CONSTANTS
    Thieves = {h1, h2}
    InitCapacity = 4
    MaxCapacity = 8
    MaxTasks = 4
    SharedPush = FALSE
SYMMETRY ThievesSymmetry
INVARIANTS TypeOK ClaimedOnce Delivered ConservedUnresized
PROPERTY ImplementsDeque
CHECK_DEADLOCK FALSE
