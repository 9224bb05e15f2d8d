SPECIFICATION MCSpec
CONSTANTS
    Threads = {t1, t2}
    Nodes = {1}
    Objects = {1, 2}
    MaxFrees = 2
    Allocators = {m1, m2}
    Sizes = {1, 5, 10}
    Alignments = {2, 4}
    Line = 2
    SlabMax = 2
    Large = 10
    Block = 14
    Threshold = 4
    MaxAllocs = 3
    MaxContexts = 2
INVARIANTS ExclusiveInFirstLife RegionsDisjoint StatisticsAgree 
SYMMETRY Symmetry
CHECK_DEADLOCK FALSE
