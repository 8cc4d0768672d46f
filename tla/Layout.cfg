CONSTANTS
    p1 = p1
    p2 = p2
    PCs = {p1, p2}
    Threads = {0, 1, 2}
    Starts = {0, 1, 3}
    Sizes = {1, 2}
    MaxInserts <- MCMaxInserts
    Targets <- MCTargets
    Analyses <- MCAnalyses
    SingleSize = 3
    CACHELINE = 2
    INT_BITS = 8
    SIZE_BITS = 16
    SizeMod = 1024

SPECIFICATION Spec
CHECK_DEADLOCK TRUE

INVARIANT Faithful
INVARIANT FalseSharingGone
PROPERTY Places
