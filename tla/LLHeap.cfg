CONSTANTS
    t1 = t1
    t2 = t2
    Threads = {t1, t2}
    Sizes = {2, 3, 5}
    Aligns = {2, 4}
    MaxCalls = 5
    MaxPages = 4
    PAGESIZE = 4
    MINALLOC = 8
    BTMALLOC = 10
    SizeMod = 64
    QS_MAX = 3
    FAST_64_BIN = 6
    FL <- MCFL
    HEAD_MAX = 3
    Junk = Junk

SPECIFICATION Spec
SYMMETRY Symmetry
CHECK_DEADLOCK TRUE

INVARIANT PagesTiled
INVARIANT ChunksAccounted
INVARIANT RequestsMet
