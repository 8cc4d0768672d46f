CONSTANTS
    Threads = {0, 3}
    Starts = {0, 1, 3}
    Sizes = {1, 3}
    AllUsers <- Users
    CACHELINE = 2
    INT_BITS = 4
    SIZE_BITS = 8
    SizeMod = 1024

SPECIFICATION Spec
CHECK_DEADLOCK TRUE

INVARIANT TypeOK
INVARIANT PiecesCover
INVARIANT Bijective
INVARIANT FitsNewSize
INVARIANT FalseSharingGone
