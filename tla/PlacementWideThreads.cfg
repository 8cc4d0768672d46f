CONSTANTS
    Threads = {0, 2}
    Starts = {0, 2}
    Sizes = {1}
    AllUsers <- Users
    CACHELINE = 2
    INT_BITS = 2
    SIZE_BITS = 4
    SizeMod = 1024

SPECIFICATION Spec
CHECK_DEADLOCK TRUE

INVARIANT FalseSharingGone
