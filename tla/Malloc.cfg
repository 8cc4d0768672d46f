CONSTANTS
    Threads = {0, 1}
    Main = 0
    MaxAddr = 4
    HeapLow = 2
    Sizes = {1, 3}
    MaxId <- MCMaxId
    UINT32 = 2
    Programs = {{}, {"realloc", "foreign", "fail"}}

SPECIFICATION Spec
CHECK_DEADLOCK FALSE

INVARIANT LoggedRight
INVARIANT HeapAccessLogged
INVARIANT GlobalAccessLogged
INVARIANT AliveExact
INVARIANT LoggedIdDumped
