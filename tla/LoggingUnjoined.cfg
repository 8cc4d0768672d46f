CONSTANTS
    w1 = w1
    w2 = w2
    r1 = r1
    r2 = r2
    r3 = r3
    Workers = {w1}
    MAX_THREADS = 2
    LOG_SIZE = 1
    Records = {r1, r2}
    Kinds = {"read", "write"}
    CountMod = 2
    MaxAccess <- MCTwoEach
    MaxKills = 0
    Workload = {"unjoined"}

SPECIFICATION Spec
SYMMETRY Symmetry
CHECK_DEADLOCK TRUE

INVARIANT QuietWhenStopped
