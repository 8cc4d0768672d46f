CONSTANTS
    w1 = w1
    w2 = w2
    r1 = r1
    r2 = r2
    r3 = r3
    Workers = {w1, w2}
    MAX_THREADS = 3
    LOG_SIZE = 2
    Records = {r1, r2, r3}
    Kinds = {"write"}
    CountMod = 2
    MaxAccess <- MCMaxAccess
    MaxKills = 1
    Workload = {"nested", "exit_any", "no_thread", "no_file"}

SPECIFICATION Spec
SYMMETRY Symmetry
CHECK_DEADLOCK TRUE

INVARIANT Conserved
INVARIANT RecordComplete
INVARIANT BufferBounded
INVARIANT OwnObject
