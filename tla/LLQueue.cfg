CONSTANTS
    t1 = t1
    t2 = t2
    t3 = t3
    a1 = a1
    a2 = a2
    a3 = a3
    x1 = x1
    s1 = s1
    s2 = s2
    s3 = s3
    None = None
    Threads = {t1, t2, t3}
    Atls = {a1, a2, a3}
    Pages = {x1}
    Slabs = {s1, s2, s3}
    SlabNodes = 1
    SLABBMAX = 1
    MaxCalls = 5

SPECIFICATION Spec
SYMMETRY Symmetry
CHECK_DEADLOCK TRUE

INVARIANT NodesAccounted
INVARIANT FreesOwn
INVARIANT OwnerStays
INVARIANT WaitsForWork
PROPERTY ImplementsReclaim
