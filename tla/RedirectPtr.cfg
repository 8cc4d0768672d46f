CONSTANTS
    main = main
    f = f
    g = g
    h = h
    Funcs = {main, f, g, h}
    NoFunction = NoFunction
    NoLoop = NoLoop
    Programs <- MCPrograms

SPECIFICATION Spec
CHECK_DEADLOCK TRUE

INVARIANT TypeOK
INVARIANT ThreadsExact
INVARIANT StaysInThread
INVARIANT AccessesMoved
