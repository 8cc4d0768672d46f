-------------------------- MODULE MCSharedSpinLock --------------------------
(* SharedSpinLock on four threads, any of which may read or write at any    *)
(* time.  No symmetry: the run checks liveness too.                          *)
EXTENDS SharedSpinLock

CONSTANTS t1, t2, t3, t4

MCThreads == {t1, t2, t3, t4}
=============================================================================
