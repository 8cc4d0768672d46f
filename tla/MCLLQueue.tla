----------------------------- MODULE MCLLQueue ------------------------------
(* LLQueue with a few threads, heap pages and slabs.                        *)
EXTENDS LLQueue, TLC

CONSTANTS t1, t2, t3, a1, a2, a3, x1, s1, s2, s3
Symmetry == Permutations(Threads)
=============================================================================
