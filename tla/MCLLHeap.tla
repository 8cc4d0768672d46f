------------------------------ MODULE MCLLHeap ------------------------------
(* LLHeap with pages of a few units.                                        *)
EXTENDS LLHeap

CONSTANTS t1, t2
Symmetry == Permutations(Threads)

MCFL == [s \in 1..63 |-> IF s > 8 THEN 4 ELSE s \div 2]
=============================================================================
