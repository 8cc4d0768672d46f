---------------------------- MODULE MCMallocInfo ----------------------------
(* MallocInfo with a small address space: NULL, one global and a heap of a  *)
(* few bytes in which two or three blocks meet and addresses are reused.    *)
EXTENDS MallocInfo

(* Three recorded blocks are the fewest of which a middle one can be freed, *)
(* and the fewest whose ids do not fit a uint32_t of two values.            *)
MCMaxId == [w \in SUBSET Workloads |-> IF w = {} THEN 3 ELSE 2]
=============================================================================
