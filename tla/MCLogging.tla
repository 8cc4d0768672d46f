----------------------------- MODULE MCLogging ------------------------------
(* Logging with a few threads and records.  The workers are interchangeable *)
(* and so are the records.                                                  *)
EXTENDS Logging, TLC

CONSTANTS w1, w2, r1, r2, r3

\* A run that may be killed fills the table of the initial thread; the last
\* one makes an access in every object.
MCMaxAccess ==
    [k \in 0..MaxKills |-> [i \in Index |->
        IF k = MaxKills THEN 1 ELSE IF i = 0 THEN 3 ELSE 0]]

\* All runs make two accesses in every object.
MCTwoEach == [k \in 0..MaxKills |-> [i \in Index |-> 2]]

Symmetry == Permutations(Workers) \cup Permutations(Records)
=============================================================================
