------------------------------ MODULE MCLayout ------------------------------
(* Layout with a few instructions, threads and ranges. *)
EXTENDS Layout

CONSTANTS p1, p2

MCTargets == {NotGiven, 4}
\* Main with two ranges and two threads with one are four lines, the least that
\* can be extrapolated with main.
MCMaxInserts == [n \in MCTargets |-> IF n = NotGiven THEN 3 ELSE 4]
\* The analysis knows nothing, or that p1 uses the first two bytes of every element.
MCAnalyses == {<<>>, [p \in {p1} |-> P!Segment(0, 2)]}
=============================================================================
