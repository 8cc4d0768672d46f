----------------------------- MODULE MCPlacement ----------------------------
(* Placement of every set of a few ranges. *)
EXTENDS Placement

CONSTANTS Threads, Starts, Sizes

\* One range may belong to a thread that has no bit.
Users ==
    {[seg |-> Segment(s, s + n), thread |-> t] : s \in Starts, n \in Sizes, t \in Threads}
    \cup {[seg |-> Segment(0, 1), thread |-> SIZE_BITS]}
=============================================================================
