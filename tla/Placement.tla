----------------------------- MODULE Placement ------------------------------
(***************************************************************************)
(* The second half of class Layout of postprocess/Repair.cpp: ranges that  *)
(* overlap become one piece with the threads of both (merge_segments), the *)
(* pieces are laid out by threads with a cache line between groups         *)
(* (calc_remapping), and a range is looked up in the result (remap).       *)
(*                                                                         *)
(* The loops over sorted maps take the least of the pieces still in todo.  *)
(* thread_affinity is a set of bits; Bits is the C++ shift.                *)
(***************************************************************************)
EXTENDS Integers, FiniteSetsExt

CONSTANTS CACHELINE,      \* 64
          INT_BITS,       \* 32
          SIZE_BITS,      \* 64
          SizeMod,        \* 2^64, where size_t wraps
          AllUsers        \* bound: the ranges and threads there may be

ASSUME PlacementAssumption ==
    /\ CACHELINE \in Nat \ {0} /\ INT_BITS \in Nat \ {0} /\ SIZE_BITS \in Nat \ {0}
    /\ SizeMod \in Nat
    /\ AllUsers \subseteq [seg : [start : Nat, end : Nat], thread : Nat]
    /\ \A u \in AllUsers : u.seg.start < u.seg.end /\ u.seg.end < SizeMod

VARIABLES
    users,            \* the ranges in access_relation, with the thread of each
    stage,            \* what compute() does next
    todo,             \* pieces the current loop has still to visit
    top,              \* the piece on top of the stack
    stack,            \* the pieces under it
    group,            \* the threads whose pieces are being placed
    offset,           \* where the next piece goes; finally after_mapped
    remappings        \* pieces that have their new place, field to

vars == <<users, stage, todo, top, stack, group, offset, remappings>>

Segment(s, e) == [start |-> s, end |-> e]

\* size_t arithmetic.
Wrap(n) == IF n < 0 THEN n + SizeMod ELSE IF n >= SizeMod THEN n - SizeMod ELSE n
Size(s) == Wrap(s.end - s.start)

Before(a, b) == a.start < b.start \/ (a.start = b.start /\ a.end < b.end)
Least(p, S) == p \in S /\ \A q \in S : ~Before(q, p)
Overlap(a, b) == (a.start < b.end /\ a.end > b.start) \/ (b.start < a.end /\ b.end > a.start)
Touch(a, b) == a.end = b.start

NoPiece == [start |-> 0, end |-> 0, affinity |-> {}]
NoGroup == {}

Init ==
    /\ users = {} /\ stage = "collect"
    /\ todo = {} /\ top = NoPiece /\ stack = {}
    /\ group = NoGroup /\ offset = 0 /\ remappings = {}

\* access_relation is complete.
Collect ==
    /\ stage = "collect"
    /\ users' \in SUBSET AllUsers /\ users' # {} /\ stage' = "affinity"
    /\ UNCHANGED <<todo, top, stack, group, offset, remappings>>

-----------------------------------------------------------------------------
(* Merging what overlaps *)

\* Threads are counted from the top bit.
BitsFromTop(thread) == {SIZE_BITS - thread}

\* The value 1 << thread as a size_t: the shift is done in an int, modulo its
\* width, and a negative int is sign-extended.
Bits(thread) ==
    LET b == IF thread < INT_BITS THEN thread ELSE thread % INT_BITS
    IN  IF b = INT_BITS - 1 THEN b..(SIZE_BITS - 1) ELSE {b}

\* get_thread_affinity()
PieceOf(seg) ==
    [start |-> seg.start, end |-> seg.end,
     affinity |-> UNION {Bits(u.thread) : u \in {v \in users : v.seg = seg}}]

Pieces == {PieceOf(u.seg) : u \in users}

\* The assertion, and merge_segments() up to its first loop.
GetThreadAffinity(p) ==
    /\ stage = "affinity" /\ Least(p, Pieces)
    /\ IF \E u \in users : u.thread >= SIZE_BITS
       THEN stage' = "assert_thread" /\ UNCHANGED <<todo, top>>
       ELSE stage' = "overlap" /\ top' = p /\ todo' = Pieces \ {p}
    /\ UNCHANGED <<users, stack, group, offset, remappings>>

\* The top of the stack takes over the end of the piece it swallows.
JoinLast(a, b) == [start |-> a.start, end |-> b.end, affinity |-> a.affinity \cup b.affinity]

Join(a, b) ==
    [start |-> a.start, end |-> IF a.end < b.end THEN b.end ELSE a.end,
     affinity |-> a.affinity \cup b.affinity]

\* merge_segments(), first loop
MergeOverlaps(p) ==
    /\ stage = "overlap" /\ Least(p, todo)
    /\ todo' = todo \ {p}
    /\ IF Overlap(top, p) THEN top' = Join(top, p) /\ UNCHANGED stack
       ELSE top' = p /\ stack' = stack \cup {top}
    /\ UNCHANGED <<users, stage, group, offset, remappings>>

\* The second loop starts with the front of overlaps_stack.
StartTouches(p) ==
    /\ stage = "overlap" /\ todo = {} /\ Least(p, stack \cup {top})
    /\ stage' = "touch"
    /\ top' = p /\ todo' = (stack \cup {top}) \ {p} /\ stack' = {}
    /\ UNCHANGED <<users, group, offset, remappings>>

\* merge_segments(), second loop
MergeTouches(p) ==
    /\ stage = "touch" /\ Least(p, todo)
    /\ todo' = todo \ {p}
    /\ IF Touch(top, p) /\ top.affinity = p.affinity
       THEN /\ top' = [start |-> top.start, end |-> p.end, affinity |-> top.affinity]
            /\ UNCHANGED stack
       ELSE top' = p /\ stack' = stack \cup {top}
    /\ UNCHANGED <<users, stage, group, offset, remappings>>

-----------------------------------------------------------------------------
(* Placing the pieces *)

\* thread_grouped is filled from the merged pieces.
StartPlacing ==
    /\ stage = "touch" /\ todo = {}
    /\ stage' = "place"
    /\ todo' = stack \cup {top} /\ top' = NoPiece /\ stack' = {}
    /\ UNCHANGED <<users, group, offset, remappings>>

\* The number that a set of bits is; it orders the groups.
Value(bits) == SumSet({2^b : b \in bits})

\* No cache line is left between two groups.
NextGroupTight(g) ==
    /\ stage = "place" /\ \A p \in todo : p.affinity # group
    /\ \E p \in todo : p.affinity = g
    /\ \A p \in todo : Value(g) <= Value(p.affinity)
    /\ group' = g
    /\ UNCHANGED <<users, stage, todo, top, stack, offset, remappings>>

\* calc_remapping(), outer loop
NextGroup(g) ==
    /\ stage = "place" /\ \A p \in todo : p.affinity # group
    /\ \E p \in todo : p.affinity = g
    /\ \A p \in todo : Value(g) <= Value(p.affinity)
    /\ group' = g
    /\ offset' = IF offset # 0 THEN offset + CACHELINE ELSE offset
    /\ UNCHANGED <<users, stage, todo, top, stack, remappings>>

\* The next piece starts on the last byte of this one.
PlaceShort(p) ==
    /\ stage = "place" /\ Least(p, {q \in todo : q.affinity = group})
    /\ todo' = todo \ {p}
    /\ remappings' = remappings \cup {[start |-> p.start, end |-> p.end, affinity |-> p.affinity,
                                       to |-> Segment(offset, offset + Size(p))]}
    /\ offset' = offset + Size(p) - 1
    /\ UNCHANGED <<users, stage, top, stack, group>>

\* calc_remapping(), inner loop
Place(p) ==
    /\ stage = "place" /\ Least(p, {q \in todo : q.affinity = group})
    /\ todo' = todo \ {p}
    /\ remappings' = remappings \cup {[start |-> p.start, end |-> p.end, affinity |-> p.affinity,
                                       to |-> Segment(offset, offset + Size(p))]}
    /\ offset' = offset + Size(p)
    /\ UNCHANGED <<users, stage, top, stack, group>>

Finish ==
    /\ stage = "place" /\ todo = {}
    /\ stage' = "placed"
    /\ UNCHANGED <<users, todo, top, stack, group, offset, remappings>>

\* The entry before upper_bound(seg.start); no entry when that is begin().
Entry(seg) ==
    {m \in remappings : /\ m.start <= seg.start
                        /\ \A n \in remappings : n.start <= seg.start => n.start <= m.start}

\* The assertions of remap().
Found(seg) == \E m \in Entry(seg) : seg.end <= Wrap(m.start + Size(m.to))

\* The distance is measured from the piece and not from the range in it.
NewStartOfPiece(seg) == LET m == CHOOSE n \in Entry(seg) : TRUE IN m.to.start

NewStart(seg) == LET m == CHOOSE n \in Entry(seg) : TRUE IN seg.start + m.to.start - m.start

Ended == stage \in {"placed", "assert_thread"} /\ UNCHANGED vars

Next ==
    \/ Collect
    \/ \E p \in Pieces : GetThreadAffinity(p)
    \/ \E p \in todo : MergeOverlaps(p) \/ MergeTouches(p) \/ Place(p)
    \/ \E p \in stack \cup {top} : StartTouches(p)
    \/ \E p \in todo : NextGroup(p.affinity)
    \/ StartPlacing \/ Finish \/ Ended

Spec == Init /\ [][Next]_vars

-----------------------------------------------------------------------------
(* Properties *)

IsSegment(s) == s.start \in Nat /\ s.end \in Nat
IsPiece(p) == IsSegment(p) /\ p.affinity \subseteq 0..(SIZE_BITS - 1)

TypeOK ==
    /\ users \subseteq AllUsers
    /\ stage \in {"collect", "affinity", "overlap", "touch", "place", "placed", "assert_thread"}
    /\ IsPiece(top) /\ \A p \in todo \cup stack : IsPiece(p)
    /\ group \subseteq 0..(SIZE_BITS - 1) /\ offset \in Nat
    /\ \A m \in remappings : IsPiece(m) /\ IsSegment(m.to)

Bytes(seg) == seg.start..(seg.end - 1)

\* The assertions of remap() hold: the merged pieces cover every range.
PiecesCover == stage = "placed" => \A u \in users : Found(u.seg)

\* The new layout is one: ranges that had a byte in common still share it,
\* and bytes that were different still are.
Bijective ==
    stage = "placed" =>
        \A u, v \in users : \A b \in Bytes(u.seg), c \in Bytes(v.seg) :
            b = c <=> b - u.seg.start + NewStart(u.seg) = c - v.seg.start + NewStart(v.seg)

\* The new size, which becomes the argument of malloc, has room for all ranges.
FitsNewSize ==
    stage = "placed" =>
        \A u \in users : NewStart(u.seg) >= 0 /\ NewStart(u.seg) + Size(u.seg) <= offset

ThreadsOf(m) ==
    {u.thread : u \in {v \in users : m.start <= v.seg.start /\ v.seg.end <= m.end}}

\* What the repair is for: pieces that different threads use are at least a
\* cache line apart, so that they share none wherever the object starts.
FalseSharingGone ==
    stage = "placed" =>
        \A m, n \in remappings :
            ThreadsOf(m) # ThreadsOf(n) =>
                \/ m.to.end + CACHELINE <= n.to.start
                \/ n.to.end + CACHELINE <= m.to.start
=============================================================================
