------------------------------- MODULE Layout -------------------------------
(***************************************************************************)
(* The new layout of a falsely shared object: class Layout of              *)
(* postprocess/Repair.cpp, with Segment of postprocess/Utils.h.            *)
(*                                                                         *)
(* The accesses that Detect reports are collected by instruction and       *)
(* thread (insert), neighbours are joined, and the pattern may be          *)
(* continued to more threads (extra_polate).  Module Placement lays the    *)
(* ranges out anew.  remap turns that into lines for the compiler pass:    *)
(* where each range has moved.                                             *)
(***************************************************************************)
EXTENDS Integers, FiniteSets, Sequences, SequencesExt

CONSTANTS PCs,            \* instructions
          Threads,        \* threads in the log
          Starts, Sizes,  \* ranges in the log: first byte and length
          MaxInserts,     \* bound: lines in the log, by target_thread_count
          Targets,        \* target_thread_count, NotGiven among them
          Analyses,       \* AnalysisResult::pc_replace; empty without analysis
          SingleSize,     \* m_single_size
          CACHELINE, INT_BITS, SIZE_BITS, SizeMod

NotGiven == -1

ASSUME LayoutAssumption ==
    /\ Threads \subseteq Nat /\ Starts \subseteq Nat /\ Sizes \subseteq Nat \ {0}
    /\ Targets \subseteq Nat \cup {NotGiven} /\ MaxInserts \in [Targets -> Nat \ {0}]
    /\ SingleSize \in Nat \ {0} /\ CACHELINE \in Nat \ {0}
    /\ INT_BITS \in Nat \ {0} /\ SIZE_BITS \in Nat \ {0} /\ SizeMod \in Nat \ {0}
    /\ \A r \in Analyses : \A p \in DOMAIN r :
         r[p].start \in Nat /\ r[p].end \in Nat /\ r[p].start < r[p].end

VARIABLES
    target, replace,  \* the arguments of RepairPass
    access_relation,  \* (pc, thread) -> its ranges, in order
    inserted,         \* lines read so far
    step,             \* what compute() does next, or how it failed
    users, stage, todo, top, stack, group, offset, remappings,  \* of Placement
    lines             \* (pc, thread) -> remapping_lines: old and new start

\* The ranges that Placement is meant for.
AllUsers ==
    {u \in [seg : [start : 0..(SizeMod - 1), end : 0..(SizeMod - 1)], thread : Nat] :
       u.seg.start < u.seg.end}

P == INSTANCE Placement

placing == <<users, stage, todo, top, stack, group, offset, remappings>>
args == <<target, replace>>
vars == <<args, access_relation, inserted, step, placing, lines>>

Init ==
    /\ target \in Targets /\ replace \in Analyses
    /\ access_relation = <<>> /\ inserted = 0 /\ step = "insert" /\ lines = <<>>
    /\ P!Init

-----------------------------------------------------------------------------
(* Collecting the accesses *)

\* Segment::merge_neighbors: the last range swallows a range that starts where it ends.
MergeNeighbors(segs) ==
    FoldLeft(LAMBDA ret, seg : IF ret # <<>> /\ P!Touch(Last(ret), seg)
                               THEN Front(ret) \o <<P!Segment(Last(ret).start, seg.end)>>
                               ELSE Append(ret, seg),
             <<>>, segs)

\* Only the start of the element's range is moved.
RecordedHalf(pc, range) ==
    IF pc \in DOMAIN replace
    THEN LET shift == (range.start \div SingleSize) * SingleSize
         IN  P!Segment(replace[pc].start + shift, replace[pc].end)
    ELSE range

\* The range that insert() records for one that was accessed.
Recorded(pc, range) ==
    IF pc \in DOMAIN replace
    THEN LET shift == (range.start \div SingleSize) * SingleSize
         IN  P!Segment(replace[pc].start + shift, replace[pc].end + shift)
    ELSE range

\* A range put where sort() will have it.
Sorted(segs, seg) ==
    LET n == Cardinality({i \in DOMAIN segs : ~P!Before(seg, segs[i])})
    IN  SubSeq(segs, 1, n) \o <<seg>> \o SubSeq(segs, n + 1, Len(segs))

Ranges(rel, key) == IF key \in DOMAIN rel THEN rel[key] ELSE <<>>

With(rel, key, segs) ==
    [k \in DOMAIN rel \cup {key} |-> IF k = key THEN segs ELSE rel[k]]

\* The ranges of all lists, with the thread that has each.
UsersOf(rel) ==
    UNION {{[seg |-> rel[k][i], thread |-> k[2]] : i \in DOMAIN rel[k]} : k \in DOMAIN rel}

\* access_relation is complete and goes to get_thread_affinity().
Complete ==
    /\ step' = "place" /\ stage' = "affinity" /\ users' = UsersOf(access_relation')
    /\ UNCHANGED <<todo, top, stack, group, offset, remappings>>

Insert(pc, thread, range) ==
    /\ step = "insert" /\ inserted < MaxInserts[target]
    /\ inserted' = inserted + 1
    /\ access_relation' =
         With(access_relation, <<pc, thread>>,
              Sorted(Ranges(access_relation, <<pc, thread>>), Recorded(pc, range)))
    /\ UNCHANGED <<args, step, placing, lines>>

\* compute(): the neighbours of every list are merged.
Merge ==
    /\ step = "insert" /\ inserted > 0
    /\ access_relation' = [k \in DOMAIN access_relation |-> MergeNeighbors(access_relation[k])]
    /\ IF target = NotGiven THEN Complete ELSE step' = "linear" /\ UNCHANGED placing
    /\ UNCHANGED <<args, inserted, lines>>

-----------------------------------------------------------------------------
(* Continuing the pattern to more threads *)

Ids == {k[2] : k \in DOMAIN access_relation}
NumThreads == Cardinality(Ids)
MainGroup == {k[1] : k \in {l \in DOMAIN access_relation : l[2] = 0}}
ThreadGroup == {k[1] : k \in {l \in DOMAIN access_relation : l[2] # 0}}

Stride(a, b) == P!Wrap(b.end - a.end)

\* is_linear(): in the lists of the main thread, and over the threads of the
\* other lists, ranges have one size and one distance.
IsLinear ==
    /\ \A pc \in MainGroup :
         LET r == access_relation[<<pc, 0>>]
         IN  \A j \in 1..(Len(r) - 1) :
               /\ P!Size(r[j]) = P!Size(r[j + 1])
               /\ Stride(r[j], r[j + 1]) = Stride(r[1], r[2])
    /\ \A pc \in ThreadGroup :
         LET r(j) == Ranges(access_relation, <<pc, j>>)
         IN  \A j \in 1..(NumThreads - 2) :
               /\ Len(r(j)) = 1 /\ Len(r(j + 1)) = 1
               /\ P!Size(r(j)[1]) = P!Size(r(j + 1)[1])
               /\ Stride(r(j)[1], r(j + 1)[1]) = Stride(r(1)[1], r(2)[1])

\* A range moved n strides on.
Moved(seg, stride, n) ==
    LET at[k \in 0..n] ==
          IF k = 0 THEN seg
          ELSE P!Segment(P!Wrap(at[k - 1].start + stride), P!Wrap(at[k - 1].end + stride))
    IN  at[n]

Extra == target - NumThreads + 1

\* extra_polate() for the main thread: its list goes on.
ExtendMain(pc) ==
    LET r == access_relation[<<pc, 0>>]
    IN  r \o [j \in 1..Extra |-> Moved(Last(r), Stride(r[1], r[2]), j)]

\* extra_polate() for the others: threads from NumThreads on get a range.
ExtraRange(pc, thread) ==
    LET first(j) == access_relation[<<pc, j>>][1]
        stride == P!Wrap(first(2).start - first(1).start)
    IN  Recorded(pc, Moved(first(NumThreads - 1), stride, thread - NumThreads + 1))

Extrapolated ==
    LET more == {<<pc, t>> : pc \in ThreadGroup, t \in NumThreads..target}
        old == DOMAIN access_relation
    IN  [k \in old \cup more |->
           (IF k \notin old THEN <<>>
            ELSE IF k[2] = 0 THEN ExtendMain(k[1]) ELSE access_relation[k])
           \o (IF k \in more THEN <<ExtraRange(k[1], k[2])>> ELSE <<>>)]

\* An empty list that is read at [0] is undefined behaviour.
ExtraPolate ==
    /\ step = "linear"
    /\ \/ /\ ~IsLinear \/ NumThreads - 1 >= target
          /\ UNCHANGED access_relation /\ Complete
       \/ /\ IsLinear /\ NumThreads - 1 < target
          /\ IF \E pc \in MainGroup : Len(access_relation[<<pc, 0>>]) <= 1
             THEN step' = "assert_ranges" /\ UNCHANGED <<access_relation, placing>>
             ELSE IF \E pc \in ThreadGroup, j \in {1, 2, NumThreads - 1} :
                       Ranges(access_relation, <<pc, j>>) = <<>>
             THEN step' = "undefined" /\ UNCHANGED <<access_relation, placing>>
             ELSE access_relation' = Extrapolated /\ Complete
    /\ UNCHANGED <<args, inserted, lines>>

-----------------------------------------------------------------------------
(* The lines for the compiler pass *)

\* get_thread_affinity(), merge_segments() and calc_remapping()
Placing == step = "place" /\ P!Next /\ UNCHANGED <<args, access_relation, inserted, step, lines>>

\* One line stands for all ranges of a list, however far each of them moves.
LinesFirst(segs) == <<<<segs[1].start, P!NewStart(segs[1])>>>>

\* One line stands for all ranges of a list that move by the same distance.
Lines(segs) ==
    LET line(i) == <<segs[i].start, P!NewStart(segs[i])>>
        far(i) == P!NewStart(segs[i]) - segs[i].start
    IN  IF segs # <<>> /\ \A i \in DOMAIN segs : far(i) = far(1)
        THEN <<line(1)>>
        ELSE [i \in DOMAIN segs |-> line(i)]

Remap ==
    /\ step = "place" /\ stage = "placed"
    /\ IF \E u \in users : ~P!Found(u.seg)
       THEN step' = "assert_remap" /\ UNCHANGED lines
       ELSE /\ step' = "end"
            /\ lines' = [k \in DOMAIN access_relation |-> Lines(access_relation[k])]
    /\ UNCHANGED <<args, access_relation, inserted, placing>>

Failed ==
    step \in {"assert_ranges", "assert_remap", "undefined"} \/ stage = "assert_thread"

Ended == (step = "end" \/ Failed) /\ UNCHANGED vars

Next ==
    \/ \E pc \in PCs, thread \in Threads, s \in Starts, n \in Sizes :
         Insert(pc, thread, P!Segment(s, s + n))
    \/ Merge \/ ExtraPolate \/ Placing \/ Remap \/ Ended

Spec == Init /\ [][Next]_vars

-----------------------------------------------------------------------------
(* Properties *)

\* Without extrapolation, what Layout hands over is what Placement expects,
\* well-formed ranges, so that the theorems about Placement hold of it.
Places == P!Init /\ [][target = NotGiven => P!Next]_placing

\* How far the pass moves range i of list k, going by the lines it reads.
Shift(k, i) == LET l == lines[k][IF Len(lines[k]) = 1 THEN 1 ELSE i] IN l[2] - l[1]

\* The compiler pass is told one new layout: instructions and threads that
\* used the same byte still do, and bytes that were different still are.  A
\* range that extra_polate() has taken below 0 has no bytes in the object.
Faithful ==
    step = "end" =>
        \A k, l \in DOMAIN access_relation :
            \A i \in DOMAIN access_relation[k], j \in DOMAIN access_relation[l] :
                \A b \in P!Bytes(access_relation[k][i]), c \in P!Bytes(access_relation[l][j]) :
                    b = c <=> b + Shift(k, i) = c + Shift(l, j)

\* The threads whose ranges remap() moves with a piece.
MovedWith(m) == {u.thread : u \in {v \in users : m \in P!Entry(v.seg)}}

\* Extrapolated ranges are kept apart like those of the log: when the lines
\* are written, pieces that remap() moves for different threads are at least a
\* cache line apart.  A range is of the piece that remap() finds for it, which
\* is also right for one that extra_polate() has taken below 0.
FalseSharingGone ==
    step = "end" =>
        \A m, n \in remappings :
            MovedWith(m) # MovedWith(n) =>
                \/ m.to.end + CACHELINE <= n.to.start
                \/ n.to.end + CACHELINE <= m.to.start
=============================================================================
