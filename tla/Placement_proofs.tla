-------------------------- MODULE Placement_proofs --------------------------
(***************************************************************************)
(* Proofs about Placement.                                                 *)
(*                                                                         *)
(* The first loop of merge_segments keeps the visited ranges inside        *)
(* disjoint pieces that lie before the ones still to come (OverlapInv); a  *)
(* piece has the threads of the visited ranges in it.  From the second     *)
(* loop on the pieces partition all ranges (Partition).  While they are    *)
(* placed, the ones that have a place are disjoint there, a group that is  *)
(* no longer current has no piece left, and the next free place is a cache *)
(* line after it (PlaceInv).                                               *)
(***************************************************************************)
EXTENDS Placement, TLAPS

\* A step has three tries of the SMT solver and one of Zenon.
USE SMTT(20), SMTT(30), SMTT(40), Zenon

Stages == {"collect", "affinity", "overlap", "touch", "place", "placed", "assert_thread"}

Real(s) == s.start \in Nat /\ s.end \in Nat /\ s.start < s.end /\ s.end < SizeMod
AllReal(S) == \A p \in S : Real(p)

In(u, p) == p.start <= u.seg.start /\ u.seg.end <= p.end
Apart(p, q) == p.end <= q.start \/ q.end <= p.start
Disjoint(S) == \A p, q \in S : p # q => Apart(p, q)

BitsOf(U) == UNION {Bits(u.thread) : u \in U}

\* A range whose own piece the first loop has visited.
Visited(u) == \A q \in todo : ~(q.start = u.seg.start /\ q.end = u.seg.end)

OverlapInv ==
    /\ AllReal(stack \cup {top} \cup todo)
    /\ Disjoint(stack \cup {top})
    /\ \A p \in stack : p.end <= top.start
    /\ \A q \in todo : top.start <= q.start
    /\ todo \subseteq Pieces
    /\ \A u \in users : Visited(u) => \E p \in stack \cup {top} : In(u, p)
    /\ \A p \in stack \cup {top} :
         p.affinity = BitsOf({u \in users : Visited(u) /\ In(u, p)})

\* The pieces S hold all ranges, each range in one of them.
Partition(S) ==
    /\ AllReal(S) /\ Disjoint(S)
    /\ \A u \in users : \E p \in S : In(u, p)
    /\ \A p \in S : p.affinity = BitsOf({u \in users : In(u, p)})

TouchInv ==
    /\ Partition(stack \cup {top} \cup todo)
    /\ \A p \in stack : p.end <= top.start
    /\ \A q \in todo : top.end <= q.start

Far(m, n) == m.to.end + CACHELINE <= n.to.start \/ n.to.end + CACHELINE <= m.to.start

PlaceInv ==
    /\ Partition(todo \cup remappings) /\ todo \cap remappings = {}
    /\ \A m \in remappings : /\ m.to.start \in Nat /\ m.to.end \in Nat
                             /\ m.to.end = m.to.start + (m.end - m.start)
                             /\ m.to.end <= offset
    /\ \A m, n \in remappings : m # n => Apart(m.to, n.to)
    /\ \A m, n \in remappings : m.affinity # n.affinity => Far(m, n)
    /\ \A m \in remappings : m.affinity # group =>
         /\ m.to.end + CACHELINE <= offset
         /\ \A q \in todo : q.affinity # m.affinity

Inv ==
    /\ stage \in Stages /\ users \subseteq AllUsers /\ offset \in Nat
    /\ stage \in {"collect", "affinity"} => stack = {}
    /\ stage \notin {"place", "placed"} => remappings = {}
    /\ stage = "overlap" => OverlapInv
    /\ stage = "touch" => TouchInv
    /\ stage \in {"place", "placed"} => PlaceInv
    /\ stage = "placed" => todo = {}

-----------------------------------------------------------------------------
(* Ranges and pieces *)

\* The ranges that are collected are well formed.
LEMMA UsersReal ==
    ASSUME users \subseteq AllUsers
    PROVE  \A u \in users : Real(u.seg)
BY PlacementAssumption DEF Real

\* Segment::size() of a well-formed range does not wrap.
LEMMA SizeReal ==
    ASSUME NEW p, Real(p)
    PROVE  Size(p) = p.end - p.start
BY PlacementAssumption DEF Real, Size, Wrap

\* A piece that get_thread_affinity() makes is a range of some thread.
LEMMA PiecesReal ==
    ASSUME users \subseteq AllUsers, NEW p \in Pieces
    PROVE  /\ Real(p)
           /\ \E u \in users : p.start = u.seg.start /\ p.end = u.seg.end
           /\ p.affinity = BitsOf({u \in users : u.seg.start = p.start /\ u.seg.end = p.end})
<1>1. PICK w \in users : p = PieceOf(w.seg)
  BY DEF Pieces
<1>2. p.start = w.seg.start /\ p.end = w.seg.end
  BY <1>1 DEF PieceOf
<1>3. {v \in users : v.seg = w.seg} = {u \in users : u.seg.start = p.start /\ u.seg.end = p.end}
  BY <1>2, PlacementAssumption
<1> QED
  BY <1>1, <1>2, <1>3, UsersReal DEF PieceOf, BitsOf, Real

\* thread_affinity is a map: one piece for a range.
LEMMA PieceUnique ==
    ASSUME users \subseteq AllUsers, NEW p \in Pieces, NEW q \in Pieces,
           p.start = q.start, p.end = q.end
    PROVE  p = q
<1>1. PICK v \in users : p = PieceOf(v.seg)
  BY DEF Pieces
<1>2. PICK w \in users : q = PieceOf(w.seg)
  BY DEF Pieces
<1>3. v.seg = w.seg
  BY <1>1, <1>2, PlacementAssumption DEF PieceOf
<1> QED
  BY <1>1, <1>2, <1>3

LEMMA PieceOfUser ==
    ASSUME NEW u \in users
    PROVE  PieceOf(u.seg) \in Pieces
           /\ PieceOf(u.seg).start = u.seg.start /\ PieceOf(u.seg).end = u.seg.end
BY Zenon DEF Pieces, PieceOf

LEMMA BitsOfUnion ==
    ASSUME NEW U, NEW V
    PROVE  BitsOf(U \cup V) = BitsOf(U) \cup BitsOf(V)
BY DEF BitsOf

-----------------------------------------------------------------------------
(* The first loop *)

LEMMA GetThreadAffinityInv ==
    ASSUME Inv, NEW p \in Pieces, GetThreadAffinity(p)
    PROVE  Inv'
<1> USE DEF GetThreadAffinity
<1>1. CASE \E u \in users : u.thread >= SIZE_BITS
  BY <1>1 DEF Inv, Stages
<1>2. CASE ~\E u \in users : u.thread >= SIZE_BITS
  <2>1. /\ stage' = "overlap" /\ top' = p /\ todo' = Pieces \ {p}
        /\ UNCHANGED <<users, stack, group, offset, remappings>> /\ stack = {}
        /\ \A q \in Pieces : ~Before(q, p)
        /\ users \subseteq AllUsers
    BY <1>2 DEF Inv, Least
  <2>2. Pieces' = Pieces
    BY <2>1 DEF Pieces, PieceOf
  <2>3. \A u \in users : Visited(u)' <=> (u.seg.start = p.start /\ u.seg.end = p.end)
    <3> SUFFICES ASSUME NEW u \in users
                 PROVE  Visited(u)' <=> (u.seg.start = p.start /\ u.seg.end = p.end)
      OBVIOUS
    <3>1. Visited(u)' => PieceOf(u.seg) = p
      BY <2>1, PieceOfUser DEF Visited
    <3>2. ASSUME u.seg.start = p.start, u.seg.end = p.end
          PROVE  Visited(u)'
      BY <3>2, <2>1, PieceUnique DEF Visited
    <3> QED
      BY <3>1, <3>2, PieceOfUser
  <2>4. OverlapInv'
    <3>1. AllReal(stack \cup {top} \cup todo)'
      BY Zenon, <2>1, PiecesReal DEF AllReal, Real
    <3>2. Disjoint(stack \cup {top})'
      BY <2>1 DEF Disjoint
    <3>3. \A q \in todo' : top'.start <= q.start
      <4>1. \A q \in Pieces : q.start \in Nat
        BY Zenon, <2>1, PiecesReal DEF Real
      <4> QED
        BY <2>1, <4>1 DEF Before
    <3>4. todo' \subseteq Pieces'
      BY <2>1, <2>2
    <3>5. \A u \in users : Visited(u)' => In(u, p)
      BY <2>1, <2>3, UsersReal DEF In, Real
    <3>6. {u \in users : Visited(u)' /\ In(u, p)}
            = {u \in users : u.seg.start = p.start /\ u.seg.end = p.end}
      BY <2>3, <3>5
    <3>7. p.affinity = BitsOf({u \in users : Visited(u)' /\ In(u, p)})
      BY <2>1, <3>6, PiecesReal
    <3> QED
      BY <2>1, <3>1, <3>2, <3>3, <3>4, <3>5, <3>7 DEF OverlapInv, BitsOf, In
  <2> QED
    BY <2>1, <2>4 DEF Inv, Stages
<1> QED
  BY <1>1, <1>2

\* After a step of the first loop the visited ranges are those visited before
\* and the ones that are the piece itself.
LEMMA VisitedNext ==
    ASSUME users \subseteq AllUsers, todo \subseteq Pieces, NEW p \in todo,
           todo' = todo \ {p}, NEW u \in users
    PROVE  Visited(u)' <=> (Visited(u) \/ (u.seg.start = p.start /\ u.seg.end = p.end))
<1>1. \A q \in todo : q.start = p.start /\ q.end = p.end => q = p
  BY PieceUnique
<1> QED
  BY <1>1 DEF Visited

LEMMA MergeOverlapsInv ==
    ASSUME Inv, NEW p \in todo, MergeOverlaps(p)
    PROVE  Inv'
<1> DEFINE Own == {u \in users : u.seg.start = p.start /\ u.seg.end = p.end}
           Seen(r) == {u \in users : Visited(u) /\ In(u, r)}
           SeenNow(r) == {u \in users : Visited(u)' /\ In(u, r)}
<1>1. /\ stage = "overlap" /\ todo' = todo \ {p}
      /\ UNCHANGED <<users, stage, group, offset, remappings>>
      /\ \A q \in todo : ~Before(q, p)
      /\ users \subseteq AllUsers /\ OverlapInv
  BY DEF Inv, MergeOverlaps, Least
<1>2. /\ AllReal(stack \cup {top} \cup todo) /\ Disjoint(stack \cup {top})
      /\ \A r \in stack : r.end <= top.start
      /\ \A q \in todo : top.start <= q.start
      /\ todo \subseteq Pieces
      /\ \A u \in users : Visited(u) => \E r \in stack \cup {top} : In(u, r)
      /\ \A r \in stack \cup {top} : r.affinity = BitsOf(Seen(r))
  BY <1>1 DEF OverlapInv
<1>3. \A u \in users : Real(u.seg)
  BY <1>1, UsersReal
<1>4. Pieces' = Pieces
  BY <1>1 DEF Pieces, PieceOf
<1>5. \A u \in users : Visited(u)' <=> (Visited(u) \/ u \in Own)
  BY <1>1, <1>2, VisitedNext
<1>6. p.affinity = BitsOf(Own) /\ Real(p) /\ Real(top)
  BY <1>1, <1>2, PiecesReal DEF AllReal
<1>7. \A q \in todo' : p.start <= q.start
  BY <1>1, <1>2 DEF AllReal, Real, Before
<1>8. \A r \in stack : SeenNow(r) = Seen(r)
  BY <1>2, <1>3, <1>5, <1>6 DEF In, Real, AllReal
<1>9. CASE Overlap(top, p)
  <2>1. top' = Join(top, p) /\ stack' = stack
    BY <1>9 DEF MergeOverlaps
  <2>2. /\ top'.start = top.start /\ top.end <= top'.end /\ p.end <= top'.end
        /\ top'.affinity = top.affinity \cup p.affinity /\ Real(top')
    BY <2>1, <1>6, <1>2 DEF Join, Real
  <2>3. AllReal(stack' \cup {top'} \cup todo')
    BY <1>1, <1>2, <2>1, <2>2 DEF AllReal
  <2>4. Disjoint(stack' \cup {top'})
    BY <1>2, <2>1, <2>2 DEF Disjoint, Apart
  <2>5. \A u \in users : Visited(u)' => \E r \in stack' \cup {top'} : In(u, r)
    <3>1. \A u \in users : In(u, top) \/ u \in Own => In(u, top')
      BY <1>2, <1>3, <1>6, <2>2 DEF In, Real
    <3> QED
      BY <1>2, <1>5, <2>1, <3>1
  <2>6. SeenNow(top') = Seen(top) \cup Own
    <3>1. \A u \in users : In(u, top) \/ u \in Own => In(u, top')
      BY <1>2, <1>3, <1>6, <2>2 DEF In, Real
    <3>2. \A u \in users : Visited(u) /\ In(u, top') => In(u, top)
      <4> SUFFICES ASSUME NEW u \in users, Visited(u), In(u, top') PROVE In(u, top)
        OBVIOUS
      <4>1. PICK r \in stack \cup {top} : In(u, r)
        BY <1>2
      <4>2. r \notin stack
        BY <4>1, <1>2, <1>3, <2>2, <1>6 DEF In, Real, AllReal
      <4> QED
        BY <4>1, <4>2
    <3> QED
      BY <1>5, <3>1, <3>2
  <2>7. top'.affinity = BitsOf(SeenNow(top'))
    <3>1. top.affinity = BitsOf(Seen(top))
      BY <1>2
    <3>2. BitsOf(Seen(top) \cup Own) = BitsOf(Seen(top)) \cup BitsOf(Own)
      BY BitsOfUnion
    <3> HIDE DEF Seen, SeenNow, Own
    <3> QED
      BY <1>6, <2>2, <2>6, <3>1, <3>2
  <2>8. OverlapInv'
    <3>1. \A r \in stack' \cup {top'} : r.affinity = BitsOf(SeenNow(r))
      BY Zenon, <1>2, <1>8, <2>1, <2>7
    <3> QED
      BY <1>1, <1>2, <1>4, <2>1, <2>2, <2>3, <2>4, <2>5, <3>1 DEF OverlapInv, BitsOf, In
  <2> QED
    BY <1>1, <2>8 DEF Inv
<1>10. CASE ~Overlap(top, p)
  <2>1. top' = p /\ stack' = stack \cup {top} /\ top.end <= p.start
    BY <1>10, <1>2, <1>6 DEF MergeOverlaps, Overlap, Real
  <2>2. \A r \in stack' : r.end <= top'.start /\ Real(r)
    BY <1>2, <1>6, <2>1 DEF AllReal, Real
  <2>3. AllReal(stack' \cup {top'} \cup todo')
    BY <1>1, <1>2, <2>1 DEF AllReal
  <2>4. Disjoint(stack' \cup {top'})
    BY <1>2, <2>1, <2>2 DEF Disjoint, Apart
  <2>5. \A u \in users : u \in Own => In(u, p)
    BY <1>3, <1>6 DEF In, Real
  <2>6. \A u \in users : Visited(u)' => \E r \in stack' \cup {top'} : In(u, r)
    BY <1>2, <1>5, <2>1, <2>5
  <2>7. SeenNow(p) = Own
    <3>1. \A u \in users : Visited(u) => ~In(u, p)
      BY <1>2, <1>3, <1>6, <2>1, <2>2 DEF In, Real
    <3> QED
      BY <1>5, <2>5, <3>1
  <2>8. SeenNow(top) = Seen(top)
    <3>1. \A u \in Own : ~In(u, top)
      BY <1>3, <1>6, <2>1 DEF In, Real
    <3> QED
      BY <1>5, <3>1
  <2>9. OverlapInv'
    <3>1. \A r \in stack' \cup {top'} : r.affinity = BitsOf(SeenNow(r))
      BY Zenon, <1>2, <1>6, <1>8, <2>1, <2>7, <2>8
    <3> QED
      BY <1>1, <1>2, <1>4, <1>7, <2>1, <2>2, <2>3, <2>4, <2>6, <3>1 DEF OverlapInv, BitsOf, In
  <2> QED
    BY <1>1, <2>9 DEF Inv
<1> QED
  BY <1>9, <1>10

-----------------------------------------------------------------------------
(* The second loop *)

LEMMA StartTouchesInv ==
    ASSUME Inv, NEW p \in stack \cup {top}, StartTouches(p)
    PROVE  Inv'
<1> DEFINE S == stack \cup {top}
<1>1. /\ stage = "overlap" /\ stage' = "touch" /\ todo = {}
      /\ top' = p /\ todo' = S \ {p} /\ stack' = {}
      /\ UNCHANGED <<users, group, offset, remappings>>
      /\ \A q \in S : ~Before(q, p)
      /\ OverlapInv
  BY DEF Inv, StartTouches, Least
<1>2. \A u \in users : Visited(u)
  BY <1>1 DEF Visited
<1>3. AllReal(S) /\ Disjoint(S)
  BY <1>1 DEF OverlapInv, AllReal
<1>4. \A u \in users : \E r \in S : In(u, r)
  BY <1>1, <1>2 DEF OverlapInv
<1>5. \A r \in S : r.affinity = BitsOf({u \in users : In(u, r)})
  <2>1. \A r \in S : {u \in users : Visited(u) /\ In(u, r)} = {u \in users : In(u, r)}
    BY <1>2
  <2>2. \A r \in S : r.affinity = BitsOf({u \in users : Visited(u) /\ In(u, r)})
    BY <1>1 DEF OverlapInv
  <2> QED
    BY <2>1, <2>2
<1>6. stack' \cup {top'} \cup todo' = S
  BY <1>1, p \in S
<1>7. \A q \in todo' : top'.end <= q.start
  BY <1>1, <1>3 DEF Disjoint, Apart, AllReal, Real, Before
<1>8. Partition(stack \cup {top} \cup todo)'
  <2> HIDE DEF S
  <2> QED
    BY <1>1, <1>3, <1>4, <1>5, <1>6 DEF Partition, AllReal, Disjoint, BitsOf, In, Real, Apart
<1>9. TouchInv'
  BY <1>1, <1>7, <1>8 DEF TouchInv
<1> QED
  BY <1>1, <1>9 DEF Inv, Stages

LEMMA MergeTouchesInv ==
    ASSUME Inv, NEW p \in todo, MergeTouches(p)
    PROVE  Inv'
<1> DEFINE S == stack \cup {top} \cup todo
           Within(r) == {u \in users : In(u, r)}
<1>1. /\ stage = "touch" /\ todo' = todo \ {p}
      /\ UNCHANGED <<users, stage, group, offset, remappings>>
      /\ \A q \in todo : ~Before(q, p)
      /\ users \subseteq AllUsers /\ TouchInv
  BY DEF Inv, MergeTouches, Least
<1>2. /\ AllReal(S) /\ Disjoint(S)
      /\ \A u \in users : \E r \in S : In(u, r)
      /\ \A r \in S : r.affinity = BitsOf(Within(r))
      /\ \A r \in stack : r.end <= top.start
      /\ \A q \in todo : top.end <= q.start
  BY <1>1 DEF TouchInv, Partition
<1>3. \A u \in users : Real(u.seg)
  BY <1>1, UsersReal
<1>4. Real(p) /\ Real(top)
  BY <1>2 DEF AllReal
<1>5. \A q \in todo' : p.end <= q.start /\ q # p /\ Real(q)
  BY <1>1, <1>2 DEF Disjoint, Apart, AllReal, Real, Before
<1>6. CASE Touch(top, p) /\ top.affinity = p.affinity
  <2>1. /\ top'.start = top.start /\ top'.end = p.end /\ top'.affinity = top.affinity
        /\ stack' = stack /\ top.end = p.start
    BY <1>6 DEF MergeTouches, Touch
  <2>2. Real(top')
    BY <1>4, <2>1 DEF Real
  <2>3. AllReal(stack' \cup {top'} \cup todo')
    BY <1>1, <1>2, <2>1, <2>2 DEF AllReal
  <2>4. \A q \in todo' : top'.end <= q.start
    BY <1>5, <2>1
  <2>5. \A r \in stack, q \in todo' : r.end <= top'.start /\ r.end <= q.start
    BY <1>2, <1>4, <1>5, <2>1 DEF AllReal, Real
  <2>6. Disjoint(stack' \cup {top'} \cup todo')
    BY <1>1, <1>2, <2>1, <2>4, <2>5 DEF Disjoint, Apart
  <2>7. \A u \in users : In(u, top') <=> In(u, top) \/ In(u, p)
    <3> SUFFICES ASSUME NEW u \in users
                 PROVE  In(u, top') <=> In(u, top) \/ In(u, p)
      OBVIOUS
    <3>1. In(u, top) \/ In(u, p) => In(u, top')
      BY <1>3, <1>4, <2>1 DEF In, Real
    <3>2. PICK r \in S : In(u, r)
      BY <1>2
    <3>3. r \in stack => ~In(u, top')
      BY <1>2, <1>3, <1>4, <2>1, <3>2 DEF In, Real, AllReal
    <3>4. r \in todo' => ~In(u, top')
      BY <1>3, <1>4, <1>5, <2>1, <3>2 DEF In, Real
    <3> QED
      BY <1>1, <3>1, <3>2, <3>3, <3>4
  <2>8. \A u \in users : \E r \in stack' \cup {top'} \cup todo' : In(u, r)
    BY <1>1, <1>2, <2>1, <2>7
  <2>9. top'.affinity = BitsOf(Within(top'))
    <3>1. Within(top') = Within(top) \cup Within(p)
      BY <2>7
    <3>2. top.affinity = BitsOf(Within(top)) /\ p.affinity = BitsOf(Within(p))
      BY <1>2
    <3>3. BitsOf(Within(top) \cup Within(p)) = BitsOf(Within(top)) \cup BitsOf(Within(p))
      BY BitsOfUnion
    <3> HIDE DEF Within
    <3> QED
      BY Zenon, <1>6, <2>1, <3>1, <3>2, <3>3
  <2>10. \A r \in stack' \cup {top'} \cup todo' : r.affinity = BitsOf(Within(r))
    BY Zenon, <1>1, <1>2, <2>1, <2>9
  <2>11. Partition(stack \cup {top} \cup todo)'
    BY <1>1, <2>3, <2>6, <2>8, <2>10 DEF Partition, AllReal, Disjoint, BitsOf, In, Real, Apart
  <2>12. TouchInv'
    BY <1>2, <2>1, <2>4, <2>11 DEF TouchInv
  <2> QED
    BY <1>1, <2>12 DEF Inv
<1>7. CASE ~(Touch(top, p) /\ top.affinity = p.affinity)
  <2>1. top' = p /\ stack' = stack \cup {top}
    BY <1>7 DEF MergeTouches
  <2>2. stack' \cup {top'} \cup todo' = S
    BY <1>1, <2>1
  <2>3. Partition(stack \cup {top} \cup todo)'
    <3> HIDE DEF S
    <3> QED
      BY <1>1, <1>2, <2>2 DEF Partition, AllReal, Disjoint, BitsOf, In, Real, Apart
  <2>4. \A r \in stack' : r.end <= top'.start
    BY <1>2, <1>4, <2>1 DEF AllReal, Real
  <2>5. TouchInv'
    BY <1>5, <2>1, <2>3, <2>4 DEF TouchInv
  <2> QED
    BY <1>1, <2>5 DEF Inv
<1> QED
  BY <1>6, <1>7

-----------------------------------------------------------------------------
(* Placing *)

LEMMA StartPlacingInv ==
    ASSUME Inv, StartPlacing
    PROVE  Inv'
<1> DEFINE S == stack \cup {top}
<1>1. /\ stage = "touch" /\ stage' = "place" /\ todo = {} /\ todo' = S
      /\ UNCHANGED <<users, group, offset, remappings>>
      /\ remappings = {} /\ TouchInv
  BY DEF Inv, StartPlacing
<1>2. stack \cup {top} \cup todo = S /\ todo' \cup remappings' = S
  BY <1>1
<1>3. Partition(todo \cup remappings)'
  <2> HIDE DEF S
  <2> QED
    BY <1>1, <1>2 DEF TouchInv, Partition, AllReal, Disjoint, BitsOf, In, Real, Apart
<1>4. PlaceInv'
  BY <1>1, <1>3 DEF PlaceInv
<1> QED
  BY <1>1, <1>4 DEF Inv, Stages

LEMMA NextGroupInv ==
    ASSUME Inv, NEW g, NextGroup(g)
    PROVE  Inv'
<1>1. /\ stage = "place" /\ group' = g /\ \A q \in todo : q.affinity # group
      /\ offset' = IF offset # 0 THEN offset + CACHELINE ELSE offset
      /\ UNCHANGED <<users, stage, todo, top, stack, remappings>>
      /\ offset \in Nat /\ PlaceInv
  BY DEF Inv, NextGroup
<1>2. PICK w \in todo : w.affinity = g
  BY DEF NextGroup
<1>3. offset' \in Nat /\ offset <= offset'
  BY <1>1, PlacementAssumption
<1>4. Partition(todo \cup remappings)'
  BY <1>1 DEF PlaceInv, Partition, AllReal, Disjoint, BitsOf, In, Real, Apart
<1>5. \A m \in remappings : m.to.start \in Nat /\ m.to.end \in Nat
                            /\ m.to.end = m.to.start + (m.end - m.start) /\ m.to.end <= offset'
  BY <1>1, <1>3 DEF PlaceInv
<1>6. \A m \in remappings : m.to.end + CACHELINE <= offset'
  <2>1. \A m \in remappings : 0 < m.to.end
    BY <1>1 DEF PlaceInv, Partition, AllReal, Real
  <2> QED
    BY <1>1, <2>1, PlacementAssumption DEF PlaceInv
<1>7. \A m \in remappings : m.affinity # g => \A q \in todo : q.affinity # m.affinity
  BY <1>1 DEF PlaceInv
<1>8. PlaceInv'
  BY <1>1, <1>4, <1>5, <1>6, <1>7 DEF PlaceInv, Apart, Far
<1> QED
  BY <1>1, <1>3, <1>8 DEF Inv

LEMMA PlaceKeepsInv ==
    ASSUME Inv, NEW p \in todo, Place(p)
    PROVE  Inv'
<1> DEFINE Within(r) == {u \in users : In(u, r)}
           e == [start |-> p.start, end |-> p.end, affinity |-> p.affinity,
                 to |-> Segment(offset, offset + Size(p))]
<1>1. /\ stage = "place" /\ p.affinity = group /\ todo' = todo \ {p}
      /\ remappings' = remappings \cup {e} /\ offset' = offset + Size(p)
      /\ UNCHANGED <<users, stage, top, stack, group>>
      /\ offset \in Nat /\ PlaceInv
  BY DEF Inv, Place, Least
<1>2. /\ AllReal(todo \cup remappings) /\ Disjoint(todo \cup remappings)
      /\ \A u \in users : \E r \in todo \cup remappings : In(u, r)
      /\ \A r \in todo \cup remappings : r.affinity = BitsOf(Within(r))
  BY <1>1 DEF PlaceInv, Partition
<1>3. Real(p) /\ Size(p) = p.end - p.start
  BY <1>2, SizeReal DEF AllReal
<1>4. /\ e.start = p.start /\ e.end = p.end /\ e.affinity = p.affinity
      /\ e.to.start = offset /\ e.to.end = offset + (p.end - p.start)
  BY <1>3 DEF Segment
<1> HIDE DEF e
<1>5. offset' \in Nat /\ e.to.end = offset' /\ offset < offset'
  BY <1>1, <1>3, <1>4 DEF Real
<1>6. Partition(todo \cup remappings)'
  <2>1. AllReal(todo' \cup remappings')
    BY <1>1, <1>2, <1>3, <1>4 DEF AllReal, Real
  <2>2. Disjoint(todo' \cup remappings')
    <3>1. \A r \in todo \cup remappings : r # p => Apart(r, p)
      BY <1>2 DEF Disjoint
    <3>2. \A r \in todo' \cup remappings' : r = e \/ (r \in todo \cup remappings)
      BY <1>1
    <3>3. p \notin todo'
      BY <1>1
    <3>4. ASSUME p \in remappings PROVE FALSE
      BY <3>4, <1>1 DEF PlaceInv
    <3> QED
      BY <1>1, <1>2, <1>4, <3>1, <3>2, <3>3, <3>4 DEF Disjoint, Apart
  <2>3. \A u \in users : \E r \in todo' \cup remappings' : In(u, r)
    BY <1>1, <1>2, <1>4 DEF In
  <2>4. BitsOf(Within(e)) = BitsOf(Within(p))
    BY <1>4 DEF In
  <2>5. \A r \in todo' \cup remappings' : r.affinity = BitsOf(Within(r))
    BY Zenon, <1>1, <1>2, <1>4, <2>4
  <2> QED
    BY <1>1, <2>1, <2>2, <2>3, <2>5 DEF Partition, AllReal, Disjoint, BitsOf, In, Real, Apart
<1>7. \A m \in remappings' : /\ m.to.start \in Nat /\ m.to.end \in Nat
                             /\ m.to.end = m.to.start + (m.end - m.start)
                             /\ m.to.end <= offset'
  BY <1>1, <1>3, <1>4, <1>5 DEF PlaceInv, Real
<1>8. \A m \in remappings : m.to.end <= e.to.start
                            /\ (m.affinity # e.affinity => m.to.end + CACHELINE <= e.to.start)
  BY <1>1, <1>4 DEF PlaceInv
<1>9. \A m, n \in remappings' : m # n => Apart(m.to, n.to)
  BY <1>1, <1>8 DEF PlaceInv, Apart
<1>10. \A m, n \in remappings' : m.affinity # n.affinity => Far(m, n)
  BY <1>1, <1>8 DEF PlaceInv, Far
<1>11. \A m \in remappings' : m.affinity # group' =>
         m.to.end + CACHELINE <= offset' /\ \A q \in todo' : q.affinity # m.affinity
  <2>1. \A m \in remappings : m.affinity # group => m.to.end + CACHELINE <= offset'
    BY <1>1, <1>5, PlacementAssumption DEF PlaceInv
  <2> QED
    BY <1>1, <1>4, <2>1 DEF PlaceInv
<1>12. todo' \cap remappings' = {}
  BY <1>1, <1>2, <1>3, <1>4 DEF PlaceInv, Disjoint, Apart, Real
<1>13. PlaceInv'
  BY <1>6, <1>12, <1>7, <1>9, <1>10, <1>11 DEF PlaceInv, Apart, Far
<1> QED
  BY <1>1, <1>5, <1>13 DEF Inv

LEMMA FinishInv ==
    ASSUME Inv, Finish
    PROVE  Inv'
<1>1. /\ stage = "place" /\ stage' = "placed" /\ todo = {}
      /\ UNCHANGED <<users, todo, top, stack, group, offset, remappings>>
      /\ PlaceInv
  BY DEF Inv, Finish
<1>2. PlaceInv'
  BY <1>1 DEF PlaceInv, Partition, AllReal, Disjoint, BitsOf, In, Real, Apart, Far
<1> QED
  BY <1>1, <1>2 DEF Inv, Stages

\* Inv is inductive.
THEOREM Inductive == Spec => []Inv
<1>1. Init => Inv
  BY DEF Init, Inv, Stages
<1>2. Inv /\ [Next]_vars => Inv'
  <2> SUFFICES ASSUME Inv, [Next]_vars PROVE Inv'
    OBVIOUS
  <2>1. CASE Collect
    BY <2>1 DEF Collect, Inv, Stages
  <2>2. ASSUME NEW p \in Pieces, GetThreadAffinity(p) PROVE Inv'
    BY <2>2, GetThreadAffinityInv
  <2>3. ASSUME NEW p \in todo, MergeOverlaps(p) PROVE Inv'
    BY <2>3, MergeOverlapsInv
  <2>4. ASSUME NEW p \in todo, MergeTouches(p) PROVE Inv'
    BY <2>4, MergeTouchesInv
  <2>5. ASSUME NEW p \in todo, Place(p) PROVE Inv'
    BY <2>5, PlaceKeepsInv
  <2>6. ASSUME NEW p \in stack \cup {top}, StartTouches(p) PROVE Inv'
    BY <2>6, StartTouchesInv
  <2>7. ASSUME NEW p \in todo, NextGroup(p.affinity) PROVE Inv'
    BY <2>7, NextGroupInv
  <2>8. CASE StartPlacing
    BY <2>8, StartPlacingInv
  <2>9. CASE Finish
    BY <2>9, FinishInv
  <2>10. CASE Ended \/ UNCHANGED vars
    <3>1. UNCHANGED vars
      BY <2>10 DEF Ended
    <3>2. OverlapInv' <=> OverlapInv
      BY <3>1 DEF vars, OverlapInv, AllReal, Disjoint, BitsOf, In, Real, Apart, Visited,
                  Pieces, PieceOf
    <3>3. TouchInv' <=> TouchInv
      BY <3>1 DEF vars, TouchInv, Partition, AllReal, Disjoint, BitsOf, In, Real, Apart
    <3>4. PlaceInv' <=> PlaceInv
      BY <3>1 DEF vars, PlaceInv, Partition, AllReal, Disjoint, BitsOf, In, Real, Apart, Far
    <3> QED
      BY <3>1, <3>2, <3>3, <3>4 DEF vars, Inv
  <2> QED
    BY <2>1, <2>2, <2>3, <2>4, <2>5, <2>6, <2>7, <2>8, <2>9, <2>10 DEF Next
<1> QED
  BY <1>1, <1>2, PTL DEF Spec

-----------------------------------------------------------------------------
(* The results *)

\* remap() finds the one piece that has the range.
LEMMA Lookup ==
    ASSUME Inv, stage = "placed", NEW u \in users
    PROVE  \E m \in remappings :
             /\ In(u, m) /\ Entry(u.seg) = {m} /\ Real(m) /\ Real(u.seg)
             /\ NewStart(u.seg) = u.seg.start + m.to.start - m.start
<1>1. /\ AllReal(remappings) /\ Disjoint(remappings)
      /\ \A v \in users : \E r \in remappings : In(v, r)
  <2>1. todo \cup remappings = remappings
    BY DEF Inv
  <2> QED
    BY Zenon, <2>1 DEF Inv, PlaceInv, Partition
<1>2. PICK m \in remappings : In(u, m)
  BY <1>1
<1>3. Real(u.seg) /\ Real(m)
  BY <1>1, UsersReal DEF Inv, AllReal
<1>4. \A n \in remappings : n # m /\ n.start <= u.seg.start => n.end <= m.start
  BY <1>1, <1>2, <1>3 DEF Disjoint, Apart, AllReal, Real, In
<1>5. m \in Entry(u.seg)
  BY <1>1, <1>2, <1>3, <1>4 DEF Entry, In, AllReal, Real
<1>6. \A n \in Entry(u.seg) : n = m
  BY <1>1, <1>2, <1>3, <1>4 DEF Entry, In, AllReal, Real
<1>7. Entry(u.seg) = {m}
  BY <1>5, <1>6
<1>8. NewStart(u.seg) = u.seg.start + m.to.start - m.start
  BY <1>7 DEF NewStart
<1> QED
  BY <1>2, <1>3, <1>7, <1>8

\* For every set of ranges: the assertions of remap() hold, as the merged
\* pieces cover every range.
THEOREM PiecesCoverHolds == Spec => []PiecesCover
<1>1. Inv => PiecesCover
  <2> SUFFICES ASSUME Inv, stage = "placed", NEW u \in users PROVE Found(u.seg)
    BY DEF PiecesCover
  <2>1. PICK m \in remappings : In(u, m) /\ Entry(u.seg) = {m} /\ Real(m) /\ Real(u.seg)
    BY Lookup
  <2>2. /\ m.to.start \in Nat /\ m.to.end \in Nat
        /\ m.to.end = m.to.start + (m.end - m.start)
    BY DEF Inv, PlaceInv
  <2>3. Wrap(m.start + Size(m.to)) = m.end
    BY <2>1, <2>2, PlacementAssumption DEF Real, Wrap, Size
  <2> QED
    BY <2>1, <2>3 DEF Found, In
<1> QED
  BY <1>1, Inductive, PTL

\* For every set of ranges: two of them share a byte in the new layout
\* exactly when it was the same byte in the old one.
THEOREM BijectiveHolds == Spec => []Bijective
<1>1. Inv => Bijective
  <2> SUFFICES ASSUME Inv, stage = "placed", NEW u \in users, NEW v \in users,
                      NEW b \in Bytes(u.seg), NEW c \in Bytes(v.seg)
               PROVE  b = c <=> b - u.seg.start + NewStart(u.seg)
                                = c - v.seg.start + NewStart(v.seg)
    BY DEF Bijective
  <2>1. PICK m \in remappings :
          /\ In(u, m) /\ Real(m) /\ Real(u.seg)
          /\ NewStart(u.seg) = u.seg.start + m.to.start - m.start
    BY Lookup
  <2>2. PICK n \in remappings :
          /\ In(v, n) /\ Real(n) /\ Real(v.seg)
          /\ NewStart(v.seg) = v.seg.start + n.to.start - n.start
    BY Lookup
  <2>3. /\ m.to.start \in Nat /\ m.to.end = m.to.start + (m.end - m.start)
        /\ n.to.start \in Nat /\ n.to.end = n.to.start + (n.end - n.start)
        /\ m # n => Apart(m, n) /\ Apart(m.to, n.to)
    BY DEF Inv, PlaceInv, Partition, Disjoint
  <2>4. /\ b \in Int /\ m.start <= b /\ b < m.end
        /\ c \in Int /\ n.start <= c /\ c < n.end
    BY <2>1, <2>2 DEF Bytes, In, Real
  <2>5. /\ b - u.seg.start + NewStart(u.seg) = b - m.start + m.to.start
        /\ c - v.seg.start + NewStart(v.seg) = c - n.start + n.to.start
    BY <2>1, <2>2, <2>3, <2>4 DEF Real
  <2>6. CASE m = n
    BY <2>1, <2>3, <2>4, <2>5, <2>6 DEF Real
  <2>7. CASE m # n
    BY <2>1, <2>2, <2>3, <2>4, <2>5, <2>7 DEF Real, Apart
  <2> QED
    BY <2>6, <2>7
<1> QED
  BY <1>1, Inductive, PTL

\* For every set of ranges: the new size has room for all of them.
THEOREM FitsNewSizeHolds == Spec => []FitsNewSize
<1>1. Inv => FitsNewSize
  <2> SUFFICES ASSUME Inv, stage = "placed", NEW u \in users
               PROVE  NewStart(u.seg) >= 0 /\ NewStart(u.seg) + Size(u.seg) <= offset
    BY DEF FitsNewSize
  <2>1. PICK m \in remappings :
          /\ In(u, m) /\ Real(m) /\ Real(u.seg)
          /\ NewStart(u.seg) = u.seg.start + m.to.start - m.start
    BY Lookup
  <2>2. /\ m.to.start \in Nat /\ m.to.end = m.to.start + (m.end - m.start)
        /\ m.to.end <= offset /\ offset \in Nat
    BY DEF Inv, PlaceInv
  <2>3. Size(u.seg) = u.seg.end - u.seg.start
    BY <2>1, SizeReal
  <2> QED
    BY <2>1, <2>2, <2>3 DEF In, Real
<1> QED
  BY <1>1, Inductive, PTL

\* For every set of ranges of fewer than 31 threads, the case in which
\* 1 << thread is a bit of its own: pieces that different threads use are at
\* least a cache line apart.
THEOREM FalseSharingGoneHolds ==
    ASSUME \A u \in AllUsers : u.thread < INT_BITS - 1
    PROVE  Spec => []FalseSharingGone
<1>1. Inv => FalseSharingGone
  <2> SUFFICES ASSUME Inv, stage = "placed", NEW m \in remappings, NEW n \in remappings,
                      ThreadsOf(m) # ThreadsOf(n)
               PROVE  Far(m, n)
    BY DEF FalseSharingGone, Far
  <2>1. \A r \in remappings : r.affinity = ThreadsOf(r)
    <3> SUFFICES ASSUME NEW r \in remappings PROVE r.affinity = ThreadsOf(r)
      OBVIOUS
    <3>1. r.affinity = BitsOf({u \in users : In(u, r)})
      BY DEF Inv, PlaceInv, Partition
    <3>2. \A u \in users : Bits(u.thread) = {u.thread}
      <4> SUFFICES ASSUME NEW u \in users PROVE Bits(u.thread) = {u.thread}
        OBVIOUS
      <4>1. u.thread \in Nat /\ INT_BITS \in Nat /\ u.thread < INT_BITS - 1
        BY PlacementAssumption DEF Inv
      <4>2. u.thread < INT_BITS /\ u.thread # INT_BITS - 1
        BY <4>1
      <4> QED
        BY <4>2 DEF Bits
    <3>3. \A x : x \in BitsOf({u \in users : In(u, r)}) <=>
                 \E u \in users : In(u, r) /\ x = u.thread
      BY <3>2 DEF BitsOf
    <3>4. \A x : x \in ThreadsOf(r) <=> \E u \in users : In(u, r) /\ x = u.thread
      BY DEF ThreadsOf, In
    <3> QED
      BY Zenon, <3>1, <3>3, <3>4
  <2> QED
    BY <2>1 DEF Inv, PlaceInv
<1> QED
  BY <1>1, Inductive, PTL

-----------------------------------------------------------------------------
(* Types *)

\* A thread that passes the assertion has its bits in a size_t.
LEMMA BitsInSize ==
    ASSUME NEW t \in Nat, t < SIZE_BITS
    PROVE  Bits(t) \subseteq 0..(SIZE_BITS - 1)
<1> DEFINE b == IF t < INT_BITS THEN t ELSE t % INT_BITS
<1>1. b \in 0..(SIZE_BITS - 1)
  <2>1. INT_BITS \in Nat /\ INT_BITS > 0 /\ SIZE_BITS \in Nat
    BY PlacementAssumption
  <2>2. t % INT_BITS \in 0..(INT_BITS - 1)
    BY <2>1
  <2> QED
    BY <2>1, <2>2
<1> HIDE DEF b
<1>2. (IF b = INT_BITS - 1 THEN b..(SIZE_BITS - 1) ELSE {b}) \subseteq 0..(SIZE_BITS - 1)
  BY <1>1, PlacementAssumption
<1> QED
  BY <1>2 DEF Bits, b

\* The types of the state, for every set of ranges.
THEOREM TypeCorrect == Spec => []TypeOK
<1>1. Init => TypeOK
  BY DEF Init, TypeOK, IsPiece, IsSegment, NoPiece, NoGroup
<1>2. TypeOK /\ Inv /\ Inv' /\ [Next]_vars => TypeOK'
  <2> SUFFICES ASSUME TypeOK, Inv, Inv', [Next]_vars PROVE TypeOK'
    OBVIOUS
  <2> USE DEF TypeOK
  <2>1. CASE Collect
    BY <2>1 DEF Collect
  <2>2. ASSUME NEW p \in Pieces, GetThreadAffinity(p) PROVE TypeOK'
    <3>1. CASE \E u \in users : u.thread >= SIZE_BITS
      BY <2>2, <3>1 DEF GetThreadAffinity
    <3>2. CASE ~\E u \in users : u.thread >= SIZE_BITS
      <4>1. \A u \in users : Bits(u.thread) \subseteq 0..(SIZE_BITS - 1)
        BY <3>2, BitsInSize, PlacementAssumption
      <4>2. \A q \in Pieces : Real(q) /\ q.affinity \subseteq 0..(SIZE_BITS - 1)
        <5> SUFFICES ASSUME NEW q \in Pieces
                     PROVE  Real(q) /\ q.affinity \subseteq 0..(SIZE_BITS - 1)
          OBVIOUS
        <5>1. Real(q) /\ q.affinity
                = BitsOf({u \in users : u.seg.start = q.start /\ u.seg.end = q.end})
          BY PiecesReal
        <5> QED
          BY <4>1, <5>1 DEF BitsOf
      <4>3. \A q \in Pieces : IsPiece(q)
        BY <4>2 DEF IsPiece, IsSegment, Real
      <4> QED
        BY <2>2, <3>2, <4>3 DEF GetThreadAffinity
    <3> QED
      BY <3>1, <3>2
  <2>3. ASSUME NEW p \in todo, MergeOverlaps(p) PROVE TypeOK'
    BY <2>3 DEF MergeOverlaps, Join, IsPiece, IsSegment
  <2>4. ASSUME NEW p \in todo, MergeTouches(p) PROVE TypeOK'
    BY <2>4 DEF MergeTouches, IsPiece, IsSegment
  <2>5. ASSUME NEW p \in todo, Place(p) PROVE TypeOK'
    <3>1. /\ remappings' = remappings \cup {[start |-> p.start, end |-> p.end,
                affinity |-> p.affinity, to |-> Segment(offset, offset + Size(p))]}
          /\ todo' = todo \ {p} /\ UNCHANGED <<users, stage, top, stack, group>>
          /\ stage = "place"
      BY <2>5 DEF Place
    <3>2. \A m \in remappings' : IsSegment(m.to)
      <4>1. stage' = "place"
        BY <3>1
      <4>2. PlaceInv'
        BY <4>1 DEF Inv
      <4> QED
        BY <4>2 DEF PlaceInv, IsSegment
    <3>3. \A m \in remappings' : IsPiece(m)
      BY <3>1 DEF IsPiece, IsSegment
    <3>4. offset' \in Nat
      BY DEF Inv
    <3> QED
      BY <3>1, <3>2, <3>3, <3>4
  <2>6. ASSUME NEW p \in stack \cup {top}, StartTouches(p) PROVE TypeOK'
    BY <2>6 DEF StartTouches
  <2>7. ASSUME NEW p \in todo, NextGroup(p.affinity) PROVE TypeOK'
    BY <2>7, PlacementAssumption DEF NextGroup, IsPiece
  <2>8. CASE StartPlacing
    BY <2>8 DEF StartPlacing, NoPiece, IsPiece, IsSegment
  <2>9. CASE Finish
    BY <2>9 DEF Finish
  <2>10. CASE Ended \/ UNCHANGED vars
    BY Zenon, <2>10 DEF Ended, vars
  <2> QED
    BY <2>1, <2>2, <2>3, <2>4, <2>5, <2>6, <2>7, <2>8, <2>9, <2>10 DEF Next
<1> QED
  BY <1>1, <1>2, Inductive, PTL DEF Spec

=============================================================================
