--------------------------- MODULE LLQueue_proofs ---------------------------
(***************************************************************************)
(* The proof that LLQueue implements Reclaim, for every number of threads, *)
(* atls, pages and slabs: the hazard pointers of ll_alloc.c protect the    *)
(* queues that they are meant to protect.                                  *)
(*                                                                         *)
(* The hard steps are those in which a slab leaves its owner.  No other    *)
(* thread may be about to free a node of it, which follows from where the  *)
(* nodes are: a node that a thread frees is neither free nor in a queue    *)
(* that is being scanned.  That in turn needs the shape of the queues, and *)
(* the queues keep it because of the hazard pointers; so the invariant is  *)
(* that of LLQueue together with that of Reclaim.  It also gives that the  *)
(* nodes that scan_queue and reap_dead free are of blocks of their thread. *)
(*                                                                         *)
(* LLQueue_steps has the invariant and its other parts; here are the       *)
(* queues, and the theorems.                                               *)
(***************************************************************************)
EXTENDS LLQueue_steps

\* A step that names no prover is tried with Zenon, the SMT solver, and Zenon again.
USE ZenonT(5), SMTT(20), SMTT(30), SMTT(40), ZenonT(20)
-----------------------------------------------------------------------------
(* The queues *)

Linked ==
    /\ \A m \in Nodes : next[m] # None =>
          queued[m] # None /\ queued[next[m]] = queued[m] /\ ~ Unlinked(next[m])
    /\ \A m, n \in Nodes : next[m] # None /\ next[m] = next[n] => m = n
    /\ \A a \in Atls : life[a] = "live" => IsEnd(a, tail[a])
    /\ \A t \in Threads : pc[t] = "p_link" => /\ IsEnd(bt[t], old[t])
                                              /\ old[t] # tail[bt[t]]
    /\ \A t, u \in Threads : pc[t] = "p_link" /\ pc[u] = "p_link" /\ old[t] = old[u] => t = u

Fronted ==
    /\ \A t \in Threads : pc[t] = "scan" => IsFront(Scanned(t), q[t])
    /\ \A a \in Atls : life[a] = "live" /\ Scanners(a) = {} => IsFront(a, head[a])

(* The queues in two halves, their links and their fronts, ...              *)
LEMMA QueuesUse == IInv => Linked /\ Fronted
BY DEF IInv, Own, QueuesLinked, Linked, Fronted

(* ... and put together again.                                              *)
LEMMA QueuesMake == Linked' /\ Fronted' => QueuesLinked'
BY DEF QueuesLinked, Linked, Fronted

(* Who scans what.                                                          *)
LEMMA ScanOthers ==
    ASSUME IInv, NEW t \in Threads, Step(t), NEW u \in Threads, u # t
    PROVE  Scanned(u)' = Scanned(u) /\ pc'[u] = pc[u] /\ q'[u] = q[u]
BY Others DEF Scanned

(* A queue that no thread scans after a step was scanned by none before.    *)
LEMMA ScannersSame ==
    ASSUME IInv, NEW t \in Threads, Step(t), NEW a, Scanners(a)' = {},
           pc[t] = "scan" => Scanned(t) # a
    PROVE  Scanners(a) = {}
BY ScanOthers DEF Scanners

(* Steps outside prepend_queue leave no node without its predecessor.       *)
LEMMA UnlinkedSame ==
    ASSUME IInv, NEW t \in Threads, Step(t), pc[t] # "p_link", pc'[t] # "p_link", NEW n
    PROVE  Unlinked(n)' <=> Unlinked(n)
BY Others DEF Unlinked

(* Where a thread uses the queue of an owner, the owner is live.            *)
LEMMA LinkFacts ==
    ASSUME IInv, NEW t \in Threads, pc[t] \in {"p_xchg", "p_link"}
    PROVE  /\ bt[t] \in Atls /\ life[bt[t]] = "live" /\ p[t] \in Nodes /\ p[t] # None
           /\ \A u \in Threads : pc[u] = "r_free" => tl2[u] # bt[t]
<1>1. st[t] = "use"
  BY DEF st, Publishing
<1>2. bt[t] # None /\ life[bt[t]] = "live"
  BY <1>1 DEF IInv, R!IInv, R!Published, R!Protected
<1>3. bt[t] \in Atls
  BY <1>2, ThreadTypes
<1>4. p[t] \in Nodes /\ p[t] # None
  BY DEF IInv, Own, RegTypes, Control, Prepends
<1>5. ASSUME NEW u \in Threads, pc[u] = "r_free", tl2[u] = bt[t] PROVE FALSE
  <2>1. rp[u] = "apart"
    BY <1>2, <1>5 DEF rp, Reaping
  <2> QED BY <1>1, <1>5, <2>1 DEF IInv, R!IInv, R!Protected
<1> QED BY <1>2, <1>3, <1>4, <1>5

(* Steps that leave the links alone.                                        *)
LEMMA LinkedSame ==
    ASSUME IInv, NEW t \in Threads, Step(t), UNCHANGED <<next, queued, tail>>,
           pc[t] # "p_link", pc'[t] # "p_link",
           \A a \in Atls : life'[a] = "live" => life[a] = "live"
    PROVE  Linked' /\ \A a, n : IsFront(a, n) => IsFront(a, n)'
<1>1. \A n : Unlinked(n)' <=> Unlinked(n)
  BY UnlinkedSame
<1>2. \A a, n : IsEnd(a, n) => IsEnd(a, n)'
  BY DEF IsEnd
<1>3. \A u \in Threads : pc'[u] = "p_link" => pc[u] = "p_link" /\ bt'[u] = bt[u] /\ old'[u] = old[u]
  BY Others
<1>4. \A m \in Nodes : next'[m] # None =>
          queued'[m] # None /\ queued'[next'[m]] = queued'[m] /\ ~ Unlinked(next[m])'
  BY <1>1, QueuesUse DEF Linked
<1>5. \A a \in Atls : life'[a] = "live" => IsEnd(a, tail[a])'
  BY <1>2, QueuesUse DEF Linked
<1>6. \A u \in Threads : pc'[u] = "p_link" => IsEnd(bt[u], old[u])' /\ old'[u] # tail'[bt'[u]]
  BY <1>2, <1>3, QueuesUse DEF Linked
<1>7. \A u, v \in Threads : pc'[u] = "p_link" /\ pc'[v] = "p_link" /\ old'[u] = old'[v] => u = v
  BY <1>3, QueuesUse, SMTT(20), SMTT(30) DEF Linked
<1>8. Linked'
  BY <1>4, <1>5, <1>6, <1>7, QueuesUse DEF Linked
<1>9. \A a, n : IsFront(a, n) => IsFront(a, n)'
  BY <1>1 DEF IsFront
<1> QED BY <1>8, <1>9

(* A step of a thread that does not scan; x is an atls that is returned.    *)
LEMMA FrontedSame ==
    ASSUME IInv, NEW t \in Threads, Step(t), pc[t] # "scan", pc'[t] # "scan", head' = head,
           NEW x, x \in Atls => life'[x] # "live",
           \A u \in Threads : u # t /\ pc[u] = "scan" => Scanned(u) # x,
           \A a \in Atls : life'[a] = "live" => life[a] = "live",
           \A a \in Atls : \A n : a # x /\ IsFront(a, n) => IsFront(a, n)'
    PROVE  Fronted'
<1>1. ASSUME NEW u \in Threads, pc'[u] = "scan" PROVE IsFront(Scanned(u), q[u])'
  <2>1. u # t /\ pc[u] = "scan" /\ Scanned(u)' = Scanned(u) /\ q'[u] = q[u]
    BY <1>1, ScanOthers
  <2>2. Scanned(u) \in Atls
    BY <2>1, ScannedApart
  <2>3. IsFront(Scanned(u), q[u])
    BY <2>1, QueuesUse DEF Fronted
  <2> QED BY <2>1, <2>2, <2>3, SMTT(20), SMTT(30) DEF IsFront
<1>2. ASSUME NEW a \in Atls, life'[a] = "live", Scanners(a)' = {} PROVE IsFront(a, head[a])'
  <2>1. Scanners(a) = {}
    BY <1>2, ScannersSame
  <2>2. IsFront(a, head[a]) /\ a # x
    BY <1>2, <2>1, QueuesUse DEF Fronted
  <2> QED BY <2>2, SMTT(20), SMTT(30) DEF IsFront
<1> QED BY <1>1, <1>2 DEF Fronted

(* Steps that have nothing to do with the queues.                           *)
LEMMA QueuesQuiet ==
    ASSUME IInv, NEW t \in Threads, Step(t), UNCHANGED <<next, queued, tail, head>>,
           pc[t] \notin {"p_link", "scan"}, pc'[t] \notin {"p_link", "scan"},
           \A a \in Atls : life'[a] = "live" => life[a] = "live"
    PROVE  QueuesLinked'
<1>1. \A u \in Threads : u # t /\ pc[u] = "scan" => Scanned(u) # None
  BY ScannedApart, NodeFacts, SMTT(20), SMTT(30)
<1>2. Fronted'
  BY <1>1, LinkedSame, FrontedSame, NodeFacts
<1> QED BY <1>2, LinkedSame, QueuesMake

(* A thread starts to scan a queue that no other scans.                     *)
LEMMA QueuesStart ==
    ASSUME IInv, NEW t \in Threads, Step(t), UNCHANGED <<next, queued, tail, head, tls, tl2>>,
           pc[t] \notin {"p_link", "scan"}, NEW a \in Atls, NEW l, StartScan(t, a, l),
           IF l = "r_free" THEN a = tl2[t] ELSE a = tls[t], gone' = gone, list' = list
    PROVE  QueuesLinked'
<1>1. pc'[t] = "scan" /\ Scanned(t)' = a /\ q'[t] = head[a]
  BY DEF IInv, Own, RegTypes, StartScan, Goto, Scanned
<1>2. life' = life
  BY DEF life
<1>3. IsFront(a, head[a])
  BY HeadFront, NodeFacts, SMTT(20), SMTT(30)
<1>4. Linked' /\ \A o, n : IsFront(o, n) => IsFront(o, n)'
  BY <1>1, <1>2, LinkedSame
<1>5. ASSUME NEW u \in Threads, pc'[u] = "scan" PROVE IsFront(Scanned(u), q[u])'
  <2>1. CASE u = t
    BY <1>1, <1>3, <1>4, <2>1, SMTT(20), SMTT(30) DEF IsFront
  <2>2. CASE u # t
    <3>1. pc[u] = "scan" /\ Scanned(u)' = Scanned(u) /\ q'[u] = q[u]
      BY <1>5, <2>2, ScanOthers
    <3>2. IsFront(Scanned(u), q[u])
      BY <3>1, QueuesUse DEF Fronted
    <3> QED BY <1>4, <3>1, <3>2, SMTT(20), SMTT(30) DEF IsFront
  <2> QED BY <2>1, <2>2
<1>6. ASSUME NEW o \in Atls, life'[o] = "live", Scanners(o)' = {} PROVE IsFront(o, head[o])'
  <2>1. IsFront(o, head[o])
    BY <1>2, <1>6, ScannersSame, QueuesUse DEF Fronted
  <2> QED BY <1>4, <2>1 DEF IsFront
<1> QED BY <1>4, <1>5, <1>6, QueuesMake DEF Fronted

(* prepend_queue *)
LEMMA XchgQueues ==
    ASSUME IInv, NEW t \in Threads, Step(t), PrependXchg(t) PROVE QueuesLinked'
<1> DEFINE x == p[t]
           a == bt[t]
<1>t. /\ next \in [Nodes -> Nodes \cup {None}] /\ queued \in [Nodes -> Atls \cup {None}]
      /\ tail \in [Atls -> Nodes \cup {None}] /\ old \in [Threads -> Nodes \cup {None}]
      /\ pc \in [Threads -> Labels]
  BY DEF IInv, Own, MemTypes, RegTypes
<1>1. pc[t] = "p_xchg" /\ pc'[t] = "p_link" /\ UNCHANGED <<head, p, bt>>
  BY <1>t DEF PrependXchg, On, Goto
<1>2. a \in Atls /\ life[a] = "live" /\ x \in Nodes /\ x # None
  BY <1>1, LinkFacts
<1>3. queued[x] = None
  BY <1>1, <1>2, NodesUse
<1>4. /\ \A m \in Nodes : queued'[m] = IF m = x THEN a ELSE queued[m]
      /\ \A o \in Atls : tail'[o] = IF o = a THEN x ELSE tail[o]
      /\ old'[t] = tail[a]
  BY <1>t, <1>2 DEF PrependXchg
<1>5. \A m \in Nodes : next'[m] = next[m]
  <2>1. next[x] = None
    BY <1>2, <1>3, QueuesUse DEF Linked
  <2> QED BY <1>t, <1>2, <2>1 DEF PrependXchg
<1>6. life' = life
  BY DEF PrependXchg, life, lists, blocks
<1>7. \A n : Unlinked(n)' <=> Unlinked(n) \/ n = x
  BY <1>1, Others DEF Unlinked
<1>o. \A u \in Threads : u # t => pc'[u] = pc[u] /\ bt'[u] = bt[u] /\ old'[u] = old[u]
  BY Others
<1>8. \A o, n : o # None /\ IsEnd(o, n) => IsEnd(o, n)' /\ n # x
  BY <1>3, <1>4, <1>5 DEF IsEnd
<1>9. \A o, n : o # None /\ IsFront(o, n) => IsFront(o, n)'
  BY <1>3, <1>4, <1>5, <1>7 DEF IsFront
<1>10. \A m \in Nodes : next'[m] # None =>
          queued'[m] # None /\ queued'[next'[m]] = queued'[m] /\ ~ Unlinked(next[m])'
  <2>1. ASSUME NEW m \in Nodes, next[m] # None
        PROVE  /\ queued[m] # None /\ queued[next[m]] = queued[m] /\ ~ Unlinked(next[m])
               /\ next[m] \in Nodes
    BY <1>t, <2>1, QueuesUse, SMTT(20), SMTT(30) DEF Linked
  <2>2. ASSUME NEW m \in Nodes, next[m] # None PROVE m # x /\ next[m] # x
    BY <1>3, <2>1, <2>2
  <2>3. ASSUME NEW m \in Nodes, next[m] # None PROVE ~ Unlinked(next[m])'
    BY <1>5, <1>7, <2>1, <2>2, <2>3, SMTT(20), SMTT(30) DEF Unlinked
  <2> QED BY <1>4, <1>5, <2>1, <2>2, <2>3, SMTT(20), SMTT(30)
<1>11. \A m, n \in Nodes : next'[m] # None /\ next'[m] = next'[n] => m = n
  BY <1>5, QueuesUse, SMTT(20), SMTT(30) DEF Linked
<1>12. ASSUME NEW o \in Atls, life'[o] = "live" PROVE IsEnd(o, tail[o])'
  <2>1. CASE o = a
    <3>1. next[x] = None
      BY <1>2, <1>3, QueuesUse DEF Linked
    <3> QED BY <1>2, <1>4, <1>5, <2>1, <3>1 DEF IsEnd
  <2>2. CASE o # a
    <3>1. IsEnd(o, tail[o])
      BY <1>6, <1>12, QueuesUse DEF Linked
    <3> QED BY <1>4, <1>8, <2>2, <3>1, NodeFacts, SMTT(20), SMTT(30) DEF IsEnd
  <2> QED BY <2>1, <2>2
<1>13. IsEnd(a, tail[a]) /\ a # None
  BY <1>2, QueuesUse, NodeFacts DEF Linked
<1>14. ASSUME NEW u \in Threads, u # t, pc'[u] = "p_link"
       PROVE  /\ pc[u] = "p_link" /\ IsEnd(bt[u], old[u]) /\ bt[u] \in Atls /\ bt[u] # None
              /\ old[u] # tail[bt[u]]
  BY <1>o, <1>14, QueuesUse, LinkFacts, NodeFacts, SMTT(20), SMTT(30) DEF Linked
<1>15. ASSUME NEW u \in Threads, pc'[u] = "p_link"
       PROVE  IsEnd(bt[u], old[u])' /\ old'[u] # tail'[bt'[u]]
  <2>1. CASE u = t
    <3>1. tail[a] # x /\ old'[t] = tail[a] /\ bt'[t] = a /\ tail'[a] = x
      BY <1>1, <1>2, <1>4, <1>8, <1>13
    <3>2. IsEnd(bt[t], old[t])'
      BY <1>1, <1>4, <1>5, <1>8, <1>13 DEF IsEnd
    <3> QED BY <2>1, <3>1, <3>2
  <2>2. CASE u # t
    <3>1. IsEnd(bt[u], old[u])' /\ old[u] # x
      BY <1>o, <1>8, <1>14, <1>15, <2>2, SMTT(20), SMTT(30) DEF IsEnd
    <3> QED BY <1>o, <1>4, <1>14, <1>15, <2>2, <3>1, SMTT(20), SMTT(30)
  <2> QED BY <2>1, <2>2
<1>16. ASSUME NEW u \in Threads, u # t, pc'[u] = "p_link" PROVE old'[u] # tail[a]
  BY <1>o, <1>13, <1>14, <1>16, SMTT(20), SMTT(30) DEF IsEnd
<1>17. \A u, v \in Threads : pc'[u] = "p_link" /\ pc'[v] = "p_link" /\ old'[u] = old'[v] => u = v
  BY <1>o, <1>4, <1>16, QueuesUse, SMTT(20), SMTT(30) DEF Linked
<1>18. Linked'
  BY <1>10, <1>11, <1>12, <1>15, <1>17 DEF Linked
<1>19. \A u \in Threads : u # t /\ pc[u] = "scan" => Scanned(u) # None
  BY ScannedApart, NodeFacts, SMTT(20), SMTT(30)
<1>20. Fronted'
  BY <1>1, <1>6, <1>9, <1>19, FrontedSame, NodeFacts
<1> QED BY <1>18, <1>20, QueuesMake

(* prepend_queue links the node to its predecessor.                         *)
LEMMA LinkQueues ==
    ASSUME IInv, NEW t \in Threads, Step(t), PrependLink(t) PROVE QueuesLinked'
<1> DEFINE a == bt[t]
           o == old[t]
<1>x. PICK x : x = p[t]
  OBVIOUS
<1>t. /\ next \in [Nodes -> Nodes \cup {None}] /\ pc \in [Threads -> Labels]
      /\ p \in [Threads -> Nodes \cup {None}]
  BY DEF IInv, Own, MemTypes, RegTypes
<1>1. /\ pc[t] = "p_link" /\ pc'[t] = "p_clear" /\ p'[t] = None
      /\ UNCHANGED <<head, tail, queued>>
  BY <1>t DEF PrependLink, On, Goto
<1>2. a \in Atls /\ a # None /\ x \in Nodes /\ x # None
  BY <1>x, <1>1, LinkFacts, NodeFacts
<1>3. queued[x] = a
  BY <1>x, <1>1, <1>2, NodesUse
<1>4. IsEnd(a, o) /\ o # tail[a] /\ o \in Nodes /\ queued[o] = a
  BY <1>1, QueuesUse DEF Linked, IsEnd
<1>5. \A m \in Nodes : next'[m] = IF m = o THEN x ELSE next[m]
  BY <1>x, <1>t, <1>4 DEF PrependLink
<1>6. life' = life
  BY DEF PrependLink, life, lists, blocks
<1>o. \A u \in Threads : u # t =>
         pc'[u] = pc[u] /\ bt'[u] = bt[u] /\ old'[u] = old[u] /\ p'[u] = p[u]
  BY Others
<1>7. Unlinked(x) /\ ~ Unlinked(x)' /\ \A n : Unlinked(n)' => Unlinked(n)
  <2>1. ~ Unlinked(x)'
    BY <1>x, <1>o, <1>1, <1>2, NodesUse, SMTT(20), SMTT(30) DEF Unlinked
  <2> QED BY <1>x, <1>o, <1>1, <2>1 DEF Unlinked
<1>8. \A c, n : IsEnd(c, n) /\ n # o => IsEnd(c, n)'
  BY <1>1, <1>5 DEF IsEnd
<1>9. \A c, n : IsFront(c, n) => IsFront(c, n)'
  <2>1. ASSUME NEW c, NEW n, IsFront(c, n) PROVE n # x
    BY <1>7, <2>1 DEF IsFront
  <2> QED BY <1>1, <1>5, <1>7, <2>1 DEF IsFront
<1>10. ASSUME NEW m \in Nodes, next'[m] # None
       PROVE  queued'[m] # None /\ queued'[next'[m]] = queued'[m] /\ ~ Unlinked(next[m])'
  <2>1. CASE m = o
    <3>1. next'[m] = x
      BY <1>5, <2>1
    <3>2. ~ Unlinked(next[m])'
      BY <1>7, <3>1 DEF Unlinked
    <3> QED BY <1>1, <1>2, <1>3, <1>4, <2>1, <3>1, <3>2
  <2>2. CASE m # o
    <3>1. next'[m] = next[m]
      BY <1>5, <2>2
    <3>2. queued[m] # None /\ queued[next[m]] = queued[m] /\ ~ Unlinked(next[m])
      BY <1>10, <3>1, QueuesUse DEF Linked
    <3>3. ~ Unlinked(next[m])'
      BY <1>7, <3>1, <3>2 DEF Unlinked
    <3> QED BY <1>1, <3>1, <3>2, <3>3
  <2> QED BY <2>1, <2>2
<1>11. \A m, n \in Nodes : next'[m] # None /\ next'[m] = next'[n] => m = n
  <2>1. \A m \in Nodes : next[m] # x
    BY <1>2, <1>7, QueuesUse DEF Linked
  <2> QED BY <1>5, <2>1, QueuesUse, SMTT(20), SMTT(30) DEF Linked
<1>12. ASSUME NEW c \in Atls, life'[c] = "live" PROVE IsEnd(c, tail[c])'
  <2>1. IsEnd(c, tail[c])
    BY <1>6, <1>12, QueuesUse DEF Linked
  <2>2. tail[c] # o
    BY <1>4, <2>1 DEF IsEnd
  <2> QED BY <1>1, <1>5, <2>1, <2>2 DEF IsEnd
<1>13. ASSUME NEW u \in Threads, pc'[u] = "p_link"
       PROVE  u # t /\ pc[u] = "p_link" /\ bt'[u] = bt[u] /\ old'[u] = old[u]
  BY <1>o, <1>1, <1>13
<1>14. ASSUME NEW u \in Threads, pc'[u] = "p_link"
       PROVE  IsEnd(bt[u], old[u])' /\ old'[u] # tail'[bt'[u]]
  <2>1. IsEnd(bt[u], old[u]) /\ old[u] # tail[bt[u]] /\ old[u] # o
    BY <1>1, <1>13, <1>14, QueuesUse DEF Linked
  <2> QED BY <1>1, <1>5, <1>13, <1>14, <2>1 DEF IsEnd
<1>15. \A u, v \in Threads : pc'[u] = "p_link" /\ pc'[v] = "p_link" /\ old'[u] = old'[v] => u = v
  BY <1>13, QueuesUse, SMTT(20), SMTT(30) DEF Linked
<1>16. Linked'
  BY <1>10, <1>11, <1>12, <1>14, <1>15 DEF Linked
<1>17. \A u \in Threads : u # t /\ pc[u] = "scan" => Scanned(u) # None
  BY ScannedApart, NodeFacts, SMTT(20), SMTT(30)
<1>18. Fronted'
  BY <1>1, <1>6, <1>9, <1>17, FrontedSame, NodeFacts, SMTT(20), SMTT(30)
<1> QED BY <1>16, <1>18, QueuesMake

(* The front of a queue is freed.                                           *)
LEMMA FrontFreed ==
    ASSUME IInv, NEW t \in Threads, Step(t), NEW a \in Atls, NEW n, IsFront(a, n),
           NEW o \in Atls, FreeLocal(o, n), UNCHANGED tail, pc[t] # "p_link", pc'[t] # "p_link",
           \A c \in Atls : life'[c] = "live" => life[c] = "live" /\ tail[c] # n,
           \A u \in Threads : pc[u] = "p_link" => old[u] # n
    PROVE  Linked' /\ \A c, m : m # n /\ IsFront(c, m) => IsFront(c, m)'
<1>1. /\ \A m \in Nodes : m # n => queued'[m] = queued[m] /\ next'[m] = next[m]
      /\ next'[n] = None
  BY MineFront, FreeLocalFrame, SMTT(20), SMTT(30)
<1>2. \A m : Unlinked(m)' <=> Unlinked(m)
  BY UnlinkedSame
<1>3. n \in Nodes /\ \A m \in Nodes : next[m] # n
  BY DEF IsFront
<1>4. \A c, m : m # n /\ IsEnd(c, m) => IsEnd(c, m)'
  BY <1>1 DEF IsEnd
<1>5. ASSUME NEW c, NEW m, m # n, IsFront(c, m) PROVE IsFront(c, m)'
  <2>1. m \in Nodes /\ m # None
    BY <1>5, NodeFacts DEF IsFront
  <2>2. \A k \in Nodes : next'[k] # m
    BY <1>1, <1>3, <1>5, <2>1 DEF IsFront
  <2> QED BY <1>1, <1>2, <1>5, <2>1, <2>2 DEF IsFront
<1>6. ASSUME NEW m \in Nodes, next'[m] # None
      PROVE  queued'[m] # None /\ queued'[next'[m]] = queued'[m] /\ ~ Unlinked(next[m])'
  <2>1. m # n /\ next'[m] = next[m] /\ queued'[m] = queued[m]
    BY <1>1, <1>6
  <2>2. queued[m] # None /\ queued[next[m]] = queued[m] /\ ~ Unlinked(next[m])
    BY <1>6, <2>1, QueuesUse DEF Linked
  <2>3. next[m] \in Nodes /\ next[m] # n
    BY <1>3, <1>6, <2>1 DEF IInv, Own, MemTypes
  <2>4. ~ Unlinked(next[m])'
    BY <1>2, <2>1, <2>2, SMTT(20), SMTT(30) DEF Unlinked
  <2> QED BY <1>1, <2>1, <2>2, <2>3, <2>4
<1>7. \A m, k \in Nodes : next'[m] # None /\ next'[m] = next'[k] => m = k
  BY <1>1, QueuesUse, SMTT(20), SMTT(30) DEF Linked
<1>8. ASSUME NEW c \in Atls, life'[c] = "live" PROVE IsEnd(c, tail[c])'
  <2>1. IsEnd(c, tail[c]) /\ tail[c] # n
    BY <1>8, QueuesUse DEF Linked
  <2> QED BY <1>1, <2>1 DEF IsEnd
<1>9. \A u \in Threads : pc'[u] = "p_link" => pc[u] = "p_link" /\ bt'[u] = bt[u] /\ old'[u] = old[u]
  BY Others
<1>10. ASSUME NEW u \in Threads, pc'[u] = "p_link"
       PROVE  IsEnd(bt[u], old[u])' /\ old'[u] # tail'[bt'[u]]
  <2>1. IsEnd(bt[u], old[u]) /\ old[u] # tail[bt[u]] /\ old[u] # n
    BY <1>9, <1>10, QueuesUse DEF Linked
  <2> QED BY <1>1, <1>9, <1>10, <2>1, SMTT(20), SMTT(30) DEF IsEnd
<1>11. \A u, v \in Threads : pc'[u] = "p_link" /\ pc'[v] = "p_link" /\ old'[u] = old'[v] => u = v
  BY <1>9, QueuesUse, SMTT(20), SMTT(30) DEF Linked
<1>12. Linked'
  BY <1>6, <1>7, <1>8, <1>10, <1>11 DEF Linked
<1> QED BY <1>5, <1>12

(* scan_queue *)
LEMMA ScanFreeQueues ==
    ASSUME IInv, NEW t \in Threads, Step(t), ScanFree(t) PROVE QueuesLinked'
<1>a. PICK a \in Atls : a = Scanned(t)
  BY ScanCases
<1>n. PICK n \in Nodes : n = q[t]
  BY ScanCases DEF IsFront
<1>m. PICK m : m = next[n]
  OBVIOUS
<1>t. q \in [Threads -> Nodes \cup {None}] /\ next \in [Nodes -> Nodes \cup {None}]
  BY DEF IInv, Own, RegTypes, MemTypes
<1>1. /\ pc[t] = "scan" /\ IsFront(a, n) /\ Mine(t, n) /\ tls[t] \in Atls /\ a # None
      /\ m # None /\ FreeLocal(tls[t], n)
  BY <1>a, <1>n, <1>m, ScanCases, NodeFacts DEF ScanFree
<1>2. UNCHANGED <<tls, head, tail, pc, ret, tl2, gone>> /\ q'[t] = m
  BY <1>t, <1>n, <1>m DEF ScanFree, reap, lists
<1>3. life' = life
  BY <1>1, <1>2, FreeLocalFrame DEF life
<1>4. \A c \in Atls : life'[c] = "live" => life[c] = "live" /\ tail[c] # n
  BY <1>m, <1>1, <1>3, QueuesUse, SMTT(20), SMTT(30) DEF Linked, IsEnd
<1>5. \A u \in Threads : pc[u] = "p_link" => old[u] # n
  BY <1>m, <1>1, QueuesUse DEF Linked, IsEnd
<1>6. Linked' /\ \A c, k : k # n /\ IsFront(c, k) => IsFront(c, k)'
  BY <1>1, <1>2, <1>4, <1>5, FrontFreed, SMTT(20), SMTT(30)
<1>7. IsFront(a, m)'
  <2>1. m \in Nodes /\ m # n /\ queued[m] = a /\ ~ Unlinked(m)
    BY <1>t, <1>m, <1>1, QueuesUse DEF Linked, IsFront
  <2>2. /\ \A k \in Nodes : k # n => queued'[k] = queued[k] /\ next'[k] = next[k]
        /\ next'[n] = None
    BY <1>1, FreeLocalFrame, SMTT(20), SMTT(30)
  <2>3. ~ Unlinked(m)'
    BY <1>1, <1>2, <2>1, UnlinkedSame
  <2>4. \A k \in Nodes : next'[k] # m
    BY <1>m, <1>1, <2>1, <2>2, QueuesUse, SMTT(20), SMTT(30) DEF Linked
  <2> QED BY <2>1, <2>2, <2>3, <2>4 DEF IsFront
<1>8. Scanned(t)' = a
  BY <1>a, <1>2 DEF Scanned
<1>9. ASSUME NEW u \in Threads, pc'[u] = "scan" PROVE IsFront(Scanned(u), q[u])'
  <2>1. CASE u = t
    BY <1>2, <1>7, <1>8, <2>1 DEF IsFront
  <2>2. CASE u # t
    <3>1. pc[u] = "scan" /\ Scanned(u)' = Scanned(u) /\ q'[u] = q[u]
      BY <1>9, <2>2, ScanOthers
    <3>2. Scanned(u) # a
      BY <1>a, <1>1, <2>2, <3>1, ScannedApart DEF Scanned
    <3>3. IsFront(Scanned(u), q[u])
      BY <3>1, QueuesUse DEF Fronted
    <3>4. q[u] # n
      BY <1>1, <3>2, <3>3 DEF IsFront
    <3> QED BY <1>6, <3>1, <3>3, <3>4, SMTT(20), SMTT(30) DEF IsFront
  <2> QED BY <2>1, <2>2
<1>10. ASSUME NEW c \in Atls, life'[c] = "live", Scanners(c)' = {} PROVE IsFront(c, head[c])'
  <2>1. c # a
    BY <1>1, <1>2, <1>8, <1>10 DEF Scanners
  <2>2. IsFront(c, head[c])
    BY <1>a, <1>3, <1>10, <2>1, ScannersSame, QueuesUse DEF Fronted
  <2>3. head[c] # n
    BY <1>1, <2>1, <2>2 DEF IsFront
  <2> QED BY <1>2, <1>6, <2>2, <2>3 DEF IsFront
<1> QED BY <1>6, <1>9, <1>10, QueuesMake DEF Fronted

(* scan_queue comes to the last node, which it leaves.                      *)
LEMMA ScanLastQueues ==
    ASSUME IInv, NEW t \in Threads, Step(t), ScanLast(t) PROVE QueuesLinked'
<1>a. PICK a \in Atls : a = Scanned(t)
  BY ScanCases
<1>n. PICK n \in Nodes : n = q[t]
  BY ScanCases DEF IsFront
<1>t. head \in [Atls -> Nodes \cup {None}] /\ pc \in [Threads -> Labels]
  BY DEF IInv, Own, RegTypes, MemTypes
<1>1. pc[t] = "scan" /\ IsFront(a, n) /\ ret[t] \in {"m_create", "m_scanned", "r_free"}
  BY <1>a, <1>n, ScanCases DEF IInv, Own, Control
<1>2. UNCHANGED <<next, queued, tail, gone, list>> /\ pc'[t] = ret[t]
  BY <1>t DEF ScanLast, links, blocks, lists, Goto
<1>3. \A c \in Atls : head'[c] = IF c = a THEN n ELSE head[c]
  BY <1>t, <1>a, <1>n DEF ScanLast
<1>4. life' = life
  BY <1>2 DEF life
<1>5. Linked' /\ \A c, k : IsFront(c, k) => IsFront(c, k)'
  BY <1>1, <1>2, <1>4, LinkedSame
<1>6. ASSUME NEW u \in Threads, pc'[u] = "scan" PROVE IsFront(Scanned(u), q[u])'
  <2>1. u # t /\ pc[u] = "scan" /\ Scanned(u)' = Scanned(u) /\ q'[u] = q[u]
    BY <1>1, <1>2, <1>6, ScanOthers
  <2>2. IsFront(Scanned(u), q[u])
    BY <2>1, QueuesUse DEF Fronted
  <2> QED BY <1>5, <2>1, <2>2 DEF IsFront
<1>7. ASSUME NEW c \in Atls, life'[c] = "live", Scanners(c)' = {} PROVE IsFront(c, head[c])'
  <2>1. CASE c = a
    BY <1>1, <1>3, <1>5, <2>1, SMTT(20), SMTT(30) DEF IsFront
  <2>2. CASE c # a
    <3>1. IsFront(c, head[c])
      BY <1>a, <1>4, <1>7, <2>2, ScannersSame, QueuesUse DEF Fronted
    <3> QED BY <1>3, <1>5, <2>2, <3>1, SMTT(20), SMTT(30) DEF IsFront
  <2> QED BY <2>1, <2>2
<1> QED BY <1>5, <1>6, <1>7, QueuesMake DEF Fronted

(* reap_dead returns an atls.                                               *)
LEMMA ReapFreeQueues ==
    ASSUME IInv, NEW t \in Threads, Step(t), ReapFree(t) PROVE QueuesLinked'
<1>a. PICK a \in Atls : a = tl2[t]
  BY ScanCases
<1>n. PICK n \in Nodes : n = head[a]
  BY <1>a, ScanCases DEF IsFront
<1>t. pc \in [Threads -> Labels]
  BY DEF IInv, Own, RegTypes
<1>1. /\ pc[t] = "r_free" /\ IsFront(a, n) /\ Mine(t, n) /\ tls[t] \in Atls /\ a # None
      /\ FreeLocal(tls[t], n)
  BY <1>a, <1>n, ScanCases, NodeFacts DEF ReapFree
<1>2. UNCHANGED <<head, tail>> /\ pc'[t] = "m_heap" /\ gone' = gone \cup {a}
  BY <1>t, <1>a DEF ReapFree, Goto
<1>3. \A c \in Atls : life'[c] = "live" => life[c] = "live" /\ c # a
  BY <1>1, <1>2, FreeLocalFrame DEF life
<1>4. \A c \in Atls : life'[c] = "live" => life[c] = "live" /\ tail[c] # n
  <2>1. queued[n] = a
    BY <1>1 DEF IsFront
  <2>2. \A c \in Atls : life[c] = "live" => queued[tail[c]] = c
    BY QueuesUse DEF Linked, IsEnd
  <2> QED BY <1>3, <2>1, <2>2
<1>5. \A u \in Threads : pc[u] = "p_link" => old[u] # n
  <2>1. queued[n] = a
    BY <1>1 DEF IsFront
  <2>2. \A u \in Threads : pc[u] = "p_link" => queued[old[u]] = bt[u]
    BY QueuesUse DEF Linked, IsEnd
  <2>3. \A u \in Threads : pc[u] = "p_link" => bt[u] # a
    BY <1>a, <1>1, LinkFacts
  <2> QED BY <2>1, <2>2, <2>3
<1>6. Linked' /\ \A c, k : k # n /\ IsFront(c, k) => IsFront(c, k)'
  BY <1>1, <1>2, <1>4, <1>5, FrontFreed, SMTT(20), SMTT(30)
<1>7. \A c \in Atls : \A k : c # a /\ IsFront(c, k) => IsFront(c, k)'
  BY <1>1, <1>6 DEF IsFront
<1>8. \A u \in Threads : u # t /\ pc[u] = "scan" => Scanned(u) # a
  BY <1>a, <1>1, ScannedApart
<1>9. Fronted'
  BY <1>1, <1>2, <1>3, <1>7, <1>8, FrontedSame
<1> QED BY <1>6, <1>9, QueuesMake

(* init_atls *)
LEMMA InitNewQueues ==
    ASSUME IInv, NEW t \in Threads, Step(t), InitNew(t) PROVE QueuesLinked'
<1>t. /\ head \in [Atls -> Nodes \cup {None}] /\ tail \in [Atls -> Nodes \cup {None}]
      /\ queued \in [Nodes -> Atls \cup {None}] /\ pc \in [Threads -> Labels]
      /\ list \in [Blocks -> Kinds] /\ next \in [Nodes -> Nodes \cup {None}]
  BY DEF IInv, Own, RegTypes, MemTypes
<1>1. PICK a \in Fresh(Atls) :
        /\ list' = [list EXCEPT ![a] = "bl"] /\ head' = [head EXCEPT ![a] = <<a, 0>>]
        /\ tail' = [tail EXCEPT ![a] = <<a, 0>>] /\ queued' = [queued EXCEPT ![<<a, 0>>] = a]
  BY DEF InitNew
<1>2. a \in Atls /\ a \in Blocks /\ list[a] = "new" /\ a # None
  BY FreshFacts, NodeFacts, SMTT(20), SMTT(30)
<1>n. PICK n : n = <<a, 0>>
  OBVIOUS
<1>3. n \in Nodes /\ n[1] = a
  BY <1>n, <1>2, NodeFacts DEF Heap
<1>4. UNCHANGED <<next, gone>> /\ pc[t] = "i_new" /\ pc'[t] = "i_hlock"
  BY <1>t DEF InitNew, lists, On, Goto
<1>5. ~ Busy(n)
  BY <1>2, <1>3, NodesUse DEF Live
<1>6. queued[n] = None /\ \A u \in Threads : p[u] # n
  BY <1>5 DEF Busy
<1>7. next[n] = None /\ \A m \in Nodes : next[m] # n
  BY <1>3, <1>6, QueuesUse, NodeFacts DEF Linked
<1>8. /\ \A c \in Atls : head'[c] = IF c = a THEN n ELSE head[c]
      /\ \A c \in Atls : tail'[c] = IF c = a THEN n ELSE tail[c]
      /\ \A m \in Nodes : queued'[m] = IF m = n THEN a ELSE queued[m]
  BY <1>t, <1>n, <1>1, <1>2, <1>3
<1>9. \A c \in Atls : life'[c] = "live" => c = a \/ life[c] = "live"
  BY <1>t, <1>1, <1>2, <1>4, NodeFacts DEF life
<1>10. \A m : Unlinked(m)' <=> Unlinked(m)
  BY <1>4, UnlinkedSame
<1>11. \A c, m : c # None /\ IsEnd(c, m) => IsEnd(c, m)' /\ m # n
  BY <1>4, <1>6, <1>8 DEF IsEnd
<1>12. \A c, m : c # None /\ IsFront(c, m) => IsFront(c, m)'
  BY <1>4, <1>6, <1>8, <1>10 DEF IsFront
<1>13. IsEnd(a, n)' /\ IsFront(a, n)'
  <2>1. ~ Unlinked(n)
    BY <1>6 DEF Unlinked
  <2> QED BY <1>3, <1>4, <1>7, <1>8, <1>10, <2>1 DEF IsEnd, IsFront
<1>14. ASSUME NEW m \in Nodes, next'[m] # None
       PROVE  queued'[m] # None /\ queued'[next'[m]] = queued'[m] /\ ~ Unlinked(next[m])'
  <2>1. queued[m] # None /\ queued[next[m]] = queued[m] /\ ~ Unlinked(next[m])
    BY <1>4, <1>14, QueuesUse DEF Linked
  <2>2. next[m] \in Nodes /\ next[m] # n /\ m # n
    BY <1>t, <1>4, <1>7, <1>14
  <2>3. ~ Unlinked(next[m])'
    BY <1>4, <1>10, <2>1 DEF Unlinked
  <2> QED BY <1>4, <1>8, <2>1, <2>2, <2>3
<1>15. ASSUME NEW c \in Atls, life'[c] = "live" PROVE IsEnd(c, tail[c])'
  <2>1. CASE c = a
    BY <1>8, <1>13, <2>1 DEF IsEnd
  <2>2. CASE c # a
    <3>1. IsEnd(c, tail[c])
      BY <1>9, <1>15, <2>2, QueuesUse DEF Linked
    <3> QED BY <1>8, <1>11, <2>2, <3>1, NodeFacts, SMTT(20), SMTT(30) DEF IsEnd
  <2> QED BY <2>1, <2>2
<1>16. \A u \in Threads : pc'[u] = "p_link" =>
          pc[u] = "p_link" /\ bt'[u] = bt[u] /\ old'[u] = old[u]
  BY <1>4, Others
<1>17. ASSUME NEW u \in Threads, pc'[u] = "p_link"
       PROVE  IsEnd(bt[u], old[u])' /\ old'[u] # tail'[bt'[u]]
  <2>1. /\ IsEnd(bt[u], old[u]) /\ old[u] # tail[bt[u]] /\ bt[u] \in Atls /\ bt[u] # None
    BY <1>16, <1>17, QueuesUse, LinkFacts, NodeFacts, SMTT(20), SMTT(30) DEF Linked
  <2>a. old[u] \in Nodes /\ queued[old[u]] = bt[u] /\ next[old[u]] = None /\ old[u] # n
    BY <1>6, <2>1 DEF IsEnd
  <2>2. IsEnd(bt[u], old[u])' /\ old[u] # n
    BY <1>4, <1>8, <1>16, <1>17, <2>a DEF IsEnd
  <2> QED BY <1>8, <1>16, <1>17, <2>1, <2>2
<1>18. \A u, v \in Threads : pc'[u] = "p_link" /\ pc'[v] = "p_link" /\ old'[u] = old'[v] => u = v
  BY <1>16, QueuesUse, SMTT(20), SMTT(30) DEF Linked
<1>19. Linked'
  BY <1>4, <1>14, <1>15, <1>17, <1>18, QueuesUse DEF Linked
<1>20. ASSUME NEW u \in Threads, pc'[u] = "scan" PROVE IsFront(Scanned(u), q[u])'
  <2>1. u # t /\ pc[u] = "scan" /\ Scanned(u)' = Scanned(u) /\ q'[u] = q[u]
    BY <1>4, <1>20, ScanOthers
  <2>a. Scanned(u) # None
    BY <2>1, ScannedApart, NodeFacts, SMTT(20), SMTT(30)
  <2>2. IsFront(Scanned(u), q[u]) /\ Scanned(u) # None
    BY <2>1, <2>a, QueuesUse DEF Fronted
  <2> QED BY <1>12, <2>1, <2>2, SMTT(20), SMTT(30) DEF IsFront
<1>21. ASSUME NEW c \in Atls, life'[c] = "live", Scanners(c)' = {} PROVE IsFront(c, head[c])'
  <2>1. CASE c = a
    BY <1>8, <1>13, <2>1 DEF IsFront
  <2>2. CASE c # a
    <3>1. IsFront(c, head[c])
      BY <1>4, <1>9, <1>21, <2>2, ScannersSame, QueuesUse DEF Fronted
    <3> QED BY <1>8, <1>12, <2>2, <3>1, NodeFacts, SMTT(20), SMTT(30) DEF IsFront
  <2> QED BY <2>1, <2>2
<1> QED BY <1>19, <1>20, <1>21, QueuesMake DEF Fronted

(* The queues stay linked.                                                  *)
LEMMA QueuesStep == ASSUME IInv, NEW t \in Threads, Step(t) PROVE QueuesLinked'
<1>t. pc \in [Threads -> Labels] /\ next \in [Nodes -> Nodes \cup {None}]
      /\ queued \in [Nodes -> Atls \cup {None}] /\ list \in [Blocks -> Kinds]
  BY DEF IInv, Own, RegTypes, MemTypes
<1>c. /\ pc[t] \notin NoTls \cup {"idle"} => tls[t] \in Atls
      /\ pc[t] \in Holds => tl2[t] \in Atls
      /\ pc[t] \in Inits => ret[t] \in {"free", "m_slab", "m_heap"}
  BY ThreadTypes DEF IInv, Own, Control
<1>1. CASE \/ InitLock(t) \/ InitTake(t) \/ InitHazard(t) \/ DestroyTls(t) \/ DestroyPush(t)
           \/ PrependHazard(t) \/ PrependAgain(t) \/ PrependClear(t)
           \/ ReapLock(t) \/ ReapMerged(t) \/ ReapWait(t)
  <2>1. UNCHANGED <<next, queued, tail, head, gone, list>>
    BY <1>1 DEF InitLock, InitTake, InitHazard, DestroyTls, DestroyPush, PrependHazard,
        PrependAgain, PrependClear, ReapLock, ReapMerged, ReapWait, links, blocks, lists
  <2>2. pc[t] \notin {"p_link", "scan"} /\ pc'[t] \notin {"p_link", "scan"}
    BY <1>1, <1>t, <1>c DEF InitLock, InitTake, InitHazard, DestroyTls, DestroyPush,
        PrependHazard, PrependAgain, PrependClear, ReapLock, ReapMerged, ReapWait, On, Call,
        Goto, Inits
  <2> QED BY <2>1, <2>2, QueuesQuiet DEF life
<1>2. CASE MallocAux(t)
  <2>1. UNCHANGED <<next, queued, tail, head, gone, list>>
    BY <1>2 DEF MallocAux, InitTls, links, blocks, lists
  <2>2. pc[t] \notin {"p_link", "scan"} /\ pc'[t] \notin {"p_link", "scan"}
    BY <1>2, <1>t DEF MallocAux, InitTls, Call, Goto
  <2> QED BY <2>1, <2>2, QueuesQuiet DEF life
<1>3. CASE Free(t) \/ FreeAux(t)
  <2>1. PICK n \in Nodes :
          /\ Mine(t, n)
          /\ (pc[t] = "idle" /\ n \in inUse) \/ (pc[t] = "free" /\ n = p[t])
          /\ InitTls(t, "free") \/ (tls[t] # None /\ FreeNode(t, n))
    BY <1>3, FreeCases
  <2>2. UNCHANGED <<head, tail, gone>>
    BY <1>3, FreeCases DEF lists
  <2>3. pc[t] \notin {"p_link", "scan"} /\ pc'[t] \notin {"p_link", "scan"}
    BY <1>t, <2>1 DEF InitTls, FreeNode, Goto
  <2>4. CASE UNCHANGED <<blocks, links>>
    BY <2>2, <2>3, <2>4, QueuesQuiet DEF life, blocks, links
  <2>5. CASE tls[t] # None /\ FreeLocal(tls[t], n)
    <3>1. tls[t] \in Atls
      BY <2>5, ThreadTypes
    <3>2. queued[n] = None
      BY <2>1, NodesUse, NodeFacts
    <3>3. next[n] = None
      BY <3>2, QueuesUse DEF Linked
    <3>4. next' = next /\ queued' = queued
      BY <1>t, <2>5, <3>2, <3>3 DEF FreeLocal
    <3>5. \A o \in Atls : list'[o] = list[o]
      BY <2>1, <2>5, <3>1, FreeLocalFrame
    <3>6. life' = life
      BY <2>2, <3>5 DEF life
    <3> QED BY <2>2, <2>3, <3>4, <3>6, QueuesQuiet
  <2> QED BY <2>1, <2>4, <2>5 DEF InitTls, FreeNode
<1>4. CASE MallocSlab(t) \/ MallocHeap(t)
  <2>1. /\ UNCHANGED <<next, queued, tail, head, gone, tls, tl2>> /\ tls[t] \in Atls
        /\ pc[t] \notin {"p_link", "scan"}
    BY <1>4, TakeCases DEF links, lists, reap
  <2>2. CASE \E b \in Blocks : \E n \in free[b] : Live(b) /\ TakeNode(b, n) /\ Goto(t, "idle")
    <3>1. pc'[t] = "idle"
      BY <1>t, <2>2 DEF Goto
    <3>2. PICK b \in Blocks : \E n \in free[b] : Live(b) /\ TakeNode(b, n)
      BY <2>2
    <3>3. \E l \in {"bl", "partial", "full"} : list' = [list EXCEPT ![b] = l] /\ list[b] # "new"
      BY <3>2 DEF TakeNode, Live
    <3>4. \A o \in Atls : list'[o] = "new" <=> list[o] = "new"
      BY <1>t, <3>3, NodeFacts, SMTT(20), SMTT(30)
    <3>5. life' = life
      BY <2>1, <3>4 DEF life
    <3> QED BY <2>1, <3>1, <3>5, QueuesQuiet
  <2>3. CASE UNCHANGED <<blocks, inUse>> /\ pc'[t] \in {"m_create", "r_check"}
    BY <2>1, <2>3, QueuesQuiet DEF life, blocks
  <2>4. CASE UNCHANGED blocks /\ StartScan(t, tls[t], "m_create")
    BY <2>1, <2>4, QueuesStart DEF blocks
  <2>5. \/ \E b \in OnList(tls[t], "partial") \cup OnList(tls[t], "bl") : \E n \in free[b] :
               TakeNode(b, n) /\ Goto(t, "idle")
        \/ UNCHANGED <<blocks, inUse>> /\ \E l \in {"m_create", "r_check"} : Goto(t, l)
        \/ UNCHANGED blocks /\ StartScan(t, tls[t], "m_create")
    BY <1>4 DEF MallocSlab, MallocHeap
  <2> QED BY <1>t, <2>2, <2>3, <2>4, <2>5 DEF OnList, Live, Goto
<1>5. CASE MallocCreate(t)
  <2>1. /\ UNCHANGED <<next, queued, tail, head, gone>> /\ pc[t] = "m_create"
        /\ pc'[t] \in {"m_slab", "m_heap"}
    BY <1>5, <1>t DEF MallocCreate, links, lists, On, Goto
  <2>2. \A o \in Atls : list'[o] = list[o]
    <3>1. CASE UNCHANGED blocks
      BY <3>1 DEF blocks
    <3>2. CASE SlabCreate(tls[t])
      <4>1. tls[t] \in Atls
        BY <1>c, <2>1 DEF NoTls
      <4>2. PICK c \in Chunks(tls[t]) : \E s \in c : list' = [list EXCEPT ![s] = "partial"]
        BY <3>2 DEF SlabCreate
      <4>3. PICK s \in c : list' = [list EXCEPT ![s] = "partial"]
        BY <4>2
      <4>4. s \in Slabs
        BY <4>1, ChunkFacts
      <4> QED BY <1>t, <4>3, <4>4, NodeFacts, SMTT(20), SMTT(30)
    <3> QED BY <1>5, <3>1, <3>2 DEF MallocCreate
  <2>3. life' = life
    BY <2>1, <2>2 DEF life
  <2> QED BY <2>1, <2>3, QueuesQuiet
<1>6. CASE MallocBlock(t)
  <2>1. /\ UNCHANGED <<next, queued, tail, head, gone>> /\ pc[t] = "m_scanned"
        /\ pc'[t] \in {"m_heap", "idle"}
    BY <1>6, <1>t DEF MallocBlock, links, lists, On, Goto
  <2>2. \A o \in Atls : list'[o] = list[o]
    <3>1. CASE UNCHANGED blocks
      BY <3>1 DEF blocks
    <3>2. CASE \E b \in Fresh(Pages) : list' = [list EXCEPT ![b] = "bl"]
      BY <1>t, <3>2, FreshFacts, NodeFacts, SMTT(20), SMTT(30)
    <3> QED BY <1>6, <3>1, <3>2 DEF MallocBlock
  <2>3. life' = life
    BY <2>1, <2>2 DEF life
  <2> QED BY <2>1, <2>3, QueuesQuiet
<1>7. CASE ReapCheck(t) \/ ReapTry(t) \/ ReapTake(t)
  <2>1. /\ UNCHANGED <<next, queued, tail, head, gone, list, tls>> /\ pc[t] \in Reaps
        /\ \/ StartScan(t, tls[t], "m_scanned") /\ tl2' = tl2
           \/ \E l \in {"r_try", "r_take", "r_hlock"} : Goto(t, l)
    BY <1>7 DEF ReapCheck, ReapTry, ReapTake, NoneDead, links, blocks, lists, reap, On, Reaps
  <2>2. tls[t] \in Atls /\ pc[t] \notin {"p_link", "scan"}
    BY <1>c, <2>1 DEF Reaps, NoTls
  <2>3. CASE StartScan(t, tls[t], "m_scanned") /\ tl2' = tl2
    BY <2>1, <2>2, <2>3, QueuesStart
  <2>4. CASE \E l \in {"r_try", "r_take", "r_hlock"} : Goto(t, l)
    BY <1>t, <2>1, <2>2, <2>4, QueuesQuiet DEF life, Goto
  <2> QED BY <2>1, <2>3, <2>4
<1>8. CASE ReapScan(t)
  <2>1. /\ UNCHANGED <<next, queued, tail, head, gone, list, tls, tl2>> /\ pc[t] = "r_wait"
        /\ StartScan(t, tl2[t], "r_free")
    BY <1>8 DEF ReapScan, links, blocks, reap, On
  <2>2. tl2[t] \in Atls
    BY <1>c, <2>1 DEF Holds
  <2> QED BY <2>1, <2>2, QueuesStart
<1>9. CASE ReapMerge(t)
  <2>1. UNCHANGED <<next, queued, tail, head, gone, pc>> /\ pc[t] = "r_merge"
    BY <1>9 DEF ReapMerge, links, lists, On
  <2>2. PICK b \in Merged(tl2[t]) :
          list' = [list EXCEPT ![b] = IF b \in Slabs /\ Used(b) = {} THEN "full" ELSE list[b]]
    BY <1>9 DEF ReapMerge
  <2>3. \A o \in Atls : list'[o] = list[o]
    BY <1>t, <2>2, NodeFacts, SMTT(20), SMTT(30)
  <2>4. life' = life
    BY <2>1, <2>3 DEF life
  <2> QED BY <2>1, <2>4, QueuesQuiet
<1> QED BY <1>1, <1>2, <1>3, <1>4, <1>5, <1>6, <1>7, <1>8, <1>9, XchgQueues, LinkQueues,
           ScanFreeQueues, ScanLastQueues, ReapFreeQueues, InitNewQueues, Zenon DEF Step
-----------------------------------------------------------------------------
(* The first state, and every step *)

(* Nothing is in use at first.                                              *)
LEMMA InitOwn == ASSUME Init PROVE Own /\ R!Init
<1>1. MemTypes
  BY DEF Init, MemTypes, Kinds
<1>2. RegTypes
  BY DEF Init, RegTypes, Labels
<1>3. Control
  BY DEF Init, Control, NoTls, Prepends, Inits, Holds
<1>4. Joined
  BY DEF Init, Joined
<1>5. ChunksApart
  BY DEF Init, ChunksApart, Live
<1>6. NodesApart
  BY NodeFacts DEF Init, NodesApart, Busy
<1>7. life = [a \in Atls |-> "new"]
  BY NodeFacts DEF Init, life
<1>8. QueuesLinked
  BY <1>7 DEF Init, QueuesLinked
<1>9. home = [b \in Blocks |-> None] /\ blk = [t \in Threads |-> None]
  BY DEF Init, home, blk, Live
<1>10. st = [t \in Threads |-> "other"] /\ rp = [t \in Threads |-> "none"]
  BY DEF Init, st, rp, Publishing, Reaping
<1>11. R!Init
  BY <1>7, <1>9, <1>10 DEF Init, R!Init
<1> QED BY <1>1, <1>2, <1>3, <1>4, <1>5, <1>6, <1>8, <1>11 DEF Own

(* A step of one thread, or of none, keeps what LLQueue has of its own, and *)
(* is a step of the protocol or leaves it as it is.                         *)
LEMMA NextOwn == ASSUME IInv, [Next]_vars PROVE Own' /\ [R!Next]_(R!vars)
<1>1. CASE \E t \in Threads : Step(t)
  <2>1. PICK t \in Threads : Step(t)
    BY <1>1
  <2>2. Own'
    BY <2>1, MemTypesStep, RegTypesStep, ControlStep, JoinedStep, ChunksStep, NodesStep,
       QueuesStep, Zenon DEF Own
  <2>3. [R!Next]_(R!vars)
    BY <2>1, Simulates DEF R!Next
  <2> QED BY <2>2, <2>3
<1>2. CASE UNCHANGED vars
  <2>1. /\ UNCHANGED <<tls, d_list, h_list, gone, hazard, head, tail, next, queued>>
        /\ UNCHANGED <<owner, list, free, chunk, pc_slab, inUse, pc, ret, p, bt, old>>
        /\ UNCHANGED <<tl2, wait, q>>
    BY <1>2 DEF vars, lists, links, blocks, prepend, reap, scan
  <2>2. life' = life /\ home' = home /\ blk' = blk /\ st' = st /\ rp' = rp
    BY <2>1 DEF life, home, blk, st, rp, Live
  <2>3. UNCHANGED R!vars
    BY <2>1, <2>2 DEF R!vars
  <2>4. MemTypes' /\ RegTypes'
    BY <2>1 DEF IInv, Own, MemTypes, RegTypes
  <2>5. Control' /\ Joined'
    BY <2>1 DEF IInv, Own, Control, Joined
  <2>6. ChunksApart' /\ NodesApart'
    BY <2>1 DEF IInv, Own, ChunksApart, NodesApart, Live, Busy
  <2>7. QueuesLinked'
    <3>1. /\ \A n \in Nodes : Unlinked(n)' <=> Unlinked(n)
          /\ \A t \in Threads : Scanned(t)' = Scanned(t)
          /\ \A a \in Atls : Scanners(a)' = Scanners(a)
      BY <2>1 DEF Unlinked, Scanned, Scanners
    <3>2. /\ \A a, n : IsFront(a, n) => IsFront(a, n)'
          /\ \A a, n : IsEnd(a, n) => IsEnd(a, n)'
      BY <2>1, <3>1 DEF IsFront, IsEnd
    <3>3. Linked /\ Fronted
      BY QueuesUse
    <3>4. Linked'
      <4>1. \A m \in Nodes : next'[m] # None =>
               queued'[m] # None /\ queued'[next'[m]] = queued'[m] /\ ~ Unlinked(next[m])'
        BY <2>1, <3>1, <3>3, SMTT(20), SMTT(30) DEF Linked, IInv, Own, MemTypes
      <4>2. /\ \A m, n \in Nodes : next'[m] # None /\ next'[m] = next'[n] => m = n
            /\ \A a \in Atls : life'[a] = "live" => IsEnd(a, tail[a])'
        BY <2>1, <2>2, <3>2, <3>3 DEF Linked
      <4>3. /\ \A t \in Threads : pc'[t] = "p_link" => /\ IsEnd(bt[t], old[t])'
                                                       /\ old'[t] # tail'[bt'[t]]
            /\ \A t, u \in Threads :
                  pc'[t] = "p_link" /\ pc'[u] = "p_link" /\ old'[t] = old'[u] => t = u
        BY <2>1, <3>2, <3>3 DEF Linked
      <4> QED BY <4>1, <4>2, <4>3 DEF Linked
    <3>5. Fronted'
      BY <2>1, <2>2, <3>1, <3>2, <3>3 DEF Fronted
    <3> QED BY <3>4, <3>5, QueuesMake
  <2> QED BY <2>3, <2>4, <2>5, <2>6, <2>7 DEF Own
<1> QED BY <1>1, <1>2 DEF Next, Finished

-----------------------------------------------------------------------------
(* Whose nodes are in a queue *)

(* A node in a queue, or about to be put there, is of a block that the atls *)
(* of the queue has, or had before it is merged.                            *)
Kept ==
    /\ \A n \in Nodes : queued[n] \in Queues => owner[n[1]] \in Keepers(queued[n])
    /\ \A t \in Threads : pc[t] = "p_xchg" => owner[p[t][1]] \in Keepers(bt[t])

(* A keeper of a queue remains one as long as the queue is there.           *)
LEMMA KeepersGrow ==
    ASSUME IInv, NEW t \in Threads, Step(t), NEW a \in Atls, a \notin gone', NEW o \in Keepers(a)
    PROVE  o \in Keepers(a)'
<1>1. CASE o = a
  <2>1. a \in Keepers(a)'
    BY SMT DEF Keepers
  <2> QED BY <1>1, <2>1
<1>2. CASE \E u \in Threads : tl2[u] = a /\ tls[u] # None /\ o = tls[u]
  <2>1. PICK u \in Threads : tl2[u] = a /\ tls[u] # None /\ o = tls[u]
    BY <1>2
  <2>2. tl2'[u] = a /\ tls'[u] = tls[u]
    <3>1. CASE u # t
      BY <2>1, <3>1, Others
    <3>2. CASE u = t
      <4>1. tls[t] # None /\ tl2[t] # None /\ tl2[t] = a
        BY <2>1, <3>2, NodeFacts
      <4>2. life'[a] # "gone"
        BY DEF life
      <4>3. life \in [Atls -> {"new", "live", "gone"}]
        BY DEF life
      <4>4. CASE UNCHANGED R!vars
        BY <2>1, <4>4 DEF R!vars
      <4>5. CASE R!Step(t)
        <5>1. ~ (R!New(t) \/ R!Adopt(t) \/ R!Exit(t) \/ R!ReapTake(t))
          BY <4>1, Zenon DEF R!New, R!Adopt, R!Exit, R!ReapTake
        <5>2. ~ R!Bury(t)
          BY <4>1, Zenon DEF R!Bury
        <5>3. ~ R!Return(t)
          BY <4>1, <4>2, <4>3 DEF R!Return
        <5>4. UNCHANGED <<tls, tl2>>
          BY <4>5, <5>1, <5>2, <5>3, Zenon DEF R!Step, R!Join, R!Obtain, R!FreeOwn, R!Take, R!Read,
             R!Publish, R!Confirm, R!Use, R!Clear, R!ReapStart, R!Merge, R!Merged, R!Wait,
             R!TakeApart
        <5> QED BY <2>1, <5>4
      <4> QED BY <4>4, <4>5, Simulates
    <3> QED BY <3>1, <3>2
  <2> QED BY <2>1, <2>2 DEF Keepers
<1> QED BY <1>1, <1>2 DEF Keepers

(* A block that stays in use only moves to the thread that merges.          *)
LEMMA HomeMoves ==
    ASSUME IInv, NEW t \in Threads, Step(t), NEW b \in Blocks, home[b] # None, home'[b] # None,
           home'[b] # home[b]
    PROVE  /\ home[b] = tl2[t] /\ home'[b] = tls[t]
           /\ tls'[t] = tls[t] /\ tl2'[t] = tl2[t] /\ tls[t] # None
<1>t. home \in [Blocks -> Atls \cup {None}]
  BY DEF IInv, R!IInv, R!Types
<1>1. ~ UNCHANGED home
  OBVIOUS
<1>2. R!Step(t)
  BY <1>1, Simulates DEF R!vars
<1>3. ~ (R!New(t) \/ R!Obtain(t))
  BY <1>t DEF R!New, R!Obtain
<1>4. ~ R!Emptied(t)
  BY <1>t DEF R!Emptied
<1>5. ~ (R!FreeOwn(t) \/ R!Return(t))
  BY <1>4, Zenon DEF R!FreeOwn, R!Return
<1>6. R!Merge(t)
  BY <1>1, <1>2, <1>3, <1>5, Zenon DEF R!Step, R!Join, R!Adopt, R!Exit, R!Bury, R!Take, R!Read,
     R!Publish, R!Confirm, R!Use, R!Clear, R!ReapTake, R!ReapStart, R!Merged, R!Wait,
     R!TakeApart
<1>7. UNCHANGED <<tls, tl2>> /\ rp[t] = "merge"
  BY <1>6 DEF R!Merge
<1>8. PICK c \in Blocks : home[c] = tl2[t] /\ home' = [home EXCEPT ![c] = tls[t]]
  BY <1>6 DEF R!Merge
<1>9. c = b
  BY <1>t, <1>8
<1>10. home[b] = tl2[t] /\ home'[b] = tls[t]
  BY <1>t, <1>8, <1>9
<1>11. tls[t] # None
  BY <1>7 DEF IInv, R!IInv, R!Holding
<1> QED BY <1>7, <1>10, <1>11

(* A block whose node is on its way moves to another keeper at most.        *)
LEMMA KeeperMoves ==
    ASSUME IInv, IInv', NEW t \in Threads, Step(t), NEW n \in Nodes, Busy(n), Busy(n)',
           NEW a \in Atls, a \notin gone', owner[n[1]] \in Keepers(a)
    PROVE  owner'[n[1]] \in Keepers(a)'
<1>b. PICK b \in Blocks : b = n[1]
  BY NodeFacts
<1>1. Live(b) /\ Live(b)'
  <2>1. Live(b)
    BY <1>b, NodesUse
  <2>2. \A m \in Nodes : Busy(m)' => Live(m[1])'
    BY DEF IInv, Own, NodesApart
  <2> QED BY <1>b, <2>1, <2>2 DEF Live
<1>2. owner[b] # None /\ owner'[b] # None
  <2>1. owner[b] # None
    BY <1>1, ChunksUse
  <2>2. \A c \in Blocks : Live(c)' => owner'[c] # None
    BY DEF IInv, Own, ChunksApart
  <2> QED BY <1>1, <2>1, <2>2
<1>3. home[b] = owner[b] /\ home'[b] = owner'[b]
  BY <1>1 DEF home, Live
<1>4. CASE home'[b] = home[b]
  BY <1>b, <1>3, <1>4, KeepersGrow
<1>5. CASE home'[b] # home[b]
  <2>1. /\ owner[b] = tl2[t] /\ owner'[b] = tls[t] /\ tls'[t] = tls[t] /\ tl2'[t] = tl2[t]
        /\ tls[t] # None
    BY <1>2, <1>3, <1>5, HomeMoves
  <2>2. \A u \in Threads : tls[u] # None => tls[u] # tl2[t]
    BY DEF IInv, R!IInv, R!OnePlace
  <2>3. a = tl2[t]
    BY <1>b, <2>1, <2>2 DEF Keepers
  <2> QED BY <1>b, <2>1, <2>3 DEF Keepers
<1> QED BY <1>4, <1>5

(* How a node comes into a queue.                                           *)
LEMMA QueuedMoves ==
    ASSUME IInv, NEW t \in Threads, Step(t), NEW n \in Nodes, queued'[n] # queued[n],
           queued'[n] # None
    PROVE  \/ PrependXchg(t) /\ n = p[t] /\ queued'[n] = bt[t]
           \/ n[1] \in Atls /\ queued'[n] = n[1] /\ owner'[n[1]] = n[1]
<1>t. queued \in [Nodes -> Atls \cup {None}] /\ owner \in [Blocks -> Atls \cup {None}]
  BY DEF IInv, Own, MemTypes
<1>1. CASE PrependXchg(t)
  BY <1>1, <1>t DEF PrependXchg
<1>2. CASE InitNew(t)
  <2>1. PICK a \in Fresh(Atls) : /\ owner' = [owner EXCEPT ![a] = a]
                                 /\ queued' = [queued EXCEPT ![<<a, 0>>] = a]
    BY <1>2 DEF InitNew
  <2>2. a \in Atls /\ a \in Blocks
    BY FreshFacts, NodeFacts
  <2>3. n = <<a, 0>> /\ queued'[n] = a
    BY <1>t, <2>1
  <2> QED BY <1>t, <2>1, <2>2, <2>3
<1>3. CASE \E m : queued' = [queued EXCEPT ![m] = None]
  BY <1>t, <1>3
<1>4. CASE Free(t) \/ FreeAux(t)
  <2>1. queued' = queued \/ \E m : queued' = [queued EXCEPT ![m] = None]
    BY <1>4 DEF Free, FreeAux, InitTls, FreeNode, FreeLocal, links
  <2> QED BY <1>3, <2>1
<1>5. CASE ScanFree(t) \/ ReapFree(t)
  BY <1>3, <1>5 DEF ScanFree, ReapFree, FreeLocal
<1>6. CASE ~ (PrependXchg(t) \/ InitNew(t) \/ Free(t) \/ FreeAux(t) \/ ScanFree(t) \/ ReapFree(t))
  <2>1. queued' = queued
    BY <1>6 DEF Step, InitLock, InitTake, InitHazard, DestroyTls, DestroyPush, PrependHazard,
       PrependAgain, PrependLink, PrependClear, MallocAux, InitTls, ScanLast, MallocSlab,
       MallocCreate, MallocHeap, MallocBlock, ReapCheck, ReapTry, ReapTake, ReapLock, ReapMerge,
       ReapMerged, ReapWait, ReapScan, links
  <2> QED BY <2>1
<1> QED BY <1>1, <1>2, <1>4, <1>5, <1>6

(* A thread that is about to exchange the tail has just read the owner.     *)
LEMMA XchgFrom ==
    ASSUME IInv, NEW t \in Threads, Step(t), pc'[t] = "p_xchg"
    PROVE  owner'[p'[t][1]] = bt'[t]
<1>t. pc \in [Threads -> Labels] /\ bt \in [Threads -> Atls \cup {None}]
  BY ThreadTypes DEF IInv, Own, RegTypes
<1>1. CASE PrependAgain(t)
  BY <1>1, <1>t DEF PrependAgain, Goto, blocks
<1>2. CASE \/ InitLock(t) \/ InitTake(t) \/ InitNew(t) \/ InitHazard(t) \/ DestroyTls(t)
           \/ DestroyPush(t) \/ ScanLast(t)
  BY <1>2, <1>t DEF InitLock, InitTake, InitNew, InitHazard, DestroyTls, DestroyPush,
     ScanLast, On, Goto, IInv, Own, Control, Inits
<1>3. CASE \/ Free(t) \/ FreeAux(t) \/ MallocAux(t) \/ PrependHazard(t) \/ PrependXchg(t)
           \/ PrependLink(t) \/ PrependClear(t)
  BY <1>3, <1>t DEF Free, FreeAux, MallocAux, InitTls, FreeNode, PrependHazard, PrependXchg,
     PrependLink, PrependClear, Goto
<1>4. CASE \/ ScanFree(t) \/ MallocSlab(t) \/ MallocCreate(t) \/ MallocHeap(t)
           \/ MallocBlock(t)
  BY <1>4, <1>t DEF ScanFree, MallocSlab, MallocCreate, MallocHeap, MallocBlock, StartScan,
     Goto, On
<1>5. CASE \/ ReapCheck(t) \/ ReapTry(t) \/ ReapTake(t) \/ ReapLock(t) \/ ReapMerge(t)
           \/ ReapMerged(t) \/ ReapWait(t) \/ ReapScan(t) \/ ReapFree(t)
  BY <1>5, <1>t DEF ReapCheck, ReapTry, ReapTake, ReapLock, ReapMerge, ReapMerged, ReapWait,
     ReapScan, ReapFree, NoneDead, StartScan, Goto, On
<1> QED BY <1>1, <1>2, <1>3, <1>4, <1>5, Zenon DEF Step

(* Steps keep to it.                                                        *)
LEMMA NextKept == ASSUME IInv, IInv', Kept, [Next]_vars PROVE Kept'
<1>1. CASE \E t \in Threads : Step(t)
  <2>t. PICK t \in Threads : Step(t)
    BY <1>1
  <2>1. ASSUME NEW n \in Nodes, queued'[n] \in Queues'
        PROVE  owner'[n[1]] \in Keepers(queued[n])'
    <3>a. PICK a \in Atls : a = queued'[n]
      BY <2>1 DEF Queues
    <3>1. a \notin gone' /\ a # None
      BY <2>1, <3>a, NodeFacts DEF Queues
    <3>2. owner'[n[1]] \in Keepers(a)'
      <4>1. CASE queued'[n] = queued[n]
        <5>1. Busy(n) /\ Busy(n)'
          BY <3>a, <3>1, <4>1 DEF Busy
        <5>2. a \in Queues
          <6>1. a \in gone => a \in gone'
            <7>1. gone' = gone \/ \E x : gone' = gone \cup {x}
              BY <2>t DEF Step, InitLock, InitTake, InitNew, InitHazard, DestroyTls, DestroyPush,
                 Free, FreeAux, FreeNode, PrependHazard, PrependAgain, PrependXchg, PrependLink,
                 PrependClear, MallocAux, InitTls, ScanFree, ScanLast, MallocSlab, MallocCreate,
                 MallocHeap, MallocBlock, ReapCheck, ReapTry, ReapTake, ReapLock, ReapMerge,
                 ReapMerged, ReapWait, ReapScan, ReapFree, lists
            <7> QED BY <7>1
          <6> QED BY <3>1, <6>1 DEF Queues
        <5>3. owner[n[1]] \in Keepers(a)
          BY <3>a, <4>1, <5>2 DEF Kept
        <5> QED BY <2>t, <3>1, <5>1, <5>3, KeeperMoves
      <4>2. CASE queued'[n] # queued[n]
        <5>1. \/ PrependXchg(t) /\ n = p[t] /\ queued'[n] = bt[t]
              \/ n[1] \in Atls /\ queued'[n] = n[1] /\ owner'[n[1]] = n[1]
          BY <2>t, <3>a, <3>1, <4>2, QueuedMoves
        <5>2. CASE PrependXchg(t) /\ n = p[t] /\ queued'[n] = bt[t]
          <6>1. pc[t] = "p_xchg" /\ UNCHANGED <<owner, tls, tl2>>
            BY <5>2 DEF PrependXchg, On, blocks, reap
          <6>2. owner[n[1]] \in Keepers(a)
            BY <3>a, <5>2, <6>1 DEF Kept
          <6> QED BY <6>1, <6>2 DEF Keepers
        <5>3. CASE n[1] \in Atls /\ queued'[n] = n[1] /\ owner'[n[1]] = n[1]
          BY <3>a, <5>3 DEF Keepers
        <5> QED BY <5>1, <5>2, <5>3
      <4> QED BY <4>1, <4>2
    <3> QED BY <3>a, <3>2 DEF Keepers
  <2>2. ASSUME NEW u \in Threads, pc'[u] = "p_xchg"
        PROVE  owner'[p'[u][1]] \in Keepers(bt[u])'
    <3>1. CASE u = t
      BY <2>t, <2>2, <3>1, XchgFrom DEF Keepers
    <3>2. CASE u # t
      <4>1. pc[u] = "p_xchg" /\ p'[u] = p[u] /\ bt'[u] = bt[u]
        BY <2>t, <2>2, <3>2, Others
      <4>2. p[u] \in Nodes /\ bt[u] \in Atls
        BY <4>1, LinkFacts
      <4>3. bt[u] \notin gone'
        <5>1. st'[u] = "use"
          BY <2>2 DEF st, Publishing
        <5>2. life'[bt'[u]] = "live"
          BY <5>1 DEF IInv, R!IInv, R!Protected
        <5> QED BY <4>1, <4>2, <5>2 DEF life
      <4>n. PICK n \in Nodes : n = p[u]
        BY <4>2
      <4>a. PICK a \in Atls : a = bt[u]
        BY <4>2
      <4>4. Busy(n) /\ Busy(n)'
        BY <4>1, <4>n DEF Busy
      <4>5. owner[n[1]] \in Keepers(a)
        BY <4>1, <4>n, <4>a DEF Kept
      <4>6. owner'[n[1]] \in Keepers(a)'
        BY <2>t, <4>3, <4>a, <4>4, <4>5, KeeperMoves
      <4> QED BY <4>1, <4>n, <4>a, <4>6 DEF Keepers
    <3> QED BY <3>1, <3>2
  <2> QED BY <2>1, <2>2 DEF Kept
<1>2. CASE UNCHANGED vars
  <2>1. UNCHANGED <<queued, gone, owner, tls, tl2, pc, p, bt>>
    BY <1>2 DEF vars, links, lists, blocks, reap, prepend
  <2> QED BY <2>1 DEF Kept, Queues, Keepers
<1> QED BY <1>1, <1>2 DEF Next, Finished

(* So scan_queue and reap_dead free nodes of their own thread.              *)
LEMMA KeptFreesOwn == ASSUME IInv, Kept PROVE FreesOwn
<1>1. ASSUME NEW t \in Threads, NEW a \in {tls[t], tl2[t]}, a # None, NEW n, IsFront(a, n),
             a = tl2[t] => rp[t] = "apart", tls[t] # None
      PROVE  owner[n[1]] = tls[t]
  <2>1. a \in Atls /\ life[a] = "live"
    BY <1>1, ThreadTypes DEF IInv, R!IInv, R!OnePlace
  <2>2. n \in Nodes /\ queued[n] = a /\ a \in Queues
    BY <1>1, <2>1 DEF IsFront, Queues, life
  <2>3. owner[n[1]] \in Keepers(a)
    BY <2>2 DEF Kept
  <2>4. CASE a = tls[t]
    <3>1. \A u \in Threads : tl2[u] # a
      BY <1>1, <2>4 DEF IInv, R!IInv, R!OnePlace
    <3> QED BY <2>3, <2>4, <3>1 DEF Keepers
  <2>5. CASE a = tl2[t]
    <3>1. \A u \in Threads : tl2[u] = a => u = t
      BY <1>1, <2>5 DEF IInv, R!IInv, R!OnePlace
    <3>2. owner[n[1]] = a \/ owner[n[1]] = tls[t]
      BY <2>3, <3>1 DEF Keepers
    <3>3. n[1] \in Blocks /\ Live(n[1])
      BY <1>1, <2>2, NodesUse, NodeFacts DEF Busy
    <3>4. home[n[1]] = owner[n[1]]
      BY <3>3 DEF home
    <3>5. home[n[1]] # a
      BY <1>1, <2>5, <3>3 DEF IInv, R!IInv, R!Homes
    <3> QED BY <3>2, <3>4, <3>5
  <2> QED BY <1>1, <2>4, <2>5
<1>2. ASSUME NEW t \in Threads, pc[t] = "scan" PROVE owner[q[t][1]] = tls[t]
  <2>1. IsFront(Scanned(t), q[t]) /\ tls[t] # None /\ Scanned(t) # None
    BY <1>2, ScanFront, NodeFacts, SMTT(20), SMTT(30) DEF IInv, Own, Control, NoTls
  <2>2. CASE ret[t] = "r_free"
    <3>1. Scanned(t) = tl2[t] /\ rp[t] = "apart"
      BY <1>2, <2>1, <2>2 DEF Scanned, rp, Reaping
    <3> QED BY <1>1, <2>1, <3>1
  <2>3. CASE ret[t] # "r_free"
    <3>1. Scanned(t) = tls[t] /\ tls[t] # tl2[t]
      BY <2>1, <2>3 DEF Scanned, IInv, R!IInv, R!OnePlace
    <3> QED BY <1>1, <2>1, <3>1
  <2> QED BY <2>2, <2>3
<1>3. ASSUME NEW t \in Threads, pc[t] = "r_free" PROVE owner[head[tl2[t]][1]] = tls[t]
  <2>1. tls[t] # None /\ tl2[t] # None
    BY <1>3 DEF IInv, Own, Control, NoTls, Holds
  <2>2. IsFront(tl2[t], head[tl2[t]]) /\ rp[t] = "apart"
    BY <1>3, <2>1, HeadFront DEF rp, Reaping
  <2> QED BY <1>1, <2>1, <2>2
<1> QED BY <1>2, <1>3 DEF Kept, FreesOwn

-----------------------------------------------------------------------------
(* The theorems *)

(* What Reclaim_proofs proves of the protocol.                              *)
P == INSTANCE Reclaim_proofs WITH joined <- h_list, dead <- d_list, hold <- tl2

(* The protocol starts in its invariant, ...                                *)
LEMMA ReclaimInit == ASSUME R!Init PROVE R!IInv
<1>1. P!NoneApart
  BY NodeFacts DEF P!NoneApart
<1>2. P!Init
  BY DEF R!Init, P!Init
<1>3. P!IInv
  BY <1>1, <1>2, P!InitIInv
<1> QED
  BY <1>3, Zenon DEF P!IInv, P!Types, P!OnePlace, P!Holding, P!Homes, P!InUse, P!Published,
     P!Protected, P!AtWork, P!States, P!Phases, R!IInv, R!Types, R!OnePlace, R!Holding,
     R!Homes, R!InUse, R!Published, R!Protected, R!AtWork, R!States, R!Phases

(* ... and its steps keep it.                                               *)
LEMMA ReclaimNext == ASSUME R!IInv, [R!Next]_(R!vars) PROVE R!IInv'
<1>1. P!NoneApart
  BY NodeFacts DEF P!NoneApart
<1>2. P!IInv
  BY Zenon DEF P!IInv, P!Types, P!OnePlace, P!Holding, P!Homes, P!InUse, P!Published,
     P!Protected, P!AtWork, P!States, P!Phases, R!IInv, R!Types, R!OnePlace, R!Holding,
     R!Homes, R!InUse, R!Published, R!Protected, R!AtWork, R!States, R!Phases
<1>3. [P!Next]_(P!vars)
  <2>1. ASSUME NEW t \in Threads PROVE R!Step(t) <=> P!Step(t)
    BY Zenon DEF R!Step, R!New, R!Join, R!Adopt, R!Exit, R!Bury, R!Obtain, R!FreeOwn, R!Take,
       R!Read, R!Publish, R!Confirm, R!Use, R!Clear, R!ReapTake, R!ReapStart, R!Merge,
       R!Merged, R!Wait, R!TakeApart, R!Return, R!Emptied, P!Step, P!New, P!Join, P!Adopt,
       P!Exit, P!Bury, P!Obtain, P!FreeOwn, P!Take, P!Read, P!Publish, P!Confirm, P!Use,
       P!Clear, P!ReapTake, P!ReapStart, P!Merge, P!Merged, P!Wait, P!TakeApart, P!Return,
       P!Emptied
  <2>2. R!Next <=> P!Next
    BY <2>1 DEF R!Next, P!Next
  <2>3. UNCHANGED R!vars <=> UNCHANGED P!vars
    BY DEF R!vars, P!vars
  <2> QED BY <2>2, <2>3
<1>4. P!IInv'
  BY <1>1, <1>2, <1>3, P!NextIInv
<1> QED
  BY <1>4, Zenon DEF P!IInv, P!Types, P!OnePlace, P!Holding, P!Homes, P!InUse, P!Published,
     P!Protected, P!AtWork, P!States, P!Phases, R!IInv, R!Types, R!OnePlace, R!Holding,
     R!Homes, R!InUse, R!Published, R!Protected, R!AtWork, R!States, R!Phases

(* The allocator keeps its invariant.                                       *)
THEOREM Invariant == Spec => []IInv
<1>1. Init => IInv
  BY InitOwn, ReclaimInit DEF IInv
<1>2. IInv /\ [Next]_vars => IInv'
  BY NextOwn, ReclaimNext DEF IInv
<1> QED BY <1>1, <1>2, PTL DEF Spec

(* Every step of init_tls, destroy_tls, free, prepend_queue, scan_queue,    *)
(* malloc and reap_dead is one that the protocol of the hazard pointers     *)
(* allows, or changes nothing that the protocol knows of.  This is about    *)
(* the build with tmimem.cpp, in which init_tls never fails and free_nomem  *)
(* is not reached, and about sequentially consistent memory.                *)
THEOREM ImplementsReclaimHolds == Spec => ImplementsReclaim
<1>1. Init => R!Init
  BY InitOwn
<1>2. IInv /\ [Next]_vars => [R!Next]_(R!vars)
  BY NextOwn
<1> QED BY <1>1, <1>2, Invariant, PTL DEF Spec, ImplementsReclaim, R!Spec

(* prepend_queue exchanges the tail of a queue, and links to a node of a    *)
(* queue, that no reap_dead has returned or started to take apart.          *)
THEOREM OwnerStaysHolds == Spec => []OwnerStays
<1>1. IInv => OwnerStays
  BY NodeFacts, SMTT(20), SMTT(30)
     DEF IInv, R!IInv, R!Types, R!Published, R!Protected, R!OwnerStays, OwnerStays
<1> QED BY <1>1, Invariant, PTL

(* reap_dead spins only on the hazard pointer of a thread that is inside    *)
(* prepend_queue.                                                           *)
THEOREM WaitsForWorkHolds == Spec => []WaitsForWork
<1>1. IInv => WaitsForWork
  BY NodeFacts, SMTT(20), SMTT(30)
     DEF IInv, R!IInv, R!Types, R!Holding, R!AtWork, R!WaitsForWork, WaitsForWork
<1> QED BY <1>1, Invariant, PTL

(* scan_queue and reap_dead free only nodes of blocks of their own thread.  *)
THEOREM FreesOwnHolds == Spec => []FreesOwn
<1>1. Init => Kept
  BY NodeFacts, SMTT(20), SMTT(30) DEF Init, Kept, Queues
<1>2. IInv /\ IInv' /\ Kept /\ [Next]_vars => Kept'
  BY NextKept
<1>3. IInv /\ Kept => FreesOwn
  BY KeptFreesOwn
<1> QED BY <1>1, <1>2, <1>3, Invariant, PTL DEF Spec

(* A node that the program has is neither free nor in a queue, no thread is *)
(* freeing it, and its block has not been given up; and two threads never   *)
(* free the same node.                                                      *)
THEOREM NodesApartHolds == Spec => []NodesApart
<1>1. IInv => NodesApart
  BY DEF IInv, Own
<1> QED BY <1>1, Invariant, PTL
=============================================================================
