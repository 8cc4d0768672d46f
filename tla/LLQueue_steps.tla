--------------------------- MODULE LLQueue_steps ----------------------------
(****************************************************************************)
(* The first half of the proof that LLQueue implements Reclaim: the         *)
(* invariant, that under it every step is one of Reclaim, and that every    *)
(* step keeps the types, what a thread has at hand, who is on h_list, where *)
(* the spare slabs are and where the nodes are.  LLQueue_proofs has the     *)
(* queues, and puts the two together.                                       *)
(****************************************************************************)
EXTENDS LLQueue, TLAPS

\* A step that names no prover is tried with Zenon, the SMT solver, and Zenon again.
USE ZenonT(5), SMTT(20), SMTT(30), SMTT(40), ZenonT(20)
-----------------------------------------------------------------------------
(* Where a thread is *)

Inits == {"i_lock", "i_take", "i_new", "i_hlock"}
NoTls == {"i_lock", "i_take", "i_new", "d_lock"}
Prepends == {"p_hazard", "p_again", "p_xchg", "p_link"}
Mallocing == {"m_slab", "m_create", "m_heap", "m_scanned"}
Reaps == {"r_check", "r_try", "r_take"}
Holds == {"d_lock", "r_hlock", "r_merge", "r_wait", "r_free"}
Labels == {"idle", "free", "p_clear", "scan"} \cup Inits \cup Prepends
          \cup Mallocing \cup Reaps \cup Holds
Kinds == {"new", "bl", "partial", "full", "spare"}

(* The memory, and what threads have in hand beside what Reclaim knows of.  *)
MemTypes ==
    /\ head \in [Atls -> Nodes \cup {None}] /\ tail \in [Atls -> Nodes \cup {None}]
    /\ next \in [Nodes -> Nodes \cup {None}] /\ queued \in [Nodes -> Atls \cup {None}]
    /\ owner \in [Blocks -> Atls \cup {None}] /\ list \in [Blocks -> Kinds]
    /\ free \in [Blocks -> SUBSET Nodes]
    /\ chunk \in [Atls -> SUBSET Slabs] /\ pc_slab \in SUBSET (SUBSET Slabs)
    /\ inUse \in SUBSET Nodes

RegTypes ==
    /\ pc \in [Threads -> Labels] /\ ret \in [Threads -> Labels]
    /\ p \in [Threads -> Nodes \cup {None}] /\ old \in [Threads -> Nodes \cup {None}]
    /\ q \in [Threads -> Nodes \cup {None}]

(* What a thread has at hand where it is.                                   *)
Control ==
    \A t \in Threads :
        /\ pc[t] \in NoTls => tls[t] = None
        /\ pc[t] \notin NoTls \cup {"idle"} => tls[t] # None
        /\ p[t] # None <=> \/ pc[t] \in Prepends \cup {"free"}
                           \/ pc[t] \in Inits /\ ret[t] = "free"
        /\ tl2[t] # None <=> pc[t] \in Holds \/ (pc[t] = "scan" /\ ret[t] = "r_free")
        /\ pc[t] \in Inits => ret[t] \in {"free", "m_slab", "m_heap"}
        /\ pc[t] = "scan" => ret[t] \in {"m_create", "m_scanned", "r_free"}

(* The atls of a thread is on h_list from init_atls on.                     *)
Joined ==
    /\ \A t \in Threads : tls[t] # None /\ pc[t] # "i_hlock" => tls[t] \in h_list
    /\ d_list \subseteq h_list
    /\ \A t \in Threads : pc[t] \in {"d_lock", "r_hlock"} => tl2[t] \in h_list

(* Spare slabs are in one chunk each.                                       *)
ChunksApart ==
    /\ \A b \in Blocks : free[b] \subseteq NodesOf(b)
    /\ \A b \in Blocks : Live(b) => owner[b] # None
    /\ \A a \in Atls : a \in gone => list[a] # "new"
    /\ \A a \in Atls : \A s \in chunk[a] : list[s] = "spare"
    /\ \A c \in pc_slab : \A s \in c : list[s] = "spare"
    /\ \A a, o \in Atls : a # o => chunk[a] \cap chunk[o] = {}
    /\ \A a \in Atls : \A c \in pc_slab : c \cap chunk[a] = {}
    /\ \A c, d \in pc_slab : c # d => c \cap d = {}

(* The node is with the program, on its way or in a queue.                  *)
Busy(n) == n \in inUse \/ queued[n] # None \/ \E t \in Threads : p[t] = n

(* A node has one place.                                                    *)
NodesApart ==
    /\ \A n \in Nodes : Busy(n) => n \notin free[n[1]] /\ Live(n[1])
    /\ \A n \in inUse : queued[n] = None /\ \A t \in Threads : p[t] # n
    /\ \A t \in Threads : p[t] # None =>
          queued[p[t]] = IF pc[t] = "p_link" THEN bt[t] ELSE None
    /\ \A t, u \in Threads : p[t] # None /\ p[t] = p[u] => t = u

(* The node is in a queue, but nothing points to it yet.                    *)
Unlinked(n) == \E t \in Threads : pc[t] = "p_link" /\ p[t] = n

IsFront(a, n) ==
    /\ n \in Nodes /\ queued[n] = a /\ ~ Unlinked(n)
    /\ \A m \in Nodes : next[m] # n

(* A node to which the next one can be linked.                              *)
IsEnd(a, n) == n \in Nodes /\ queued[n] = a /\ next[n] = None

(* A queue begins at its front and has as many ends as there are threads    *)
(* between exchanging the tail and storing the link, and one more.          *)
QueuesLinked ==
    /\ \A m \in Nodes : next[m] # None =>
          queued[m] # None /\ queued[next[m]] = queued[m] /\ ~ Unlinked(next[m])
    /\ \A m, n \in Nodes : next[m] # None /\ next[m] = next[n] => m = n
    /\ \A t \in Threads : pc[t] = "scan" => IsFront(Scanned(t), q[t])
    /\ \A a \in Atls : life[a] = "live" /\ Scanners(a) = {} => IsFront(a, head[a])
    /\ \A a \in Atls : life[a] = "live" => IsEnd(a, tail[a])
    /\ \A t \in Threads : pc[t] = "p_link" => /\ IsEnd(bt[t], old[t])
                                              /\ old[t] # tail[bt[t]]
    /\ \A t, u \in Threads : pc[t] = "p_link" /\ pc[u] = "p_link" /\ old[t] = old[u] => t = u

Own == MemTypes /\ RegTypes /\ Control /\ Joined /\ ChunksApart /\ NodesApart /\ QueuesLinked

IInv == Own /\ R!IInv
-----------------------------------------------------------------------------
(* Constants and new memory *)

(* Which nodes a block has: those of the pages and those of the slabs.      *)
LEMMA NodeFacts ==
    /\ \A n \in Nodes : n[1] \in Blocks /\ n \in NodesOf(n[1])
    /\ \A b \in Blocks : \A n \in NodesOf(b) : n \in Nodes /\ n[1] = b
    /\ \A b \in Heap : <<b, 0>> \in NodesOf(b) /\ <<b, 1>> \in NodesOf(b)
    /\ \A a \in Atls : a \in Blocks /\ a \notin Slabs /\ a \notin Pages
    /\ \A s \in Slabs : s \in Blocks
    /\ \A x \in Pages : x \in Blocks /\ x \notin Slabs
    /\ None \notin Atls /\ None \notin Blocks /\ None \notin Nodes
BY ConstAssumption DEF NodesOf, Nodes, Blocks, Heap

(* A page or slab that the allocator obtains is new.                        *)
LEMMA FreshFacts ==
    ASSUME NEW S, NEW b \in Fresh(S)
    PROVE  b \in S /\ list[b] = "new"
BY DEF Fresh

(* NULL is no atls and no block.                                            *)
LEMMA NoneApart == R!NoneApart
BY NodeFacts DEF R!NoneApart

(* The types that both invariants state.                                    *)
LEMMA ThreadTypes ==
    ASSUME IInv
    PROVE  /\ tls \in [Threads -> Atls \cup {None}] /\ tl2 \in [Threads -> Atls \cup {None}]
           /\ bt \in [Threads -> Atls \cup {None}] /\ wait \in [Threads -> SUBSET Atls]
           /\ d_list \in SUBSET Atls /\ h_list \in SUBSET Atls
           /\ hazard \in [Atls -> Atls \cup {None}]
BY DEF IInv, R!IInv, R!Types
-----------------------------------------------------------------------------
(* What the invariant says of a thread that scans or is about to *)

(* The queue of the atls that a thread has or holds is scanned by no other. *)
LEMMA ScannedApart ==
    ASSUME IInv, NEW t \in Threads, NEW u \in Threads, t # u, pc[u] = "scan"
    PROVE  /\ tls[t] # None => Scanned(u) # tls[t]
           /\ tl2[t] # None => Scanned(u) # tl2[t]
           /\ Scanned(u) \in Atls /\ life[Scanned(u)] = "live"
<1>1. Scanned(u) = IF ret[u] = "r_free" THEN tl2[u] ELSE tls[u]
  BY DEF Scanned
<1>2. tls[u] # None /\ (ret[u] = "r_free" => tl2[u] # None)
  BY DEF IInv, Own, Control, NoTls
<1>3. tls[u] \in Atls \cup {None} /\ tl2[u] \in Atls \cup {None}
  BY ThreadTypes
<1> QED BY <1>1, <1>2, <1>3 DEF IInv, R!IInv, R!OnePlace

(* A thread that does not scan finds the front of its queue at the head.    *)
LEMMA HeadFront ==
    ASSUME IInv, NEW t \in Threads, pc[t] # "scan"
    PROVE  /\ tls[t] # None => IsFront(tls[t], head[tls[t]])
           /\ tl2[t] # None => IsFront(tl2[t], head[tl2[t]])
<1>1. ASSUME NEW a \in {tls[t], tl2[t]}, a # None PROVE IsFront(a, head[a])
  <2>1. a \in Atls /\ life[a] = "live"
    BY <1>1, ThreadTypes, SMTT(20), SMTT(30) DEF IInv, R!IInv, R!OnePlace
  <2>2. Scanners(a) = {}
    BY <1>1, ScannedApart DEF Scanners
  <2> QED BY <2>1, <2>2 DEF IInv, Own, QueuesLinked
<1> QED BY <1>1
-----------------------------------------------------------------------------
(* The state of Reclaim *)

Publishes == Prepends \cup {"p_clear"}

(* A jump moves a thread in prepend_queue.                                  *)
LEMMA StStep ==
    ASSUME IInv, NEW t \in Threads, NEW l, Goto(t, l)
    PROVE  st' = [st EXCEPT ![t] = Publishing(l)]
BY DEF IInv, Own, RegTypes, Goto, st

(* A jump moves a thread in reap_dead.                                      *)
LEMMA RpStep ==
    ASSUME IInv, NEW t \in Threads, NEW l, NEW a, Goto(t, l), tl2' = [tl2 EXCEPT ![t] = a]
    PROVE  rp' = [rp EXCEPT ![t] = Reaping(a, l)]
BY ThreadTypes DEF IInv, Own, RegTypes, Goto, rp

(* A jump that leaves the thread where it is in prepend_queue.              *)
LEMMA StSame ==
    ASSUME IInv, NEW t \in Threads, NEW l, Goto(t, l), Publishing(l) = Publishing(pc[t])
    PROVE  st' = st
BY DEF IInv, Own, RegTypes, Goto, st

(* A jump that leaves the thread where it is in reap_dead.                  *)
LEMMA RpSame ==
    ASSUME IInv, NEW t \in Threads, NEW l, Goto(t, l), tl2' = tl2,
           Reaping(tl2[t], l) = Reaping(tl2[t], pc[t])
    PROVE  rp' = rp
BY ThreadTypes DEF IInv, Own, RegTypes, Goto, rp

(* A step that neither publishes nor reaps.                                 *)
LEMMA Quiet ==
    ASSUME IInv, NEW t \in Threads, NEW l, Goto(t, l), tl2' = tl2, tl2[t] = None,
           pc[t] \notin Publishes, l \notin Publishes
    PROVE  st' = st /\ rp' = rp
<1>1. Publishing(l) = "other" /\ Publishing(pc[t]) = "other"
  BY DEF Publishing, Publishes, Prepends
<1>2. Reaping(tl2[t], l) = "none" /\ Reaping(tl2[t], pc[t]) = "none"
  BY DEF Reaping
<1> QED BY <1>1, <1>2, StSame, RpSame

(* A thread gets a node to free.                                            *)
LEMMA BlkStep ==
    ASSUME IInv, NEW t \in Threads, NEW n \in Nodes, p' = [p EXCEPT ![t] = n]
    PROVE  blk' = [blk EXCEPT ![t] = n[1]]
BY NodeFacts DEF IInv, Own, RegTypes, blk

(* A thread has got rid of the node that it frees.                          *)
LEMMA BlkNone ==
    ASSUME IInv, NEW t \in Threads, p' = [p EXCEPT ![t] = None]
    PROVE  blk' = [blk EXCEPT ![t] = None]
BY DEF IInv, Own, RegTypes, blk

(* A block that a thread obtains.                                           *)
LEMMA HomeStep ==
    ASSUME IInv, NEW a \in Atls, NEW b \in Blocks, NEW l \in {"bl", "partial", "full"},
           owner' = [owner EXCEPT ![b] = a], list' = [list EXCEPT ![b] = l]
    PROVE  home' = [home EXCEPT ![b] = a]
BY DEF IInv, Own, MemTypes, home, Live

(* Slabs and pages have no life.                                            *)
LEMMA LifeSame ==
    ASSUME IInv, NEW b \in Blocks \ Atls, NEW l, gone' = gone,
           list' = [list EXCEPT ![b] = l]
    PROVE  life' = life
BY NodeFacts, SMTT(20), SMTT(30) DEF IInv, Own, MemTypes, life

(* The owner of a block is a matter of the blocks.                          *)
LEMMA UnchangedHome ==
    ASSUME gone' = gone, owner' = owner, list' = list
    PROVE  home' = home /\ life' = life
BY DEF home, life, Live
-----------------------------------------------------------------------------
(* What is freed *)

(* A node that a thread may free locally: it is the only thread that has    *)
(* it in hand, and it is in use.                                            *)
Mine(t, n) ==
    /\ n \in Nodes /\ n \notin free[n[1]] /\ Live(n[1])
    /\ \A u \in Threads : u # t => p[u] # n

(* A slab that leaves its owner has no other node in use.                   *)
LEMMA FreeLocalEmpties ==
    ASSUME IInv, NEW t \in Threads, NEW n, Mine(t, n), tls[t] # None, FreeLocal(tls[t], n)
    PROVE  /\ R!Emptied(t)
           /\ \A a \in Atls : list'[a] = list[a]
           /\ \A b \in Blocks : Live(b)' => Live(b)
<1> DEFINE b == n[1]
<1>1. b \in Blocks /\ n \in NodesOf(b)
  BY NodeFacts DEF Mine
<1>2. PICK l : /\ list' = [list EXCEPT ![b] = l]
               /\ l = list[b] \/ (l = "spare" /\ b \in Slabs /\ Used(b) = {n})
  BY DEF FreeLocal
<1>3. owner' = owner
  BY DEF FreeLocal
<1>t. list \in [Blocks -> Kinds]
  BY DEF IInv, Own, MemTypes
<1>4. CASE l = list[b]
  <2>1. list' = list
    BY <1>2, <1>4, <1>t
  <2>2. home' = home
    BY <2>1, <1>3 DEF home, Live
  <2> QED BY <2>1, <2>2 DEF R!Emptied, Live
<1>5. CASE l = "spare" /\ b \in Slabs /\ Used(b) = {n}
  <2>1. ASSUME NEW u \in Threads, u # t PROVE blk[u] # b
    <3>1. CASE p[u] = None
      BY <3>1, <1>1, NodeFacts DEF blk
    <3>2. CASE p[u] # None
      <4>1. p[u] \in Nodes /\ blk[u] = p[u][1]
        BY <3>2 DEF IInv, Own, RegTypes, blk
      <4>2. p[u] \notin free[p[u][1]]
        BY <4>1 DEF IInv, Own, NodesApart, Busy
      <4>3. p[u] # n
        BY <2>1 DEF Mine
      <4>4. p[u] \in NodesOf(p[u][1])
        BY <4>1, NodeFacts
      <4> QED BY <4>1, <4>2, <4>3, <4>4, <1>5 DEF Used
    <3> QED BY <3>1, <3>2
  <2>2. home' = [home EXCEPT ![b] = None]
    BY <1>1, <1>2, <1>3, <1>5, <1>t DEF home, Live
  <2>3. R!Emptied(t)
    BY <1>1, <2>1, <2>2 DEF R!Emptied
  <2>4. \A a \in Atls : list'[a] = list[a]
    BY <1>2, <1>5, <1>t, NodeFacts, SMTT(20), SMTT(30)
  <2>5. \A c \in Blocks : Live(c)' => Live(c)
    BY <1>2, <1>5, <1>t DEF Live
  <2> QED BY <2>3, <2>4, <2>5
<1> QED BY <1>2, <1>4, <1>5

(* Such nodes are those of the program, the one that free_aux has in hand,  *)
(* and the front of a queue.                                                *)
LEMMA MineInUse == ASSUME IInv, NEW t \in Threads, NEW n \in inUse PROVE Mine(t, n)
BY DEF IInv, Own, MemTypes, NodesApart, Busy, Mine

(* The node that free_aux has in hand is one that its thread may free.      *)
LEMMA MineFreeing == ASSUME IInv, NEW t \in Threads, p[t] # None PROVE Mine(t, p[t])
BY DEF IInv, Own, RegTypes, NodesApart, Busy, Mine

(* The front of a queue is a node that a thread may free.                   *)
LEMMA MineFront ==
    ASSUME IInv, NEW t \in Threads, NEW a \in Atls, NEW n, IsFront(a, n) PROVE Mine(t, n)
<1>1. n \in Nodes /\ queued[n] = a /\ ~ Unlinked(n) /\ a # None
  BY NodeFacts DEF IsFront
<1>2. n \notin free[n[1]] /\ Live(n[1])
  BY <1>1 DEF IInv, Own, NodesApart, Busy
<1>3. \A u \in Threads : p[u] # n
  BY <1>1, NodeFacts DEF IInv, Own, NodesApart, Unlinked
<1> QED BY <1>1, <1>2, <1>3 DEF Mine
-----------------------------------------------------------------------------
(* Every step of LLQueue is one of Reclaim, or changes nothing there *)

(* A jump outside prepend_queue and reap_dead is nothing to the protocol.   *)
LEMMA Stutters ==
    ASSUME IInv, NEW t \in Threads, NEW l, Goto(t, l), tl2[t] = None,
           pc[t] \notin Publishes, l \notin Publishes, life' = life, home' = home,
           UNCHANGED <<tls, h_list, d_list, hazard, p, bt, tl2, wait>>
    PROVE  UNCHANGED R!vars
<1>1. st' = st /\ rp' = rp
  BY Quiet
<1>2. blk' = blk
  BY DEF blk
<1> QED BY <1>1, <1>2 DEF R!vars

(* init_tls *)
LEMMA InitSimulates ==
    ASSUME IInv, NEW t \in Threads,
           InitLock(t) \/ InitTake(t) \/ InitNew(t) \/ InitHazard(t) \/ MallocAux(t)
    PROVE  R!Step(t) \/ UNCHANGED R!vars
<1> USE DEF Own, On, Call
<1>1. CASE InitLock(t)
  <2>1. tl2[t] = None /\ pc[t] \notin Publishes /\ "i_take" \notin Publishes
    BY <1>1 DEF IInv, InitLock, Control, Publishes, Prepends, Holds
  <2>2. home' = home /\ life' = life
    BY <1>1, UnchangedHome DEF InitLock, blocks
  <2> QED BY <1>1, <2>1, <2>2, Stutters DEF InitLock, prepend, reap
<1>2. CASE InitTake(t)
  <2>1. /\ tls[t] = None /\ tl2[t] = None /\ pc[t] \notin Publishes
        /\ ret[t] \notin Publishes /\ "i_new" \notin Publishes
    BY <1>2 DEF IInv, InitTake, Control, Publishes, Prepends, Holds, Inits, NoTls
  <2>2. home' = home /\ life' = life
    BY <1>2, UnchangedHome DEF InitTake, blocks
  <2>3. UNCHANGED <<h_list, hazard, p, bt, tl2, wait>>
    BY <1>2 DEF InitTake, prepend, reap
  <2>4. CASE \E a \in d_list : /\ d_list' = d_list \ {a}
                               /\ tls' = [tls EXCEPT ![t] = a]
                               /\ Goto(t, ret[t])
    <3>1. st' = st /\ rp' = rp
      BY <2>1, <2>3, <2>4, Quiet
    <3>2. blk' = blk
      BY <2>3 DEF blk
    <3>3. R!Adopt(t)
      BY <2>1, <2>2, <2>3, <2>4, <3>1, <3>2 DEF R!Adopt
    <3> QED BY <3>3 DEF R!Step
  <2>5. CASE Goto(t, "i_new") /\ UNCHANGED <<d_list, tls>>
    BY <2>1, <2>2, <2>3, <2>5, Stutters
  <2> QED BY <1>2, <2>4, <2>5 DEF InitTake
<1>3. CASE InitNew(t)
  <2>1. tls[t] = None /\ tl2[t] = None /\ pc[t] \notin Publishes /\ "i_hlock" \notin Publishes
    BY <1>3 DEF IInv, InitNew, Control, Publishes, Prepends, Holds, NoTls
  <2>2. PICK a \in Fresh(Atls) : /\ tls' = [tls EXCEPT ![t] = a]
                                 /\ owner' = [owner EXCEPT ![a] = a]
                                 /\ list' = [list EXCEPT ![a] = "bl"]
    BY <1>3 DEF InitNew
  <2>3. a \in Atls /\ a \in Blocks /\ list[a] = "new"
    BY FreshFacts, NodeFacts, SMTT(20), SMTT(30)
  <2>4. UNCHANGED <<h_list, d_list, hazard, p, bt, tl2, wait, gone>>
    BY <1>3 DEF InitNew, prepend, reap, lists
  <2>5. st' = st /\ rp' = rp
    BY <1>3, <2>1, <2>4, Quiet DEF InitNew
  <2>6. blk' = blk
    BY <2>4 DEF blk
  <2>7. home' = [home EXCEPT ![a] = a] /\ home[a] = None
    BY <2>2, <2>3, HomeStep DEF home, Live
  <2>8. life[a] = "new" /\ life' = [life EXCEPT ![a] = "live"]
    <3>1. list \in [Blocks -> Kinds] /\ a \notin gone
      BY <2>3 DEF IInv, Own, MemTypes, ChunksApart
    <3>2. \A o \in Atls : list'[o] = IF o = a THEN "bl" ELSE list[o]
      BY <2>2, <2>3, <3>1, NodeFacts
    <3>3. \A o \in Atls : life'[o] = IF o = a THEN "live" ELSE life[o]
      BY <2>3, <2>4, <3>1, <3>2 DEF life
    <3>4. life[a] = "new"
      BY <2>3, <3>1 DEF life
    <3> QED BY <2>3, <3>3, <3>4 DEF life
  <2>9. R!New(t)
    BY <2>1, <2>2, <2>3, <2>4, <2>5, <2>6, <2>7, <2>8 DEF R!New
  <2> QED BY <2>9 DEF R!Step
<1>4. CASE InitHazard(t)
  <2>1. /\ tls[t] # None /\ tl2[t] = None /\ pc[t] \notin Publishes /\ ret[t] \notin Publishes
        /\ Goto(t, ret[t]) /\ h_list' = h_list \cup {tls[t]}
        /\ UNCHANGED <<tls, d_list, hazard, p, bt, tl2, wait, gone, owner, list>>
    BY <1>4 DEF IInv, InitHazard, Control, Publishes, Prepends, Holds, Inits, NoTls,
       prepend, reap, blocks
  <2>2. st' = st /\ rp' = rp
    BY <2>1, Quiet
  <2>3. blk' = blk /\ home' = home /\ life' = life
    BY <2>1, UnchangedHome DEF blk
  <2>4. R!Join(t)
    BY <2>1, <2>2, <2>3 DEF R!Join
  <2> QED BY <2>4 DEF R!Step
<1>5. CASE MallocAux(t)
  <2>1. PICK l : Goto(t, l) /\ l \notin Publishes
    BY <1>5, SMTT(20), SMTT(30) DEF MallocAux, InitTls, Publishes, Prepends
  <2>2. /\ tl2[t] = None /\ pc[t] \notin Publishes
        /\ UNCHANGED <<tls, h_list, d_list, hazard, p, bt, tl2, wait, gone, owner, list>>
    BY <1>5 DEF IInv, MallocAux, InitTls, Control, Publishes, Prepends, Holds, reap, blocks, lists
  <2>3. home' = home /\ life' = life
    BY <2>2, UnchangedHome
  <2> QED BY <2>1, <2>2, <2>3, Stutters
<1> QED BY <1>1, <1>2, <1>3, <1>4, <1>5

(* destroy_tls *)
LEMMA DestroySimulates ==
    ASSUME IInv, NEW t \in Threads, DestroyTls(t) \/ DestroyPush(t)
    PROVE  R!Step(t)
<1>1. CASE DestroyTls(t)
  <2>1. /\ pc[t] = "idle" /\ tls[t] # None /\ Goto(t, "d_lock")
        /\ tl2' = [tl2 EXCEPT ![t] = tls[t]] /\ tls' = [tls EXCEPT ![t] = None]
        /\ UNCHANGED <<h_list, d_list, hazard, p, bt, wait, gone, owner, list>>
    BY <1>1 DEF DestroyTls, Call, lists, blocks, prepend
  <2>2. tl2[t] = None
    BY <2>1 DEF IInv, Own, Control, Holds
  <2>3. st[t] = "other" /\ st' = st
    BY <2>1, StSame DEF st, Publishing
  <2>4. rp' = [rp EXCEPT ![t] = "owned"]
    BY <2>1, RpStep DEF Reaping
  <2>5. blk' = blk /\ home' = home /\ life' = life
    BY <2>1, UnchangedHome DEF blk
  <2>6. R!Exit(t)
    BY <2>1, <2>2, <2>3, <2>4, <2>5 DEF R!Exit
  <2> QED BY <2>6 DEF R!Step
<1>2. CASE DestroyPush(t)
  <2>1. /\ pc[t] = "d_lock" /\ Goto(t, "idle") /\ d_list' = d_list \cup {tl2[t]}
        /\ tl2' = [tl2 EXCEPT ![t] = None]
        /\ UNCHANGED <<tls, h_list, hazard, p, bt, wait, gone, owner, list>>
    BY <1>2 DEF DestroyPush, On, blocks, prepend
  <2>2. tl2[t] # None /\ tls[t] = None
    BY <2>1 DEF IInv, Own, Control, Holds, NoTls
  <2>3. st' = st
    BY <2>1, StSame DEF Publishing
  <2>4. rp[t] = "owned" /\ rp' = [rp EXCEPT ![t] = "none"]
    BY <2>1, <2>2, RpStep DEF Reaping, rp
  <2>5. blk' = blk /\ home' = home /\ life' = life
    BY <2>1, UnchangedHome DEF blk
  <2>6. R!Bury(t)
    BY <2>1, <2>2, <2>3, <2>4, <2>5 DEF R!Bury
  <2> QED BY <2>6 DEF R!Step
<1> QED BY <1>1, <1>2

(* free: a step of the owner, or the beginning of prepend_queue.            *)
LEMMA FreeNodeSimulates ==
    ASSUME IInv, NEW t \in Threads, NEW n, Mine(t, n), FreeNode(t, n), tls[t] # None,
           pc[t] \in {"idle", "free"}, p[t] \in {None, n}
    PROVE  R!Step(t)
<1>1. n \in Nodes /\ n[1] \in Blocks /\ owner[n[1]] # None /\ Live(n[1])
  BY NodeFacts DEF Mine, IInv, Own, ChunksApart
<1>2. /\ UNCHANGED <<tls, h_list, d_list, hazard, tl2, wait, gone>>
      /\ tl2[t] = None /\ tls[t] \in h_list /\ st[t] = "other"
  BY DEF FreeNode, lists, reap, IInv, Own, Control, Holds, Joined, st, Publishing
<1>3. CASE owner[n[1]] = tls[t] /\ FreeLocal(tls[t], n) /\ p' = [p EXCEPT ![t] = None]
           /\ Goto(t, "idle") /\ UNCHANGED bt
  <2>1. st' = st /\ rp' = rp
    BY <1>2, <1>3, Quiet DEF Publishes, Prepends
  <2>2. R!Emptied(t) /\ life' = life
    BY <1>2, <1>3, FreeLocalEmpties DEF life
  <2>3. R!FreeOwn(t)
    BY <1>2, <1>3, <2>1, <2>2, BlkNone DEF R!FreeOwn
  <2> QED BY <2>3 DEF R!Step
<1>4. CASE p' = [p EXCEPT ![t] = n] /\ bt' = [bt EXCEPT ![t] = owner[n[1]]]
           /\ Goto(t, "p_hazard") /\ UNCHANGED blocks
  <2>1. st' = [st EXCEPT ![t] = "publish"]
    BY <1>4, StStep DEF Publishing
  <2>2. rp' = rp
    BY <1>2, <1>4, RpSame DEF Reaping
  <2>3. home' = home /\ life' = life
    BY <1>2, <1>4, UnchangedHome DEF blocks
  <2>4. blk' = [blk EXCEPT ![t] = n[1]] /\ blk[t] \in {None, n[1]}
    BY <1>1, <1>4, BlkStep DEF blk
  <2>5. home[n[1]] = owner[n[1]]
    BY <1>1 DEF home
  <2>6. R!Read(t)
    BY <1>1, <1>2, <1>4, <2>1, <2>2, <2>3, <2>4, <2>5 DEF R!Read
  <2> QED BY <2>6 DEF R!Step
<1> QED BY <1>3, <1>4 DEF FreeNode

(* free and free_aux                                                        *)
LEMMA FreeSimulates ==
    ASSUME IInv, NEW t \in Threads, Free(t) \/ FreeAux(t)
    PROVE  R!Step(t)
<1>1. CASE Free(t)
  <2>1. pc[t] = "idle"
    BY <1>1 DEF Free, Call
  <2>2. p[t] = None /\ tl2[t] = None
    BY <2>1 DEF IInv, Own, Control, Holds, Prepends, Inits
  <2>3. PICK n \in inUse : \/ InitTls(t, "free") /\ p' = [p EXCEPT ![t] = n]
                           \/ tls[t] # None /\ FreeNode(t, n)
    BY <1>1 DEF Free
  <2>4. Mine(t, n)
    BY MineInUse
  <2>5. CASE InitTls(t, "free") /\ p' = [p EXCEPT ![t] = n]
    <3>1. PICK l : Goto(t, l) /\ l \notin Publishes
      BY <2>5, SMTT(20), SMTT(30) DEF InitTls, Publishes, Prepends
    <3>2. UNCHANGED <<tls, h_list, d_list, hazard, bt, tl2, wait, gone, owner, list>>
      BY <2>5 DEF InitTls, lists, blocks, reap
    <3>3. st' = st /\ rp' = rp
      BY <2>1, <2>2, <3>1, <3>2, Quiet DEF Publishes, Prepends
    <3>4. home' = home /\ life' = life
      BY <3>2, UnchangedHome
    <3>5. n[1] \in Blocks /\ home[n[1]] # None
      BY <2>4, NodeFacts DEF Mine, home, IInv, Own, ChunksApart
    <3>6. blk[t] = None /\ blk' = [blk EXCEPT ![t] = n[1]]
      BY <2>2, <2>4, <2>5, BlkStep DEF blk, Mine
    <3>7. R!Take(t)
      BY <3>2, <3>3, <3>4, <3>5, <3>6 DEF R!Take
    <3> QED BY <3>7 DEF R!Step
  <2>6. CASE tls[t] # None /\ FreeNode(t, n)
    BY <2>1, <2>2, <2>4, <2>6, FreeNodeSimulates
  <2> QED BY <2>3, <2>5, <2>6
<1>2. CASE FreeAux(t)
  <2>1. pc[t] = "free" /\ FreeNode(t, p[t])
    BY <1>2 DEF FreeAux, On
  <2>2. p[t] # None /\ tls[t] # None
    BY <2>1 DEF IInv, Own, Control, NoTls
  <2> QED BY <2>1, <2>2, MineFreeing, FreeNodeSimulates
<1> QED BY <1>1, <1>2

(* prepend_queue *)
LEMMA PrependSimulates ==
    ASSUME IInv, NEW t \in Threads,
           \/ PrependHazard(t) \/ PrependAgain(t) \/ PrependXchg(t) \/ PrependLink(t)
           \/ PrependClear(t)
    PROVE  R!Step(t) \/ UNCHANGED R!vars
<1>1. /\ UNCHANGED <<tls, h_list, d_list, tl2, wait, gone, owner, list>>
      /\ pc[t] \in Publishes
  BY DEF PrependHazard, PrependAgain, PrependXchg, PrependLink, PrependClear, On, lists,
         blocks, reap, Publishes, Prepends
<1>2. tl2[t] = None
  BY <1>1 DEF IInv, Own, Control, Holds, Publishes, Prepends
<1>3. home' = home /\ life' = life
  BY <1>1, UnchangedHome
<1>4. ASSUME NEW l, Goto(t, l) PROVE rp' = rp
  BY <1>1, <1>2, <1>4, RpSame DEF Reaping
<1>5. CASE PrependHazard(t)
  <2>1. /\ pc[t] = "p_hazard" /\ Goto(t, "p_again") /\ UNCHANGED <<p, bt>>
        /\ hazard' = [hazard EXCEPT ![tls[t]] = bt[t]]
    BY <1>5 DEF PrependHazard, On, prepend
  <2>2. st[t] = "publish" /\ st' = [st EXCEPT ![t] = "confirm"]
    BY <2>1, StStep DEF st, Publishing
  <2>3. blk' = blk
    BY <2>1 DEF blk
  <2>4. R!Publish(t)
    BY <1>1, <1>3, <1>4, <2>1, <2>2, <2>3 DEF R!Publish
  <2> QED BY <2>4 DEF R!Step
<1>6. CASE PrependAgain(t)
  <2>1. /\ pc[t] = "p_again" /\ UNCHANGED <<p, hazard>>
        /\ bt' = [bt EXCEPT ![t] = owner[p[t][1]]]
        /\ Goto(t, IF owner[p[t][1]] = bt[t] THEN "p_xchg" ELSE "p_hazard")
    BY <1>6 DEF PrependAgain, On
  <2>2. p[t] # None /\ p[t] \in Nodes
    BY <2>1 DEF IInv, Own, Control, RegTypes, Prepends
  <2>3. blk[t] = p[t][1] /\ home[blk[t]] = owner[p[t][1]]
    BY <2>2, MineFreeing, NodeFacts DEF Mine, blk, home
  <2>4. /\ st[t] = "confirm"
        /\ st' = [st EXCEPT ![t] = IF home[blk[t]] = bt[t] THEN "use" ELSE "publish"]
    BY <2>1, <2>3, StStep DEF st, Publishing
  <2>5. blk' = blk
    BY <2>1 DEF blk
  <2>6. R!Confirm(t)
    BY <1>1, <1>3, <1>4, <2>1, <2>3, <2>4, <2>5 DEF R!Confirm
  <2> QED BY <2>6 DEF R!Step
<1>7. CASE PrependXchg(t)
  <2>1. pc[t] = "p_xchg" /\ Goto(t, "p_link") /\ UNCHANGED <<p, bt, hazard>>
    BY <1>7 DEF PrependXchg, On
  <2>2. st' = st
    BY <2>1, StSame DEF Publishing
  <2>3. blk' = blk
    BY <2>1 DEF blk
  <2> QED BY <1>1, <1>3, <1>4, <2>1, <2>2, <2>3 DEF R!vars
<1>8. CASE PrependLink(t)
  <2>1. /\ pc[t] = "p_link" /\ Goto(t, "p_clear") /\ hazard' = hazard
        /\ p' = [p EXCEPT ![t] = None] /\ bt' = [bt EXCEPT ![t] = None]
    BY <1>8 DEF PrependLink, On
  <2>2. st[t] = "use" /\ st' = [st EXCEPT ![t] = "clear"]
    BY <2>1, StStep DEF st, Publishing
  <2>3. R!Use(t)
    BY <1>1, <1>3, <1>4, <2>1, <2>2, BlkNone DEF R!Use
  <2> QED BY <2>3 DEF R!Step
<1>9. CASE PrependClear(t)
  <2>1. /\ pc[t] = "p_clear" /\ Goto(t, "idle") /\ UNCHANGED <<p, bt>>
        /\ hazard' = [hazard EXCEPT ![tls[t]] = None]
    BY <1>9 DEF PrependClear, On, prepend
  <2>2. st[t] = "clear" /\ st' = [st EXCEPT ![t] = "other"]
    BY <2>1, StStep, SMTT(20), SMTT(30) DEF st, Publishing
  <2>3. blk' = blk
    BY <2>1 DEF blk
  <2>4. R!Clear(t)
    BY <1>1, <1>3, <1>4, <2>1, <2>2, <2>3 DEF R!Clear
  <2> QED BY <2>4 DEF R!Step
<1> QED BY <1>5, <1>6, <1>7, <1>8, <1>9

(* scan_queue *)
LEMMA ScanSimulates ==
    ASSUME IInv, NEW t \in Threads, ScanFree(t) \/ ScanLast(t)
    PROVE  R!Step(t) \/ UNCHANGED R!vars
<1>1. /\ pc[t] = "scan" /\ p[t] = None
      /\ UNCHANGED <<tls, h_list, d_list, hazard, p, bt, tl2, wait, gone>>
  BY DEF ScanFree, ScanLast, On, lists, prepend, reap, IInv, Own, Control, Prepends, Inits
<1>2. blk' = blk
  BY <1>1 DEF blk
<1>3. CASE ScanFree(t)
  <2>1. FreeLocal(tls[t], q[t]) /\ pc' = pc
    BY <1>3 DEF ScanFree
  <2>2. IsFront(Scanned(t), q[t]) /\ Scanned(t) \in Atls /\ tls[t] # None
    BY <1>1, ThreadTypes, SMTT(20), SMTT(30) DEF IInv, Own, QueuesLinked, Control, Scanned, NoTls
  <2>3. R!Emptied(t) /\ life' = life
    BY <1>1, <2>1, <2>2, MineFront, FreeLocalEmpties DEF life
  <2>4. st[t] = "other" /\ st' = st /\ rp' = rp
    BY <1>1, <2>1 DEF st, rp, Publishing
  <2>5. blk' = [blk EXCEPT ![t] = None]
    BY <1>1, <1>2 DEF blk
  <2>6. R!FreeOwn(t)
    BY <1>1, <2>3, <2>4, <2>5 DEF R!FreeOwn
  <2> QED BY <2>6 DEF R!Step
<1>4. CASE ScanLast(t)
  <2>1. Goto(t, ret[t]) /\ UNCHANGED <<owner, list>>
    BY <1>4 DEF ScanLast, blocks
  <2>2. home' = home /\ life' = life
    BY <1>1, <2>1, UnchangedHome
  <2>3. /\ ret[t] \in {"m_create", "m_scanned", "r_free"}
        /\ tl2[t] # None <=> ret[t] = "r_free"
    BY <1>1 DEF IInv, Own, Control, Holds
  <2>4. st' = st
    BY <1>1, <2>1, <2>3, StSame DEF Publishing
  <2>5. rp' = rp
    BY <1>1, <2>1, <2>3, RpSame DEF Reaping
  <2> QED BY <1>1, <1>2, <2>2, <2>4, <2>5 DEF R!vars
<1> QED BY <1>3, <1>4

(* malloc *)
LEMMA TakeNodeSame ==
    ASSUME IInv, NEW b \in Blocks, NEW n, TakeNode(b, n), Live(b), gone' = gone
    PROVE  home' = home /\ life' = life
<1>1. owner' = owner /\ \E l \in {list[b], "full"} : list' = [list EXCEPT ![b] = l]
  BY DEF TakeNode
<1>2. list \in [Blocks -> Kinds] /\ list[b] # "new"
  BY DEF IInv, Own, MemTypes, Live
<1>3. \A c \in Blocks : (Live(c)' <=> Live(c)) /\ (list'[c] = "new" <=> list[c] = "new")
  BY <1>1, <1>2 DEF Live
<1>4. home' = home
  BY <1>1, <1>3 DEF home
<1>5. life' = life
  BY <1>3, NodeFacts DEF life
<1> QED BY <1>4, <1>5

(* malloc                                                                   *)
LEMMA MallocSimulates ==
    ASSUME IInv, NEW t \in Threads,
           MallocSlab(t) \/ MallocCreate(t) \/ MallocHeap(t) \/ MallocBlock(t)
    PROVE  R!Step(t) \/ UNCHANGED R!vars
<1>1. /\ pc[t] \in {"idle", "m_slab", "m_create", "m_heap", "m_scanned"}
      /\ UNCHANGED <<tls, h_list, d_list, hazard, p, bt, tl2, wait, gone>>
  BY DEF MallocSlab, MallocCreate, MallocHeap, MallocBlock, Mallocs, On, Call, lists, prepend, reap
<1>2. tl2[t] = None /\ pc[t] \notin Publishes
  BY <1>1 DEF IInv, Own, Control, Holds, Publishes, Prepends
<1>3. tls[t] # None /\ tls[t] \in Atls
  <2>1. tls[t] # None
    BY <1>1 DEF IInv, Own, Control, NoTls, MallocSlab, MallocCreate, MallocHeap,
       MallocBlock, Mallocs, On
  <2> QED BY <2>1, ThreadTypes
<1>4. PICK l \in {"idle", "scan", "m_create", "m_slab", "m_heap", "r_check"} : Goto(t, l)
  BY DEF MallocSlab, MallocCreate, MallocHeap, MallocBlock, StartScan
<1>5. l \notin Publishes
  BY <1>4 DEF Publishes, Prepends
<1>6. ASSUME UNCHANGED blocks PROVE UNCHANGED R!vars
  <2>1. home' = home /\ life' = life
    BY <1>1, <1>6, UnchangedHome DEF blocks
  <2> QED BY <1>1, <1>2, <1>4, <1>5, <2>1, Stutters
<1>7. ASSUME NEW b \in Blocks, NEW n, TakeNode(b, n), Live(b) PROVE UNCHANGED R!vars
  <2>1. home' = home /\ life' = life
    BY <1>1, <1>7, TakeNodeSame
  <2> QED BY <1>1, <1>2, <1>4, <1>5, <2>1, Stutters
<1>8. ASSUME NEW b \in Blocks \ Atls, NEW k \in {"bl", "partial"}, ~ Live(b),
             owner' = [owner EXCEPT ![b] = tls[t]], list' = [list EXCEPT ![b] = k]
      PROVE  R!Step(t)
  <2>1. home' = [home EXCEPT ![b] = tls[t]] /\ home[b] = None
    BY <1>3, <1>8, HomeStep DEF home
  <2>2. life' = life
    BY <1>1, <1>8, LifeSame
  <2>3. st' = st /\ rp' = rp
    BY <1>1, <1>2, <1>4, <1>5, Quiet
  <2>4. blk' = blk
    BY <1>1 DEF blk
  <2>5. R!Obtain(t)
    BY <1>1, <1>3, <2>1, <2>2, <2>3, <2>4 DEF R!Obtain
  <2> QED BY <2>5 DEF R!Step
<1>9. CASE MallocSlab(t)
  BY <1>6, <1>7, <1>9 DEF MallocSlab, OnList, Live
<1>10. CASE MallocHeap(t)
  BY <1>6, <1>7, <1>10 DEF MallocHeap, OnList, Live
<1>11. CASE MallocCreate(t)
  <2>1. CASE SlabCreate(tls[t])
    <3>1. PICK c \in Chunks(tls[t]) : \E s \in c : /\ owner' = [owner EXCEPT ![s] = tls[t]]
                                                   /\ list' = [list EXCEPT ![s] = "partial"]
      BY <2>1 DEF SlabCreate
    <3>2. PICK s \in c : /\ owner' = [owner EXCEPT ![s] = tls[t]]
                         /\ list' = [list EXCEPT ![s] = "partial"]
      BY <3>1
    <3>3. s \in Slabs /\ list[s] \in {"new", "spare"}
      BY <1>3, FreshFacts, SMTT(20), SMTT(30) DEF Chunks, IInv, Own, MemTypes, ChunksApart
    <3>4. s \in Blocks \ Atls /\ ~ Live(s)
      BY <3>3, NodeFacts DEF Live
    <3> QED BY <1>8, <3>2, <3>4
  <2> QED BY <1>6, <1>11, <2>1 DEF MallocCreate
<1>12. CASE MallocBlock(t)
  <2>1. CASE \E b \in Fresh(Pages) : /\ owner' = [owner EXCEPT ![b] = tls[t]]
                                     /\ list' = [list EXCEPT ![b] = "bl"]
    <3>1. PICK b \in Fresh(Pages) : /\ owner' = [owner EXCEPT ![b] = tls[t]]
                                    /\ list' = [list EXCEPT ![b] = "bl"]
      BY <2>1
    <3>2. b \in Pages /\ list[b] = "new"
      BY FreshFacts
    <3>3. b \in Blocks \ Atls /\ ~ Live(b)
      BY <3>2, NodeFacts DEF Live
    <3> QED BY <1>8, <3>1, <3>3
  <2> QED BY <1>6, <1>12, <2>1 DEF MallocBlock
<1> QED BY <1>9, <1>10, <1>11, <1>12

(* reap_dead finds no one, or takes a dead thread off the list.             *)
LEMMA ReapFindSimulates ==
    ASSUME IInv, NEW t \in Threads, ReapCheck(t) \/ ReapTry(t) \/ ReapTake(t)
    PROVE  R!Step(t) \/ UNCHANGED R!vars
<1>1. /\ pc[t] \in {"r_check", "r_try", "r_take"}
      /\ UNCHANGED <<tls, h_list, hazard, p, bt, wait, gone, owner, list>>
  BY DEF ReapCheck, ReapTry, ReapTake, On, lists, prepend, reap, blocks
<1>2. tl2[t] = None /\ pc[t] \notin Publishes /\ tls[t] # None
  BY <1>1 DEF IInv, Own, Control, Holds, Publishes, Prepends, NoTls
<1>3. home' = home /\ life' = life
  BY <1>1, UnchangedHome
<1>4. CASE \E l \in {"scan", "r_try", "r_take"} : Goto(t, l) /\ UNCHANGED <<d_list, tl2>>
  BY <1>1, <1>2, <1>3, <1>4, Stutters DEF Publishes, Prepends
<1>5. CASE \E a \in d_list : /\ d_list' = d_list \ {a}
                             /\ tl2' = [tl2 EXCEPT ![t] = a]
                             /\ Goto(t, "r_hlock")
  <2>1. PICK a \in d_list : /\ d_list' = d_list \ {a}
                            /\ tl2' = [tl2 EXCEPT ![t] = a]
                            /\ Goto(t, "r_hlock")
    BY <1>5
  <2>2. a # None
    BY ThreadTypes, NodeFacts, SMTT(20), SMTT(30)
  <2>3. st[t] = "other" /\ st' = st
    BY <1>1, <2>1, StSame DEF st, Publishing
  <2>4. rp' = [rp EXCEPT ![t] = "owned"]
    BY <2>1, <2>2, RpStep DEF Reaping
  <2>5. blk' = blk
    BY <1>1 DEF blk
  <2>6. R!ReapTake(t)
    BY <1>1, <1>2, <1>3, <2>1, <2>3, <2>4, <2>5 DEF R!ReapTake
  <2> QED BY <2>6 DEF R!Step
<1> QED BY <1>4, <1>5 DEF ReapCheck, ReapTry, ReapTake, NoneDead, StartScan, lists, reap

(* reap_dead merges and returns it.                                         *)
LEMMA ReapSimulates ==
    ASSUME IInv, NEW t \in Threads,
           \/ ReapLock(t) \/ ReapMerge(t) \/ ReapMerged(t) \/ ReapWait(t) \/ ReapScan(t)
           \/ ReapFree(t)
    PROVE  R!Step(t)
<1>1. /\ pc[t] \in {"r_hlock", "r_merge", "r_wait", "r_free"}
      /\ UNCHANGED <<tls, d_list, hazard, p, bt>>
  BY DEF ReapLock, ReapMerge, ReapMerged, ReapWait, ReapScan, ReapFree, On, lists, prepend
<1>2. tl2[t] # None /\ tls[t] # None /\ tls[t] \in Atls /\ tl2[t] \in Atls /\ p[t] = None
  BY <1>1, ThreadTypes DEF IInv, Own, Control, Holds, NoTls, Prepends, Inits
<1>3. blk' = blk /\ blk[t] = None
  BY <1>1, <1>2 DEF blk
<1>4. st[t] = "other"
  BY <1>1 DEF st, Publishing
<1>5. CASE ReapLock(t)
  <2>1. /\ pc[t] = "r_hlock" /\ Goto(t, "r_merge") /\ h_list' = h_list \ {tl2[t]}
        /\ UNCHANGED <<gone, tl2, wait, owner, list>>
    BY <1>5 DEF ReapLock, On, reap, blocks
  <2>2. st' = st /\ home' = home /\ life' = life
    BY <2>1, StSame, UnchangedHome DEF Publishing
  <2>3. rp[t] = "owned" /\ rp' = [rp EXCEPT ![t] = "merge"]
    <3>1. tl2' = [tl2 EXCEPT ![t] = tl2[t]]
      BY <2>1, ThreadTypes
    <3>2. rp[t] = "owned"
      BY <1>2, <2>1 DEF rp, Reaping
    <3>3. Reaping(tl2[t], "r_merge") = "merge"
      BY <1>2 DEF Reaping
    <3>4. rp' = [rp EXCEPT ![t] = Reaping(tl2[t], "r_merge")]
      BY <2>1, <3>1, RpStep
    <3> QED BY <3>2, <3>3, <3>4
  <2>4. R!ReapStart(t)
    BY <1>1, <1>2, <1>3, <2>1, <2>2, <2>3 DEF R!ReapStart
  <2> QED BY <2>4 DEF R!Step
<1>6. CASE ReapMerge(t)
  <2>1. /\ pc[t] = "r_merge" /\ UNCHANGED <<pc, h_list, gone, tl2, wait>>
        /\ \E b \in Merged(tl2[t]) : \E l \in {list[b], "full"} :
              owner' = [owner EXCEPT ![b] = tls[t]] /\ list' = [list EXCEPT ![b] = l]
    BY <1>6 DEF ReapMerge, On, reap, lists
  <2>b. PICK b \in Merged(tl2[t]) : \E l \in {list[b], "full"} :
              owner' = [owner EXCEPT ![b] = tls[t]] /\ list' = [list EXCEPT ![b] = l]
    BY <2>1
  <2>2. PICK l \in {list[b], "full"} :
              owner' = [owner EXCEPT ![b] = tls[t]] /\ list' = [list EXCEPT ![b] = l]
    BY <2>b
  <2>3. b \in Blocks /\ owner[b] = tl2[t] /\ Live(b) /\ l \in {"bl", "partial", "full"}
    BY <2>2 DEF Merged, Live
  <2>4. home[b] = tl2[t] /\ home' = [home EXCEPT ![b] = tls[t]]
    BY <1>2, <2>2, <2>3, HomeStep DEF home
  <2>5. life' = life
    <3>1. list \in [Blocks -> Kinds] /\ list[b] # "new"
      BY <2>3 DEF IInv, Own, MemTypes, Live
    <3>2. \A a \in Atls : list'[a] = "new" <=> list[a] = "new"
      BY <2>2, <2>3, <3>1, NodeFacts
    <3> QED BY <2>1, <3>2 DEF life
  <2>6. rp[t] = "merge" /\ rp' = rp /\ st' = st
    BY <1>2, <2>1 DEF rp, st, Reaping
  <2>7. R!Merge(t)
    BY <1>1, <1>3, <2>1, <2>3, <2>4, <2>5, <2>6 DEF R!Merge
  <2> QED BY <2>7 DEF R!Step
<1>7. CASE ReapMerged(t)
  <2>1. /\ pc[t] = "r_merge" /\ Goto(t, "r_wait") /\ wait' = [wait EXCEPT ![t] = h_list]
        /\ UNCHANGED <<h_list, gone, tl2, owner, list>> /\ Merged(tl2[t]) = {}
    BY <1>7 DEF ReapMerged, On, lists
  <2>2. st' = st /\ home' = home /\ life' = life
    BY <2>1, StSame, UnchangedHome DEF Publishing
  <2>3. \A b \in Blocks : home[b] # tl2[t]
    BY <1>2, <2>1 DEF Merged, home
  <2>4. rp[t] = "merge" /\ rp' = [rp EXCEPT ![t] = "wait"]
    <3>1. tl2' = [tl2 EXCEPT ![t] = tl2[t]]
      BY <2>1, ThreadTypes
    <3>2. rp[t] = "merge"
      BY <1>2, <2>1 DEF rp, Reaping
    <3>3. Reaping(tl2[t], "r_wait") = "wait"
      BY <1>2 DEF Reaping
    <3>4. rp' = [rp EXCEPT ![t] = Reaping(tl2[t], "r_wait")]
      BY <2>1, <3>1, RpStep
    <3> QED BY <3>2, <3>3, <3>4
  <2>5. R!Merged(t)
    BY <1>1, <1>3, <2>1, <2>2, <2>3, <2>4 DEF R!Merged
  <2> QED BY <2>5 DEF R!Step
<1>8. CASE ReapWait(t)
  <2>1. /\ pc[t] = "r_wait" /\ UNCHANGED <<pc, h_list, gone, tl2, owner, list>>
        /\ \E a \in wait[t] : hazard[a] # tl2[t] /\ wait' = [wait EXCEPT ![t] = @ \ {a}]
    BY <1>8 DEF ReapWait, On, lists, blocks
  <2>2. rp[t] = "wait" /\ rp' = rp /\ st' = st /\ home' = home /\ life' = life
    BY <1>2, <2>1, UnchangedHome DEF rp, st, Reaping
  <2>3. R!Wait(t)
    BY <1>1, <1>3, <2>1, <2>2 DEF R!Wait
  <2> QED BY <2>3 DEF R!Step
<1>9. CASE ReapScan(t)
  <2>1. /\ pc[t] = "r_wait" /\ wait[t] = {} /\ Goto(t, "scan")
        /\ UNCHANGED <<h_list, gone, tl2, wait, owner, list>>
    BY <1>9 DEF ReapScan, StartScan, On, reap, blocks
  <2>2. st' = st /\ home' = home /\ life' = life
    BY <2>1, StSame, UnchangedHome DEF Publishing
  <2>3. rp[t] = "wait" /\ rp' = [rp EXCEPT ![t] = "apart"]
    <3>1. tl2' = [tl2 EXCEPT ![t] = tl2[t]]
      BY <2>1, ThreadTypes
    <3>2. rp[t] = "wait"
      BY <1>2, <2>1 DEF rp, Reaping
    <3>3. Reaping(tl2[t], "scan") = "apart"
      BY <1>2 DEF Reaping
    <3>4. rp' = [rp EXCEPT ![t] = Reaping(tl2[t], "scan")]
      BY <2>1, <3>1, RpStep
    <3> QED BY <3>2, <3>3, <3>4
  <2>4. R!TakeApart(t)
    BY <1>1, <1>3, <2>1, <2>2, <2>3 DEF R!TakeApart
  <2> QED BY <2>4 DEF R!Step
<1>10. CASE ReapFree(t)
  <2>1. /\ pc[t] = "r_free" /\ Goto(t, "m_heap") /\ FreeLocal(tls[t], head[tl2[t]])
        /\ gone' = gone \cup {tl2[t]} /\ tl2' = [tl2 EXCEPT ![t] = None]
        /\ UNCHANGED <<h_list, wait>>
    BY <1>10 DEF ReapFree, On
  <2>2. Mine(t, head[tl2[t]])
    BY <1>2, <2>1, HeadFront, MineFront
  <2>3. R!Emptied(t) /\ \A a \in Atls : list'[a] = list[a]
    BY <1>2, <2>1, <2>2, FreeLocalEmpties
  <2>4. life' = [life EXCEPT ![tl2[t]] = "gone"]
    BY <1>2, <2>1, <2>3 DEF life
  <2>5. st' = st
    BY <2>1, StSame DEF Publishing
  <2>6. rp[t] = "apart" /\ rp' = [rp EXCEPT ![t] = "none"]
    BY <1>2, <2>1, RpStep DEF rp, Reaping
  <2>7. R!Return(t)
    BY <1>1, <1>3, <2>1, <2>3, <2>4, <2>5, <2>6 DEF R!Return
  <2> QED BY <2>7 DEF R!Step
<1> QED BY <1>5, <1>6, <1>7, <1>8, <1>9, <1>10

(* All together.                                                            *)
LEMMA Simulates ==
    ASSUME IInv, NEW t \in Threads, Step(t)
    PROVE  R!Step(t) \/ UNCHANGED R!vars
BY InitSimulates, DestroySimulates, FreeSimulates, PrependSimulates, ScanSimulates,
   MallocSimulates, ReapFindSimulates, ReapSimulates, Zenon DEF Step

-----------------------------------------------------------------------------
(* The types *)

(* What a thread has in hand keeps its type when it frees a node.           *)
LEMMA FreeNodeRegs ==
    ASSUME RegTypes, NEW t \in Threads, NEW n \in Nodes, FreeNode(t, n)
    PROVE  RegTypes'
<1>1. \E l \in Labels, m \in {n, None} : Goto(t, l) /\ p' = [p EXCEPT ![t] = m]
  BY DEF FreeNode, Labels, Prepends
<1>2. UNCHANGED <<ret, old, q>>
  BY DEF FreeNode, scan
<1> QED BY <1>1, <1>2, SMTT(20), SMTT(30) DEF RegTypes, Goto

(* What a thread has in hand keeps its type when it starts to scan.         *)
LEMMA ScanRegs ==
    ASSUME IInv, NEW t \in Threads, NEW a \in Atls, NEW l \in Labels, StartScan(t, a, l),
           UNCHANGED prepend
    PROVE  RegTypes'
BY DEF IInv, Own, RegTypes, MemTypes, StartScan, Goto, prepend, Labels

(* What a thread has in hand keeps its type when it jumps.                  *)
LEMMA GotoRegs ==
    ASSUME IInv, NEW t \in Threads, NEW l \in Labels, Goto(t, l), UNCHANGED <<ret, p, old, q>>
    PROVE  RegTypes'
BY DEF IInv, Own, RegTypes, Goto

(* What threads have in hand keeps its type.                                *)
LEMMA RegTypesStep == ASSUME IInv, NEW t \in Threads, Step(t) PROVE RegTypes'
<1>l. /\ "idle" \in Labels /\ "i_take" \in Labels /\ "i_new" \in Labels /\ "i_lock" \in Labels
      /\ "i_hlock" \in Labels /\ "d_lock" \in Labels /\ "scan" \in Labels /\ "free" \in Labels
      /\ "p_hazard" \in Labels /\ "p_again" \in Labels /\ "p_xchg" \in Labels
      /\ "p_link" \in Labels /\ "p_clear" \in Labels /\ "m_slab" \in Labels
      /\ "m_create" \in Labels /\ "m_heap" \in Labels /\ "m_scanned" \in Labels
      /\ "r_check" \in Labels /\ "r_try" \in Labels /\ "r_take" \in Labels
      /\ "r_hlock" \in Labels /\ "r_merge" \in Labels /\ "r_wait" \in Labels
      /\ "r_free" \in Labels
  BY DEF Labels, Inits, Prepends, Mallocing, Reaps, Holds
<1>r. ret[t] \in Labels
  BY DEF IInv, Own, RegTypes
<1>1. CASE InitLock(t) BY <1>1, <1>l, GotoRegs DEF InitLock, prepend, scan
<1>2. CASE InitTake(t) BY <1>2, <1>l, <1>r, GotoRegs DEF InitTake, prepend, scan
<1>3. CASE InitNew(t) BY <1>3, <1>l, GotoRegs DEF InitNew, prepend, scan
<1>4. CASE InitHazard(t) BY <1>4, <1>l, <1>r, GotoRegs DEF InitHazard, prepend, scan
<1>5. CASE DestroyTls(t) BY <1>5, <1>l, GotoRegs DEF DestroyTls, prepend, scan
<1>6. CASE DestroyPush(t) BY <1>6, <1>l, GotoRegs DEF DestroyPush, prepend, scan
<1>7. CASE Free(t)
  <2>1. PICK n \in inUse : \/ InitTls(t, "free") /\ p' = [p EXCEPT ![t] = n]
                           \/ FreeNode(t, n)
    BY <1>7 DEF Free
  <2>2. n \in Nodes
    BY DEF IInv, Own, MemTypes
  <2>3. CASE InitTls(t, "free") /\ p' = [p EXCEPT ![t] = n]
    BY <1>l, <2>2, <2>3 DEF InitTls, IInv, Own, RegTypes, Goto, scan
  <2> QED BY <2>1, <2>2, <2>3, FreeNodeRegs DEF IInv, Own
<1>8. CASE FreeAux(t)
  <2>1. FreeNode(t, p[t]) /\ pc[t] = "free"
    BY <1>8 DEF FreeAux, On
  <2>2. p[t] \in Nodes
    BY <2>1 DEF IInv, Own, RegTypes, Control
  <2> QED BY <2>1, <2>2, FreeNodeRegs DEF IInv, Own
<1>9. CASE PrependHazard(t) BY <1>9, <1>l, GotoRegs DEF PrependHazard, prepend, scan
<1>10. CASE PrependAgain(t)
  BY <1>10, <1>l, GotoRegs DEF PrependAgain, scan
<1>11. CASE PrependXchg(t)
  <2>1. \E n \in Nodes \cup {None} : old' = [old EXCEPT ![t] = n]
    <3>1. old' = [old EXCEPT ![t] = tail[bt[t]]] /\ pc[t] = "p_xchg"
      BY <1>11 DEF PrependXchg, On
    <3>2. bt[t] \in Atls
      <4>1. st[t] = "use"
        BY <3>1 DEF st, Publishing
      <4> QED BY <4>1, ThreadTypes DEF IInv, R!IInv, R!Published
    <3> QED BY <3>1, <3>2 DEF IInv, Own, MemTypes
  <2> QED BY <1>11, <1>l, <2>1 DEF PrependXchg, scan, IInv, Own, RegTypes, Goto
<1>12. CASE PrependLink(t) BY <1>12, <1>l DEF PrependLink, scan, IInv, Own, RegTypes, Goto
<1>13. CASE PrependClear(t) BY <1>13, <1>l, GotoRegs DEF PrependClear, prepend, scan
<1>14. CASE MallocAux(t)
  <2>1. /\ UNCHANGED <<p, old, q>>
        /\ \E l \in Labels, k \in Labels : Goto(t, l) /\ ret' = [ret EXCEPT ![t] = k]
    BY <1>14, <1>l DEF MallocAux, InitTls, scan
  <2> QED BY <2>1 DEF IInv, Own, RegTypes, Goto
<1>15. CASE ScanFree(t)
  <2>1. next[q[t]] \in Nodes \cup {None}
    BY <1>15 DEF ScanFree, On, IInv, Own, MemTypes, QueuesLinked, IsFront
  <2> QED BY <1>15, <2>1 DEF ScanFree, prepend, IInv, Own, RegTypes
<1>16. CASE ScanLast(t) BY <1>16, <1>r DEF ScanLast, prepend, IInv, Own, RegTypes, Goto
<1>17. CASE MallocSlab(t)
  <2>1. CASE StartScan(t, tls[t], "m_create")
    <3>1. tls[t] \in Atls /\ UNCHANGED prepend
      BY <1>17, ThreadTypes DEF MallocSlab, Mallocs, On, IInv, Own, Control, NoTls
    <3> QED BY <1>l, <2>1, <3>1, ScanRegs
  <2> QED BY <1>17, <1>l, <2>1, GotoRegs DEF MallocSlab, prepend, scan
<1>18. CASE MallocCreate(t) BY <1>18, <1>l, GotoRegs DEF MallocCreate, prepend
<1>19. CASE MallocHeap(t) BY <1>19, <1>l, GotoRegs DEF MallocHeap, prepend, scan
<1>20. CASE MallocBlock(t) BY <1>20, <1>l, GotoRegs DEF MallocBlock, prepend
<1>21. CASE ReapCheck(t) \/ ReapTry(t) \/ ReapTake(t)
  <2>1. /\ tls[t] \in Atls /\ UNCHANGED prepend
        /\ \/ StartScan(t, tls[t], "m_scanned")
           \/ \E l \in {"r_try", "r_take", "r_hlock"} : Goto(t, l) /\ UNCHANGED <<ret, scan>>
    BY <1>21, ThreadTypes DEF ReapCheck, ReapTry, ReapTake, NoneDead, On, IInv, Own, Control, NoTls
  <2> QED BY <1>l, <2>1, ScanRegs, GotoRegs DEF prepend, scan
<1>22. CASE ReapLock(t) BY <1>22, <1>l, GotoRegs DEF ReapLock, prepend, scan
<1>23. CASE ReapMerge(t) BY <1>23 DEF ReapMerge, prepend, scan, IInv, Own, RegTypes
<1>24. CASE ReapMerged(t) BY <1>24, <1>l, GotoRegs DEF ReapMerged, prepend, scan
<1>25. CASE ReapWait(t) BY <1>25 DEF ReapWait, prepend, scan, IInv, Own, RegTypes
<1>26. CASE ReapScan(t)
  <2>1. tl2[t] \in Atls /\ UNCHANGED prepend /\ StartScan(t, tl2[t], "r_free")
    BY <1>26, ThreadTypes DEF ReapScan, On, IInv, Own, Control, Holds
  <2> QED BY <1>l, <2>1, ScanRegs
<1>27. CASE ReapFree(t) BY <1>27, <1>l, GotoRegs DEF ReapFree, prepend
<1> QED BY <1>1, <1>2, <1>3, <1>4, <1>5, <1>6, <1>7, <1>8, <1>9, <1>10, <1>11, <1>12, <1>13,
           <1>14, <1>15, <1>16, <1>17, <1>18, <1>19, <1>20, <1>21, <1>22, <1>23, <1>24, <1>25,
           <1>26, <1>27, Zenon DEF Step
(* The memory keeps its type when a node is freed.                          *)
LEMMA FreeLocalMem ==
    ASSUME MemTypes, NEW a \in Atls, NEW n \in Nodes, FreeLocal(a, n), UNCHANGED <<head, tail>>,
           inUse' \in SUBSET Nodes
    PROVE  MemTypes'
<1>1. n[1] \in Blocks
  BY NodeFacts
<1>2. next' \in [Nodes -> Nodes \cup {None}] /\ queued' \in [Nodes -> Atls \cup {None}]
  BY DEF FreeLocal, MemTypes
<1>3. free' \in [Blocks -> SUBSET Nodes]
  <2>1. free' = [free EXCEPT ![n[1]] = free[n[1]] \cup {n}]
    BY DEF FreeLocal
  <2> QED BY <1>1, <2>1 DEF MemTypes
<1>4. list' \in [Blocks -> Kinds]
  <2>1. \E l \in Kinds : list' = [list EXCEPT ![n[1]] = l]
    BY <1>1 DEF FreeLocal, MemTypes, Kinds
  <2> QED BY <2>1 DEF MemTypes
<1>5. chunk' \in [Atls -> SUBSET Slabs] /\ pc_slab' \in SUBSET (SUBSET Slabs)
  <2>1. \E c \in {chunk[a], chunk[a] \cup {n[1]}, {n[1]}} :
            chunk' = [chunk EXCEPT ![a] = c] /\ (c = chunk[a] \/ n[1] \in Slabs)
    BY DEF FreeLocal
  <2>2. pc_slab' = pc_slab \/ pc_slab' = pc_slab \cup {chunk[a]}
    BY DEF FreeLocal
  <2>3. chunk[a] \in SUBSET Slabs
    BY DEF MemTypes
  <2> QED BY <2>1, <2>2, <2>3, SMTT(20), SMTT(30) DEF MemTypes
<1> QED BY <1>2, <1>3, <1>4, <1>5 DEF FreeLocal, MemTypes

(* The memory keeps its type when a node is allocated.                      *)
LEMMA TakeNodeMem ==
    ASSUME MemTypes, NEW b \in Blocks, NEW n, TakeNode(b, n), UNCHANGED <<head, tail, links>>
    PROVE  MemTypes'
<1>1. n \in Nodes
  BY DEF TakeNode, MemTypes
<1>2. \E l \in Kinds : list' = [list EXCEPT ![b] = l]
  BY DEF TakeNode, MemTypes, Kinds
<1>3. free' = [free EXCEPT ![b] = free[b] \ {n}] /\ inUse' = inUse \cup {n}
  BY DEF TakeNode
<1> QED BY <1>1, <1>2, <1>3 DEF TakeNode, MemTypes, links

(* A slab that a thread obtains is spare or new.                            *)
LEMMA ChunkFacts ==
    ASSUME IInv, NEW a \in Atls, NEW c \in Chunks(a), NEW s \in c
    PROVE  /\ s \in Slabs /\ s \in Blocks /\ c \in SUBSET Slabs
           /\ list[s] \in {"spare", "new"}
           /\ c = chunk[a] \/ (chunk[a] = {} /\ c \in pc_slab) \/ (c = {s} /\ list[s] = "new")
<1>1. CASE c = chunk[a]
  BY <1>1, NodeFacts DEF IInv, Own, MemTypes, ChunksApart
<1>2. CASE chunk[a] = {} /\ c \in pc_slab
  BY <1>2, NodeFacts DEF IInv, Own, MemTypes, ChunksApart
<1>3. CASE \E x \in Fresh(Slabs) : c = {x}
  BY <1>3, FreshFacts, NodeFacts, SMTT(20), SMTT(30)
<1> QED BY <1>1, <1>2, <1>3 DEF Chunks

(* The memory keeps its type.                                               *)
LEMMA MemTypesStep == ASSUME IInv, NEW t \in Threads, Step(t) PROVE MemTypes'
<1> USE DEF On
<1>m. MemTypes
  BY DEF IInv, Own
<1>1. CASE \/ InitLock(t) \/ InitTake(t) \/ InitHazard(t) \/ DestroyTls(t) \/ DestroyPush(t)
           \/ PrependHazard(t) \/ PrependAgain(t) \/ PrependClear(t) \/ MallocAux(t)
           \/ ReapCheck(t) \/ ReapTry(t) \/ ReapTake(t) \/ ReapLock(t) \/ ReapWait(t)
           \/ ReapScan(t)
  <2>1. UNCHANGED <<head, tail, links, blocks, inUse>>
    BY <1>1 DEF InitLock, InitTake, InitHazard, DestroyTls, DestroyPush, PrependHazard,
        PrependAgain, PrependClear, MallocAux, InitTls, ReapCheck, ReapTry, ReapTake, ReapLock,
        ReapWait, ReapScan
  <2> QED BY <1>m, <2>1 DEF MemTypes, links, blocks
<1>2. CASE InitNew(t)
  <2>1. PICK a \in Fresh(Atls) :
        /\ owner' = [owner EXCEPT ![a] = a] /\ list' = [list EXCEPT ![a] = "bl"]
        /\ free' = [free EXCEPT ![a] = {<<a, 1>>}] /\ head' = [head EXCEPT ![a] = <<a, 0>>]
        /\ tail' = [tail EXCEPT ![a] = <<a, 0>>]
        /\ queued' = [queued EXCEPT ![<<a, 0>>] = a]
    BY <1>2 DEF InitNew
  <2>2. a \in Atls /\ a \in Blocks /\ <<a, 0>> \in Nodes /\ <<a, 1>> \in Nodes
    BY FreshFacts, NodeFacts, SMTT(20), SMTT(30) DEF Heap
  <2>3. UNCHANGED <<next, chunk, pc_slab, inUse>>
    BY <1>2 DEF InitNew
  <2> QED BY <1>m, <2>1, <2>2, <2>3 DEF MemTypes, Kinds
<1>3. CASE Free(t) \/ FreeAux(t)
  <2>1. PICK n \in Nodes : /\ InitTls(t, "free") \/ (tls[t] # None /\ FreeNode(t, n))
                           /\ inUse' \in {inUse, inUse \ {n}}
    BY <1>3 DEF Free, FreeAux, IInv, Own, MemTypes, RegTypes, Control, NoTls
  <2>2. tls[t] # None => tls[t] \in Atls
    BY ThreadTypes
  <2>3. CASE UNCHANGED <<head, tail, blocks, links>>
    BY <1>m, <2>1, <2>3 DEF MemTypes, links, blocks
  <2>4. CASE tls[t] # None /\ FreeLocal(tls[t], n) /\ UNCHANGED <<head, tail>>
    BY <1>m, <2>1, <2>2, <2>4, FreeLocalMem DEF MemTypes
  <2> QED BY <2>1, <2>3, <2>4 DEF InitTls, FreeNode
<1>4. CASE PrependXchg(t)
  <2>1. p[t] \in Nodes
    BY <1>4 DEF PrependXchg, IInv, Own, RegTypes, Control, Prepends
  <2>2. bt[t] \in Atls \cup {None}
    BY ThreadTypes
  <2> QED BY <1>4, <1>m, <2>1, <2>2 DEF PrependXchg, MemTypes, blocks
<1>5. CASE PrependLink(t)
  <2>1. p[t] \in Nodes
    BY <1>5 DEF PrependLink, IInv, Own, RegTypes, Control, Prepends
  <2> QED BY <1>5, <1>m, <2>1 DEF PrependLink, MemTypes, blocks
<1>6. CASE ScanFree(t)
  <2>1. q[t] \in Nodes
    BY <1>6 DEF ScanFree, IInv, Own, QueuesLinked, IsFront
  <2>2. tls[t] \in Atls
    BY <1>6, ThreadTypes, SMTT(20), SMTT(30) DEF ScanFree, IInv, Own, Control, NoTls
  <2> QED BY <1>6, <1>m, <2>1, <2>2, FreeLocalMem, SMTT(20), SMTT(30) DEF ScanFree, MemTypes
<1>7. CASE ScanLast(t)
  <2>1. q[t] \in Nodes
    BY <1>7 DEF ScanLast, IInv, Own, QueuesLinked, IsFront
  <2> QED BY <1>7, <1>m, <2>1 DEF ScanLast, MemTypes, links, blocks
<1>8. CASE MallocSlab(t) \/ MallocHeap(t)
  <2>1. UNCHANGED <<head, tail, links>>
    BY <1>8 DEF MallocSlab, MallocHeap
  <2>2. CASE UNCHANGED <<blocks, inUse>>
    BY <1>m, <2>1, <2>2 DEF MemTypes, links, blocks
  <2>3. CASE \E b \in Blocks : \E n \in free[b] : TakeNode(b, n)
    BY <1>m, <2>1, <2>3, TakeNodeMem
  <2> QED BY <1>8, <2>2, <2>3 DEF MallocSlab, MallocHeap, OnList
<1>9. CASE MallocCreate(t)
  <2>1. UNCHANGED <<head, tail, links, inUse>>
    BY <1>9 DEF MallocCreate
  <2>2. CASE UNCHANGED blocks
    BY <1>m, <2>1, <2>2 DEF MemTypes, links, blocks
  <2>3. CASE SlabCreate(tls[t])
    <3>1. tls[t] \in Atls
      BY <1>9, ThreadTypes DEF MallocCreate, IInv, Own, Control, NoTls
    <3>2. PICK c \in Chunks(tls[t]) : \E s \in c :
            /\ pc_slab' = pc_slab \ {c} /\ chunk' = [chunk EXCEPT ![tls[t]] = c \ {s}]
            /\ owner' = [owner EXCEPT ![s] = tls[t]] /\ list' = [list EXCEPT ![s] = "partial"]
            /\ free' = [free EXCEPT ![s] = NodesOf(s)]
      BY <2>3 DEF SlabCreate
    <3>3. PICK s \in c :
            /\ pc_slab' = pc_slab \ {c} /\ chunk' = [chunk EXCEPT ![tls[t]] = c \ {s}]
            /\ owner' = [owner EXCEPT ![s] = tls[t]] /\ list' = [list EXCEPT ![s] = "partial"]
            /\ free' = [free EXCEPT ![s] = NodesOf(s)]
      BY <3>2
    <3>4. s \in Blocks /\ c \in SUBSET Slabs /\ NodesOf(s) \in SUBSET Nodes
      BY <3>1, ChunkFacts DEF NodesOf
    <3> QED BY <1>m, <2>1, <3>1, <3>3, <3>4 DEF MemTypes, links, Kinds
  <2> QED BY <1>9, <2>2, <2>3 DEF MallocCreate
<1>10. CASE MallocBlock(t)
  <2>1. UNCHANGED <<head, tail, links, inUse>>
    BY <1>10 DEF MallocBlock
  <2>2. CASE UNCHANGED blocks
    BY <1>m, <2>1, <2>2 DEF MemTypes, links, blocks
  <2>3. CASE \E b \in Fresh(Pages) :
               /\ owner' = [owner EXCEPT ![b] = tls[t]] /\ list' = [list EXCEPT ![b] = "bl"]
               /\ free' = [free EXCEPT ![b] = NodesOf(b)] /\ UNCHANGED <<chunk, pc_slab>>
    <3>1. PICK b \in Fresh(Pages) :
               /\ owner' = [owner EXCEPT ![b] = tls[t]] /\ list' = [list EXCEPT ![b] = "bl"]
               /\ free' = [free EXCEPT ![b] = NodesOf(b)] /\ UNCHANGED <<chunk, pc_slab>>
      BY <2>3
    <3>2. NodesOf(b) \in SUBSET Nodes /\ tls[t] \in Atls \cup {None}
      BY ThreadTypes DEF NodesOf
    <3> QED BY <1>m, <2>1, <3>1, <3>2 DEF MemTypes, links, Kinds
  <2> QED BY <1>10, <2>2, <2>3 DEF MallocBlock
<1>11. CASE ReapMerge(t)
  <2>1. PICK b \in Blocks : /\ owner' = [owner EXCEPT ![b] = tls[t]]
                            /\ list' = [list EXCEPT ![b] = IF b \in Slabs /\ Used(b) = {}
                                                           THEN "full" ELSE list[b]]
    BY <1>11 DEF ReapMerge, Merged
  <2>2. tls[t] \in Atls \cup {None}
    BY ThreadTypes
  <2>3. list' \in [Blocks -> Kinds] /\ owner' \in [Blocks -> Atls \cup {None}]
    BY <1>m, <2>1, <2>2 DEF MemTypes, Kinds
  <2> QED BY <1>11, <1>m, <2>3 DEF ReapMerge, MemTypes, links
<1>12. CASE ReapMerged(t)
  <2>1. tl2[t] \in Atls
    BY <1>12, ThreadTypes DEF ReapMerged, IInv, Own, Control, Holds
  <2>2. chunk[tl2[t]] \in SUBSET Slabs
    BY <1>m, <2>1, SMTT(20), SMTT(30) DEF MemTypes
  <2> QED BY <1>12, <1>m, <2>1, <2>2 DEF ReapMerged, MemTypes, links
<1>13. CASE ReapFree(t)
  <2>1. tls[t] \in Atls /\ tl2[t] # None /\ pc[t] # "scan"
    BY <1>13, ThreadTypes DEF ReapFree, IInv, Own, Control, NoTls, Holds
  <2>2. head[tl2[t]] \in Nodes
    BY <2>1, HeadFront DEF IsFront
  <2> QED BY <1>13, <1>m, <2>1, <2>2, FreeLocalMem, SMTT(20), SMTT(30) DEF ReapFree, MemTypes
<1> QED BY <1>1, <1>2, <1>3, <1>4, <1>5, <1>6, <1>7, <1>8, <1>9, <1>10, <1>11, <1>12, <1>13,
           Zenon DEF Step
-----------------------------------------------------------------------------
(* What a thread has in hand, and h_list *)

(* A step of t leaves the registers of the others alone.                    *)
LEMMA Others ==
    ASSUME IInv, NEW t \in Threads, NEW u \in Threads, u # t, Step(t)
    PROVE  /\ pc'[u] = pc[u] /\ ret'[u] = ret[u] /\ p'[u] = p[u] /\ tls'[u] = tls[u]
           /\ tl2'[u] = tl2[u] /\ q'[u] = q[u] /\ old'[u] = old[u] /\ bt'[u] = bt[u]
<1>t. /\ pc \in [Threads -> Labels] /\ ret \in [Threads -> Labels]
      /\ p \in [Threads -> Nodes \cup {None}] /\ old \in [Threads -> Nodes \cup {None}]
      /\ q \in [Threads -> Nodes \cup {None}] /\ tls \in [Threads -> Atls \cup {None}]
      /\ tl2 \in [Threads -> Atls \cup {None}] /\ bt \in [Threads -> Atls \cup {None}]
  BY ThreadTypes DEF IInv, Own, RegTypes
<1> USE <1>t DEF Goto, StartScan, NoneDead, InitTls, FreeNode, prepend, reap, scan
<1>1. CASE InitLock(t) BY <1>1 DEF InitLock
<1>2. CASE InitTake(t) BY <1>2 DEF InitTake
<1>3. CASE InitNew(t) BY <1>3 DEF InitNew
<1>4. CASE InitHazard(t) BY <1>4 DEF InitHazard
<1>5. CASE DestroyTls(t) BY <1>5 DEF DestroyTls
<1>6. CASE DestroyPush(t) BY <1>6 DEF DestroyPush
<1>7. CASE Free(t) BY <1>7, SMTT(20), SMTT(30) DEF Free
<1>8. CASE FreeAux(t) BY <1>8 DEF FreeAux
<1>9. CASE PrependHazard(t) BY <1>9 DEF PrependHazard
<1>10. CASE PrependAgain(t) BY <1>10 DEF PrependAgain
<1>11. CASE PrependXchg(t) BY <1>11 DEF PrependXchg
<1>12. CASE PrependLink(t) BY <1>12 DEF PrependLink
<1>13. CASE PrependClear(t) BY <1>13 DEF PrependClear
<1>14. CASE MallocAux(t) BY <1>14 DEF MallocAux
<1>15. CASE ScanFree(t) BY <1>15 DEF ScanFree
<1>16. CASE ScanLast(t) BY <1>16 DEF ScanLast
<1>17. CASE MallocSlab(t) BY <1>17 DEF MallocSlab
<1>18. CASE MallocCreate(t) BY <1>18 DEF MallocCreate
<1>19. CASE MallocHeap(t) BY <1>19 DEF MallocHeap
<1>20. CASE MallocBlock(t) BY <1>20 DEF MallocBlock
<1>21. CASE ReapCheck(t) BY <1>21 DEF ReapCheck
<1>22. CASE ReapTry(t) BY <1>22 DEF ReapTry
<1>23. CASE ReapTake(t) BY <1>23 DEF ReapTake
<1>24. CASE ReapLock(t) BY <1>24 DEF ReapLock
<1>25. CASE ReapMerge(t) BY <1>25 DEF ReapMerge
<1>26. CASE ReapMerged(t) BY <1>26 DEF ReapMerged
<1>27. CASE ReapWait(t) BY <1>27 DEF ReapWait
<1>28. CASE ReapScan(t) BY <1>28 DEF ReapScan
<1>29. CASE ReapFree(t) BY <1>29 DEF ReapFree
<1> QED BY <1>1, <1>2, <1>3, <1>4, <1>5, <1>6, <1>7, <1>8, <1>9, <1>10, <1>11, <1>12, <1>13,
           <1>14, <1>15, <1>16, <1>17, <1>18, <1>19, <1>20, <1>21, <1>22, <1>23, <1>24, <1>25,
           <1>26, <1>27, <1>28, <1>29, Zenon DEF Step

(* The clause of Control for a thread.                                      *)
InHand(l, a, n, d, r) ==
    /\ l \in NoTls => a = None
    /\ l \notin NoTls \cup {"idle"} => a # None
    /\ n # None <=> l \in Prepends \cup {"free"} \/ (l \in Inits /\ r = "free")
    /\ d # None <=> l \in Holds \/ (l = "scan" /\ r = "r_free")
    /\ l \in Inits => r \in {"free", "m_slab", "m_heap"}
    /\ l = "scan" => r \in {"m_create", "m_scanned", "r_free"}

(* A thread has at hand what it needs where it is.                          *)
LEMMA ControlStep == ASSUME IInv, NEW t \in Threads, Step(t) PROVE Control'
<1>a. \A u \in Threads : InHand(pc[u], tls[u], p[u], tl2[u], ret[u])
  BY DEF IInv, Own, Control, InHand
<1>b. ASSUME NEW u \in Threads, u # t
      PROVE  InHand(pc'[u], tls'[u], p'[u], tl2'[u], ret'[u])
  BY <1>a, <1>b, Others
<1>t. /\ pc \in [Threads -> Labels] /\ ret \in [Threads -> Labels]
      /\ p \in [Threads -> Nodes \cup {None}]
      /\ tls \in [Threads -> Atls \cup {None}] /\ tl2 \in [Threads -> Atls \cup {None}]
      /\ d_list \in SUBSET Atls /\ None \notin Atls /\ None \notin Nodes /\ inUse \subseteq Nodes
  BY ThreadTypes, NodeFacts DEF IInv, Own, RegTypes, MemTypes
<1>c. InHand(pc[t], tls[t], p[t], tl2[t], ret[t])
  BY <1>a
<1>d. InHand(pc'[t], tls'[t], p'[t], tl2'[t], ret'[t])
  <2> USE <1>t, <1>c DEF InHand, On, Goto, Inits, NoTls, Prepends, Holds, prepend, reap
  <2>1. CASE InitLock(t) BY <2>1 DEF InitLock
  <2>2. CASE InitTake(t) BY <2>2, SMTT(20), SMTT(30) DEF InitTake
  <2>3. CASE InitNew(t)
    <3>1. PICK a \in Atls : tls' = [tls EXCEPT ![t] = a]
      BY <2>3, FreshFacts DEF InitNew
    <3> QED BY <2>3, <3>1 DEF InitNew
  <2>4. CASE InitHazard(t) BY <2>4 DEF InitHazard
  <2>5. CASE DestroyTls(t) BY <2>5 DEF DestroyTls, Call
  <2>6. CASE DestroyPush(t) BY <2>6 DEF DestroyPush
  <2>7. CASE Free(t) BY <2>7, SMTT(20), SMTT(30) DEF Free, InitTls, FreeNode, Call
  <2>8. CASE FreeAux(t) BY <2>8 DEF FreeAux, FreeNode
  <2>9. CASE PrependHazard(t) BY <2>9 DEF PrependHazard
  <2>10. CASE PrependAgain(t) BY <2>10 DEF PrependAgain
  <2>11. CASE PrependXchg(t) BY <2>11 DEF PrependXchg
  <2>12. CASE PrependLink(t) BY <2>12 DEF PrependLink
  <2>13. CASE PrependClear(t) BY <2>13 DEF PrependClear
  <2>14. CASE MallocAux(t) BY <2>14, SMTT(20), SMTT(30) DEF MallocAux, InitTls, Call
  <2>15. CASE ScanFree(t) BY <2>15 DEF ScanFree
  <2>16. CASE ScanLast(t) BY <2>16 DEF ScanLast
  <2>17. CASE MallocSlab(t) BY <2>17, SMTT(20), SMTT(30) DEF MallocSlab, Mallocs, Call, StartScan
  <2>18. CASE MallocCreate(t) BY <2>18 DEF MallocCreate
  <2>19. CASE MallocHeap(t) BY <2>19 DEF MallocHeap, Mallocs, Call
  <2>20. CASE MallocBlock(t) BY <2>20 DEF MallocBlock
  <2>21. CASE ReapCheck(t) BY <2>21 DEF ReapCheck, NoneDead, StartScan
  <2>22. CASE ReapTry(t) BY <2>22 DEF ReapTry, NoneDead, StartScan
  <2>23. CASE ReapTake(t) BY <2>23, SMTT(20), SMTT(30) DEF ReapTake, NoneDead, StartScan
  <2>24. CASE ReapLock(t) BY <2>24 DEF ReapLock
  <2>25. CASE ReapMerge(t) BY <2>25 DEF ReapMerge
  <2>26. CASE ReapMerged(t) BY <2>26 DEF ReapMerged
  <2>27. CASE ReapWait(t) BY <2>27 DEF ReapWait
  <2>28. CASE ReapScan(t) BY <2>28 DEF ReapScan, StartScan
  <2>29. CASE ReapFree(t) BY <2>29 DEF ReapFree
  <2> QED BY <2>1, <2>2, <2>3, <2>4, <2>5, <2>6, <2>7, <2>8, <2>9, <2>10, <2>11, <2>12, <2>13,
             <2>14, <2>15, <2>16, <2>17, <2>18, <2>19, <2>20, <2>21, <2>22, <2>23, <2>24,
             <2>25, <2>26, <2>27, <2>28, <2>29, Zenon DEF Step
<1> QED BY <1>b, <1>d DEF Control, InHand

(* The atls of a thread stays on h_list from init_atls on.                  *)
LEMMA JoinedStep == ASSUME IInv, NEW t \in Threads, Step(t) PROVE Joined'
<1>j. Joined
  BY DEF IInv, Own
<1>t. /\ tls \in [Threads -> Atls \cup {None}] /\ tl2 \in [Threads -> Atls \cup {None}]
      /\ d_list \in SUBSET Atls /\ None \notin Atls /\ pc \in [Threads -> Labels]
  BY ThreadTypes, NodeFacts DEF IInv, Own, RegTypes
<1>c. /\ pc[t] \in NoTls => tls[t] = None
      /\ pc[t] \notin NoTls \cup {"idle"} => tls[t] # None
      /\ pc[t] \in Inits => ret[t] \in {"free", "m_slab", "m_heap"}
      /\ tl2[t] # None <=> pc[t] \in Holds \/ (pc[t] = "scan" /\ ret[t] = "r_free")
  BY DEF IInv, Own, Control
<1>o. ASSUME NEW u \in Threads, u # t
      PROVE  pc'[u] = pc[u] /\ tls'[u] = tls[u] /\ tl2'[u] = tl2[u]
  BY <1>o, Others
<1> USE <1>j, <1>t, <1>c DEF Joined, On, Goto, NoTls, Inits
<1>1. CASE InitTake(t)
  BY <1>1, <1>o DEF InitTake, reap
<1>2. CASE InitNew(t)
  <2>1. \E a \in Atls : tls' = [tls EXCEPT ![t] = a]
    BY <1>2, FreshFacts DEF InitNew
  <2> QED BY <1>2, <1>o, <2>1 DEF InitNew, reap, lists
<1>3. CASE InitHazard(t)
  BY <1>3, <1>o DEF InitHazard, reap
<1>4. CASE DestroyTls(t)
  BY <1>4, <1>o DEF DestroyTls, lists, Call
<1>5. CASE DestroyPush(t)
  BY <1>5, <1>o DEF DestroyPush
<1>6. CASE ReapTake(t)
  <2>1. pc'[t] \in {"r_hlock", "scan"} /\ tls' = tls /\ h_list' = h_list
    BY <1>6 DEF ReapTake, NoneDead, StartScan
  <2>2. CASE \E a \in d_list : d_list' = d_list \ {a} /\ tl2' = [tl2 EXCEPT ![t] = a]
    BY <1>6, <1>o, <2>1, <2>2 DEF ReapTake
  <2>3. CASE UNCHANGED <<d_list, tl2>> /\ NoneDead(t)
    BY <1>6, <1>o, <2>1, <2>3 DEF NoneDead, StartScan, ReapTake
  <2> QED BY <1>6, <2>2, <2>3 DEF ReapTake
<1>7. CASE ReapLock(t)
  <2>1. tl2[t] # None /\ tls[t] # None
    BY <1>7 DEF ReapLock, Holds
  <2>2. /\ \A u \in Threads : tls[u] # tl2[t] /\ (u # t => tl2[u] # tl2[t])
        /\ tl2[t] \notin d_list
    BY <2>1 DEF IInv, R!IInv, R!OnePlace
  <2> QED BY <1>7, <1>o, <2>1, <2>2 DEF ReapLock, reap
<1>8. CASE /\ UNCHANGED <<tls, h_list, d_list>>
           /\ pc[t] # "i_hlock" /\ pc'[t] \notin {"d_lock", "r_hlock"}
  BY <1>8, <1>o
<1>9. CASE \/ InitLock(t) \/ PrependHazard(t) \/ PrependAgain(t)
           \/ PrependXchg(t) \/ PrependLink(t) \/ PrependClear(t) \/ ReapWait(t)
           \/ ScanFree(t) \/ ReapMerge(t) \/ ReapMerged(t) \/ ReapScan(t)
           \/ ReapFree(t) \/ MallocCreate(t) \/ MallocBlock(t)
  <2>1. CASE \/ InitLock(t) \/ PrependHazard(t) \/ PrependAgain(t) \/ PrependXchg(t)
             \/ PrependLink(t) \/ PrependClear(t)
    BY <1>8, <2>1 DEF InitLock, PrependHazard, PrependAgain, PrependXchg, PrependLink,
       PrependClear, lists
  <2>2. CASE \/ ReapWait(t) \/ ScanFree(t) \/ ReapMerge(t) \/ ReapMerged(t) \/ ReapFree(t)
    BY <1>8, <2>2 DEF ReapWait, ScanFree, ReapMerge, ReapMerged, ReapFree, lists
  <2>3. CASE ReapScan(t) \/ MallocCreate(t) \/ MallocBlock(t)
    BY <1>8, <2>3 DEF ReapScan, StartScan, MallocCreate, MallocBlock, lists
  <2> QED BY <1>9, <2>1, <2>2, <2>3
<1>10. CASE Free(t) \/ FreeAux(t) \/ MallocAux(t)
  <2>1. CASE Free(t)
    BY <1>8, <2>1, SMTT(20), SMTT(30) DEF Free, InitTls, FreeNode, Call, lists
  <2>2. CASE FreeAux(t)
    BY <1>8, <2>2 DEF FreeAux, FreeNode, lists
  <2>3. CASE MallocAux(t)
    BY <1>8, <2>3 DEF MallocAux, InitTls, Call, lists
  <2> QED BY <1>10, <2>1, <2>2, <2>3
<1>11. CASE MallocSlab(t) \/ MallocHeap(t) \/ ReapCheck(t) \/ ReapTry(t)
  BY <1>8, <1>11 DEF MallocSlab, MallocHeap, Mallocs, Call, StartScan, NoneDead, ReapCheck,
      ReapTry, lists
<1>12. CASE ScanLast(t)
  <2>1. ret[t] \in {"m_create", "m_scanned", "r_free"}
    BY <1>12 DEF IInv, Own, Control, ScanLast
  <2> QED BY <1>8, <1>12, <2>1 DEF ScanLast, lists
<1> QED BY <1>1, <1>2, <1>3, <1>4, <1>5, <1>6, <1>7, <1>9, <1>10, <1>11, <1>12, Zenon DEF Step
-----------------------------------------------------------------------------
(* The spare slabs *)

(* What the invariant says of the spare slabs.                              *)
LEMMA ChunksUse ==
    ASSUME IInv
    PROVE  /\ \A b \in Blocks : free[b] \subseteq NodesOf(b)
           /\ \A b \in Blocks : Live(b) => owner[b] # None
           /\ \A a \in Atls : a \in gone => list[a] # "new"
           /\ \A a \in Atls : \A s \in chunk[a] : s \in Slabs /\ list[s] = "spare"
           /\ \A c \in pc_slab : \A s \in c : s \in Slabs /\ list[s] = "spare"
           /\ \A a, o \in Atls : a # o => chunk[a] \cap chunk[o] = {}
           /\ \A a \in Atls : \A c \in pc_slab : c \cap chunk[a] = {}
           /\ \A c, d \in pc_slab : c # d => c \cap d = {}
BY DEF IInv, Own, MemTypes, ChunksApart

(* A slab that becomes spare is put in one chunk.                           *)
LEMMA FreeLocalChunks ==
    ASSUME IInv, NEW t \in Threads, NEW a \in Atls, NEW n, Mine(t, n), FreeLocal(a, n),
           NEW x \in Atls, life[x] = "live", gone' \in {gone, gone \cup {x}}
    PROVE  ChunksApart'
<1> DEFINE b == n[1]
<1>1. n \in NodesOf(b) /\ b \in Blocks /\ Live(b)
  BY NodeFacts DEF Mine
<1>t. /\ list \in [Blocks -> Kinds] /\ free \in [Blocks -> SUBSET Nodes]
      /\ chunk \in [Atls -> SUBSET Slabs]
  BY DEF IInv, Own, MemTypes
<1>2. PICK l \in {list[b], "spare"} :
        /\ list' = [list EXCEPT ![b] = l]
        /\ \/ UNCHANGED <<chunk, pc_slab>>
           \/ /\ l = "spare" /\ b \in Slabs
              /\ \/ chunk' = [chunk EXCEPT ![a] = chunk[a] \cup {b}] /\ pc_slab' = pc_slab
                 \/ chunk' = [chunk EXCEPT ![a] = {b}] /\ pc_slab' = pc_slab \cup {chunk[a]}
  <2> DEFINE leaves == b \in Slabs /\ Used(b) = {n} /\ OnList(a, list[b]) # {b}
  <2>1. CASE leaves
    <3>1. list' = [list EXCEPT ![b] = "spare"] /\ b \in Slabs
      BY <2>1 DEF FreeLocal
    <3>2. \/ chunk' = [chunk EXCEPT ![a] = chunk[a] \cup {b}] /\ pc_slab' = pc_slab
          \/ chunk' = [chunk EXCEPT ![a] = {b}] /\ pc_slab' = pc_slab \cup {chunk[a]}
      BY <2>1 DEF FreeLocal
    <3> QED BY <3>1, <3>2
  <2>2. CASE ~ leaves
    <3>1. list' = [list EXCEPT ![b] = list[b]] /\ pc_slab' = pc_slab
      BY <2>2 DEF FreeLocal
    <3>2. chunk' = [chunk EXCEPT ![a] = chunk[a]]
      BY <2>2 DEF FreeLocal
    <3> QED BY <3>1, <3>2, <1>t
  <2> QED BY <2>1, <2>2
<1>3. /\ \A c \in Blocks : c # b => list'[c] = list[c]
      /\ list'[b] \in {list[b], "spare"}
  BY <1>1, <1>2, <1>t
<1>4. free' = [free EXCEPT ![b] = free[b] \cup {n}] /\ owner' = owner
  BY DEF FreeLocal
<1>5. \A c \in Blocks : free'[c] \subseteq NodesOf(c)
  BY <1>1, <1>4, <1>t, ChunksUse, SMTT(20), SMTT(30)
<1>6. \A c \in Blocks : Live(c)' => owner'[c] # None
  BY <1>3, <1>4, ChunksUse DEF Live
<1>7. \A o \in Atls : o \in gone' => list'[o] # "new"
  <2>1. \A o \in Atls : list[o] # "new" => list'[o] # "new"
    BY <1>3, NodeFacts
  <2>2. list[x] # "new"
    BY DEF life
  <2> QED BY <2>1, <2>2, ChunksUse
<1>8. /\ \A o \in Atls : b \notin chunk[o]
      /\ \A c \in pc_slab : b \notin c
  BY <1>1, ChunksUse, SMTT(20), SMTT(30) DEF Live
<1>9. /\ \A o \in Atls : \A s \in chunk[o] : list'[s] = "spare"
      /\ \A c \in pc_slab : \A s \in c : list'[s] = "spare"
  BY <1>3, <1>8, ChunksUse, NodeFacts
<1>10. CASE UNCHANGED <<chunk, pc_slab>>
  BY <1>5, <1>6, <1>7, <1>9, <1>10, ChunksUse DEF ChunksApart
<1>11. CASE /\ list'[b] = "spare"
            /\ chunk' = [chunk EXCEPT ![a] = chunk[a] \cup {b}] /\ pc_slab' = pc_slab
  <2>1. \A o \in Atls : chunk'[o] = IF o = a THEN chunk[a] \cup {b} ELSE chunk[o]
    BY <1>11, <1>t
  <2>2. \A o \in Atls : \A s \in chunk'[o] : list'[s] = "spare"
    BY <1>9, <1>11, <2>1, SMTT(20), SMTT(30)
  <2>3. /\ \A o, u \in Atls : o # u => chunk'[o] \cap chunk'[u] = {}
        /\ \A o \in Atls : \A c \in pc_slab' : c \cap chunk'[o] = {}
    BY <1>8, <1>11, <2>1, ChunksUse, SMTT(20), SMTT(30)
  <2> QED BY <1>5, <1>6, <1>7, <1>9, <1>11, <2>2, <2>3, ChunksUse DEF ChunksApart
<1>12. CASE /\ list'[b] = "spare"
            /\ chunk' = [chunk EXCEPT ![a] = {b}] /\ pc_slab' = pc_slab \cup {chunk[a]}
  <2>1. \A o \in Atls : chunk'[o] = IF o = a THEN {b} ELSE chunk[o]
    BY <1>12, <1>t
  <2>2. /\ \A o \in Atls : \A s \in chunk'[o] : list'[s] = "spare"
        /\ \A c \in pc_slab' : \A s \in c : list'[s] = "spare"
    BY <1>9, <1>12, <2>1, SMTT(20), SMTT(30)
  <2>3. /\ \A o, u \in Atls : o # u => chunk'[o] \cap chunk'[u] = {}
        /\ \A o \in Atls : \A c \in pc_slab' : c \cap chunk'[o] = {}
        /\ \A c, d \in pc_slab' : c # d => c \cap d = {}
    BY <1>8, <1>12, <2>1, ChunksUse, SMTT(20), SMTT(30)
  <2> QED BY <1>5, <1>6, <1>7, <2>2, <2>3 DEF ChunksApart
<1> QED BY <1>1, <1>2, <1>t, <1>10, <1>11, <1>12

(* A slab that is taken leaves its chunk.                                   *)
LEMMA SlabCreateChunks ==
    ASSUME IInv, NEW a \in Atls, SlabCreate(a), gone' = gone
    PROVE  ChunksApart'
<1>1. PICK c \in Chunks(a) : \E s \in c :
        /\ pc_slab' = pc_slab \ {c} /\ chunk' = [chunk EXCEPT ![a] = c \ {s}]
        /\ owner' = [owner EXCEPT ![s] = a] /\ list' = [list EXCEPT ![s] = "partial"]
        /\ free' = [free EXCEPT ![s] = NodesOf(s)]
  BY DEF SlabCreate
<1>2. PICK s \in c :
        /\ pc_slab' = pc_slab \ {c} /\ chunk' = [chunk EXCEPT ![a] = c \ {s}]
        /\ owner' = [owner EXCEPT ![s] = a] /\ list' = [list EXCEPT ![s] = "partial"]
        /\ free' = [free EXCEPT ![s] = NodesOf(s)]
  BY <1>1
<1>t. /\ list \in [Blocks -> Kinds] /\ free \in [Blocks -> SUBSET Nodes]
      /\ chunk \in [Atls -> SUBSET Slabs] /\ owner \in [Blocks -> Atls \cup {None}]
  BY DEF IInv, Own, MemTypes
<1>3. /\ s \in Slabs /\ s \in Blocks /\ c \in SUBSET Slabs
      /\ None \notin Atls /\ Atls \subseteq Blocks \ Slabs
  BY ChunkFacts, NodeFacts
<1>4. /\ \A d \in pc_slab : d # c => d \cap c = {}
      /\ \A o \in Atls : o # a => chunk[o] \cap c = {}
      /\ \A r \in c \ {s} : list[r] = "spare"
  <2>1. CASE c = chunk[a]
    BY <2>1, ChunksUse
  <2>2. CASE chunk[a] = {} /\ c \in pc_slab
    BY <2>2, ChunksUse
  <2>3. CASE c = {s} /\ list[s] = "new"
    BY <2>3, ChunksUse
  <2> QED BY <2>1, <2>2, <2>3, ChunkFacts, SMTT(20), SMTT(30)
<1>5. /\ \A b \in Blocks : list'[b] = IF b = s THEN "partial" ELSE list[b]
      /\ \A b \in Blocks : owner'[b] = IF b = s THEN a ELSE owner[b]
      /\ \A b \in Blocks : free'[b] = IF b = s THEN NodesOf(s) ELSE free[b]
      /\ \A o \in Atls : chunk'[o] = IF o = a THEN c \ {s} ELSE chunk[o]
  BY <1>2, <1>3, <1>t
<1>6. /\ \A b \in Blocks : free'[b] \subseteq NodesOf(b)
      /\ \A b \in Blocks : Live(b)' => owner'[b] # None
      /\ \A o \in Atls : o \in gone' => list'[o] # "new"
  BY <1>3, <1>5, ChunksUse, SMTT(20), SMTT(30) DEF Live
<1>7. /\ \A o \in Atls : \A r \in chunk'[o] : r \in Blocks /\ r # s /\ list[r] = "spare"
      /\ \A d \in pc_slab' : \A r \in d : r \in Blocks /\ r # s /\ list[r] = "spare"
  BY <1>2, <1>3, <1>4, <1>5, ChunksUse, NodeFacts, SMTT(20), SMTT(30)
<1>8. /\ \A o \in Atls : \A r \in chunk'[o] : list'[r] = "spare"
      /\ \A d \in pc_slab' : \A r \in d : list'[r] = "spare"
  BY <1>5, <1>7
<1>9. /\ \A o, u \in Atls : o # u => chunk'[o] \cap chunk'[u] = {}
      /\ \A o \in Atls : \A d \in pc_slab' : d \cap chunk'[o] = {}
      /\ \A d, e \in pc_slab' : d # e => d \cap e = {}
  BY <1>2, <1>4, <1>5, ChunksUse, SMTT(20), SMTT(30)
<1> QED BY <1>6, <1>8, <1>9 DEF ChunksApart

(* A block comes into use, or another list.                                 *)
LEMMA BlockChunks ==
    ASSUME IInv, NEW b \in Blocks, NEW l \in {"bl", "partial", "full"}, list[b] # "spare",
           NEW a \in Atls, list' = [list EXCEPT ![b] = l], NEW f \in SUBSET NodesOf(b),
           owner' = [owner EXCEPT ![b] = a], free' = [free EXCEPT ![b] = f],
           UNCHANGED <<chunk, pc_slab, gone>>
    PROVE  ChunksApart'
<1>t. /\ list \in [Blocks -> Kinds] /\ free \in [Blocks -> SUBSET Nodes]
      /\ owner \in [Blocks -> Atls \cup {None}]
  BY DEF IInv, Own, MemTypes
<1>1. /\ \A c \in Blocks : list'[c] = IF c = b THEN l ELSE list[c]
      /\ \A c \in Blocks : owner'[c] = IF c = b THEN a ELSE owner[c]
      /\ \A c \in Blocks : free'[c] = IF c = b THEN f ELSE free[c]
  BY <1>t
<1>2. /\ \A c \in Blocks : free'[c] \subseteq NodesOf(c)
      /\ \A c \in Blocks : Live(c)' => owner'[c] # None
      /\ \A o \in Atls : o \in gone' => list'[o] # "new"
  BY <1>1, ChunksUse, NodeFacts, SMTT(20), SMTT(30) DEF Live
<1>3. /\ \A o \in Atls : \A s \in chunk'[o] : list'[s] = "spare"
      /\ \A c \in pc_slab' : \A s \in c : list'[s] = "spare"
  BY <1>1, ChunksUse, NodeFacts, SMTT(20), SMTT(30)
<1> QED BY <1>2, <1>3, ChunksUse DEF ChunksApart
(* What free does: nothing to the blocks, or it frees the node of a block   *)
(* of the thread.                                                           *)
LEMMA FreeCases ==
    ASSUME IInv, NEW t \in Threads, Free(t) \/ FreeAux(t)
    PROVE  /\ UNCHANGED <<lists, head, tail, tls, old, reap, scan>>
           /\ \E n \in Nodes :
                /\ Mine(t, n)
                /\ \/ pc[t] = "idle" /\ n \in inUse /\ inUse' = inUse \ {n} /\ p[t] = None
                   \/ pc[t] = "free" /\ n = p[t] /\ inUse' = inUse
                /\ \/ InitTls(t, "free") /\ p' = [p EXCEPT ![t] = n] /\ pc[t] = "idle"
                   \/ tls[t] # None /\ FreeNode(t, n)
<1>1. CASE Free(t)
  <2>1. pc[t] = "idle" /\ p[t] = None
    BY <1>1 DEF Free, Call, IInv, Own, Control, Prepends, Inits
  <2>2. PICK n \in inUse : /\ inUse' = inUse \ {n}
                           /\ \/ InitTls(t, "free") /\ p' = [p EXCEPT ![t] = n]
                              \/ tls[t] # None /\ FreeNode(t, n)
    BY <1>1 DEF Free
  <2>3. Mine(t, n) /\ n \in Nodes
    BY MineInUse DEF Mine
  <2> QED BY <2>1, <2>2, <2>3 DEF InitTls, FreeNode
<1>2. CASE FreeAux(t)
  <2>1. pc[t] = "free" /\ p[t] # None /\ tls[t] # None /\ inUse' = inUse /\ FreeNode(t, p[t])
    BY <1>2 DEF FreeAux, On, IInv, Own, Control, Prepends, Inits, NoTls
  <2>2. Mine(t, p[t]) /\ p[t] \in Nodes
    BY <2>1, MineFreeing DEF Mine
  <2> QED BY <2>1, <2>2 DEF FreeNode
<1> QED BY <1>1, <1>2

(* scan_queue and reap_dead free the front of a queue.                      *)
LEMMA ScanFront ==
    ASSUME IInv, NEW t \in Threads, pc[t] = "scan"
    PROVE  Scanned(t) \in Atls /\ life[Scanned(t)] = "live" /\ IsFront(Scanned(t), q[t])
<1>1. tls[t] # None /\ (ret[t] = "r_free" => tl2[t] # None)
  BY DEF IInv, Own, Control, NoTls
<1>2. Scanned(t) \in Atls /\ life[Scanned(t)] = "live"
  BY <1>1, ThreadTypes DEF Scanned, IInv, R!IInv, R!OnePlace
<1> QED BY <1>2 DEF IInv, Own, QueuesLinked

(* scan_queue and reap_dead free the front of a queue.                      *)
LEMMA ScanCases ==
    ASSUME IInv, NEW t \in Threads
    PROVE  /\ ScanFree(t) => IsFront(Scanned(t), q[t]) /\ Mine(t, q[t])
           /\ ReapFree(t) => /\ IsFront(tl2[t], head[tl2[t]]) /\ Mine(t, head[tl2[t]])
                             /\ tl2[t] \in Atls /\ life[tl2[t]] = "live" /\ pc[t] = "r_free"
           /\ ScanFree(t) \/ ScanLast(t) =>
                /\ Scanned(t) \in Atls /\ life[Scanned(t)] = "live" /\ pc[t] = "scan"
                /\ IsFront(Scanned(t), q[t])
           /\ ScanFree(t) \/ ReapFree(t) => tls[t] \in Atls
<1>1. ASSUME pc[t] = "scan"
      PROVE  Scanned(t) \in Atls /\ life[Scanned(t)] = "live" /\ IsFront(Scanned(t), q[t])
  BY <1>1, ScanFront
<1>2. ASSUME ReapFree(t)
      PROVE  /\ IsFront(tl2[t], head[tl2[t]]) /\ tl2[t] \in Atls /\ life[tl2[t]] = "live"
             /\ pc[t] = "r_free"
  <2>1. pc[t] = "r_free"
    BY <1>2 DEF ReapFree, On
  <2>2. tl2[t] # None
    BY <2>1 DEF IInv, Own, Control, Holds
  <2>3. tl2[t] \in Atls /\ life[tl2[t]] = "live"
    BY <2>2, ThreadTypes DEF IInv, R!IInv, R!OnePlace
  <2> QED BY <2>1, <2>2, <2>3, HeadFront
<1>3. ScanFree(t) \/ ReapFree(t) => tls[t] \in Atls
  BY ThreadTypes DEF ScanFree, ReapFree, On, IInv, Own, Control, NoTls
<1>4. ScanFree(t) \/ ScanLast(t) => pc[t] = "scan"
  BY DEF ScanFree, ScanLast, On
<1>5. ScanFree(t) => Mine(t, q[t])
  BY <1>1, <1>4, MineFront
<1>6. ReapFree(t) => Mine(t, head[tl2[t]])
  BY <1>2, MineFront
<1> QED BY <1>1, <1>2, <1>3, <1>4, <1>5, <1>6

(* malloc takes a free node of a block of the thread.                       *)
LEMMA TakeCases ==
    ASSUME IInv, NEW t \in Threads, MallocSlab(t) \/ MallocHeap(t)
    PROVE  /\ UNCHANGED <<lists, head, tail, tls, links, prepend, reap>>
           /\ pc[t] \in {"m_slab", "m_heap", "idle"} /\ tls[t] # None /\ tls[t] \in Atls
           /\ \/ UNCHANGED <<blocks, inUse>>
              \/ \E b \in Blocks : \E n \in free[b] :
                    /\ owner[b] = tls[t] /\ Live(b) /\ TakeNode(b, n)
                    /\ Goto(t, "idle") /\ UNCHANGED <<ret, scan>>
<1>1. pc[t] \in {"m_slab", "m_heap", "idle"} /\ tls[t] # None
  BY DEF MallocSlab, MallocHeap, Mallocs, On, Call, IInv, Own, Control, NoTls
<1>2. tls[t] \in Atls
  BY <1>1, ThreadTypes
<1>3. \/ UNCHANGED <<blocks, inUse>>
      \/ \E b \in OnList(tls[t], "partial") \cup OnList(tls[t], "bl") : \E n \in free[b] :
            TakeNode(b, n) /\ Goto(t, "idle") /\ UNCHANGED <<ret, scan>>
  BY DEF MallocSlab, MallocHeap
<1>4. UNCHANGED <<lists, head, tail, tls, links, prepend, reap>>
  BY DEF MallocSlab, MallocHeap
<1> QED BY <1>1, <1>2, <1>3, <1>4 DEF OnList, Live

(* Steps that leave the blocks alone leave the chunks alone.                *)
LEMMA ChunksSame ==
    ASSUME IInv, UNCHANGED <<gone, blocks>>
    PROVE  ChunksApart'
BY DEF IInv, Own, ChunksApart, blocks, Live

(* Spare slabs stay in one chunk each.                                      *)
LEMMA ChunksStep == ASSUME IInv, NEW t \in Threads, Step(t) PROVE ChunksApart'
<1> USE DEF On
<1>t. /\ list \in [Blocks -> Kinds] /\ free \in [Blocks -> SUBSET Nodes]
      /\ owner \in [Blocks -> Atls \cup {None}]
  BY DEF IInv, Own, MemTypes
<1>1. CASE \/ InitLock(t) \/ InitTake(t) \/ InitHazard(t) \/ DestroyTls(t) \/ DestroyPush(t)
           \/ PrependHazard(t) \/ PrependAgain(t) \/ PrependXchg(t) \/ PrependLink(t)
           \/ PrependClear(t) \/ MallocAux(t) \/ ScanLast(t)
           \/ ReapCheck(t) \/ ReapTry(t) \/ ReapTake(t) \/ ReapLock(t) \/ ReapWait(t)
           \/ ReapScan(t)
  <2>1. UNCHANGED <<gone, blocks>>
    BY <1>1 DEF InitLock, InitTake, InitHazard, DestroyTls, DestroyPush, PrependHazard,
        PrependAgain, PrependXchg, PrependLink, PrependClear, MallocAux, InitTls, ScanLast,
        ReapCheck, ReapTry, ReapTake, ReapLock, ReapWait, ReapScan, lists
  <2> QED BY <2>1, ChunksSame
<1>2. CASE InitNew(t)
  <2>1. PICK a \in Fresh(Atls) :
        /\ owner' = [owner EXCEPT ![a] = a] /\ list' = [list EXCEPT ![a] = "bl"]
        /\ free' = [free EXCEPT ![a] = {<<a, 1>>}]
    BY <1>2 DEF InitNew
  <2>2. a \in Atls /\ a \in Blocks /\ list[a] = "new"
    BY FreshFacts, NodeFacts, SMTT(20), SMTT(30)
  <2>4. <<a, 1>> \in NodesOf(a)
    BY <2>2, NodeFacts DEF Heap
  <2>5. {<<a, 1>>} \in SUBSET NodesOf(a)
    BY <2>4
  <2>3. UNCHANGED <<gone, chunk, pc_slab>>
    BY <1>2 DEF InitNew, lists
  <2> QED BY <2>1, <2>2, <2>3, <2>5, BlockChunks
<1>3. CASE Free(t) \/ FreeAux(t)
  <2>1. PICK n \in Nodes : /\ Mine(t, n)
                           /\ InitTls(t, "free") \/ (tls[t] # None /\ FreeNode(t, n))
    BY <1>3, FreeCases
  <2>2. gone' = gone
    BY <1>3, FreeCases DEF lists
  <2>3. CASE UNCHANGED blocks
    BY <2>2, <2>3, ChunksSame
  <2>4. CASE tls[t] # None /\ FreeLocal(tls[t], n)
    <3>1. tls[t] \in Atls /\ life[tls[t]] = "live"
      BY <2>4, ThreadTypes DEF IInv, R!IInv, R!OnePlace
    <3> QED BY <2>1, <2>2, <2>4, <3>1, FreeLocalChunks
  <2> QED BY <2>1, <2>3, <2>4 DEF InitTls, FreeNode
<1>4. CASE ScanFree(t)
  BY <1>4, ScanCases, FreeLocalChunks DEF ScanFree, lists
<1>5. CASE ReapFree(t)
  BY <1>5, ScanCases, FreeLocalChunks DEF ReapFree
<1>6. CASE MallocSlab(t) \/ MallocHeap(t)
  <2>1. gone' = gone
    BY <1>6, TakeCases DEF lists
  <2>2. CASE UNCHANGED blocks
    BY <2>1, <2>2, ChunksSame
  <2>3. CASE \E b \in Blocks : \E n \in free[b] :
                owner[b] = tls[t] /\ Live(b) /\ TakeNode(b, n)
    <3>1. PICK b \in Blocks : \E n \in free[b] :
                owner[b] = tls[t] /\ Live(b) /\ TakeNode(b, n)
      BY <2>3
    <3>2. PICK n \in free[b] : owner[b] = tls[t] /\ Live(b) /\ TakeNode(b, n)
      BY <3>1
    <3>3. \E l \in {"bl", "partial", "full"} : list' = [list EXCEPT ![b] = l]
      BY <3>2 DEF TakeNode, Live
    <3>4. /\ free' = [free EXCEPT ![b] = free[b] \ {n}] /\ UNCHANGED <<chunk, pc_slab>>
          /\ owner' = [owner EXCEPT ![b] = owner[b]]
      BY <3>2, <1>t DEF TakeNode
    <3>5. free[b] \ {n} \in SUBSET NodesOf(b) /\ owner[b] \in Atls /\ list[b] # "spare"
      BY <1>6, <3>2, TakeCases, ChunksUse DEF Live
    <3> QED BY <2>1, <3>3, <3>4, <3>5, BlockChunks
  <2> QED BY <1>6, <2>2, <2>3, TakeCases
<1>7. CASE MallocCreate(t)
  <2>1. gone' = gone /\ tls[t] \in Atls
    BY <1>7, ThreadTypes DEF MallocCreate, lists, IInv, Own, Control, NoTls
  <2> QED BY <1>7, <2>1, ChunksSame, SlabCreateChunks DEF MallocCreate
<1>8. CASE MallocBlock(t)
  <2>1. gone' = gone /\ tls[t] \in Atls
    BY <1>8, ThreadTypes DEF MallocBlock, lists, IInv, Own, Control, NoTls
  <2>2. CASE UNCHANGED blocks
    BY <2>1, <2>2, ChunksSame
  <2>3. CASE \E b \in Fresh(Pages) :
               /\ owner' = [owner EXCEPT ![b] = tls[t]] /\ list' = [list EXCEPT ![b] = "bl"]
               /\ free' = [free EXCEPT ![b] = NodesOf(b)] /\ UNCHANGED <<chunk, pc_slab>>
    <3>1. PICK b \in Fresh(Pages) :
               /\ owner' = [owner EXCEPT ![b] = tls[t]] /\ list' = [list EXCEPT ![b] = "bl"]
               /\ free' = [free EXCEPT ![b] = NodesOf(b)] /\ UNCHANGED <<chunk, pc_slab>>
      BY <2>3
    <3>2. b \in Blocks /\ list[b] = "new"
      BY FreshFacts, NodeFacts, SMTT(20), SMTT(30)
    <3> QED BY <2>1, <3>1, <3>2, BlockChunks
  <2> QED BY <1>8, <2>2, <2>3 DEF MallocBlock
<1>9. CASE ReapMerge(t)
  <2>1. PICK b \in Merged(tl2[t]) :
           /\ owner' = [owner EXCEPT ![b] = tls[t]]
           /\ list' = [list EXCEPT ![b] = IF b \in Slabs /\ Used(b) = {} THEN "full" ELSE list[b]]
    BY <1>9 DEF ReapMerge
  <2>2. b \in Blocks /\ Live(b)
    BY DEF Merged
  <2>3. \E l \in {"bl", "partial", "full"} : list' = [list EXCEPT ![b] = l]
    BY <2>1, <2>2 DEF Live
  <2>4. tls[t] \in Atls /\ UNCHANGED <<gone, chunk, pc_slab, free>>
    BY <1>9, ThreadTypes DEF ReapMerge, lists, IInv, Own, Control, NoTls
  <2>5. free' = [free EXCEPT ![b] = free[b]] /\ free[b] \in SUBSET NodesOf(b) /\ list[b] # "spare"
    BY <1>t, <2>2, <2>4, ChunksUse DEF Live
  <2> QED BY <2>1, <2>2, <2>3, <2>4, <2>5, BlockChunks
<1>10. CASE ReapMerged(t)
  <2>1. tl2[t] \in Atls
    BY <1>10, ThreadTypes DEF ReapMerged, IInv, Own, Control, Holds
  <2>2. /\ pc_slab' \subseteq pc_slab \cup {chunk[tl2[t]]}
        /\ chunk' = [chunk EXCEPT ![tl2[t]] = {}] /\ UNCHANGED <<owner, list, free, gone>>
    BY <1>10 DEF ReapMerged, lists
  <2>3. chunk \in [Atls -> SUBSET Slabs]
    BY DEF IInv, Own, MemTypes
  <2>4. \A o \in Atls : chunk'[o] = IF o = tl2[t] THEN {} ELSE chunk[o]
    BY <2>1, <2>2, <2>3
  <2>5. /\ \A b \in Blocks : free'[b] \subseteq NodesOf(b)
        /\ \A b \in Blocks : Live(b)' => owner'[b] # None
        /\ \A o \in Atls : o \in gone' => list'[o] # "new"
    BY <2>2, ChunksUse DEF Live
  <2>6. /\ \A o \in Atls : \A s \in chunk'[o] : list'[s] = "spare"
        /\ \A c \in pc_slab' : \A s \in c : list'[s] = "spare"
    BY <2>1, <2>2, <2>4, ChunksUse, SMTT(20), SMTT(30)
  <2>7. /\ \A o, u \in Atls : o # u => chunk'[o] \cap chunk'[u] = {}
        /\ \A o \in Atls : \A d \in pc_slab' : d \cap chunk'[o] = {}
        /\ \A d, e \in pc_slab' : d # e => d \cap e = {}
    BY <2>1, <2>2, <2>4, ChunksUse, SMTT(20), SMTT(30)
  <2> QED BY <2>5, <2>6, <2>7 DEF ChunksApart
<1> QED BY <1>1, <1>2, <1>3, <1>4, <1>5, <1>6, <1>7, <1>8, <1>9, <1>10, Zenon DEF Step
-----------------------------------------------------------------------------
(* The nodes *)

(* What the invariant says of the nodes.                                    *)
LEMMA NodesUse ==
    ASSUME IInv
    PROVE  /\ \A n \in Nodes : Busy(n) => n \notin free[n[1]] /\ Live(n[1])
           /\ \A n \in inUse : n \in Nodes /\ queued[n] = None /\ \A t \in Threads : p[t] # n
           /\ \A t \in Threads : p[t] # None =>
                 queued[p[t]] = IF pc[t] = "p_link" THEN bt[t] ELSE None
           /\ \A t, u \in Threads : p[t] # None /\ p[t] = p[u] => t = u
           /\ \A t \in Threads : p[t] \in Nodes \cup {None}
BY DEF IInv, Own, MemTypes, RegTypes, NodesApart

(* The links and the blocks are those of before.                            *)
LEMMA NodesSame ==
    ASSUME IInv, NEW t \in Threads, Step(t), UNCHANGED <<inUse, queued, p, free, list>>,
           p[t] # None => pc[t] # "p_link" /\ pc'[t] # "p_link"
    PROVE  NodesApart'
<1>1. ASSUME NEW u \in Threads, u # t PROVE pc'[u] = pc[u] /\ bt'[u] = bt[u]
  BY <1>1, Others
<1>2. ASSUME NEW u \in Threads, p'[u] # None
      PROVE  queued'[p'[u]] = IF pc'[u] = "p_link" THEN bt'[u] ELSE None
  BY <1>1, <1>2, NodesUse
<1>3. \A n \in Nodes : Busy(n)' => n \notin free'[n[1]] /\ Live(n[1])'
  BY NodesUse DEF Busy, Live
<1> QED BY <1>2, <1>3, NodesUse DEF NodesApart

(* Blocks change, but those with busy nodes stay as they are.               *)
LEMMA NodesKept ==
    ASSUME IInv, NEW t \in Threads, Step(t), UNCHANGED <<inUse, queued, p>>,
           p[t] = None,
           \A n \in Nodes : Live(n[1]) => free'[n[1]] = free[n[1]] /\ Live(n[1])'
    PROVE  NodesApart'
<1>1. ASSUME NEW u \in Threads, u # t PROVE pc'[u] = pc[u] /\ bt'[u] = bt[u]
  BY <1>1, Others
<1>2. ASSUME NEW u \in Threads, p'[u] # None
      PROVE  queued'[p'[u]] = IF pc'[u] = "p_link" THEN bt'[u] ELSE None
  BY <1>1, <1>2, NodesUse, SMTT(20), SMTT(30)
<1>3. \A n \in Nodes : Busy(n)' => n \notin free'[n[1]] /\ Live(n[1])'
  BY NodesUse DEF Busy
<1> QED BY <1>2, <1>3, NodesUse DEF NodesApart

(* What a node that is freed leaves behind: only a block without busy nodes *)
(* leaves its owner.                                                        *)
LEMMA FreeLocalFrame ==
    ASSUME IInv, NEW t \in Threads, NEW a \in Atls, NEW n, Mine(t, n), FreeLocal(a, n)
    PROVE  /\ \A m \in Nodes : m # n => /\ m \in free'[m[1]] <=> m \in free[m[1]]
                                        /\ queued'[m] = queued[m] /\ next'[m] = next[m]
           /\ queued'[n] = None /\ next'[n] = None
           /\ \A m \in Nodes : m # n /\ m \notin free[m[1]] /\ Live(m[1]) => Live(m[1])'
           /\ \A o \in Atls : list'[o] = list[o]
<1>t. /\ list \in [Blocks -> Kinds] /\ free \in [Blocks -> SUBSET Nodes]
      /\ next \in [Nodes -> Nodes \cup {None}] /\ queued \in [Nodes -> Atls \cup {None}]
  BY DEF IInv, Own, MemTypes
<1>1. n \in Nodes /\ n[1] \in Blocks
  BY NodeFacts DEF Mine
<1>2. free' = [free EXCEPT ![n[1]] = free[n[1]] \cup {n}]
  BY DEF FreeLocal
<1>3. next' = [next EXCEPT ![n] = None] /\ queued' = [queued EXCEPT ![n] = None]
  BY DEF FreeLocal
<1>4. PICK l : /\ list' = [list EXCEPT ![n[1]] = l]
               /\ l = list[n[1]] \/ (n[1] \in Slabs /\ Used(n[1]) = {n})
  BY DEF FreeLocal
<1>5. \A m \in Nodes : m # n => (m \in free'[m[1]] <=> m \in free[m[1]])
  BY <1>t, <1>1, <1>2, NodeFacts
<1>6. ASSUME NEW m \in Nodes, m # n, m \notin free[m[1]] PROVE list'[m[1]] = list[m[1]]
  <2>1. m \in Used(m[1]) /\ m[1] \in Blocks
    BY <1>6, NodeFacts DEF Used
  <2> QED BY <1>t, <1>1, <1>4, <1>6, <2>1
<1>7. \A o \in Atls : list'[o] = list[o]
  BY <1>t, <1>1, <1>4, NodeFacts, SMTT(20), SMTT(30)
<1> QED BY <1>t, <1>1, <1>3, <1>5, <1>6, <1>7 DEF Live

(* A node that is freed is in no other place.                               *)
LEMMA FreeLocalNodes ==
    ASSUME IInv, NEW t \in Threads, Step(t), NEW a \in Atls, NEW n, Mine(t, n), FreeLocal(a, n),
           p'[t] = None, inUse' \subseteq inUse, n \notin inUse'
    PROVE  NodesApart'
<1>1. \A u \in Threads : u # t => pc'[u] = pc[u] /\ bt'[u] = bt[u] /\ p'[u] = p[u]
  BY Others
<1>2. n \in Nodes /\ \A u \in Threads : p'[u] # n
  BY <1>1, NodeFacts DEF Mine
<1>3. ASSUME NEW m \in Nodes, Busy(m)' PROVE m # n /\ Busy(m)
  <2>1. m # n
    BY <1>2, <1>3, FreeLocalFrame DEF Busy
  <2>2. \A u \in Threads : p'[u] = m => p[u] = m
    BY <1>1, NodeFacts
  <2> QED BY <1>3, <2>1, <2>2, FreeLocalFrame DEF Busy
<1>4. \A m \in Nodes : Busy(m)' => m \notin free'[m[1]] /\ Live(m[1])'
  BY <1>3, NodesUse, FreeLocalFrame, SMTT(20), SMTT(30)
<1>5. \A m \in inUse' : queued'[m] = None /\ \A u \in Threads : p'[u] # m
  BY <1>1, NodesUse, FreeLocalFrame, NodeFacts, SMTT(20), SMTT(30)
<1>6. ASSUME NEW u \in Threads, p'[u] # None
      PROVE  queued'[p'[u]] = IF pc'[u] = "p_link" THEN bt'[u] ELSE None
  BY <1>1, <1>2, <1>6, NodesUse, FreeLocalFrame, SMTT(20), SMTT(30)
<1>7. \A v, u \in Threads : p'[v] # None /\ p'[v] = p'[u] => v = u
  BY <1>1, NodesUse, SMTT(20), SMTT(30)
<1> QED BY <1>4, <1>5, <1>6, <1>7 DEF NodesApart
(* A thread has a node in hand only where it frees one.                     *)
LEMMA NoNode ==
    ASSUME IInv, NEW t \in Threads, pc[t] \notin Prepends \cup Inits \cup {"free"}
    PROVE  p[t] = None
BY DEF IInv, Own, Control

(* free and free_aux: the node leaves the program for its one other place.  *)
LEMMA FreeNodes ==
    ASSUME IInv, NEW t \in Threads, Step(t), Free(t) \/ FreeAux(t)
    PROVE  NodesApart'
<1>1. PICK n \in Nodes :
        /\ Mine(t, n)
        /\ \/ pc[t] = "idle" /\ n \in inUse /\ inUse' = inUse \ {n} /\ p[t] = None
           \/ pc[t] = "free" /\ n = p[t] /\ inUse' = inUse
        /\ \/ InitTls(t, "free") /\ p' = [p EXCEPT ![t] = n] /\ pc[t] = "idle"
           \/ tls[t] # None /\ FreeNode(t, n)
  BY FreeCases
<1>t. p \in [Threads -> Nodes \cup {None}] /\ pc \in [Threads -> Labels]
  BY DEF IInv, Own, RegTypes
<1>o. \A u \in Threads : u # t => pc'[u] = pc[u] /\ bt'[u] = bt[u] /\ p'[u] = p[u]
  BY Others
<1>2. n \notin inUse' /\ inUse' \subseteq inUse /\ queued[n] = None /\ n # None
  BY <1>1, NodesUse, NodeFacts, SMTT(20), SMTT(30)
<1>3. \A u \in Threads : u # t => p[u] # n
  BY <1>1 DEF Mine
<1>4. CASE /\ UNCHANGED <<free, list, queued>> /\ p'[t] = n /\ pc'[t] # "p_link"
  <2>1. n \notin free[n[1]] /\ Live(n[1])
    BY <1>1 DEF Mine
  <2>2. ASSUME NEW m \in Nodes, Busy(m)' PROVE m = n \/ Busy(m)
    BY <1>o, <1>2, <1>4, <2>2 DEF Busy
  <2>3. \A m \in Nodes : Busy(m)' => m \notin free'[m[1]] /\ Live(m[1])'
    BY <1>4, <2>1, <2>2, NodesUse DEF Live
  <2>4. \A m \in inUse' : queued'[m] = None /\ \A u \in Threads : p'[u] # m
    BY <1>o, <1>2, <1>4, NodesUse, SMTT(20), SMTT(30)
  <2>5. ASSUME NEW u \in Threads, p'[u] # None
        PROVE  queued'[p'[u]] = IF pc'[u] = "p_link" THEN bt'[u] ELSE None
    BY <1>o, <1>2, <1>4, <2>5, NodesUse, SMTT(20), SMTT(30)
  <2>6. \A v, u \in Threads : p'[v] # None /\ p'[v] = p'[u] => v = u
    BY <1>o, <1>3, <1>4, NodesUse, SMTT(20), SMTT(30)
  <2> QED BY <2>3, <2>4, <2>5, <2>6 DEF NodesApart
<1>5. CASE tls[t] # None /\ FreeLocal(tls[t], n) /\ p'[t] = None
  <2>1. tls[t] \in Atls
    BY <1>5, ThreadTypes
  <2> QED BY <1>1, <1>2, <1>5, <2>1, FreeLocalNodes
<1>6. CASE InitTls(t, "free") /\ p' = [p EXCEPT ![t] = n]
  BY <1>4, <1>6, <1>t DEF InitTls, Goto, blocks, links
<1>7. CASE tls[t] # None /\ FreeNode(t, n)
  BY <1>4, <1>5, <1>7, <1>t DEF FreeNode, Goto, blocks, links
<1> QED BY <1>1, <1>6, <1>7

(* Every node stays in one place.                                           *)
LEMMA NodesStep == ASSUME IInv, NEW t \in Threads, Step(t) PROVE NodesApart'
<1>t. /\ list \in [Blocks -> Kinds] /\ free \in [Blocks -> SUBSET Nodes]
      /\ queued \in [Nodes -> Atls \cup {None}]
      /\ p \in [Threads -> Nodes \cup {None}] /\ pc \in [Threads -> Labels]
  BY DEF IInv, Own, MemTypes, RegTypes
<1>o. \A u \in Threads : u # t => pc'[u] = pc[u] /\ bt'[u] = bt[u] /\ p'[u] = p[u]
  BY Others
<1>1. CASE \/ InitLock(t) \/ InitTake(t) \/ InitHazard(t)
           \/ PrependHazard(t) \/ PrependAgain(t) \/ PrependClear(t)
  <2>1. UNCHANGED <<inUse, queued, p, free, list>>
    BY <1>1 DEF InitLock, InitTake, InitHazard, PrependHazard,
        PrependAgain, PrependClear, links, blocks, prepend
  <2>2. pc[t] # "p_link" /\ (pc'[t] # "p_link" \/ pc[t] \in Inits)
    BY <1>1, <1>t DEF InitLock, InitTake, InitHazard, PrependHazard, PrependAgain,
        PrependClear, On, Goto, Inits
  <2>3. pc[t] \in Inits => pc'[t] # "p_link"
    BY <1>1, <1>t DEF InitLock, InitTake, InitHazard, PrependHazard, PrependAgain,
        PrependClear, On, Goto, Inits, IInv, Own, Control
  <2> QED BY <2>1, <2>2, <2>3, NodesSame
<1>2. CASE \/ DestroyTls(t) \/ DestroyPush(t) \/ MallocAux(t) \/ ScanLast(t) \/ ReapCheck(t)
           \/ ReapTry(t) \/ ReapTake(t) \/ ReapLock(t) \/ ReapWait(t) \/ ReapScan(t)
           \/ ReapMerged(t)
  <2>1. UNCHANGED <<inUse, queued, p, free, list>>
    BY <1>2 DEF DestroyTls, DestroyPush, MallocAux, InitTls, ScanLast, ReapCheck, ReapTry,
        ReapTake, ReapLock, ReapWait, ReapScan, ReapMerged, links, blocks, prepend
  <2>2. pc[t] \in {"idle", "d_lock", "scan", "r_check", "r_try", "r_take", "r_hlock",
                   "r_merge", "r_wait"}
    BY <1>2 DEF DestroyTls, DestroyPush, MallocAux, ScanLast, ReapCheck, ReapTry,
        ReapTake, ReapLock, ReapWait, ReapScan, ReapMerged, On, Call
  <2>3. p[t] = None
    BY <2>2, NoNode DEF Prepends, Inits
  <2> QED BY <2>1, <2>3, NodesSame
<1>3. CASE InitNew(t)
  <2>1. PICK a \in Fresh(Atls) :
        /\ list' = [list EXCEPT ![a] = "bl"] /\ free' = [free EXCEPT ![a] = {<<a, 1>>}]
        /\ queued' = [queued EXCEPT ![<<a, 0>>] = a]
    BY <1>3 DEF InitNew
  <2>2. UNCHANGED <<inUse, p>> /\ pc[t] = "i_new" /\ pc'[t] = "i_hlock"
    BY <1>3, <1>t DEF InitNew, prepend, On, Goto
  <2>a. a \in Atls /\ a \in Blocks /\ list[a] = "new"
    BY FreshFacts, NodeFacts, SMTT(20), SMTT(30)
  <2>3. a \in Atls /\ a \in Blocks /\ list[a] = "new" /\ <<a, 0>> \in Nodes
    BY <2>a, NodeFacts DEF Heap
  <2>4. ~ Busy(<<a, 0>>) /\ \A m \in Nodes : Busy(m) => m[1] # a
    BY <2>3, NodesUse DEF Live
  <2>5. \A m \in Nodes : queued'[m] = IF m = <<a, 0>> THEN a ELSE queued[m]
    BY <1>t, <2>1, <2>3
  <2>6. ASSUME NEW m \in Nodes, Busy(m)' PROVE m = <<a, 0>> \/ Busy(m)
    BY <2>2, <2>5, <2>6 DEF Busy
  <2>7. \A b \in Blocks : /\ list'[b] = IF b = a THEN "bl" ELSE list[b]
                          /\ free'[b] = IF b = a THEN {<<a, 1>>} ELSE free[b]
    BY <1>t, <2>1, <2>3
  <2>8. ASSUME NEW m \in Nodes, Busy(m)' PROVE m \notin free'[m[1]] /\ Live(m[1])'
    <3>1. CASE m = <<a, 0>>
      BY <2>3, <2>7, <3>1, SMTT(20), SMTT(30) DEF Live
    <3>2. CASE Busy(m)
      BY <2>4, <2>7, <3>2, NodesUse, NodeFacts DEF Live
    <3> QED BY <2>6, <2>8, <3>1, <3>2
  <2>9. \A m \in inUse' : queued'[m] = None /\ \A u \in Threads : p'[u] # m
    BY <2>2, <2>4, <2>5, NodesUse DEF Busy
  <2>10. ASSUME NEW u \in Threads, p'[u] # None
         PROVE  queued'[p'[u]] = IF pc'[u] = "p_link" THEN bt'[u] ELSE None
    <3>1. p[u] # <<a, 0>> /\ p[u] \in Nodes
      BY <1>t, <2>2, <2>4, <2>10 DEF Busy
    <3> QED BY <1>o, <2>2, <2>5, <2>10, <3>1, NodesUse, SMTT(20), SMTT(30)
  <2> QED BY <2>2, <2>8, <2>9, <2>10, NodesUse DEF NodesApart
<1>4. CASE Free(t) \/ FreeAux(t)
  BY <1>4, FreeNodes
<1>5. CASE PrependXchg(t)
  <2>1. UNCHANGED <<inUse, p, free, list, bt>> /\ pc[t] = "p_xchg" /\ pc'[t] = "p_link"
    BY <1>5, <1>t DEF PrependXchg, blocks, On, Goto
  <2>2. p[t] \in Nodes /\ p[t] # None
    BY <2>1, <1>t DEF IInv, Own, Control, Prepends
  <2>3. \A m \in Nodes : queued'[m] = IF m = p[t] THEN bt[t] ELSE queued[m]
    BY <1>5, <1>t, <2>2 DEF PrependXchg
  <2>4. \A m \in Nodes : Busy(m)' => Busy(m)
    BY <2>1, <2>3 DEF Busy
  <2>5. \A m \in Nodes : Busy(m)' => m \notin free'[m[1]] /\ Live(m[1])'
    BY <2>1, <2>4, NodesUse DEF Live
  <2>6. \A m \in inUse' : queued'[m] = None /\ \A u \in Threads : p'[u] # m
    BY <2>1, <2>3, NodesUse
  <2>7. ASSUME NEW u \in Threads, p'[u] # None
        PROVE  queued'[p'[u]] = IF pc'[u] = "p_link" THEN bt'[u] ELSE None
    BY <1>o, <1>t, <2>1, <2>2, <2>3, <2>7, NodesUse, SMTT(20), SMTT(30)
  <2> QED BY <2>1, <2>5, <2>6, <2>7, NodesUse DEF NodesApart
<1>6. CASE PrependLink(t)
  <2>1. UNCHANGED <<inUse, queued, free, list>> /\ p'[t] = None
    BY <1>6, <1>t DEF PrependLink, blocks
  <2>2. \A m \in Nodes : Busy(m)' => Busy(m)
    BY <1>o, <2>1, NodeFacts DEF Busy
  <2>3. \A m \in Nodes : Busy(m)' => m \notin free'[m[1]] /\ Live(m[1])'
    BY <2>1, <2>2, NodesUse DEF Live
  <2>4. \A m \in inUse' : queued'[m] = None /\ \A u \in Threads : p'[u] # m
    BY <1>o, <2>1, NodesUse, NodeFacts, SMTT(20), SMTT(30)
  <2>5. ASSUME NEW u \in Threads, p'[u] # None
        PROVE  queued'[p'[u]] = IF pc'[u] = "p_link" THEN bt'[u] ELSE None
    BY <1>o, <2>1, <2>5, NodesUse, SMTT(20), SMTT(30)
  <2>6. \A v, u \in Threads : p'[v] # None /\ p'[v] = p'[u] => v = u
    BY <1>o, <2>1, NodesUse, SMTT(20), SMTT(30)
  <2> QED BY <2>3, <2>4, <2>5, <2>6 DEF NodesApart
<1>7. CASE ScanFree(t)
  <2>1. /\ Mine(t, q[t]) /\ tls[t] \in Atls /\ pc[t] = "scan"
        /\ IsFront(Scanned(t), q[t]) /\ Scanned(t) \in Atls
    BY <1>7, ScanCases
  <2>2. p[t] = None /\ UNCHANGED <<p, inUse>> /\ FreeLocal(tls[t], q[t])
    BY <1>7, <2>1, NoNode DEF Prepends, Inits, ScanFree, prepend
  <2>3. q[t] \notin inUse
    BY <2>1, NodesUse, NodeFacts DEF IsFront
  <2> QED BY <2>1, <2>2, <2>3, FreeLocalNodes
<1>8. CASE ReapFree(t)
  <2>1. /\ Mine(t, head[tl2[t]]) /\ tls[t] \in Atls /\ pc[t] = "r_free"
        /\ IsFront(tl2[t], head[tl2[t]]) /\ tl2[t] \in Atls
    BY <1>8, ScanCases
  <2>2. p[t] = None /\ UNCHANGED <<p, inUse>> /\ FreeLocal(tls[t], head[tl2[t]])
    BY <1>8, <2>1, NoNode DEF Prepends, Inits, ReapFree, prepend
  <2>3. head[tl2[t]] \notin inUse
    BY <2>1, NodesUse, NodeFacts DEF IsFront
  <2> QED BY <2>1, <2>2, <2>3, FreeLocalNodes
<1>9. CASE MallocSlab(t) \/ MallocHeap(t)
  <2>1. UNCHANGED <<queued, p>> /\ pc[t] \in {"m_slab", "m_heap", "idle"}
    BY <1>9, TakeCases DEF links, prepend
  <2>2. p[t] = None
    BY <2>1, NoNode DEF Prepends, Inits
  <2>3. CASE UNCHANGED <<blocks, inUse>>
    BY <2>1, <2>2, <2>3, NodesSame DEF blocks
  <2>4. CASE \E b \in Blocks : \E n \in free[b] : Live(b) /\ TakeNode(b, n)
    <3>1. PICK b \in Blocks : \E n \in free[b] : Live(b) /\ TakeNode(b, n)
      BY <2>4
    <3>2. PICK n \in free[b] : Live(b) /\ TakeNode(b, n)
      BY <3>1
    <3>3. n \in Nodes /\ n[1] = b
      BY ChunksUse, NodeFacts
    <3>4. ~ Busy(n)
      BY <3>3, NodesUse
    <3>5. free' = [free EXCEPT ![b] = free[b] \ {n}] /\ inUse' = inUse \cup {n}
      BY <3>2 DEF TakeNode
    <3>6. \E l \in {"bl", "partial", "full"} : list' = [list EXCEPT ![b] = l]
      BY <3>2 DEF TakeNode, Live
    <3>7. ASSUME NEW m \in Nodes, Busy(m)' PROVE m \notin free'[m[1]] /\ Live(m[1])'
      <4>1. m = n \/ Busy(m)
        BY <2>1, <3>5, <3>7 DEF Busy
      <4>2. m[1] \in Blocks
        BY NodeFacts
      <4>3. m \notin free'[m[1]]
        BY <1>t, <3>3, <3>5, <4>1, <4>2, NodesUse
      <4>4. Live(m[1])'
        BY <1>t, <3>2, <3>3, <3>6, <4>1, <4>2, NodesUse DEF Live
      <4> QED BY <4>3, <4>4
    <3>8. \A m \in inUse' : queued'[m] = None /\ \A u \in Threads : p'[u] # m
      BY <2>1, <3>4, <3>5, NodesUse DEF Busy
    <3>9. ASSUME NEW u \in Threads, p'[u] # None
          PROVE  queued'[p'[u]] = IF pc'[u] = "p_link" THEN bt'[u] ELSE None
      BY <1>o, <2>1, <2>2, <3>9, NodesUse, SMTT(20), SMTT(30)
    <3> QED BY <2>1, <3>7, <3>8, <3>9, NodesUse DEF NodesApart
  <2> QED BY <1>9, <2>3, <2>4, TakeCases
<1>10. CASE MallocCreate(t)
  <2>1. UNCHANGED <<inUse, queued, p>> /\ pc[t] = "m_create"
    BY <1>10 DEF MallocCreate, links, prepend, On
  <2>2. p[t] = None
    BY <2>1, NoNode DEF Prepends, Inits
  <2>3. CASE UNCHANGED blocks
    BY <2>1, <2>2, <2>3, NodesSame DEF blocks
  <2>4. CASE SlabCreate(tls[t])
    <3>1. tls[t] \in Atls
      BY <2>1, ThreadTypes DEF IInv, Own, Control, NoTls
    <3>2. PICK c \in Chunks(tls[t]) : \E s \in c :
            list' = [list EXCEPT ![s] = "partial"] /\ free' = [free EXCEPT ![s] = NodesOf(s)]
      BY <2>4 DEF SlabCreate
    <3>3. PICK s \in c :
            list' = [list EXCEPT ![s] = "partial"] /\ free' = [free EXCEPT ![s] = NodesOf(s)]
      BY <3>2
    <3>4. s \in Blocks /\ ~ Live(s)
      BY <3>1, ChunkFacts, SMTT(20), SMTT(30) DEF Live
    <3>5. \A n \in Nodes : Live(n[1]) => free'[n[1]] = free[n[1]] /\ Live(n[1])'
      BY <1>t, <3>3, <3>4, NodeFacts DEF Live
    <3> QED BY <2>1, <2>2, <3>5, NodesKept
  <2> QED BY <1>10, <2>3, <2>4 DEF MallocCreate
<1>11. CASE MallocBlock(t)
  <2>1. UNCHANGED <<inUse, queued, p>> /\ pc[t] = "m_scanned"
    BY <1>11 DEF MallocBlock, links, prepend, On
  <2>2. p[t] = None
    BY <2>1, NoNode DEF Prepends, Inits
  <2>3. CASE UNCHANGED blocks
    BY <2>1, <2>2, <2>3, NodesSame DEF blocks
  <2>4. CASE \E b \in Fresh(Pages) :
            list' = [list EXCEPT ![b] = "bl"] /\ free' = [free EXCEPT ![b] = NodesOf(b)]
    <3>1. PICK b \in Fresh(Pages) :
            list' = [list EXCEPT ![b] = "bl"] /\ free' = [free EXCEPT ![b] = NodesOf(b)]
      BY <2>4
    <3>2. b \in Blocks /\ ~ Live(b)
      BY FreshFacts, NodeFacts, SMTT(20), SMTT(30) DEF Live
    <3>3. \A n \in Nodes : Live(n[1]) => free'[n[1]] = free[n[1]] /\ Live(n[1])'
      BY <1>t, <3>1, <3>2, NodeFacts DEF Live
    <3> QED BY <2>1, <2>2, <3>3, NodesKept
  <2> QED BY <1>11, <2>3, <2>4 DEF MallocBlock
<1>12. CASE ReapMerge(t)
  <2>1. UNCHANGED <<inUse, queued, p, free>> /\ pc[t] = "r_merge"
    BY <1>12 DEF ReapMerge, links, prepend, On
  <2>2. p[t] = None
    BY <2>1, NoNode DEF Prepends, Inits
  <2>3. PICK b \in Merged(tl2[t]) :
          list' = [list EXCEPT ![b] = IF b \in Slabs /\ Used(b) = {} THEN "full" ELSE list[b]]
    BY <1>12 DEF ReapMerge
  <2>4. b \in Blocks
    BY DEF Merged
  <2>5. \A c \in Blocks : Live(c) => Live(c)'
    BY <1>t, <2>3, <2>4 DEF Live
  <2>6. \A n \in Nodes : Live(n[1]) => free'[n[1]] = free[n[1]] /\ Live(n[1])'
    BY <2>1, <2>5, NodeFacts
  <2> QED BY <2>1, <2>2, <2>6, NodesKept
<1> QED BY <1>1, <1>2, <1>3, <1>4, <1>5, <1>6, <1>7, <1>8, <1>9, <1>10, <1>11, <1>12,
           Zenon DEF Step
=============================================================================
