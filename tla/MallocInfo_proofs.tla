------------------------- MODULE MallocInfo_proofs --------------------------
(***************************************************************************)
(* What the log says of the heap is right, for any number of threads, any  *)
(* address space and any sizes, as long as only Main touches the blocks it *)
(* allocated and does not reallocate them (Basic).                         *)
(***************************************************************************)
EXTENDS MallocInfo, TLAPS

\* A step that names no prover is tried with Zenon, the SMT solver, and Zenon again.
USE ZenonT(5), SMTT(20), SMTT(30), SMTT(40), ZenonT(20)

\* Main is inside an allocator call that handles the block ptr.
Handling == pc[Main] \in AllocPCs \cup FreePCs

\* Live blocks are nonempty, lie in the heap and do not overlap.
Blocks ==
    /\ \A b \in live : len[b] > 0 /\ b + len[b] <= MaxAddr + 1
    /\ \A b, c \in live : b < c => b + len[b] <= c
    /\ \A b \in Addr : b \notin live => given[b] = -1

\* Only Main is inside an allocator call, and which block it handles.
Calls ==
    /\ \A t \in Threads : pc[t] \in AllocPCs \cup FreePCs => t = Main
    /\ \A t \in Threads : pc[t] \notin ReallocPCs \cup {"aborted"}
    /\ old = NULL
    /\ Handling => ptr \in live
    /\ pc[Main] \in AllocPCs => sz = len[ptr]
    /\ pc[Main] = "insert" => given[ptr] = -1
    /\ pc[Main] \in {"widen", "total"} => given[ptr] = id
    /\ pc[Main] = "f_shrink" => gone = [start |-> ptr, end |-> ptr + len[ptr]]
    /\ pc[Main] \in {"f_shrink", "f_free"} => data_alive[ptr] = NoEntry

\* data_alive lists only live blocks, as they are, and all recorded ones but
\* the one that is just being freed.
Tracked ==
    \A b \in Addr :
        /\ data_alive[b] # NoEntry =>
             b \in live /\ data_alive[b] = [id |-> given[b], size |-> len[b]]
        /\ b \in live /\ given[b] >= 0 =>
             data_alive[b] # NoEntry \/ (pc[Main] \in {"f_shrink", "f_free"} /\ b = ptr)

\* A block that contains a and that the application may use.
InUse(b, a) == b \in live /\ b <= a /\ a < b + len[b] /\ ~(Handling /\ b = ptr)

\* Whoever is in handle_access is there for a global or for a byte of a
\* block that nobody allocates or frees meanwhile.
Accesses ==
    \A t \in Threads : pc[t] \in AccessPCs =>
        addr[t] \in Globals \/ \E b \in live : InUse(b, addr[t])

\* The result of an access to the heap is about the block in use.
Results ==
    \A t \in Threads : pc[t] = "logged" /\ res[t].kind = "heap" =>
        \E b \in live : /\ InUse(b, addr[t])
                        /\ res[t].m_id = Uint32(given[b])
                        /\ res[t].m_offset = Uint32(addr[t] - b)

IInv == TypeOK /\ Blocks /\ Calls /\ Tracked /\ Accesses /\ Results

-----------------------------------------------------------------------------

USE DEF libcVars, infoVars, mainVars, accessVars

\* The addresses are numbers, the heap lies above the globals.
LEMMA Numbers ==
    /\ Addr \subseteq Nat /\ HeapAddr \subseteq Addr /\ Globals \subseteq Addr
    /\ MaxAddr \in Nat /\ HeapLow \in Nat /\ HeapLow >= 2 /\ HeapLow <= MaxAddr
    /\ \A s \in Sizes : s \in Nat /\ s > 0
    /\ NULL \in Addr /\ Top \in Nat /\ UINT32 \in Nat \ {0}
    /\ \A a \in HeapAddr : HeapLow <= a /\ a <= MaxAddr
    /\ \A a \in Globals : 1 <= a /\ a < HeapLow
  BY ConstAssumption, SMTT(20), SMTT(30) DEF Addr, HeapAddr, Globals, NULL, Top

\* The initial state is well typed.
LEMMA InitType == Init => TypeOK
  BY Numbers, ConstAssumption, SMTT(20), SMTT(30)
  DEF Init, TypeOK, NoEntry, NoSeg, NoResult, Result, Bounds, NULL

\* The lookup yields a result record.
LEMMA FindType ==
    ASSUME TypeOK, NEW a \in Addr
    PROVE  Find(a) \in Result
<1>1. CASE \E b \in Addr : Hit(b, a)
  <2> DEFINE b == CHOOSE b \in Addr : Hit(b, a)
  <2>1. b \in Addr /\ Hit(b, a)
    BY <1>1
  <2>2. Find(a) = [kind |-> "heap", m_id |-> data_alive[b].id, m_offset |-> a - b]
    BY <1>1 DEF Find
  <2>3. data_alive[b].id \in Int
    BY <2>1, SMTT(20), SMTT(30) DEF TypeOK, NoEntry
  <2> HIDE DEF b
  <2> QED BY <2>1, <2>2, <2>3, Numbers, SMTT(20), SMTT(30) DEF Result
<1>2. CASE ~\E b \in Addr : Hit(b, a)
  BY <1>2, SMTT(20), SMTT(30) DEF Find, NoResult, Result
<1> QED BY <1>1, <1>2

\* What is logged of a lookup: id and offset are cut, the rest stays.
LEMMA Recorded ==
    ASSUME NEW r \in Result
    PROVE  /\ Record(r) \in Result /\ Record(r).kind = r.kind
           /\ r.kind = "heap" => /\ Record(r).m_id = Uint32(r.m_id)
                                 /\ Record(r).m_offset = Uint32(r.m_offset)
<1>1. \A n \in Int : Uint32(n) \in Int
  BY Numbers, SMTT(20), SMTT(30) DEF Uint32
<1>2. CASE r.kind = "heap"
  <2> DEFINE i == Uint32(r.m_id)  o == Uint32(r.m_offset)
  <2>1. Record(r) = [kind |-> "heap", m_id |-> i, m_offset |-> o]
    BY <1>2 DEF Record
  <2>2. i \in Int /\ o \in Int
    BY <1>1, SMTT(20), SMTT(30) DEF Result
  <2> HIDE DEF i, o
  <2>3. /\ Record(r) \in Result /\ Record(r).kind = r.kind
        /\ Record(r).m_id = i /\ Record(r).m_offset = o
    BY <1>2, <2>1, <2>2, SMTT(20), SMTT(30) DEF Result
  <2> QED BY <2>3 DEF i, o
<1>3. CASE r.kind # "heap"
  BY <1>3 DEF Record
<1> QED BY <1>2, <1>3

\* Every step keeps the types, whatever the workload.
LEMMA StepType == TypeOK /\ [Next]_vars => TypeOK'
<1> SUFFICES ASSUME TypeOK, [Next]_vars PROVE TypeOK'
  OBVIOUS
<1> USE Numbers, ConstAssumption DEF TypeOK
<1> USE DEF Goto, AllocPCs, FreePCs, ReallocPCs, AccessPCs, NoSeg
<1>1. ASSUME NEW t \in Threads, NEW b \in HeapAddr, NEW s \in Sizes, Malloc(t, b, s)
      PROVE  TypeOK'
  BY <1>1 DEF Malloc
<1>2. ASSUME NEW s \in Sizes, MallocFails(s) PROVE TypeOK'
  BY <1>2 DEF MallocFails
<1>3. CASE InsertAlive
  <2>1. [id |-> id, size |-> sz] \in [id : Nat, size : Nat]
    OBVIOUS
  <2> QED BY <1>3, <2>1, SMTT(20), SMTT(30) DEF InsertAlive
<1>4. ASSUME NEW f \in Bounds, InsertHeap(f) PROVE TypeOK'
  <2>1. Widen(heap, f, [start |-> ptr, end |-> ptr + sz]) \in [start : Nat, end : Nat]
    BY SMTT(20), SMTT(30) DEF Widen
  <2> QED BY <1>4, <2>1 DEF InsertHeap
<1>5. CASE InsertTotal
  <2>1. [id |-> id, addr |-> ptr, size |-> sz] \in [id : Nat, addr : Addr, size : Nat]
    OBVIOUS
  <2>2. NoSeg \in [start : Addr, end : Nat]
    BY DEF NULL
  <2> QED BY <1>5, <2>1, <2>2, SMTT(20), SMTT(30) DEF InsertTotal, MainReturns
<1>6. ASSUME NEW t \in Threads, NEW b \in HeapAddr, FreeOther(t, b) PROVE TypeOK'
  BY <1>6, SMTT(20), SMTT(30) DEF FreeOther, Release
<1>7. ASSUME NEW b \in HeapAddr, Free(b) PROVE TypeOK'
  BY <1>7 DEF Free
<1>8. ASSUME NEW a \in Addr, EraseEntry(a)
      PROVE  /\ data_alive' \in [Addr -> [id : Nat, size : Nat] \cup {NoEntry}]
             /\ gone' \in [start : Addr, end : Nat]
             /\ cut' \subseteq live
  <2>1. data_alive[a].size \in Nat
    BY SMTT(20), SMTT(30) DEF NoEntry
  <2>2. cut' \subseteq live
    BY Zenon, <1>8 DEF EraseEntry
  <2> QED BY <1>8, <2>1, <2>2, SMTT(20), SMTT(30) DEF EraseEntry
<1>9. CASE FreeErase
  BY <1>9, <1>8 DEF FreeErase
<1>10. Shrink(heap, gone) \in [start : Nat, end : Nat]
  BY DEF Shrink
<1>11. CASE FreeShrink
  BY <1>11, <1>10 DEF FreeShrink
<1>12. CASE LibcFree
  <2>1. NoSeg \in [start : Addr, end : Nat]
    BY DEF NULL
  <2> QED BY <1>12, <2>1, SMTT(20), SMTT(30) DEF LibcFree, MainReturns, Release
<1>13. ASSUME NEW t \in Threads, NEW b \in HeapAddr, NEW n \in HeapAddr, NEW s \in Sizes,
              Realloc(t, b, n, s)
       PROVE  TypeOK'
  BY <1>13, SMTT(20), SMTT(30) DEF Realloc
<1>14. ASSUME NEW b \in HeapAddr, NEW s \in Sizes, ReallocFails(b, s) PROVE TypeOK'
  BY <1>14 DEF ReallocFails
<1>15. CASE ReallocErase
  BY <1>15, <1>8 DEF ReallocErase
<1>16. CASE ReallocShrink
  BY <1>16, <1>10 DEF ReallocShrink
<1>17. ASSUME NEW t \in Threads, NEW a \in Addr, BeginAccess(t, a) PROVE TypeOK'
  BY <1>17 DEF BeginAccess
<1>18. ASSUME NEW t \in Threads, NEW f \in Bounds, Contain(t, f) PROVE TypeOK'
  BY <1>18 DEF Contain
<1>19. ASSUME NEW t \in Threads, FindIdOffset(t) PROVE TypeOK'
  BY Zenon, <1>19, FindType, Recorded DEF FindIdOffset
<1>20. NoResult \in Result /\ [NoResult EXCEPT !.kind = "global"] \in Result
  BY SMTT(20), SMTT(30) DEF NoResult, Result
<1>21. ASSUME NEW t \in Threads, GlobalContain(t) PROVE TypeOK'
  BY <1>21, <1>20 DEF GlobalContain
<1>22. ASSUME NEW t \in Threads, EndAccess(t) PROVE TypeOK'
  BY <1>22, <1>20 DEF EndAccess
<1>23. CASE UNCHANGED vars
  BY <1>23 DEF vars
<1> HIDE DEF TypeOK, Goto
<1> QED
  BY <1>1, <1>2, <1>3, <1>4, <1>5, <1>6, <1>7, <1>9, <1>11, <1>12, <1>13, <1>14,
     <1>15, <1>16, <1>17, <1>18, <1>19, <1>21, <1>22, <1>23
  DEF Next, MainCalls, MainSteps, ThreadSteps

\* Type correctness, for every workload.
THEOREM TypeCorrect == Spec => []TypeOK
  BY InitType, StepType, PTL DEF Spec

-----------------------------------------------------------------------------
(* The Basic workload *)

\* An address lies in at most one live block.
LEMMA OneBlock ==
    ASSUME TypeOK, Blocks, NEW b \in live, NEW c \in live, NEW a \in Addr,
           b <= a, a < b + len[b], c <= a, a < c + len[c]
    PROVE  b = c
  BY Numbers, SMTT(20), SMTT(30) DEF TypeOK, Blocks

\* libc places a block outside the live ones.
LEMMA FitsApart ==
    ASSUME TypeOK, Blocks, NEW b \in HeapAddr, NEW s \in Sizes, Fits(b, s, live)
    PROVE  /\ b \notin live /\ b + s <= MaxAddr + 1
           /\ \A c \in live : (b < c => b + s <= c) /\ (c < b => c + len[c] <= b)
<1> USE Numbers DEF TypeOK, Blocks, Fits, Extent
<1>1. b + s - 1 \in b..(b + s - 1) /\ b \in b..(b + s - 1)
  OBVIOUS
<1>2. b + s <= MaxAddr + 1
  BY <1>1, SMTT(20), SMTT(30) DEF HeapAddr
<1>3. ASSUME NEW c \in live
      PROVE  c # b /\ (b < c => b + s <= c) /\ (c < b => c + len[c] <= b)
  <2>1. c \in c..(c + len[c] - 1)
    BY <1>3, SMTT(20), SMTT(30)
  <2>2. b \notin c..(c + len[c] - 1) /\ c \notin b..(b + s - 1)
    BY <1>1, <1>3, <2>1
  <2> QED BY <1>3, <2>2, SMTT(20), SMTT(30)
<1> QED BY <1>2, <1>3

\* The first state satisfies the inductive invariant.
LEMMA InitIInv == Init => IInv
<1> SUFFICES ASSUME Init PROVE IInv
  OBVIOUS
<1>1. TypeOK
  BY InitType
<1>2. \A t \in Threads : pc[t] = "idle"
  BY DEF Init
<1>3. Main \in Threads
  BY ConstAssumption
<1> QED
  BY <1>1, <1>2, <1>3
  DEF Init, IInv, Blocks, Calls, Tracked, Accesses, Results, Handling, AllocPCs,
      FreePCs, ReallocPCs, AccessPCs, NULL

\* Malloc keeps the inductive invariant: the new block is apart from the
\* others and not yet recorded.
LEMMA MallocIInv ==
    ASSUME IInv, NEW t \in Threads, NEW b \in HeapAddr, NEW s \in Sizes, Malloc(t, b, s)
    PROVE  Blocks' /\ Calls' /\ Tracked' /\ Accesses' /\ Results'
<1> USE Numbers, ConstAssumption DEF IInv, TypeOK
<1>1. /\ b \notin live /\ b + s <= MaxAddr + 1
      /\ \A c \in live : (b < c => b + s <= c) /\ (c < b => c + len[c] <= b)
  BY FitsApart DEF Malloc
<1>2. Blocks'
  BY <1>1, SMTT(20), SMTT(30) DEF Malloc, Blocks
<1>3. given[b] = -1 /\ data_alive[b] = NoEntry
  BY <1>1 DEF Blocks, Tracked
<1>4. Calls'
  BY <1>1, <1>3, SMTT(20), SMTT(30) DEF Malloc, Calls, Goto, Handling, AllocPCs, FreePCs, ReallocPCs
<1>5. Tracked'
  BY <1>1, <1>3, SMTT(20), SMTT(30) DEF Malloc, Tracked, Goto, Calls, Handling, AllocPCs, FreePCs
<1>6. \A u \in Threads : pc'[u] \in AccessPCs => pc[u] \in AccessPCs /\ pc'[u] = pc[u]
  BY DEF Malloc, Goto, AccessPCs
<1>7. \A c \in live, a \in Addr : InUse(c, a) => c \in live' /\ InUse(c, a)'
  BY <1>1 DEF Malloc, InUse, Handling, Goto, AllocPCs, FreePCs
<1>8. Accesses'
  BY Zenon, <1>6, <1>7 DEF Malloc, Accesses
<1>9. Results'
  BY Zenon, <1>6, <1>7, <1>1 DEF Malloc, Results, AccessPCs
<1> QED BY <1>2, <1>4, <1>5, <1>8, <1>9

\* insert() under the lock records the block that libc just returned.
LEMMA InsertAliveIInv ==
    ASSUME IInv, InsertAlive
    PROVE  Blocks' /\ Calls' /\ Tracked' /\ Accesses' /\ Results'
<1> USE Numbers, ConstAssumption DEF IInv, TypeOK, InsertAlive
<1>1. ptr \in live /\ sz = len[ptr] /\ given' = [given EXCEPT ![ptr] = id]
  BY DEF Calls, Handling, Goto, AllocPCs
<1>2. Blocks'
  BY <1>1, SMTT(20), SMTT(30) DEF Blocks
<1>3. Calls'
  BY <1>1, SMTT(20), SMTT(30) DEF Calls, Goto, Handling, AllocPCs, FreePCs, ReallocPCs
<1>4. Tracked'
  <2>1. /\ data_alive'[ptr] = [id |-> given'[ptr], size |-> len'[ptr]]
        /\ data_alive'[ptr] # NoEntry
    BY <1>1, SMTT(20), SMTT(30) DEF NoEntry
  <2>2. ASSUME NEW b \in Addr, b # ptr
        PROVE  data_alive'[b] = data_alive[b] /\ given'[b] = given[b]
    BY <1>1, <2>2, SMTT(20), SMTT(30)
  <2>3. pc[Main] = "insert" /\ live' = live /\ len' = len
    BY DEF Goto
  <2> QED BY <1>1, <2>1, <2>2, <2>3, SMTT(20), SMTT(30) DEF Tracked
<1>5. \A c \in live, a \in Addr : InUse(c, a) => InUse(c, a)' /\ c # ptr
  BY <1>1 DEF InUse, Handling, Goto, AllocPCs, FreePCs
<1>6. Accesses'
  BY Zenon, <1>5 DEF Accesses, Goto, AccessPCs
<1>7. Results'
  <2> SUFFICES ASSUME NEW t \in Threads, pc'[t] = "logged", res[t].kind = "heap"
               PROVE  \E b \in live : /\ InUse(b, addr[t])'
                                      /\ res[t].m_id = Uint32(given'[b])
                                      /\ res[t].m_offset = Uint32(addr[t] - b)
    BY DEF Results
  <2>1. pc[t] = "logged"
    BY DEF Goto
  <2>2. PICK b \in live : /\ InUse(b, addr[t])
                          /\ res[t].m_id = Uint32(given[b])
                          /\ res[t].m_offset = Uint32(addr[t] - b)
    BY <2>1 DEF Results
  <2>3. b # ptr /\ InUse(b, addr[t])'
    BY Zenon, <1>5, <2>2 DEF InUse
  <2>4. given'[b] = given[b]
    BY <1>1, <2>3, SMTT(20), SMTT(30)
  <2> QED BY <2>2, <2>3, <2>4
<1> QED BY <1>2, <1>3, <1>4, <1>6, <1>7

\* Widening the heap and completing the record change nothing here.
LEMMA InsertRestIInv ==
    ASSUME IInv, InsertTotal \/ \E f \in Bounds : InsertHeap(f)
    PROVE  Blocks' /\ Calls' /\ Tracked' /\ Accesses' /\ Results'
<1> USE Numbers, ConstAssumption DEF IInv, TypeOK
<1>1. UNCHANGED <<libcVars, data_alive, accessVars>>
  BY DEF InsertTotal, InsertHeap
<1>2. /\ \A u \in Threads : u # Main => pc'[u] = pc[u]
      /\ pc[Main] \in {"widen", "total"} /\ pc'[Main] \in {"widen", "total", "idle"}
      /\ pc'[Main] # "idle" => UNCHANGED <<ptr, sz, id>>
      /\ old' = NULL
  BY DEF InsertTotal, InsertHeap, MainReturns, Goto, Calls
<1>3. Blocks'
  BY <1>1 DEF Blocks
<1>4. Calls'
  BY <1>1, <1>2 DEF Calls, Handling, AllocPCs, FreePCs, ReallocPCs
<1>5. Tracked'
  BY <1>1, <1>2 DEF Tracked
<1>6. \A c \in live, a \in Addr : InUse(c, a) => InUse(c, a)'
  BY <1>1, <1>2 DEF InUse, Handling, AllocPCs, FreePCs
<1>7. Accesses'
  BY Zenon, <1>1, <1>2, <1>6 DEF Accesses, AccessPCs
<1>8. Results'
  BY Zenon, <1>1, <1>2, <1>6 DEF Results
<1> QED BY <1>3, <1>4, <1>5, <1>7, <1>8

\* A block that no access is about is not the block of any result.
LEMMA QuietApart ==
    ASSUME TypeOK, Blocks, NEW b \in live, Quiet(b), NEW t \in Threads,
           pc[t] \in AccessPCs, NEW c \in live, InUse(c, addr[t])
    PROVE  c # b
<1>0. c \in Nat /\ len[c] \in Nat /\ addr[t] \in Nat
  BY Zenon, Numbers DEF TypeOK
<1>1. addr[t] \in c..(c + len[c] - 1)
  BY <1>0, SMTT(20), SMTT(30) DEF InUse
<1> QED BY <1>1 DEF Quiet, Extent

\* Another thread frees a block that is not recorded.
LEMMA FreeOtherIInv ==
    ASSUME IInv, Basic, NEW t \in Threads, NEW b \in HeapAddr, FreeOther(t, b)
    PROVE  Blocks' /\ Calls' /\ Tracked' /\ Accesses' /\ Results'
<1> USE Numbers, ConstAssumption DEF IInv, TypeOK, FreeOther
<1>1. /\ b \in live /\ Quiet(b) /\ given[b] = -1 /\ ~(Handling /\ b = ptr)
      /\ UNCHANGED <<pc, mainVars, infoVars, accessVars>>
      /\ live' = live \ {b} /\ len' = [len EXCEPT ![b] = 0] /\ given' = given
  BY DEF MayFree, Basic, Usable, Handling, Release
<1>2. Blocks'
  BY <1>1 DEF Blocks
<1>3. Calls'
  <2>1. Handling => ptr \in live' /\ len'[ptr] = len[ptr]
    BY <1>1 DEF Calls
  <2>2. pc[Main] \in AllocPCs \cup {"f_shrink"} => Handling
    BY DEF Handling, FreePCs
  <2> QED BY <1>1, <2>1, <2>2 DEF Calls, Handling
<1>4. Tracked'
  BY <1>1, SMTT(20), SMTT(30) DEF Tracked
<1>5. \A u \in Threads, c \in live :
        pc[u] \in AccessPCs /\ InUse(c, addr[u]) => c \in live' /\ InUse(c, addr[u])'
  BY <1>1, QuietApart DEF InUse, Handling
<1>6. Accesses'
  BY <1>1, <1>5 DEF Accesses
<1>7. Results'
  BY <1>1, <1>5 DEF Results, AccessPCs
<1> QED BY <1>2, <1>3, <1>4, <1>6, <1>7

\* free() enters the hook with a block that is live and quiet.
LEMMA FreeIInv ==
    ASSUME IInv, Basic, NEW b \in HeapAddr, Free(b)
    PROVE  Blocks' /\ Calls' /\ Tracked' /\ Accesses' /\ Results'
<1> USE Numbers, ConstAssumption DEF IInv, TypeOK, Free, Goto
<1>1. b \in live /\ Quiet(b)
  BY DEF MayFree, Usable
<1>2. Blocks'
  BY DEF Blocks
<1>3. Calls'
  BY <1>1 DEF Calls, Handling, AllocPCs, FreePCs, ReallocPCs
<1>4. Tracked'
  BY DEF Tracked
<1>5. \A u \in Threads, c \in live :
        pc[u] \in AccessPCs /\ InUse(c, addr[u]) => InUse(c, addr[u])'
  BY <1>1, QuietApart DEF InUse, Handling
<1>6. Accesses'
  BY <1>5 DEF Accesses, AccessPCs
<1>7. Results'
  BY <1>5 DEF Results, AccessPCs
<1> QED BY <1>2, <1>3, <1>4, <1>6, <1>7

\* erase() and shrink() inside free().
LEMMA FreeRestIInv ==
    ASSUME IInv, FreeErase \/ FreeShrink
    PROVE  Blocks' /\ Calls' /\ Tracked' /\ Accesses' /\ Results'
<1> USE Numbers, ConstAssumption DEF IInv, TypeOK, Goto
<1>1. /\ UNCHANGED <<live, len, given, ptr, sz, old, accessVars, id>>
      /\ \A u \in Threads : u # Main => pc'[u] = pc[u]
      /\ pc[Main] \in FreePCs /\ pc'[Main] \in {"f_shrink", "f_free"}
      /\ ptr \in live
      /\ data_alive' = [data_alive EXCEPT ![ptr] = NoEntry]
      /\ pc'[Main] = "f_shrink" => gone' = [start |-> ptr, end |-> ptr + len[ptr]]
  BY SMTT(20), SMTT(30) DEF FreeErase, FreeShrink, EraseEntry, Calls, Handling, FreePCs, Tracked
<1>2. Blocks'
  BY <1>1 DEF Blocks
<1>3. Calls'
  BY <1>1 DEF Calls, Handling, AllocPCs, FreePCs, ReallocPCs
<1>4. Tracked'
  BY <1>1 DEF Tracked, FreePCs
<1>5. \A c \in live, a \in Addr : InUse(c, a) => InUse(c, a)'
  BY <1>1 DEF InUse, Handling, AllocPCs, FreePCs
<1>6. Accesses'
  BY Zenon, <1>1, <1>5 DEF Accesses, AccessPCs
<1>7. Results'
  BY Zenon, <1>1, <1>5 DEF Results
<1> QED BY <1>2, <1>3, <1>4, <1>6, <1>7

\* libc takes the block back; nobody is using it.
LEMMA LibcFreeIInv ==
    ASSUME IInv, LibcFree
    PROVE  Blocks' /\ Calls' /\ Tracked' /\ Accesses' /\ Results'
<1> USE Numbers, ConstAssumption DEF IInv, TypeOK, Goto
<1>1. /\ UNCHANGED <<infoVars, accessVars>>
      /\ \A u \in Threads : u # Main => pc'[u] = pc[u]
      /\ pc[Main] = "f_free" /\ pc'[Main] = "idle" /\ old' = NULL
      /\ ptr \in live /\ data_alive[ptr] = NoEntry
      /\ live' = live \ {ptr} /\ len' = [len EXCEPT ![ptr] = 0]
      /\ given' = [given EXCEPT ![ptr] = -1]
  BY DEF LibcFree, MainReturns, Release, Calls, Handling, FreePCs
<1>2. Blocks'
  BY <1>1 DEF Blocks
<1>3. Calls'
  BY <1>1 DEF Calls, Handling, AllocPCs, FreePCs, ReallocPCs
<1>4. Tracked'
  BY <1>1 DEF Tracked
<1>5. \A c \in live, a \in Addr : InUse(c, a) => c \in live' /\ InUse(c, a)' /\ c # ptr
  BY <1>1 DEF InUse, Handling, AllocPCs, FreePCs
<1>6. Accesses'
  BY Zenon, <1>1, <1>5 DEF Accesses, AccessPCs
<1>7. Results'
  <2> SUFFICES ASSUME NEW t \in Threads, pc'[t] = "logged", res[t].kind = "heap"
               PROVE  \E b \in live' : /\ InUse(b, addr[t])'
                                       /\ res[t].m_id = Uint32(given'[b])
                                       /\ res[t].m_offset = Uint32(addr[t] - b)
    BY <1>1, SMTT(20), SMTT(30) DEF Results
  <2>1. pc[t] = "logged"
    BY <1>1
  <2>2. PICK b \in live : /\ InUse(b, addr[t])
                          /\ res[t].m_id = Uint32(given[b])
                          /\ res[t].m_offset = Uint32(addr[t] - b)
    BY <2>1 DEF Results
  <2>3. b # ptr /\ b \in live' /\ InUse(b, addr[t])'
    BY Zenon, <1>1, <1>5, <2>2 DEF InUse
  <2>4. given'[b] = given[b]
    BY <1>1, <2>3
  <2> QED BY <2>2, <2>3, <2>4
<1> QED BY <1>2, <1>3, <1>4, <1>6, <1>7

\* A step of handle_access changes nothing but where its thread is.
LEMMA AccessFrame ==
    ASSUME IInv, NEW t \in Threads, NEW q \in {"idle"} \cup AccessPCs,
           pc[t] \in {"idle"} \cup AccessPCs, pc' = [pc EXCEPT ![t] = q],
           UNCHANGED <<libcVars, infoVars, mainVars>>
    PROVE  /\ Blocks' /\ Calls' /\ Tracked'
           /\ \A c \in live, u \in Threads :
                addr'[u] = addr[u] /\ InUse(c, addr[u]) => InUse(c, addr[u])'
           /\ Handling' <=> Handling
<1> USE Numbers, ConstAssumption DEF IInv, TypeOK
<1>1. Handling' <=> Handling
  BY DEF Handling, AllocPCs, FreePCs, AccessPCs
<1>2. Blocks'
  BY DEF Blocks
<1>3. Calls'
  BY <1>1 DEF Calls, AllocPCs, FreePCs, ReallocPCs, AccessPCs
<1>4. Tracked'
  BY DEF Tracked, AccessPCs
<1>5. \A c \in live, u \in Threads :
        addr'[u] = addr[u] /\ InUse(c, addr[u]) => InUse(c, addr[u])'
  BY <1>1 DEF InUse
<1> QED BY <1>1, <1>2, <1>3, <1>4, <1>5

\* An access begins at a global or in a usable block.
LEMMA BeginAccessIInv ==
    ASSUME IInv, NEW t \in Threads, NEW a \in Addr, BeginAccess(t, a)
    PROVE  Blocks' /\ Calls' /\ Tracked' /\ Accesses' /\ Results'
<1>1. /\ UNCHANGED <<libcVars, infoVars, mainVars, res>>
      /\ pc[t] = "idle" /\ pc' = [pc EXCEPT ![t] = "contain"]
      /\ addr' = [addr EXCEPT ![t] = a]
      /\ a \in Globals \/ \E b \in live : Usable(b) /\ a \in Extent(b)
  BY DEF BeginAccess, Goto
<1>2. /\ Blocks' /\ Calls' /\ Tracked'
      /\ \A c \in live, u \in Threads :
           addr'[u] = addr[u] /\ InUse(c, addr[u]) => InUse(c, addr[u])'
      /\ Handling' <=> Handling
  BY Zenon, <1>1, AccessFrame DEF AccessPCs
<1>3. /\ \A u \in Threads : u # t => addr'[u] = addr[u] /\ pc'[u] = pc[u]
      /\ addr'[t] = a /\ pc'[t] = "contain"
  BY <1>1 DEF IInv, TypeOK
<1>4. ASSUME NEW b \in live, Usable(b), a \in Extent(b) PROVE InUse(b, addr[t])'
  <2>1. b \in Nat /\ len[b] \in Nat /\ a \in Nat
    BY Numbers DEF IInv, TypeOK
  <2>2. b <= a /\ a < b + len[b]
    BY <1>4, <2>1, SMTT(20), SMTT(30) DEF Extent
  <2>3. ~(Handling /\ b = ptr)
    BY <1>4 DEF Usable, Handling
  <2> QED BY <1>1, <1>2, <1>3, <2>2, <2>3 DEF InUse
<1>5. Accesses'
  <2> SUFFICES ASSUME NEW u \in Threads, pc'[u] \in AccessPCs
               PROVE  addr'[u] \in Globals \/ \E b \in live : InUse(b, addr[u])'
    BY <1>1 DEF Accesses
  <2>1. CASE u = t
    BY <2>1, <1>1, <1>3, <1>4
  <2>2. CASE u # t
    BY <2>2, <1>2, <1>3 DEF Accesses, IInv
  <2> QED BY <2>1, <2>2
<1>6. Results'
  BY <1>1, <1>2, <1>3 DEF Results, IInv
<1> QED BY Zenon, <1>2, <1>5, <1>6

\* Reading the bounds, the test for globals and the return add no result
\* about the heap.
LEMMA AccessRestIInv ==
    ASSUME IInv, NEW t \in Threads,
           GlobalContain(t) \/ EndAccess(t) \/ \E f \in Bounds : Contain(t, f)
    PROVE  Blocks' /\ Calls' /\ Tracked' /\ Accesses' /\ Results'
<1>1. /\ UNCHANGED <<libcVars, infoVars, mainVars>> /\ pc[t] \in AccessPCs
      /\ \A u \in Threads : u # t => pc'[u] = pc[u] /\ addr'[u] = addr[u] /\ res'[u] = res[u]
      /\ pc'[t] \in AccessPCs => addr'[t] = addr[t]
      /\ pc'[t] = "logged" => res'[t].kind # "heap"
  <2> USE DEF IInv, TypeOK, Goto, AccessPCs
  <2>1. CASE GlobalContain(t)
    BY <2>1 DEF GlobalContain, NoResult
  <2>2. CASE EndAccess(t)
    BY <2>2 DEF EndAccess
  <2>3. ASSUME NEW f \in Bounds, Contain(t, f)
        PROVE  /\ UNCHANGED <<libcVars, infoVars, mainVars, addr, res>> /\ pc[t] = "contain"
               /\ pc'[t] # "logged"
               /\ \A u \in Threads : u # t => pc'[u] = pc[u]
    BY <2>3 DEF Contain
  <2> QED BY Zenon, <2>1, <2>2, <2>3
<1>2. PICK q \in {"idle"} \cup AccessPCs : pc' = [pc EXCEPT ![t] = q]
  BY DEF GlobalContain, EndAccess, Contain, Goto, AccessPCs, IInv, TypeOK
<1>3. /\ Blocks' /\ Calls' /\ Tracked'
      /\ \A c \in live, u \in Threads :
           addr'[u] = addr[u] /\ InUse(c, addr[u]) => InUse(c, addr[u])'
  BY Zenon, <1>1, <1>2, AccessFrame
<1>4. Accesses'
  BY Zenon, <1>1, <1>3 DEF Accesses, IInv, AccessPCs
<1>5. Results'
  BY Zenon, <1>1, <1>3 DEF Results, IInv, AccessPCs
<1> QED BY <1>3, <1>4, <1>5

\* The lookup finds the block that is in use at the address, if any.
LEMMA FindRight ==
    ASSUME IInv, NEW a \in Addr, a \in Globals \/ \E b \in live : InUse(b, a)
    PROVE  Find(a).kind = "heap" =>
             \E b \in live : /\ InUse(b, a)
                             /\ given[b] = Find(a).m_id
                             /\ Find(a).m_offset = a - b
<1> SUFFICES ASSUME Find(a).kind = "heap"
             PROVE  \E b \in live : /\ InUse(b, a)
                                    /\ given[b] = Find(a).m_id
                                    /\ Find(a).m_offset = a - b
  OBVIOUS
<1> DEFINE b == CHOOSE b \in Addr : Hit(b, a)
<1>1. \E c \in Addr : Hit(c, a)
  BY DEF Find, NoResult
<1>2. b \in Addr /\ Hit(b, a)
  BY <1>1
<1>3. Find(a) = [kind |-> "heap", m_id |-> data_alive[b].id, m_offset |-> a - b]
  BY <1>1 DEF Find
<1> HIDE DEF b
<1>4. b <= a /\ data_alive[b] # NoEntry /\ b + data_alive[b].size > a
  BY <1>2 DEF Hit, Predecessor
<1>5. b \in live /\ data_alive[b] = [id |-> given[b], size |-> len[b]]
  BY <1>2, <1>4 DEF IInv, Tracked
<1>6. b \in Nat /\ a \in Nat /\ len[b] \in Nat /\ b >= HeapLow /\ HeapLow \in Nat
  BY <1>2, <1>5, Numbers DEF IInv, TypeOK
<1>7. b <= a /\ a < b + len[b]
  BY <1>4, <1>5, <1>6, SMTT(20), SMTT(30)
<1>8. a \notin Globals
  BY <1>6, <1>7, Numbers, SMTT(20), SMTT(30)
<1>9. PICK c \in live : InUse(c, a)
  BY <1>8
<1>10. c = b
  BY <1>5, <1>7, <1>9, OneBlock DEF IInv, InUse
<1>11. given[b] = Find(a).m_id /\ Find(a).m_offset = a - b
  BY <1>3, <1>5, <1>6, SMTT(20), SMTT(30)
<1> QED BY Zenon, <1>5, <1>9, <1>10, <1>11

\* The lookup.
LEMMA FindIdOffsetIInv ==
    ASSUME IInv, NEW t \in Threads, FindIdOffset(t)
    PROVE  Blocks' /\ Calls' /\ Tracked' /\ Accesses' /\ Results'
<1>1. /\ UNCHANGED <<libcVars, infoVars, mainVars, addr>>
      /\ pc[t] = "find" /\ pc' = [pc EXCEPT ![t] = "logged"]
      /\ res' = [res EXCEPT ![t] = Record(Find(addr[t]))]
  BY DEF FindIdOffset, Goto
<1>2. /\ Blocks' /\ Calls' /\ Tracked'
      /\ \A c \in live, u \in Threads : InUse(c, addr[u]) => InUse(c, addr[u])'
  BY Zenon, <1>1, AccessFrame DEF AccessPCs
<1>3. /\ \A u \in Threads : u # t => pc'[u] = pc[u] /\ res'[u] = res[u]
      /\ res'[t] = Record(Find(addr[t]))
  BY <1>1 DEF IInv, TypeOK
<1>4. addr[t] \in Addr /\ (addr[t] \in Globals \/ \E b \in live : InUse(b, addr[t]))
  BY <1>1 DEF IInv, TypeOK, Accesses, AccessPCs
<1>5. Accesses'
  <2>1. \A u \in Threads : pc'[u] \in AccessPCs => pc[u] \in AccessPCs
    BY <1>1, <1>3 DEF AccessPCs
  <2> QED BY Zenon, <1>1, <1>2, <2>1 DEF Accesses, IInv
<1>6. Results'
  <2> SUFFICES ASSUME NEW u \in Threads, pc'[u] = "logged", res'[u].kind = "heap"
               PROVE  \E b \in live : /\ InUse(b, addr[u])'
                                      /\ res'[u].m_id = Uint32(given[b])
                                      /\ res'[u].m_offset = Uint32(addr[u] - b)
    BY Zenon, <1>1 DEF Results
  <2>1. \E b \in live : /\ InUse(b, addr[u])
                        /\ res'[u].m_id = Uint32(given[b])
                        /\ res'[u].m_offset = Uint32(addr[u] - b)
    <3>1. CASE u = t
      <4>1. /\ res'[u].kind = Find(addr[u]).kind
            /\ res'[u].m_id = Uint32(Find(addr[u]).m_id)
            /\ res'[u].m_offset = Uint32(Find(addr[u]).m_offset)
        <5>1. Find(addr[t]) \in Result
          BY Zenon, <1>4, FindType DEF IInv
        <5>2. /\ res'[t].kind = Find(addr[t]).kind
              /\ Find(addr[t]).kind = "heap" =>
                   /\ res'[t].m_id = Uint32(Find(addr[t]).m_id)
                   /\ res'[t].m_offset = Uint32(Find(addr[t]).m_offset)
          BY Zenon, <1>3, <5>1, Recorded
        <5> QED BY Zenon, <3>1, <5>2
      <4> QED BY Zenon, <3>1, <4>1, <1>4, FindRight
    <3>2. CASE u # t
      BY Zenon, <3>2, <1>3 DEF Results, IInv
    <3> QED BY Zenon, <3>1, <3>2
  <2> QED BY Zenon, <1>2, <2>1
<1> QED BY <1>2, <1>5, <1>6

\* The inductive invariant survives every step of the Basic workload.
LEMMA StepIInv == ASSUME Basic PROVE IInv /\ [Next]_vars => IInv'
<1> SUFFICES ASSUME IInv, [Next]_vars PROVE IInv'
  OBVIOUS
<1> DEFINE Kept == Blocks' /\ Calls' /\ Tracked' /\ Accesses' /\ Results'
<1>1. TypeOK'
  BY StepType DEF IInv
<1>2. ASSUME MainCalls PROVE Kept
  BY <1>2, FreeIInv DEF MainCalls, MallocFails, ReallocFails, MayRealloc, Basic
<1>3. ASSUME MainSteps PROVE Kept
  <2>1. pc[Main] \notin ReallocPCs
    BY ConstAssumption DEF IInv, Calls
  <2>2. ~ReallocErase /\ ~ReallocShrink
    BY <2>1 DEF ReallocErase, ReallocShrink, Goto, ReallocPCs
  <2> QED BY <1>3, <2>2, InsertAliveIInv, InsertRestIInv, FreeRestIInv, LibcFreeIInv
      DEF MainSteps
<1>4. ASSUME NEW t \in Threads, ThreadSteps(t) PROVE Kept
  <2>1. ~\E b, n \in HeapAddr, s \in Sizes : Realloc(t, b, n, s)
    BY Zenon DEF Realloc, MayRealloc, Basic
  <2> QED BY <1>4, <2>1, MallocIInv, FreeOtherIInv, BeginAccessIInv, AccessRestIInv,
             FindIdOffsetIInv
      DEF ThreadSteps
<1>5. ASSUME UNCHANGED vars PROVE Kept
  BY Zenon, <1>5 DEF vars, IInv, Blocks, Calls, Tracked, Accesses, Results, InUse, Handling
<1> QED BY <1>1, <1>2, <1>3, <1>4, <1>5 DEF IInv, Next

\* The application stays the one it is.
LEMMA StepBasic == [Next]_vars => Basic' = Basic
  BY DEF Next, vars, Basic

\* The inductive invariant holds throughout the Basic workload.
LEMMA InvariantHolds == Spec => [](Basic => IInv)
<1>1. Init => (Basic => IInv)
  BY InitIInv
<1>2. (Basic => IInv) /\ [Next]_vars => (Basic => IInv)'
  BY StepBasic, StepIInv, Zenon
<1> QED BY <1>1, <1>2, PTL DEF Spec

\* What handle_access logs as a heap access is the byte of the allocation it
\* names, whatever Main allocates and frees between the check of the bounds,
\* the lookup and the access itself.
THEOREM LoggedRightHolds == Spec => []LoggedRight
<1>1. (Basic => IInv) => LoggedRight
  <2> SUFFICES ASSUME IInv, NEW t \in Threads, pc[t] = "logged", res[t].kind = "heap"
               PROVE  \E b \in live : /\ addr[t] \in Extent(b)
                                      /\ res[t].m_id = Uint32(given[b])
                                      /\ res[t].m_offset = Uint32(addr[t] - b)
    BY DEF LoggedRight
  <2>1. PICK b \in live : /\ InUse(b, addr[t])
                          /\ res[t].m_id = Uint32(given[b])
                          /\ res[t].m_offset = Uint32(addr[t] - b)
    BY DEF IInv, Results
  <2>2. b \in Nat /\ len[b] \in Nat /\ addr[t] \in Nat
    BY Zenon, Numbers DEF IInv, TypeOK
  <2>3. addr[t] \in Extent(b)
    BY <2>1, <2>2, SMTT(20), SMTT(30) DEF InUse, Extent
  <2> QED BY <2>1, <2>3
<1> QED BY <1>1, InvariantHolds, PTL

\* Between the calls of Main, data_alive is exactly the set of blocks it has
\* allocated and not freed.
THEOREM AliveExactHolds == Spec => []AliveExact
<1>1. (Basic => IInv) => AliveExact
  <2> SUFFICES ASSUME IInv, pc[Main] = "idle", NEW b \in Addr
               PROVE  data_alive[b] = IF b \in live /\ given[b] >= 0
                                      THEN [id |-> given[b], size |-> len[b]] ELSE NoEntry
    BY Zenon DEF AliveExact
  <2>1. CASE data_alive[b] # NoEntry
    <3>1. b \in live /\ data_alive[b] = [id |-> given[b], size |-> len[b]]
      BY <2>1 DEF IInv, Tracked
    <3>2. data_alive[b].id >= 0
      BY <2>1, SMTT(20), SMTT(30) DEF IInv, TypeOK
    <3>3. given[b] >= 0
      BY <3>1, <3>2, SMTT(20), SMTT(30)
    <3> QED BY Zenon, <3>1, <3>3
  <2>2. CASE data_alive[b] = NoEntry
    BY Zenon, <2>2 DEF IInv, Tracked
  <2> QED BY Zenon, <2>1, <2>2
<1> QED BY <1>1, InvariantHolds, PTL

-----------------------------------------------------------------------------
(***************************************************************************)
(* The bounds of the heap, which Main moves and everybody reads without a  *)
(* lock, never let an access to a global in and never keep one to a        *)
(* recorded block out, unless Main has freed another below it (Basic).     *)
(* The ids of the log are those of the dump, whatever the application      *)
(* does.                                                                   *)
(***************************************************************************)

\* The heap bounds never reach down to the globals.
HeapAbove ==
    /\ heap.start >= HeapLow
    /\ \A t \in Threads :
        (\/ pc[t] = "find"
         \/ pc[t] = "contain" /\ "start" \notin todo[t]) => addr[t] >= HeapLow
    /\ \A t \in Threads : pc[t] = "contain" => todo[t] # {}
    /\ \A t \in Threads : pc[t] = "logged" /\ addr[t] \in Globals => res[t].kind = "global"

\* All recorded blocks above the one that is being freed are cut off.
AboveCut == \A c \in live : given[c] >= 0 /\ c > ptr => c \in cut

\* The heap bounds enclose every recorded block that is not being handled and
\* has not been cut off.
CoversBlocks ==
    /\ \A b \in live \ cut : given[b] >= 0 /\ ~(Handling /\ b = ptr) =>
         heap.start <= b /\ b + len[b] <= heap.end
    /\ pc[Main] = "f_shrink" => AboveCut
    /\ pc[Main] = "widen" =>
         /\ "start" \notin todo[Main] => heap.start <= ptr
         /\ "end" \notin todo[Main] => ptr + len[ptr] <= heap.end
    /\ pc[Main] = "total" => heap.start <= ptr /\ ptr + len[ptr] <= heap.end

\* Where a thread may be.
AnyPC == {"idle", "aborted"} \cup AllocPCs \cup FreePCs \cup ReallocPCs \cup AccessPCs

\* So no access to a recorded block is turned away.
CoversAccesses ==
    \A t \in Threads, b \in live \ cut :
        InUse(b, addr[t]) /\ given[b] >= 0 =>
            pc[t] # "global" /\ (pc[t] = "logged" => res[t].kind = "heap")

-----------------------------------------------------------------------------
(* Globals are never taken for heap *)

\* A step that is not one of handle_access leaves the threads inside it alone.
OutsideStep ==
    \A u \in Threads : pc'[u] \in AccessPCs =>
        /\ pc'[u] = pc[u] /\ todo'[u] = todo[u]
        /\ addr'[u] = addr[u] /\ res'[u] = res[u]

AccessStep(t) ==
    \/ \E a \in Addr : BeginAccess(t, a)
    \/ \E f \in Bounds : Contain(t, f)
    \/ FindIdOffset(t) \/ GlobalContain(t) \/ EndAccess(t)

\* Every step is one of handle_access, which leaves the heap alone, or one
\* that leaves handle_access alone.
LEMMA TwoSides ==
    ASSUME TypeOK, [Next]_vars
    PROVE  OutsideStep \/ \E t \in Threads : AccessStep(t)
<1> USE Numbers, ConstAssumption DEF TypeOK, OutsideStep, Goto, AccessPCs
<1>1. ASSUME MainCalls PROVE OutsideStep
  BY <1>1 DEF MainCalls, MallocFails, Free, ReallocFails
<1>2. ASSUME MainSteps PROVE OutsideStep
  <2>1. CASE InsertAlive
    BY <2>1 DEF InsertAlive
  <2>2. ASSUME NEW f \in Bounds, InsertHeap(f) PROVE OutsideStep
    BY <2>2 DEF InsertHeap
  <2>3. CASE InsertTotal \/ LibcFree
    BY <2>3 DEF InsertTotal, LibcFree, MainReturns
  <2>4. CASE FreeErase \/ ReallocErase
    BY <2>4 DEF FreeErase, ReallocErase
  <2>5. CASE FreeShrink \/ ReallocShrink
    BY <2>5 DEF FreeShrink, ReallocShrink
  <2> HIDE DEF OutsideStep
  <2> QED BY <1>2, <2>1, <2>2, <2>3, <2>4, <2>5 DEF MainSteps
<1>3. ASSUME NEW t \in Threads, NEW b \in HeapAddr, NEW s \in Sizes, Malloc(t, b, s)
      PROVE  OutsideStep
  BY <1>3 DEF Malloc
<1>4. ASSUME NEW t \in Threads, NEW b \in HeapAddr, FreeOther(t, b)
      PROVE  OutsideStep
  BY <1>4 DEF FreeOther
<1>5. ASSUME NEW t \in Threads, NEW b \in HeapAddr, NEW n \in HeapAddr, NEW s \in Sizes,
             Realloc(t, b, n, s)
      PROVE  OutsideStep
  BY <1>5 DEF Realloc
<1>6. ASSUME UNCHANGED vars PROVE OutsideStep
  BY <1>6 DEF vars
<1> HIDE DEF OutsideStep, TypeOK, Goto
<1> QED BY <1>1, <1>2, <1>3, <1>4, <1>5, <1>6 DEF Next, ThreadSteps, AccessStep

\* Under the Basic workload the lower bound stays above the globals.
LEMMA StartAbove ==
    ASSUME Basic, IInv, heap.start >= HeapLow, [Next]_vars
    PROVE  heap'.start >= HeapLow
<1> USE Numbers, ConstAssumption
<1>1. heap \in [start : Nat, end : Nat] /\ heap.start \in Nat
  BY DEF IInv, TypeOK
<1>2. ASSUME NEW f \in Bounds, InsertHeap(f) PROVE heap'.start >= HeapLow
  <2>1. ptr \in HeapAddr
    BY <1>2 DEF InsertHeap, IInv, Calls, Handling, AllocPCs, TypeOK
  <2> QED BY <1>1, <1>2, <2>1 DEF InsertHeap, Widen
<1>3. ASSUME FreeShrink PROVE heap'.start >= HeapLow
  <2>1. ptr \in HeapAddr /\ gone = [start |-> ptr, end |-> ptr + len[ptr]]
    BY <1>3 DEF FreeShrink, Goto, IInv, Calls, Handling, FreePCs, TypeOK
  <2>2. len[ptr] \in Nat
    BY <2>1 DEF IInv, TypeOK
  <2> QED BY <1>1, <1>3, <2>1, <2>2, SMTT(20), SMTT(30) DEF FreeShrink, Shrink
<1>4. ~ReallocShrink
  BY DEF ReallocShrink, Goto, IInv, Calls, ReallocPCs
<1>5. \/ UNCHANGED heap \/ FreeShrink \/ \E f \in Bounds : InsertHeap(f)
  <2>1. MainCalls => UNCHANGED heap
    BY DEF MainCalls, MallocFails, Free, ReallocFails
  <2>2. InsertAlive \/ InsertTotal \/ FreeErase \/ LibcFree \/ ReallocErase
          => UNCHANGED heap
    BY DEF InsertAlive, InsertTotal, FreeErase, LibcFree, ReallocErase
  <2>3. ASSUME NEW t \in Threads, ThreadSteps(t) PROVE UNCHANGED heap
    BY Zenon, <2>3 DEF ThreadSteps, Malloc, FreeOther, Realloc, BeginAccess, Contain,
       FindIdOffset, GlobalContain, EndAccess
  <2> QED BY <1>4, <2>1, <2>2, <2>3 DEF Next, vars, MainSteps
<1> QED BY <1>2, <1>3, <1>5

LEMMA StepAbove ==
    ASSUME Basic PROVE IInv /\ HeapAbove /\ [Next]_vars => HeapAbove'
<1> SUFFICES ASSUME IInv, HeapAbove, [Next]_vars PROVE HeapAbove'
  OBVIOUS
<1> USE Numbers
<1>1. heap'.start >= HeapLow
  BY StartAbove DEF HeapAbove
<1>2. ASSUME OutsideStep PROVE HeapAbove'
  BY <1>1, <1>2 DEF HeapAbove, OutsideStep, AccessPCs
<1>3. ASSUME NEW t \in Threads, AccessStep(t) PROVE HeapAbove'
  <2> USE DEF IInv, TypeOK, Goto, Bounds
  <2>1. ASSUME NEW a \in Addr, BeginAccess(t, a) PROVE HeapAbove'
    <3>1. /\ pc'[t] = "contain" /\ todo'[t] = Bounds
          /\ \A u \in Threads : u # t => /\ pc'[u] = pc[u] /\ todo'[u] = todo[u]
                                        /\ addr'[u] = addr[u] /\ res'[u] = res[u]
      BY <2>1 DEF BeginAccess
    <3> QED BY Zenon, <1>1, <3>1 DEF HeapAbove
  <2>2. ASSUME NEW f \in Bounds, Contain(t, f) PROVE HeapAbove'
    <3>1. /\ pc[t] = "contain" /\ UNCHANGED <<heap, addr, res>>
          /\ pc'[t] \in {"contain", "find", "global"}
          /\ pc'[t] = "contain" => todo'[t] = todo[t] \ {f} /\ todo[t] # {f}
          /\ pc'[t] = "find" => todo[t] = {f}
          /\ pc'[t] # "global" => WithinBound(heap, f, addr[t])
          /\ \A u \in Threads : u # t => pc'[u] = pc[u] /\ todo'[u] = todo[u]
      BY <2>2 DEF Contain
    <3>2. pc'[t] # "global" /\ f = "start" => addr[t] >= HeapLow
      <4>1. heap.start \in Nat /\ addr[t] \in Nat
        BY Zenon
      <4> QED BY <3>1, <4>1, SMTT(20), SMTT(30) DEF WithinBound, HeapAbove
    <3>3. pc'[t] = "contain" => todo'[t] # {}
      BY <3>1, SMTT(20), SMTT(30) DEF HeapAbove
    <3>4. pc'[t] = "find" \/ (pc'[t] = "contain" /\ "start" \notin todo'[t])
            => addr[t] >= HeapLow
      BY <3>1, <3>2 DEF HeapAbove
    <3> QED BY <1>1, <3>1, <3>3, <3>4 DEF HeapAbove
  <2>3. ASSUME FindIdOffset(t) PROVE HeapAbove'
    <3>1. /\ pc[t] = "find" /\ pc'[t] = "logged" /\ UNCHANGED <<addr, todo>>
          /\ \A u \in Threads : u # t => pc'[u] = pc[u] /\ res'[u] = res[u]
      BY <2>3 DEF FindIdOffset
    <3>2. addr[t] \in Nat /\ addr[t] >= HeapLow
      BY Zenon, <3>1 DEF HeapAbove
    <3>3. addr[t] \notin Globals
      BY <3>2, SMTT(20), SMTT(30)
    <3> QED BY <1>1, <3>1, <3>3 DEF HeapAbove
  <2>4. ASSUME GlobalContain(t) PROVE HeapAbove'
    BY <1>1, <2>4 DEF GlobalContain, HeapAbove, NoResult
  <2>5. ASSUME EndAccess(t) PROVE HeapAbove'
    BY <1>1, <2>5 DEF EndAccess, HeapAbove
  <2> QED BY <1>3, <2>1, <2>2, <2>3, <2>4, <2>5 DEF AccessStep
<1> QED BY <1>2, <1>3, TwoSides DEF IInv

\* No access to a global is lost or taken for a heap access, although the
\* bounds of the heap are read without a lock while Main moves them.
THEOREM GlobalAccessLoggedHolds == Spec => []GlobalAccessLogged
<1>1. Init => (Basic => HeapAbove)
  BY Numbers, SMTT(20), SMTT(30) DEF Init, HeapAbove, Top
<1>2. (Basic => IInv) /\ (Basic => HeapAbove) /\ [Next]_vars => (Basic => HeapAbove)'
  BY StepBasic, StepAbove, Zenon
<1>3. (Basic => HeapAbove) => GlobalAccessLogged
  BY DEF HeapAbove, GlobalAccessLogged
<1> QED BY <1>1, <1>2, <1>3, InvariantHolds, PTL DEF Spec

-----------------------------------------------------------------------------
(* Recorded blocks are never kept out *)

\* The numbers that occur in CoversBlocks.
LEMMA BlockNumbers ==
    ASSUME TypeOK
    PROVE  /\ \A b \in live : b \in Nat /\ len[b] \in Nat /\ given[b] \in Int
           /\ heap.start \in Nat /\ heap.end \in Nat
           /\ heap = [start |-> heap.start, end |-> heap.end]
           /\ ptr \in Nat /\ id \in Nat /\ sz \in Nat
  BY Numbers DEF TypeOK

\* An allocation by any thread.
LEMMA MallocCovers ==
    ASSUME IInv, CoversBlocks, NEW t \in Threads, NEW b \in HeapAddr, NEW s \in Sizes,
           Malloc(t, b, s)
    PROVE  CoversBlocks'
<1>1. b \notin live /\ given[b] = -1
  BY FitsApart, Numbers DEF Malloc, IInv, Blocks
<1>2. /\ live' = live \cup {b} /\ UNCHANGED <<given, cut, heap, todo>>
      /\ \A c \in live : len'[c] = len[c] /\ c # b
  BY <1>1, SMTT(20), SMTT(30) DEF Malloc, IInv, TypeOK
<1>3. CASE t = Main
  <2>1. pc[Main] = "idle" /\ pc'[Main] = "insert" /\ ptr' = b
    BY <1>3, ConstAssumption DEF Malloc, Goto, IInv, TypeOK
  <2> QED BY <1>1, <1>2, <2>1 DEF CoversBlocks, Handling, AllocPCs, FreePCs
<1>4. CASE t # Main
  <2>1. UNCHANGED <<pc, ptr>>
    BY <1>4 DEF Malloc
  <2>2. Handling => ptr \in live
    BY DEF IInv, Calls
  <2> QED BY <1>1, <1>2, <2>1, <2>2, SMTT(20), SMTT(30)
      DEF CoversBlocks, Handling, AllocPCs, FreePCs, AboveCut
<1> QED BY <1>3, <1>4

\* Recording the block.
LEMMA InsertCovers ==
    ASSUME IInv, CoversBlocks,
           InsertAlive \/ InsertTotal \/ \E f \in Bounds : InsertHeap(f)
    PROVE  CoversBlocks'
<1> USE ConstAssumption, BlockNumbers DEF IInv
<1>1. ASSUME InsertAlive PROVE CoversBlocks'
  <2>1. /\ pc[Main] = "insert" /\ pc'[Main] = "widen" /\ todo'[Main] = Bounds
        /\ UNCHANGED <<live, len, cut, ptr, heap>>
        /\ \A b \in live : b # ptr => given'[b] = given[b]
    BY <1>1, SMTT(20), SMTT(30) DEF InsertAlive, Goto, TypeOK
  <2> QED BY <2>1 DEF CoversBlocks, Handling, AllocPCs, FreePCs, Bounds
<1>2. ASSUME InsertTotal PROVE CoversBlocks'
  <2>1. /\ pc[Main] = "total" /\ pc'[Main] = "idle"
        /\ UNCHANGED <<live, len, given, cut, heap>>
    BY <1>2 DEF InsertTotal, MainReturns, Goto, TypeOK
  <2> QED BY <2>1 DEF CoversBlocks, Handling, AllocPCs, FreePCs
<1>3. ASSUME NEW f \in Bounds, InsertHeap(f) PROVE CoversBlocks'
  <2>1. /\ pc[Main] = "widen" /\ pc'[Main] \in {"widen", "total"}
        /\ pc'[Main] = "total" => todo[Main] = {f}
        /\ todo'[Main] = todo[Main] \ {f}
        /\ UNCHANGED <<live, len, given, cut, ptr>>
        /\ heap' = Widen(heap, f, [start |-> ptr, end |-> ptr + sz])
    BY <1>3 DEF InsertHeap, TypeOK
  <2>2. ptr \in live /\ sz = len[ptr]
    BY <2>1 DEF Calls, Handling, AllocPCs
  <2>3. /\ heap'.start <= heap.start /\ heap.end <= heap'.end
        /\ f = "start" => heap'.start <= ptr
        /\ f = "end" => ptr + len[ptr] <= heap'.end
        /\ heap'.start \in Nat /\ heap'.end \in Nat
    BY <2>1, <2>2, SMTT(20), SMTT(30) DEF Widen
  <2>4. \A b \in live : heap.start <= b /\ b + len[b] <= heap.end
                          => heap'.start <= b /\ b + len[b] <= heap'.end
    BY <2>3, SMTT(20), SMTT(30)
  <2>5. Handling /\ Handling'
    BY <2>1 DEF Handling, AllocPCs
  <2>6. /\ "start" \notin todo'[Main] => heap'.start <= ptr
        /\ "end" \notin todo'[Main] => ptr + len[ptr] <= heap'.end
    BY <2>1, <2>2, <2>3, SMTT(20), SMTT(30) DEF CoversBlocks, Bounds
  <2>7. pc'[Main] = "total" => todo'[Main] = {}
    BY <2>1
  <2> QED BY <2>1, <2>4, <2>5, <2>6, <2>7 DEF CoversBlocks, FreePCs
<1> QED BY <1>1, <1>2, <1>3

\* Other threads free blocks that are not recorded; Main frees any of its
\* blocks, and shrink() then cuts off that block and those above it at most.
LEMMA FreeCovers ==
    ASSUME Basic, IInv, CoversBlocks,
           \/ \E t \in Threads, b \in HeapAddr : FreeOther(t, b)
           \/ \E b \in HeapAddr : Free(b)
           \/ FreeErase \/ FreeShrink \/ LibcFree
    PROVE  CoversBlocks'
<1> USE ConstAssumption, BlockNumbers DEF IInv
<1>1. ASSUME NEW t \in Threads, NEW b \in HeapAddr, FreeOther(t, b) PROVE CoversBlocks'
  <2>1. /\ live' = live \ {b} /\ cut' = cut \ {b} /\ UNCHANGED <<pc, ptr, heap, todo>>
        /\ \A c \in live : c # b => len'[c] = len[c] /\ given'[c] = given[c]
        /\ ~(Handling /\ b = ptr)
    BY <1>1, SMTT(20), SMTT(30) DEF FreeOther, Release, MayFree, Usable, Handling, TypeOK
  <2>2. Handling => ptr \in live'
    BY <2>1 DEF Calls
  <2> QED BY <2>1, <2>2 DEF CoversBlocks, Handling, AllocPCs, FreePCs, AboveCut
<1>2. ASSUME NEW b \in HeapAddr, Free(b) PROVE CoversBlocks'
  <2>1. /\ UNCHANGED <<live, len, given, cut, heap, todo>> /\ ptr' = b
        /\ pc[Main] = "idle" /\ pc'[Main] = "f_erase"
    BY <1>2 DEF Free, MayFree, Goto, TypeOK
  <2> QED BY <2>1 DEF CoversBlocks, Handling, AllocPCs, FreePCs
<1>3. ASSUME FreeErase PROVE CoversBlocks'
  <2>1. /\ UNCHANGED <<live, len, given, heap, todo, ptr>>
        /\ pc[Main] = "f_erase" /\ pc'[Main] \in {"f_shrink", "f_free"}
        /\ cut \subseteq cut'
        /\ pc'[Main] = "f_shrink" => cut' = cut \cup {c \in live : given[c] >= 0 /\ c > ptr}
    BY <1>3 DEF FreeErase, EraseEntry, Goto, TypeOK
  <2>2. pc'[Main] = "f_shrink" => AboveCut'
    BY <2>1 DEF AboveCut
  <2> QED BY <2>1, <2>2 DEF CoversBlocks, Handling, AllocPCs, FreePCs
<1>4. ASSUME FreeShrink PROVE CoversBlocks'
  <2>1. /\ UNCHANGED <<live, len, given, cut, todo, ptr>>
        /\ pc[Main] = "f_shrink" /\ pc'[Main] = "f_free"
        /\ heap' = Shrink(heap, gone)
    BY <1>4 DEF FreeShrink, Goto, TypeOK
  <2>2. ptr \in live /\ gone = [start |-> ptr, end |-> ptr + len[ptr]] /\ AboveCut
    BY <2>1 DEF Calls, CoversBlocks, Handling, FreePCs
  <2>3. ASSUME NEW c \in live \ cut, c # ptr, given[c] >= 0
        PROVE  c < ptr /\ c + len[c] <= ptr /\ heap.start <= c /\ c + len[c] <= heap.end
    <3>1. ~(c > ptr)
      BY <2>2, <2>3 DEF AboveCut
    <3>2. c < ptr
      BY <2>3, <3>1, SMTT(20), SMTT(30)
    <3> QED BY <2>2, <2>3, <3>2 DEF Blocks, CoversBlocks
  <2>4. ASSUME NEW c \in live \ cut, c # ptr, given[c] >= 0
        PROVE  heap'.start <= c /\ c + len[c] <= heap'.end
    BY <2>1, <2>2, <2>3, <2>4, SMTT(20), SMTT(30) DEF Shrink
  <2>5. Handling'
    BY <2>1 DEF Handling, FreePCs
  <2> QED BY <2>1, <2>2, <2>4, <2>5 DEF CoversBlocks
<1>5. ASSUME LibcFree PROVE CoversBlocks'
  <2>1. /\ live' = live \ {ptr} /\ cut' = cut \ {ptr} /\ UNCHANGED heap
        /\ pc[Main] = "f_free" /\ pc'[Main] = "idle"
        /\ \A c \in live : c # ptr => len'[c] = len[c] /\ given'[c] = given[c]
    BY <1>5, SMTT(20), SMTT(30) DEF LibcFree, Release, MainReturns, Goto, TypeOK
  <2> QED BY <2>1 DEF CoversBlocks, Handling, AllocPCs, FreePCs
<1> QED BY <1>1, <1>2, <1>3, <1>4, <1>5

\* A step of handle_access moves no block and no bound.
LEMMA AccessCovers ==
    ASSUME IInv, CoversBlocks, NEW t \in Threads, AccessStep(t)
    PROVE  /\ CoversBlocks' /\ UNCHANGED <<live, len, given, cut, ptr>>
           /\ Handling' <=> Handling
<1> USE ConstAssumption DEF IInv, TypeOK
<1> DEFINE Frame ==
      /\ UNCHANGED <<libcVars, infoVars, mainVars>>
      /\ pc[t] \in {"idle"} \cup AccessPCs
      /\ \A u \in Threads : u # t => pc'[u] = pc[u] /\ todo'[u] = todo[u]
      /\ pc'[t] \in {"idle"} \cup AccessPCs
<1>1. Frame
  <2> USE DEF Goto, AccessPCs
  <2>1. ASSUME NEW a \in Addr, BeginAccess(t, a) PROVE Frame
    BY <2>1 DEF BeginAccess
  <2>2. ASSUME NEW f \in Bounds, Contain(t, f) PROVE Frame
    BY <2>2 DEF Contain
  <2>3. ASSUME FindIdOffset(t) \/ GlobalContain(t) \/ EndAccess(t) PROVE Frame
    BY <2>3 DEF FindIdOffset, GlobalContain, EndAccess
  <2> QED BY <2>1, <2>2, <2>3 DEF AccessStep
<1>2. CASE t = Main
  BY <1>1, <1>2 DEF CoversBlocks, Handling, AllocPCs, FreePCs, AccessPCs
<1>3. CASE t # Main
  BY <1>1, <1>3 DEF CoversBlocks, Handling, AboveCut
<1> QED BY <1>1, <1>2, <1>3

\* A step outside handle_access leaves the blocks that are being accessed as
\* they are, and one that is cut off stays so.
LEMMA UseKept ==
    ASSUME Basic, IInv, [Next]_vars, OutsideStep,
           NEW u \in Threads, pc[u] \in AccessPCs, pc'[u] = pc[u],
           NEW c \in live, InUse(c, addr[u])
    PROVE  /\ c \in live' /\ InUse(c, addr[u])' /\ given'[c] = given[c]
           /\ c \in cut => c \in cut'
<1> DEFINE Kept == /\ c \in live' /\ InUse(c, addr[u])' /\ given'[c] = given[c]
                   /\ c \in cut => c \in cut'
<1> USE Numbers, ConstAssumption DEF IInv, TypeOK
<1>1. addr'[u] = addr[u]
  BY DEF OutsideStep
<1>2. ASSUME NEW t \in Threads, NEW b \in HeapAddr, NEW s \in Sizes, Malloc(t, b, s)
      PROVE  Kept
  <2>1. b \notin live
    BY <1>2, FitsApart DEF Malloc
  <2> QED BY <1>1, <1>2, <2>1, SMTT(20), SMTT(30)
             DEF Malloc, InUse, Handling, Goto, AllocPCs, FreePCs
<1>3. ASSUME InsertAlive PROVE Kept
  BY <1>1, <1>3 DEF InsertAlive, InUse, Handling, Goto, AllocPCs, FreePCs
<1>4. ASSUME InsertTotal \/ \E f \in Bounds : InsertHeap(f) PROVE Kept
  <2>1. /\ UNCHANGED libcVars /\ Handling
        /\ Handling' => ptr' = ptr
    BY <1>4 DEF InsertTotal, InsertHeap, MainReturns, Goto, Handling, AllocPCs, FreePCs
  <2> QED BY <1>1, <2>1 DEF InUse
<1>5. ASSUME NEW t \in Threads, NEW b \in HeapAddr, FreeOther(t, b) PROVE Kept
  <2>1. b # c
    BY <1>5, QuietApart DEF FreeOther, MayFree, Usable
  <2> QED BY <1>1, <1>5, <2>1 DEF FreeOther, Release, InUse, Handling
<1>6. ASSUME NEW b \in HeapAddr, Free(b) PROVE Kept
  <2>1. b # c
    BY <1>6, QuietApart DEF Free, MayFree, Usable
  <2> QED BY <1>1, <1>6, <2>1 DEF Free, Release, InUse, Handling, Goto
<1>7. ASSUME FreeErase \/ FreeShrink PROVE Kept
  <2>1. UNCHANGED <<live, len, given, ptr>> /\ cut \subseteq cut' /\ Handling
    BY <1>7 DEF FreeErase, EraseEntry, FreeShrink, Goto, Handling, FreePCs
  <2> QED BY <1>1, <2>1 DEF InUse
<1>8. ASSUME LibcFree PROVE Kept
  BY <1>1, <1>8 DEF LibcFree, MainReturns, Release, InUse, Handling, Goto, AllocPCs, FreePCs
<1>9. ASSUME UNCHANGED vars PROVE Kept
  BY <1>1, <1>9 DEF vars, InUse, Handling
<1>10. ASSUME NEW t \in Threads, AccessStep(t) PROVE Kept
  BY <1>1, <1>10, SMTT(20), SMTT(30)
     DEF AccessStep, BeginAccess, Contain, FindIdOffset, GlobalContain,
     EndAccess, InUse, Handling, Goto, AllocPCs, FreePCs
<1>11. /\ \A s \in Sizes : ~MallocFails(s)
       /\ \A b \in HeapAddr, s \in Sizes : ~ReallocFails(b, s)
       /\ \A t \in Threads, b, n \in HeapAddr, s \in Sizes : ~Realloc(t, b, n, s)
  BY SMTT(20), SMTT(30) DEF MallocFails, ReallocFails, Realloc, MayRealloc, Basic
<1>12. ~ReallocErase /\ ~ReallocShrink
  BY DEF ReallocErase, ReallocShrink, Goto, Calls, ReallocPCs
<1> HIDE DEF Kept, IInv, TypeOK
<1>13. MainCalls => Kept
  BY <1>6, <1>11 DEF MainCalls
<1>14. MainSteps => Kept
  BY <1>3, <1>4, <1>7, <1>8, <1>12 DEF MainSteps
<1>15. ASSUME NEW t \in Threads, ThreadSteps(t) PROVE Kept
  BY Zenon, <1>2, <1>5, <1>10, <1>11, <1>15 DEF ThreadSteps, AccessStep
<1>16. Kept
  BY <1>9, <1>13, <1>14, <1>15 DEF Next
<1> QED BY <1>16 DEF Kept

\* The lookup of an address in a recorded block finds an entry.
LEMMA FindHeap ==
    ASSUME IInv, NEW a \in Addr, NEW b \in live, InUse(b, a), given[b] >= 0
    PROVE  Find(a).kind = "heap"
<1> USE Numbers, BlockNumbers DEF IInv
<1>1. b \in Addr /\ a \in Nat /\ b <= a /\ a < b + len[b]
  BY DEF InUse, TypeOK
<1>2. data_alive[b] # NoEntry
  BY Zenon, <1>1 DEF Tracked, InUse, Handling, FreePCs
<1>3. data_alive[b] = [id |-> given[b], size |-> len[b]]
  BY <1>1, <1>2 DEF Tracked
<1>4. ASSUME NEW c \in (b + 1)..a PROVE data_alive[c] = NoEntry
  <2>1. c \in Addr /\ b < c /\ c <= a
    BY <1>1, <1>4, SMTT(20), SMTT(30) DEF Addr
  <2>2. c \notin live
    BY <1>1, <2>1, SMTT(20), SMTT(30) DEF Blocks
  <2> QED BY Zenon, <2>1, <2>2 DEF Tracked
<1>5. Hit(b, a)
  BY <1>1, <1>2, <1>3, <1>4, SMTT(20), SMTT(30) DEF Hit, Predecessor
<1>6. \E c \in Addr : Hit(c, a)
  BY <1>1, <1>5
<1> QED BY <1>6 DEF Find

\* The bounds enclose the recorded blocks in every step.
LEMMA StepCoversBlocks ==
    ASSUME Basic PROVE IInv /\ CoversBlocks /\ [Next]_vars => CoversBlocks'
<1> SUFFICES ASSUME IInv, CoversBlocks, [Next]_vars PROVE CoversBlocks'
  OBVIOUS
<1>1. /\ \A s \in Sizes : ~MallocFails(s)
      /\ \A b \in HeapAddr, s \in Sizes : ~ReallocFails(b, s)
      /\ \A t \in Threads, b, n \in HeapAddr, s \in Sizes : ~Realloc(t, b, n, s)
  BY SMTT(20), SMTT(30) DEF MallocFails, ReallocFails, Realloc, MayRealloc, Basic
<1>2. ~ReallocErase /\ ~ReallocShrink
  BY ConstAssumption DEF ReallocErase, ReallocShrink, Goto, IInv, Calls, ReallocPCs
<1>3. MainCalls => CoversBlocks'
  BY <1>1, FreeCovers DEF MainCalls
<1>4. MainSteps => CoversBlocks'
  BY <1>2, InsertCovers, FreeCovers DEF MainSteps
<1>5. ASSUME NEW t \in Threads, ThreadSteps(t) PROVE CoversBlocks'
  BY <1>1, <1>5, MallocCovers, FreeCovers, AccessCovers DEF ThreadSteps, AccessStep
<1>6. ASSUME UNCHANGED vars PROVE CoversBlocks'
  <2>1. UNCHANGED <<live, given, len, cut, heap, pc, ptr, todo>>
    BY <1>6 DEF vars
  <2>2. Handling' = Handling /\ AboveCut' = AboveCut
    BY <2>1 DEF Handling, AboveCut
  <2> QED BY Zenon, <2>1, <2>2 DEF CoversBlocks
<1> QED BY <1>3, <1>4, <1>5, <1>6 DEF Next

\* No step turns an access to a recorded block away.
LEMMA StepCoversAccesses ==
    ASSUME Basic
    PROVE  IInv /\ IInv' /\ CoversBlocks /\ CoversAccesses /\ [Next]_vars => CoversAccesses'
<1> SUFFICES ASSUME IInv, IInv', CoversBlocks, CoversAccesses, [Next]_vars,
                    NEW u \in Threads, NEW b \in live' \ cut', InUse(b, addr[u])', given'[b] >= 0
             PROVE  pc'[u] # "global" /\ (pc'[u] = "logged" => res'[u].kind = "heap")
  BY Zenon DEF CoversAccesses
<1> USE Numbers
<1>1. ASSUME OutsideStep, pc'[u] \in {"global", "logged"}
      PROVE  pc'[u] # "global" /\ (pc'[u] = "logged" => res'[u].kind = "heap")
  <2>1. /\ pc'[u] = pc[u] /\ pc[u] \in AccessPCs
        /\ addr'[u] = addr[u] /\ res'[u] = res[u]
        /\ addr[u] \in Addr /\ addr[u] \in Nat
    BY Zenon, <1>1 DEF OutsideStep, AccessPCs, IInv, TypeOK
  <2>2. /\ b \in HeapAddr /\ b \in Nat /\ len'[b] \in Nat
        /\ b <= addr[u] /\ addr[u] < b + len'[b]
    BY <2>1 DEF InUse, IInv, TypeOK
  <2>3. addr[u] \notin Globals
    BY <2>1, <2>2, SMTT(20), SMTT(30)
  <2>4. PICK c \in live : InUse(c, addr[u])
    BY Zenon, <2>1, <2>3 DEF IInv, Accesses
  <2>5. /\ c \in live' /\ InUse(c, addr[u])' /\ given'[c] = given[c]
        /\ c \in cut => c \in cut'
    BY Zenon, <1>1, <2>1, <2>4, UseKept
  <2>6. c \in Nat /\ len'[c] \in Nat /\ c <= addr[u] /\ addr[u] < c + len'[c]
    BY <2>1, <2>5 DEF InUse, IInv, TypeOK
  <2>7. (b < c => b + len'[b] <= c) /\ (c < b => c + len'[c] <= b)
    BY <2>5 DEF IInv, Blocks
  <2>8. b = c
    BY <2>1, <2>2, <2>6, <2>7, SMTT(20), SMTT(30)
  <2> QED BY Zenon, <2>1, <2>4, <2>5, <2>8 DEF CoversAccesses
<1>2. ASSUME NEW t \in Threads, AccessStep(t)
      PROVE  pc'[u] # "global" /\ (pc'[u] = "logged" => res'[u].kind = "heap")
  <2>1. /\ UNCHANGED <<live, len, given, cut, ptr>>
        /\ Handling' <=> Handling
    BY <1>2, AccessCovers
  <2>2. CASE u # t
    <3>1. /\ pc'[u] = pc[u] /\ addr'[u] = addr[u] /\ res'[u] = res[u]
      BY <1>2, <2>2 DEF AccessStep, BeginAccess, Contain, FindIdOffset, GlobalContain,
         EndAccess, Goto, IInv, TypeOK
    <3>2. InUse(b, addr[u])
      BY <2>1, <3>1 DEF InUse
    <3> QED BY <2>1, <3>1, <3>2 DEF CoversAccesses
  <2>3. CASE u = t /\ pc'[t] \in {"global", "logged"}
    <3>1. addr'[t] = addr[t] /\ pc[t] \in {"contain", "find", "global"}
      BY <1>2, <2>3 DEF AccessStep, BeginAccess, Contain, FindIdOffset, GlobalContain,
         EndAccess, Goto, IInv, TypeOK
    <3>2. InUse(b, addr[t])
      BY <2>1, <2>3, <3>1 DEF InUse
    <3>3. addr[t] \in Addr /\ addr[t] \in Nat
      BY Zenon DEF IInv, TypeOK
    <3>4. /\ heap.start <= addr[t] /\ addr[t] < heap.end
      <4>1. heap.start <= b /\ b + len[b] <= heap.end
        BY <2>1, <3>2 DEF CoversBlocks, InUse
      <4>2. b \in Nat /\ len[b] \in Nat /\ heap.start \in Nat /\ heap.end \in Nat
        BY <2>1, BlockNumbers DEF IInv
      <4> QED BY <3>2, <3>3, <4>1, <4>2, SMTT(20), SMTT(30) DEF InUse
    <3>5. Record(Find(addr[t])).kind = "heap"
      BY Zenon, <2>1, <3>2, <3>3, FindHeap, FindType, Recorded DEF IInv
    <3>6. pc[t] # "global"
      BY <2>1, <3>2 DEF CoversAccesses
    <3>7. ASSUME NEW f \in Bounds, Contain(t, f) PROVE FALSE
      BY <2>3, <3>4, <3>7 DEF Contain, WithinBound, IInv, TypeOK
    <3>8. FindIdOffset(t)
      BY <1>2, <2>3, <3>1, <3>6, <3>7
      DEF AccessStep, BeginAccess, GlobalContain, EndAccess, Goto, IInv, TypeOK
    <3>9. pc \in [Threads -> AnyPC] /\ res \in [Threads -> Result]
      BY DEF IInv, TypeOK, AnyPC
    <3>10. pc' = [pc EXCEPT ![t] = "logged"] /\ res' = [res EXCEPT ![t] = Record(Find(addr[t]))]
      BY <3>8 DEF FindIdOffset, Goto
    <3> QED BY <2>3, <3>5, <3>9, <3>10
  <2> QED BY <2>2, <2>3
<1> QED BY <1>1, <1>2, TwoSides DEF IInv

\* Every access to a recorded block is logged as a heap access, in whatever
\* order Main frees its blocks, unless it has freed one below that block: the
\* unlocked bounds never exclude it.
THEOREM HeapAccessLoggedHolds == Spec => []HeapAccessLogged
<1> DEFINE Covers == Basic => IInv /\ CoversBlocks /\ CoversAccesses
<1>2. Init => CoversBlocks /\ CoversAccesses
  BY ConstAssumption DEF Init, CoversBlocks, CoversAccesses, FreePCs
<1>3. IInv /\ CoversAccesses => HeapAccessLogged
  <2> SUFFICES ASSUME IInv, CoversAccesses, NEW t \in Threads, NEW b \in live \ cut,
                      pc[t] = "logged", addr[t] \in Extent(b), given[b] >= 0
               PROVE  res[t].kind = "heap"
    BY DEF HeapAccessLogged
  <2>1. b \in Nat /\ len[b] \in Nat /\ addr[t] \in Addr /\ addr[t] \in Nat
    BY Zenon, Numbers, BlockNumbers DEF IInv, TypeOK
  <2>2. b <= addr[t] /\ addr[t] < b + len[b]
    BY <2>1, SMTT(20), SMTT(30) DEF Extent
  <2>3. addr[t] \notin Globals
    BY <2>1, <2>2, Numbers, SMTT(20), SMTT(30) DEF IInv, TypeOK
  <2>4. PICK c \in live : InUse(c, addr[t])
    BY <2>3 DEF IInv, Accesses, AccessPCs
  <2>5. c = b
    BY <2>1, <2>2, <2>4, OneBlock DEF IInv, InUse
  <2> QED BY <2>4, <2>5 DEF CoversAccesses
<1>4. Covers => HeapAccessLogged
  BY <1>3, Zenon DEF HeapAccessLogged
<1>5. Init => Covers
  BY <1>2, InitIInv
<1>7. Covers /\ [Next]_vars => Covers'
  BY StepBasic, StepIInv, StepCoversBlocks, StepCoversAccesses, Zenon
<1> HIDE DEF Covers
<1> QED BY <1>4, <1>5, <1>7, PTL DEF Spec

-----------------------------------------------------------------------------
(* The ids of the log, for any use of the allocator *)

\* Ids are given out once.
Numbered ==
    /\ \A x \in data_total : x.id < id
    /\ \A x, y \in data_total : x.id = y.id => x = y

Line(b) == [id |-> data_alive[b].id, addr |-> b, size |-> data_alive[b].size]

\* What is alive is in the dump, or about to be.
AliveDumped == \A b \in Addr : data_alive[b] # NoEntry => Line(b) \in Dumped

\* The line that an access in the log is about.
Names(x, t) ==
    /\ addr[t] \in x.addr..(x.addr + x.size - 1)
    /\ res[t].m_id = Uint32(x.id) /\ res[t].m_offset = Uint32(addr[t] - x.addr)

ResultsDumped ==
    \A t \in Threads : pc[t] = "logged" /\ res[t].kind = "heap" => \E x \in Dumped : Names(x, t)

DumpInv == TypeOK /\ Numbered /\ AliveDumped /\ ResultsDumped

\* Steps other than those of insert() and erase() leave the dump alone.
DumpSame ==
    /\ data_total' = data_total /\ id' = id /\ data_alive' = data_alive
    /\ Dumped' = Dumped

LEMMA AccessDumpSame ==
    ASSUME TypeOK, NEW t \in Threads, AccessStep(t)
    PROVE  DumpSame
<1>1. /\ UNCHANGED <<infoVars, mainVars>>
      /\ pc'[Main] \in {"widen", "total"} <=> pc[Main] \in {"widen", "total"}
  BY ConstAssumption, SMTT(20), SMTT(30)
     DEF TypeOK, AccessStep, BeginAccess, Contain, FindIdOffset, GlobalContain, EndAccess, Goto
<1> QED BY <1>1 DEF DumpSame, Dumped

LEMMA OtherDumpSame ==
    ASSUME TypeOK,
           \/ MainCalls \/ FreeShrink \/ LibcFree \/ ReallocShrink \/ UNCHANGED vars
           \/ \E t \in Threads : ThreadSteps(t)
    PROVE  DumpSame
<1> USE ConstAssumption DEF TypeOK, Goto
<1>1. CASE MainCalls
  <2>1. ASSUME NEW s \in Sizes, MallocFails(s) PROVE DumpSame
    BY <2>1 DEF MallocFails, DumpSame, Dumped
  <2>2. ASSUME NEW b \in HeapAddr, Free(b) PROVE DumpSame
    BY Zenon, <2>2 DEF Free, DumpSame, Dumped
  <2>3. ASSUME NEW b \in HeapAddr, NEW s \in Sizes, ReallocFails(b, s) PROVE DumpSame
    BY <2>3 DEF ReallocFails, DumpSame, Dumped
  <2> HIDE DEF DumpSame
  <2> QED BY <1>1, <2>1, <2>2, <2>3, Zenon DEF MainCalls
<1>2. CASE FreeShrink \/ LibcFree \/ ReallocShrink
  BY Zenon, <1>2 DEF FreeShrink, LibcFree, MainReturns, ReallocShrink, DumpSame, Dumped
<1>3. CASE UNCHANGED vars
  BY <1>3 DEF vars, DumpSame, Dumped
<1>4. ASSUME NEW t \in Threads, NEW b \in HeapAddr, NEW s \in Sizes, Malloc(t, b, s)
      PROVE  DumpSame
  BY <1>4 DEF Malloc, DumpSame, Dumped
<1>5. ASSUME NEW t \in Threads, NEW b \in HeapAddr, FreeOther(t, b)
      PROVE  DumpSame
  BY <1>5 DEF FreeOther, DumpSame, Dumped
<1>6. ASSUME NEW t \in Threads, NEW b \in HeapAddr, NEW n \in HeapAddr, NEW s \in Sizes,
             Realloc(t, b, n, s)
      PROVE  DumpSame
  BY <1>6 DEF Realloc, DumpSame, Dumped
<1>7. ASSUME NEW t \in Threads, AccessStep(t) PROVE DumpSame
  BY <1>7, AccessDumpSame
<1> HIDE DEF TypeOK, Goto
<1> QED BY <1>1, <1>2, <1>3, <1>4, <1>5, <1>6, <1>7 DEF ThreadSteps, AccessStep

\* Every step keeps the numbers and the lines; none takes a line away.
LEMMA LinesStep ==
    ASSUME TypeOK, Numbered, AliveDumped, [Next]_vars
    PROVE  Numbered' /\ AliveDumped' /\ Dumped \subseteq Dumped'
<1> USE ConstAssumption
<1>1. ASSUME DumpSame PROVE Numbered' /\ AliveDumped' /\ Dumped \subseteq Dumped'
  <2>1. \A b : Line(b)' = Line(b)
    BY <1>1 DEF DumpSame, Line
  <2> QED BY <1>1, <2>1 DEF DumpSame, Numbered, AliveDumped
<1>2. CASE InsertAlive
  <2>1. /\ pc[Main] = "insert" /\ pc'[Main] = "widen" /\ ptr' = ptr /\ sz' = sz /\ id' = id
        /\ data_total' = data_total
        /\ data_alive' = [data_alive EXCEPT ![ptr] = [id |-> id, size |-> sz]]
        /\ ptr \in Addr
    BY <1>2 DEF TypeOK, InsertAlive, Goto
  <2>2. /\ Dumped = data_total
        /\ Dumped' = data_total \cup {[id |-> id, addr |-> ptr, size |-> sz]}
    BY Zenon, <2>1 DEF Dumped
  <2>3. \A b \in Addr : b = ptr => Line(b)' = [id |-> id, addr |-> ptr, size |-> sz]
    BY <2>1 DEF TypeOK, Line
  <2>4. \A b \in Addr : b # ptr => data_alive'[b] = data_alive[b] /\ Line(b)' = Line(b)
    BY <2>1 DEF TypeOK, Line
  <2>5. ASSUME NEW b \in Addr, data_alive'[b] # NoEntry PROVE Line(b)' \in Dumped'
    <3>1. CASE b = ptr
      BY Zenon, <3>1, <2>2, <2>3
    <3>2. CASE b # ptr
      BY Zenon, <3>2, <2>2, <2>4, <2>5 DEF AliveDumped
    <3> QED BY <3>1, <3>2
  <2>6. AliveDumped'
    BY Zenon, <2>5 DEF AliveDumped
  <2> QED BY Zenon, <2>1, <2>2, <2>6 DEF Numbered
<1>3. ASSUME NEW f \in Bounds, InsertHeap(f) PROVE DumpSame
  BY <1>3 DEF TypeOK, InsertHeap, DumpSame, Dumped
<1>4. CASE InsertTotal
  <2>1. /\ pc[Main] = "total" /\ pc'[Main] = "idle" /\ id' = id + 1 /\ data_alive' = data_alive
        /\ data_total' = data_total \cup {[id |-> id, addr |-> ptr, size |-> sz]}
    BY <1>4 DEF TypeOK, InsertTotal, MainReturns, Goto
  <2>2. Dumped' = Dumped
    BY Zenon, <2>1 DEF Dumped
  <2>3. AliveDumped'
    BY Zenon, <2>1, <2>2 DEF AliveDumped, Line
  <2>4. Numbered'
    BY <2>1, SMTT(20), SMTT(30) DEF Numbered, TypeOK
  <2> QED BY <2>2, <2>3, <2>4
<1>5. CASE FreeErase \/ ReallocErase
  <2>1. /\ data_total' = data_total /\ id' = id /\ ptr' = ptr /\ sz' = sz
        /\ pc[Main] \notin {"widen", "total"} /\ pc'[Main] \notin {"widen", "total"}
        /\ \A b \in Addr : data_alive'[b] \in {data_alive[b], NoEntry}
    BY <1>5 DEF TypeOK, FreeErase, ReallocErase, EraseEntry, Goto
  <2>2. Dumped' = Dumped
    BY Zenon, <2>1 DEF Dumped
  <2>3. AliveDumped'
    BY Zenon, <2>1, <2>2 DEF AliveDumped, Line
  <2> QED BY <2>1, <2>2, <2>3 DEF Numbered
<1> QED BY <1>1, <1>2, <1>3, <1>4, <1>5, OtherDumpSame DEF Next, MainSteps

\* What a lookup finds is in the dump.
LEMMA FindDumped ==
    ASSUME TypeOK, AliveDumped, NEW a \in Addr, Find(a).kind = "heap"
    PROVE  \E x \in Dumped : /\ a \in x.addr..(x.addr + x.size - 1)
                             /\ Find(a).m_id = x.id /\ Find(a).m_offset = a - x.addr
<1> DEFINE b == CHOOSE b \in Addr : Hit(b, a)
<1>1. \E c \in Addr : Hit(c, a)
  BY Zenon DEF Find, NoResult
<1>2. b \in Addr /\ Hit(b, a)
  BY <1>1
<1>3. Find(a) = [kind |-> "heap", m_id |-> data_alive[b].id, m_offset |-> a - b]
  BY <1>1 DEF Find
<1> HIDE DEF b
<1>4. b <= a /\ data_alive[b] # NoEntry /\ b + data_alive[b].size > a
  BY <1>2 DEF Hit, Predecessor
<1>5. Line(b) \in Dumped
  BY <1>2, <1>4 DEF AliveDumped
<1>6. b \in Nat /\ a \in Nat /\ data_alive[b].size \in Nat
  BY <1>2, <1>4, Numbers DEF TypeOK
<1>7. /\ a \in Line(b).addr..(Line(b).addr + Line(b).size - 1)
      /\ Find(a).m_id = Line(b).id /\ Find(a).m_offset = a - Line(b).addr
  BY <1>3, <1>4, <1>6, SMTT(20), SMTT(30) DEF Line
<1> QED BY Zenon, <1>5, <1>7

\* A result that is written is about a line of the dump, and lines stay.
LEMMA ResultsStep ==
    ASSUME TypeOK, AliveDumped, ResultsDumped, Dumped \subseteq Dumped', [Next]_vars
    PROVE  ResultsDumped'
<1> SUFFICES ASSUME NEW u \in Threads, pc'[u] = "logged", res'[u].kind = "heap"
             PROVE  \E x \in Dumped : Names(x, u)'
  BY Zenon DEF ResultsDumped
<1>1. ASSUME pc[u] = "logged", res'[u] = res[u], addr'[u] = addr[u]
      PROVE  \E x \in Dumped : Names(x, u)'
  <2>1. PICK x \in Dumped : Names(x, u)
    BY <1>1 DEF ResultsDumped
  <2>2. Names(x, u)'
    BY Zenon, <1>1, <2>1 DEF Names
  <2> QED BY Zenon, <2>2
<1>2. CASE OutsideStep
  BY Zenon, <1>1, <1>2 DEF OutsideStep, AccessPCs
<1>3. ASSUME NEW t \in Threads, AccessStep(t)
      PROVE  \E x \in Dumped : Names(x, u)'
  <2>1. CASE u # t
    <3>1. pc'[u] = pc[u] /\ res'[u] = res[u] /\ addr'[u] = addr[u]
      BY <1>3, <2>1
      DEF TypeOK, AccessStep, BeginAccess, Contain, FindIdOffset, GlobalContain, EndAccess, Goto
    <3> QED BY <3>1, <1>1
  <2>2. CASE u = t
    <3>1. FindIdOffset(t)
      <4>1. ~\E a \in Addr : BeginAccess(t, a)
        BY <2>2 DEF TypeOK, BeginAccess, Goto
      <4>2. ~\E f \in Bounds : Contain(t, f)
        BY <2>2 DEF TypeOK, Contain
      <4>3. ~EndAccess(t)
        BY <2>2 DEF TypeOK, EndAccess, Goto
      <4>4. ~GlobalContain(t)
        BY <2>2, SMTT(20), SMTT(30) DEF TypeOK, GlobalContain, NoResult
      <4> QED BY <1>3, <4>1, <4>2, <4>3, <4>4 DEF AccessStep
    <3>2. res'[t] = Record(Find(addr[t])) /\ addr'[t] = addr[t] /\ addr[t] \in Addr
      BY <3>1 DEF TypeOK, FindIdOffset
    <3>3. /\ Find(addr[t]).kind = "heap"
          /\ res'[t].m_id = Uint32(Find(addr[t]).m_id)
          /\ res'[t].m_offset = Uint32(Find(addr[t]).m_offset)
      <4>1. Find(addr[t]) \in Result
        BY Zenon, <3>2, FindType
      <4>2. /\ res'[t].kind = Find(addr[t]).kind
            /\ Find(addr[t]).kind = "heap" =>
                 /\ res'[t].m_id = Uint32(Find(addr[t]).m_id)
                 /\ res'[t].m_offset = Uint32(Find(addr[t]).m_offset)
        BY Zenon, <3>2, <4>1, Recorded
      <4> QED BY Zenon, <2>2, <4>2
    <3>4. PICK x \in Dumped : /\ addr[t] \in x.addr..(x.addr + x.size - 1)
                              /\ Find(addr[t]).m_id = x.id
                              /\ Find(addr[t]).m_offset = addr[t] - x.addr
      BY Zenon, <3>2, <3>3, FindDumped
    <3>5. Names(x, t)'
      BY Zenon, <3>2, <3>3, <3>4 DEF Names
    <3> QED BY Zenon, <2>2, <3>5
  <2> QED BY Zenon, <2>1, <2>2
<1> QED BY <1>2, <1>3, TwoSides

\* Whatever the application does with the allocator, no two lines of
\* mallocRuntimeIDs.txt have the same id, and a logged heap access is one to
\* the block of a line whose id and offset, cut to uint32_t, are the logged
\* ones.
THEOREM LoggedIdDumpedHolds == Spec => []LoggedIdDumped
<1>1. Init => DumpInv
  BY InitType DEF Init, DumpInv, Numbered, AliveDumped, ResultsDumped
<1>2. DumpInv /\ [Next]_vars => DumpInv'
  BY StepType, LinesStep, ResultsStep DEF DumpInv
<1>3. DumpInv => LoggedIdDumped
  <2> SUFFICES ASSUME DumpInv PROVE LoggedIdDumped
    OBVIOUS
  <2>1. \A x, y \in Dumped : x.id = y.id => x = y
    <3> DEFINE next == [id |-> id, addr |-> ptr, size |-> sz]
    <3>1. Dumped \subseteq data_total \cup {next}
      BY DEF Dumped
    <3>2. \A x \in data_total : x.id # next.id
      BY SMTT(20), SMTT(30) DEF DumpInv, Numbered, TypeOK
    <3> HIDE DEF next
    <3> QED BY <3>1, <3>2 DEF DumpInv, Numbered
  <2> QED BY Zenon, <2>1 DEF DumpInv, ResultsDumped, Names, LoggedIdDumped
<1> QED BY <1>1, <1>2, <1>3, PTL DEF Spec
=============================================================================
