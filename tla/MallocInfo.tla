----------------------------- MODULE MallocInfo -----------------------------
(***************************************************************************)
(* The allocation side of the profiling runtime: runtime/MallocInfo.h,     *)
(* runtime/Segment.h and the allocation and access hooks of                *)
(* runtime/Runtime.cpp.                                                    *)
(*                                                                         *)
(* Thread 0 (Main) records its allocations in data_alive and widens the    *)
(* segment heap; every thread passes each of its memory accesses to        *)
(* handle_access, which filters the address with heap (no lock) and then   *)
(* looks it up in data_alive (shared lock).                                *)
(*                                                                         *)
(* Granularity.  A critical section of SharedSpinLock is one action: that  *)
(* module shows that a writer is alone in it and that readers only meet    *)
(* readers.  The two words of heap are shared without a lock, so each load *)
(* and each store of one of them is an action of its own, in either order  *)
(* (the accesses are not atomic and the compiler may swap them).           *)
(*                                                                         *)
(* The application is any program that keeps the rules of the allocator:   *)
(* it uses a block only between the return of the allocation and the call  *)
(* that frees it.  workload says which further calls it makes.             *)
(***************************************************************************)
EXTENDS Integers, FiniteSets

CONSTANTS Threads,    \* threads of the application
          Main,       \* the thread with index 0
          MaxAddr,    \* the last address
          HeapLow,    \* the first address libc hands out
          Sizes,      \* sizes of allocations
          MaxId,      \* bound: allocations Main records in a run, by workload
          UINT32,     \* 2^32: how many numbers a uint32_t holds
          Programs    \* the applications, by the calls they make, see Workloads

(* "realloc"    Main reallocates blocks                                     *)
(* "foreign"    the other threads free blocks that Main allocated, and Main *)
(*              reallocates blocks that the others allocated                *)
(* "fail"       libc runs out of memory                                     *)
Workloads == {"realloc", "foreign", "fail"}

NULL == 0
Addr == 0..MaxAddr
Top == MaxAddr + 1              \* stands for ~0LU

\* The segment getGlobalRegion() found; NULL lies below it, the heap above.
Globals == 1..(HeapLow - 1)
HeapAddr == HeapLow..MaxAddr

ASSUME ConstAssumption ==
    /\ Main \in Threads
    /\ MaxAddr \in Nat /\ HeapLow \in 2..MaxAddr
    /\ Sizes \subseteq Nat \ {0} /\ Sizes # {}
    /\ MaxId \in [SUBSET Workloads -> Nat] /\ UINT32 \in Nat \ {0}
    /\ Programs \subseteq SUBSET Workloads

NoEntry == [id |-> -1, size |-> 0]
NoSeg == [start |-> 0, end |-> 0]

VARIABLES
    workload,    \* the further calls that the application makes
    (* libc, and what the runtime told it about each block *)
    live,        \* start addresses of the allocated blocks
    len,         \* their sizes
    given,       \* history: the id MallocInfo gave to the block, -1 if none
    cut,         \* history: recorded blocks below which Main has freed another
    (* MallocInfo *)
    data_alive,  \* std::map from start to PerAddr; NoEntry where absent
    data_total,  \* everything insert() ever recorded
    heap,        \* AddrSeg
    id,
    (* where the threads are *)
    pc,
    ptr, sz,     \* Main: block and size the current allocator call handles
    old,         \* Main: argument of realloc, NULL otherwise
    gone,        \* Main: the segment erase() removed
    todo,        \* the words of heap still to be written or read
    addr,        \* argument of handle_access
    res          \* what handle_access did with it

libcVars == <<live, len, given, cut>>
infoVars == <<data_alive, data_total, heap, id>>
mainVars == <<ptr, sz, old, gone>>
accessVars == <<addr, res>>
vars == <<workload, libcVars, infoVars, pc, mainVars, todo, accessVars>>

Bounds == {"start", "end"}
AllocPCs == {"insert", "widen", "total"}
FreePCs == {"f_erase", "f_shrink", "f_free"}
ReallocPCs == {"r_erase", "r_shrink"}
AccessPCs == {"contain", "find", "global", "logged"}

Result == [kind : {"heap", "global", "dropped"}, m_id : Int, m_offset : Int]
NoResult == [kind |-> "dropped", m_id |-> -1, m_offset |-> -1]

Init ==
    /\ workload \in Programs
    /\ live = {} /\ len = [a \in Addr |-> 0] /\ given = [a \in Addr |-> -1]
    /\ cut = {}
    /\ data_alive = [a \in Addr |-> NoEntry] /\ data_total = {}
    /\ heap = [start |-> Top, end |-> 0] /\ id = 0
    /\ pc = [t \in Threads |-> "idle"]
    /\ ptr = NULL /\ sz = 0 /\ old = NULL /\ gone = NoSeg
    /\ todo = [t \in Threads |-> {}]
    /\ addr = [t \in Threads |-> NULL] /\ res = [t \in Threads |-> NoResult]

Goto(t, from, to) == pc[t] = from /\ pc' = [pc EXCEPT ![t] = to]

\* Main returns from an allocator call; its locals are dead.
MainReturns(from) ==
    /\ Goto(Main, from, "idle")
    /\ ptr' = NULL /\ sz' = 0 /\ old' = NULL /\ gone' = NoSeg

\* libc takes block b back.
Release(b) ==
    /\ live' = live \ {b}
    /\ len' = [len EXCEPT ![b] = 0]
    /\ given' = [given EXCEPT ![b] = -1]
    /\ cut' = cut \ {b}

-----------------------------------------------------------------------------
(* External: the allocator of libc and the application's use of it. *)

Extent(b) == b..(b + len[b] - 1)

\* libc may place a block of s bytes at b: no byte of it is in use.
Fits(b, s, blocks) ==
    /\ b..(b + s - 1) \subseteq HeapAddr
    /\ \A c \in blocks : b..(b + s - 1) \cap Extent(c) = {}

\* The application holds a pointer to b: the call that allocated it has
\* returned and no call that frees it has begun.
Usable(b) ==
    /\ b \in live
    /\ pc[Main] \in AllocPCs \cup FreePCs \cup ReallocPCs => b \notin {ptr, old}

\* No thread is about to touch a byte of b.
Quiet(b) == \A t \in Threads : pc[t] \in AccessPCs => addr[t] \notin Extent(b)

-----------------------------------------------------------------------------
(* Segment.h *)

\* Segment::contain, one comparison at a time.
WithinBound(seg, f, a) == IF f = "start" THEN seg.start <= a ELSE a < seg.end

\* Only the upper end is widened.
WidenEnd(seg, f, rhs) ==
    IF f = "start" THEN seg
    ELSE [seg EXCEPT !.end = IF rhs.end > @ THEN rhs.end ELSE @]

\* Segment::insert, one word at a time.
Widen(seg, f, rhs) ==
    IF f = "start" THEN [seg EXCEPT !.start = IF rhs.start < @ THEN rhs.start ELSE @]
    ELSE [seg EXCEPT !.end = IF rhs.end > @ THEN rhs.end ELSE @]

\* A segment that gets empty is reset to 0, 0 instead of ~0, 0.
ShrinkToZero(seg, rhs) ==
    IF rhs.start <= seg.start /\ rhs.end >= seg.end THEN NoSeg ELSE seg

\* Segment::shrink writes at most one of the two words.
Shrink(seg, rhs) ==
    IF rhs.start <= seg.start /\ rhs.end > seg.start
    THEN [seg EXCEPT !.start = rhs.end]
    ELSE IF rhs.start < seg.end /\ rhs.end >= seg.start
         THEN [seg EXCEPT !.end = rhs.start]
         ELSE seg

-----------------------------------------------------------------------------
(* malloc_inst, calloc_inst, posix_memalign_inst and the common part of     *)
(* realloc_inst: libc first, then MallocInfo::insert if index is 0.         *)

Malloc(t, b, s) ==
    /\ pc[t] = "idle"
    /\ Fits(b, s, live)
    /\ live' = live \cup {b}
    /\ len' = [len EXCEPT ![b] = s]
    /\ UNCHANGED <<given, cut>>
    /\ IF t = Main
       THEN /\ id < MaxId[workload]
            /\ Goto(t, "idle", "insert")
            /\ ptr' = b /\ sz' = s /\ UNCHANGED <<old, gone>>
       ELSE UNCHANGED <<pc, mainVars>>
    /\ UNCHANGED <<infoVars, todo, accessVars>>

\* malloc_inst and calloc_inst record the result without a test for NULL.
MallocFails(s) ==
    /\ "fail" \in workload
    /\ id < MaxId[workload]
    /\ Goto(Main, "idle", "insert")
    /\ sz' = s
    /\ UNCHANGED <<libcVars, infoVars, ptr, old, gone, todo, accessVars>>

\* insert() under the exclusive lock: data_alive[start] = PerAddr(id, size).
InsertAlive ==
    /\ Goto(Main, "insert", "widen")
    /\ data_alive' = [data_alive EXCEPT ![ptr] = [id |-> id, size |-> sz]]
    /\ given' = IF ptr \in live THEN [given EXCEPT ![ptr] = id] ELSE given
    /\ todo' = [todo EXCEPT ![Main] = Bounds]
    /\ UNCHANGED <<live, len, cut, data_total, heap, id, mainVars, accessVars>>

\* heap.insert(...) after the unlock; the stores race with contain().
InsertHeap(f) ==
    /\ pc[Main] = "widen" /\ f \in todo[Main]
    /\ heap' = Widen(heap, f, [start |-> ptr, end |-> ptr + sz])
    /\ todo' = [todo EXCEPT ![Main] = @ \ {f}]
    /\ pc' = [pc EXCEPT ![Main] = IF todo[Main] = {f} THEN "total" ELSE @]
    /\ UNCHANGED <<libcVars, data_alive, data_total, id, mainVars, accessVars>>

\* The entry is written to the table of all allocations with the next id.
InsertTotalLate ==
    /\ MainReturns("total")
    /\ id' = id + 1
    /\ data_total' = data_total \cup {[id |-> id', addr |-> ptr, size |-> sz]}
    /\ UNCHANGED <<libcVars, data_alive, heap, todo, accessVars>>

\* data_total[bt].emplace_back(...); id++; and the call returns.
InsertTotal ==
    /\ MainReturns("total")
    /\ data_total' = data_total \cup {[id |-> id, addr |-> ptr, size |-> sz]}
    /\ id' = id + 1
    /\ UNCHANGED <<libcVars, data_alive, heap, todo, accessVars>>

-----------------------------------------------------------------------------
(* free: Main goes through my_free_hook, the others straight to libc.       *)

MayFree(t, b) ==
    /\ Usable(b) /\ Quiet(b)
    /\ t = Main \/ "foreign" \in workload \/ given[b] = -1

FreeOther(t, b) ==
    /\ t # Main /\ pc[t] = "idle" /\ MayFree(t, b)
    /\ Release(b)
    /\ UNCHANGED <<infoVars, pc, mainVars, todo, accessVars>>

\* The block goes back to libc before it is erased.
FreeEarly(b) ==
    /\ MayFree(Main, b)
    /\ Goto(Main, "idle", "f_erase")
    /\ ptr' = b
    /\ Release(b)
    /\ UNCHANGED <<infoVars, sz, old, gone, todo, accessVars>>

Free(b) ==
    /\ MayFree(Main, b)
    /\ Goto(Main, "idle", "f_erase")
    /\ ptr' = b
    /\ UNCHANGED <<libcVars, infoVars, sz, old, gone, todo, accessVars>>

\* erase() under the exclusive lock, of the block at a.
EraseEntry(a) ==
    /\ data_alive' = [data_alive EXCEPT ![a] = NoEntry]
    /\ gone' = [start |-> a, end |-> a + data_alive[a].size]
    /\ cut' = cut \cup {c \in live : given[c] >= 0 /\ c > a}

\* free() without erase().
FreeEraseSkipped ==
    /\ Goto(Main, "f_erase", "f_free")
    /\ UNCHANGED <<libcVars, infoVars, mainVars, todo, accessVars>>

\* erase() in free: an unknown block is not an error.
FreeErase ==
    /\ IF data_alive[ptr] # NoEntry
       THEN EraseEntry(ptr) /\ Goto(Main, "f_erase", "f_shrink")
       ELSE UNCHANGED <<data_alive, gone, cut>> /\ Goto(Main, "f_erase", "f_free")
    /\ UNCHANGED <<live, len, given, data_total, heap, id, ptr, sz, old, todo, accessVars>>

\* heap.shrink(...) after the unlock.
FreeShrink ==
    /\ Goto(Main, "f_shrink", "f_free")
    /\ heap' = Shrink(heap, gone)
    /\ UNCHANGED <<libcVars, data_alive, data_total, id, mainVars, todo, accessVars>>

LibcFree ==
    /\ MainReturns("f_free")
    /\ Release(ptr)
    /\ UNCHANGED <<infoVars, todo, accessVars>>

-----------------------------------------------------------------------------
(* realloc_inst: libc moves the block first, then Main erases the old one   *)
(* and inserts the new one.  realloc(NULL, size) is Malloc.                 *)

MayRealloc(t, b) ==
    /\ "realloc" \in workload /\ Usable(b) /\ Quiet(b)
    /\ "foreign" \in workload \/ (t = Main <=> given[b] >= 0)

Realloc(t, b, n, s) ==
    /\ pc[t] = "idle" /\ MayRealloc(t, b)
    /\ Fits(n, s, live \ {b})
    /\ live' = (live \ {b}) \cup {n}
    /\ len' = [len EXCEPT ![b] = 0, ![n] = s]
    /\ given' = [given EXCEPT ![b] = -1, ![n] = -1]
    /\ cut' = cut \ {b, n}
    /\ IF t = Main
       THEN /\ id < MaxId[workload]
            /\ Goto(t, "idle", "r_erase")
            /\ ptr' = n /\ sz' = s /\ old' = b /\ UNCHANGED gone
       ELSE UNCHANGED <<pc, mainVars>>
    /\ UNCHANGED <<infoVars, todo, accessVars>>

\* __libc_realloc returns NULL and keeps the old block.
ReallocFails(b, s) ==
    /\ "fail" \in workload
    /\ id < MaxId[workload] /\ MayRealloc(Main, b)
    /\ Goto(Main, "idle", "r_erase")
    /\ sz' = s /\ old' = b
    /\ UNCHANGED <<libcVars, infoVars, ptr, gone, todo, accessVars>>

\* assert(malloc_sizes.erase((uintptr_t) ptr)): the program stops if it fails.
ReallocErase ==
    /\ IF data_alive[old] # NoEntry
       THEN EraseEntry(old) /\ Goto(Main, "r_erase", "r_shrink")
       ELSE UNCHANGED <<data_alive, gone, cut>> /\ Goto(Main, "r_erase", "aborted")
    /\ UNCHANGED <<live, len, given, data_total, heap, id, ptr, sz, old, todo, accessVars>>

ReallocShrink ==
    /\ Goto(Main, "r_shrink", "insert")
    /\ heap' = Shrink(heap, gone)
    /\ UNCHANGED <<libcVars, data_alive, data_total, id, mainVars, todo, accessVars>>

-----------------------------------------------------------------------------
(* handle_access *)

\* The application is about to touch a: a global or a byte of a usable block.
BeginAccess(t, a) ==
    /\ Goto(t, "idle", "contain")
    /\ a \in Globals \/ \E b \in live : Usable(b) /\ a \in Extent(b)
    /\ addr' = [addr EXCEPT ![t] = a]
    /\ todo' = [todo EXCEPT ![t] = Bounds]
    /\ UNCHANGED <<libcVars, infoVars, mainVars, res>>

\* malloc_sizes.contain(addr): two unlocked loads and a short circuit.
Contain(t, f) ==
    /\ pc[t] = "contain" /\ f \in todo[t]
    /\ LET in == WithinBound(heap, f, addr[t])
       IN  /\ pc' = [pc EXCEPT ![t] = IF ~in THEN "global"
                                      ELSE IF todo[t] = {f} THEN "find" ELSE @]
           /\ todo' = [todo EXCEPT ![t] = IF in THEN @ \ {f} ELSE {}]
    /\ UNCHANGED <<libcVars, infoVars, mainVars, accessVars>>

\* The iterator in front of upper_bound(a) points to the entry at b.
Predecessor(b, a) ==
    /\ b <= a /\ data_alive[b] # NoEntry
    /\ \A c \in (b + 1)..a : data_alive[c] = NoEntry

\* find_id_offset(): a falls into the entry at b.
Hit(b, a) == Predecessor(b, a) /\ b + data_alive[b].size > a

\* find_id_offset() under the shared lock.
Find(a) ==
    IF \E b \in Addr : Hit(b, a)
    THEN LET b == CHOOSE b \in Addr : Hit(b, a)
         IN  [kind |-> "heap", m_id |-> data_alive[b].id, m_offset |-> a - b]
    ELSE NoResult

\* LocRecord: (uint32_t) m_id, (uint32_t) m_offset.
Uint32(n) == n % UINT32

Record(r) ==
    IF r.kind = "heap"
    THEN [kind |-> "heap", m_id |-> Uint32(r.m_id), m_offset |-> Uint32(r.m_offset)]
    ELSE r

FindIdOffset(t) ==
    /\ Goto(t, "find", "logged")
    /\ res' = [res EXCEPT ![t] = Record(Find(addr[t]))]
    /\ UNCHANGED <<libcVars, infoVars, mainVars, todo, addr>>

\* else if (global.contain(addr))
GlobalContain(t) ==
    /\ Goto(t, "global", "logged")
    /\ res' = [res EXCEPT ![t] = IF addr[t] \in Globals
                                 THEN [NoResult EXCEPT !.kind = "global"]
                                 ELSE NoResult]
    /\ UNCHANGED <<libcVars, infoVars, mainVars, todo, addr>>

\* The hook returns and the application performs the access.
EndAccess(t) ==
    /\ Goto(t, "logged", "idle")
    /\ addr' = [addr EXCEPT ![t] = NULL]
    /\ res' = [res EXCEPT ![t] = NoResult]
    /\ UNCHANGED <<libcVars, infoVars, mainVars, todo>>

-----------------------------------------------------------------------------

MainCalls ==
    \/ \E s \in Sizes : MallocFails(s)
    \/ \E b \in HeapAddr : Free(b)
    \/ \E b \in HeapAddr, s \in Sizes : ReallocFails(b, s)

MainSteps ==
    \/ InsertAlive \/ (\E f \in Bounds : InsertHeap(f)) \/ InsertTotal
    \/ FreeErase \/ FreeShrink \/ LibcFree
    \/ ReallocErase \/ ReallocShrink

ThreadSteps(t) ==
    \/ \E b \in HeapAddr, s \in Sizes : Malloc(t, b, s)
    \/ \E b \in HeapAddr : FreeOther(t, b)
    \/ \E b, n \in HeapAddr, s \in Sizes : Realloc(t, b, n, s)
    \/ \E a \in Addr : BeginAccess(t, a)
    \/ \E f \in Bounds : Contain(t, f)
    \/ FindIdOffset(t) \/ GlobalContain(t) \/ EndAccess(t)

\* assert() failed: the whole process is gone.
Running == pc[Main] # "aborted"

Next ==
    /\ Running
    /\ MainCalls \/ MainSteps \/ \E t \in Threads : ThreadSteps(t)
    /\ UNCHANGED workload

Spec == Init /\ [][Next]_vars

-----------------------------------------------------------------------------
(* Properties *)

\* Only Main frees the blocks it allocated, in any order, and it does not
\* reallocate them; libc does not fail.
Basic == workload = {}

TypeOK ==
    /\ live \subseteq HeapAddr
    /\ len \in [Addr -> Nat] /\ given \in [Addr -> Int]
    /\ cut \subseteq live
    /\ data_alive \in [Addr -> [id : Nat, size : Nat] \cup {NoEntry}]
    /\ data_total \subseteq [id : Nat, addr : Addr, size : Nat]
    /\ heap \in [start : Nat, end : Nat] /\ id \in Nat
    /\ pc \in [Threads -> {"idle", "aborted"} \cup AllocPCs \cup FreePCs
                            \cup ReallocPCs \cup AccessPCs]
    /\ ptr \in Addr /\ sz \in Nat /\ old \in Addr
    /\ gone \in [start : Addr, end : Nat]
    /\ todo \in [Threads -> SUBSET Bounds]
    /\ addr \in [Threads -> Addr] /\ res \in [Threads -> Result]

\* An access that is logged as one to allocation m_id at m_offset really
\* touches that byte of the block to which MallocInfo gave m_id, although
\* blocks come, go and are recycled while the access is being looked up.  Id
\* and offset are size_t and are logged as uint32_t: they are the logged
\* numbers up to a multiple of UINT32.
LoggedRight ==
    Basic => \A t \in Threads : pc[t] = "logged" /\ res[t].kind = "heap" =>
        \E b \in live : /\ addr[t] \in Extent(b)
                        /\ res[t].m_id = Uint32(given[b])
                        /\ res[t].m_offset = Uint32(addr[t] - b)

\* No access to a recorded block is left out of the log ("If on heap:"),
\* whatever Main does to the bounds of the heap meanwhile, unless Main has
\* freed a recorded block at a lower address since the block was recorded:
\* shrink() then takes the end of the heap down to the freed block.
HeapAccessLogged ==
    Basic => \A t \in Threads, b \in live \ cut :
        pc[t] = "logged" /\ addr[t] \in Extent(b) /\ given[b] >= 0
            => res[t].kind = "heap"

\* No access to a global is left out of the log or taken for a heap access
\* ("If on global:").
GlobalAccessLogged ==
    Basic => \A t \in Threads :
        pc[t] = "logged" /\ addr[t] \in Globals => res[t].kind = "global"

\* Between two calls of Main, data_alive lists exactly the blocks Main has
\* allocated and not freed, with their sizes and the ids they were given.
AliveExact ==
    Basic /\ pc[Main] = "idle" =>
        \A b \in Addr : data_alive[b] =
            IF b \in live /\ given[b] >= 0
            THEN [id |-> given[b], size |-> len[b]] ELSE NoEntry

\* The lines of mallocRuntimeIDs.txt, with the one that insert() is about to
\* add.
Dumped ==
    data_total \cup (IF pc[Main] \in {"widen", "total"}
                     THEN {[id |-> id, addr |-> ptr, size |-> sz]} ELSE {})

\* The log and mallocRuntimeIDs.txt agree: no two lines of the file have the
\* same id, and for every logged heap access there is a line of a block with
\* the logged address, whose id and offset, cut to uint32_t, are the logged
\* ones.  This holds for any use of the allocator.
LoggedIdDumped ==
    /\ \A x, y \in Dumped : x.id = y.id => x = y
    /\ \A t \in Threads : pc[t] = "logged" /\ res[t].kind = "heap" =>
         \E x \in Dumped : /\ addr[t] \in x.addr..(x.addr + x.size - 1)
                            /\ res[t].m_id = Uint32(x.id)
                            /\ res[t].m_offset = Uint32(addr[t] - x.addr)
=============================================================================
