------------------------------ MODULE LLQueue ------------------------------
(***************************************************************************)
(* The threads of the allocator that TMI links into a program:             *)
(* others/tmi/src/ll_alloc.c.                                              *)
(*                                                                         *)
(* A thread allocates from blocks that its atls (its thread-local          *)
(* allocator state) owns: slabs, which are cut into nodes of one size, and *)
(* heap pages.  The owner of a block is the atls that the block's tail     *)
(* pointer names.  A node that another thread frees is appended, without a *)
(* lock, to the queue of the owner (prepend_queue); the owner empties the  *)
(* queue when it runs out of memory (scan_queue).  The atls of a dead      *)
(* thread is taken over by a new thread (init_tls) or merged into the atls *)
(* of a thread in need of memory (reap_dead), which has to wait until no   *)
(* thread's hazard pointer names it.                                       *)
(*                                                                         *)
(* A pointer to the field tail of an atls is the atls.  Which of several   *)
(* nodes, slabs or dead threads is at the head of a list is left open.     *)
(* How the nodes of a heap page are split and merged is in LLHeap.         *)
(*                                                                         *)
(* Memory comes from tmimem.cpp, whose get_mmap_memory and                 *)
(* adjust_slab_memory move a pointer and never fail: init_tls always finds *)
(* an atls, and its ways out for lack of memory, free_nomem among them,    *)
(* are not taken in this build and not modelled.  Assumed of tmimem.cpp:   *)
(* a call is one step, although it takes no lock, and less than its        *)
(* HEAP_SIZE is used.                                                      *)
(*                                                                         *)
(* Memory is sequentially consistent here.  The code has no fence between  *)
(* the stores to the tail pointers of blocks in reap_dead and its loads of *)
(* hazard pointers, other than those its locks may contain.                *)
(***************************************************************************)
EXTENDS Integers, FiniteSets

CONSTANTS Threads,
          Atls,       \* thread-local states; each brings a heap page
          Pages,      \* further heap pages
          Slabs,      \* slab blocks
          SlabNodes,  \* nodes of a slab
          SLABBMAX,   \* slabs in a chunk of free slabs
          MaxCalls,   \* bound: calls of malloc and free, and exits of threads
          None

Heap == Atls \cup Pages                    \* a heap page has two nodes
Blocks == Heap \cup Slabs
Nodes == (Heap \X {0, 1}) \cup (Slabs \X (1..SlabNodes))
NodesOf(b) == {n \in Nodes : n[1] = b}

ASSUME ConstAssumption ==
    /\ Atls \cap Pages = {} /\ Heap \cap Slabs = {}
    /\ None \notin Threads \cup Blocks \cup Nodes
    /\ SlabNodes \in Nat \ {0} /\ SLABBMAX \in Nat \ {0} /\ MaxCalls \in Nat

VARIABLES
    tls,      \* get_tls() of a thread
    d_list,   \* the atls of dead threads
    h_list,   \* the atls whose hazard pointers a reaper looks at
    d_lock, h_lock,
    gone,     \* the atls that have been returned
    hazard,   \* hazard pointer of an atls
    head, tail, next,   \* the queues
    queued,   \* history: the atls to whose queue a node belongs
    owner,    \* the tail pointer of a block
    list,     \* which list of its owner a block is on
    free,     \* the free nodes of a block
    chunk,    \* slab_chunk of an atls: its spare slabs
    pc_slab,  \* chunks of spare slabs that belong to no thread
    inUse,    \* nodes the program has allocated
    calls,    \* calls the program has made
    pc, ret,  \* where a thread is, and where it goes on after init or scan
    p, bt, old,   \* prepend_queue: the node, btail, and the tail exchanged
    tl2, wait,    \* reap_dead: the dead thread, hazard pointers to look at
    q, flag       \* scan_queue: the node looked at, has something been freed

links == <<next, queued>>
lists == <<d_list, h_list, d_lock, h_lock, gone>>
blocks == <<owner, list, free, chunk, pc_slab>>
prepend == <<p, bt, old>>
reap == <<tl2, wait>>
scan == <<q, flag>>
vars == <<tls, lists, hazard, head, tail, links, blocks, inUse, calls, pc, ret,
          prepend, reap, scan>>

Init ==
    /\ tls = [t \in Threads |-> None]
    /\ d_list = {} /\ h_list = {} /\ d_lock = None /\ h_lock = None /\ gone = {}
    /\ hazard = [a \in Atls |-> None]
    /\ head = [a \in Atls |-> None] /\ tail = [a \in Atls |-> None]
    /\ next = [n \in Nodes |-> None] /\ queued = [n \in Nodes |-> None]
    /\ owner = [b \in Blocks |-> None] /\ list = [b \in Blocks |-> "new"]
    /\ free = [b \in Blocks |-> {}]
    /\ chunk = [a \in Atls |-> {}] /\ pc_slab = {}
    /\ inUse = {} /\ calls = 0
    /\ pc = [t \in Threads |-> "idle"] /\ ret = [t \in Threads |-> "idle"]
    /\ p = [t \in Threads |-> None] /\ bt = [t \in Threads |-> None]
    /\ old = [t \in Threads |-> None] /\ tl2 = [t \in Threads |-> None]
    /\ wait = [t \in Threads |-> {}]
    /\ q = [t \in Threads |-> None] /\ flag = [t \in Threads |-> FALSE]

(* A thread begins an operation, or goes on with one.                       *)
Call(t) == pc[t] = "idle" /\ calls < MaxCalls /\ calls' = calls + 1
On(t, l) == pc[t] = l /\ UNCHANGED calls
Goto(t, l) == pc' = [pc EXCEPT ![t] = l]
-----------------------------------------------------------------------------
(* Slabs and heap pages                                                     *)

(* get_mmap_memory, adjust_slab_memory: memory that has never been used;    *)
(* which address it has does not matter.                                    *)
Fresh(S) == {CHOOSE b \in S : list[b] = "new" : x \in {b \in S : list[b] = "new"}}
Used(b) == NodesOf(b) \ free[b]
OnList(a, l) == {b \in Blocks : owner[b] = a /\ list[b] = l}

(* slab_alloc_aux, and for a heap page fast_alloc: take a node.  A slab     *)
(* without free nodes moves to the full list.                               *)
TakeNode(b, n) ==
    /\ n \in free[b]
    /\ free' = [free EXCEPT ![b] = @ \ {n}]
    /\ list' = [list EXCEPT ![b] = IF b \in Slabs /\ free[b] = {n}
                                   THEN "full" ELSE @]
    /\ inUse' = inUse \cup {n}
    /\ UNCHANGED <<owner, chunk, pc_slab>>

(* Atls a frees node n of a block of its own: slab_free with                *)
(* slab_free_block and slab_free_chunk, and fast_free or merge_node for a   *)
(* heap page.  A slab that is empty leaves its list unless it is alone      *)
(* there.  The first word of the node becomes the link of a free list.      *)
FreeLocal(a, n) ==
    LET b == n[1]
        leaves == b \in Slabs /\ Used(b) = {n} /\ OnList(a, list[b]) # {b}
        kept == Cardinality(chunk[a]) < SLABBMAX
    IN  /\ free' = [free EXCEPT ![b] = @ \cup {n}]
        /\ next' = [next EXCEPT ![n] = None]
        /\ queued' = [queued EXCEPT ![n] = None]
        /\ list' = [list EXCEPT ![b] = IF leaves THEN "spare" ELSE @]
        /\ chunk' = [chunk EXCEPT ![a] = IF ~ leaves THEN @ ELSE
                                          IF kept THEN @ \cup {b} ELSE {b}]
        /\ pc_slab' = IF leaves /\ ~ kept THEN pc_slab \cup {chunk[a]} ELSE pc_slab
        /\ UNCHANGED owner

(* slab_create with slab_alloc_block and slab_alloc_chunk: a spare slab of  *)
(* the thread, else of a chunk that can be had without waiting for a lock,  *)
(* else fresh memory.  The slab comes with all nodes free.                  *)
Chunks(a) == IF chunk[a] # {} THEN {chunk[a]}
             ELSE pc_slab \cup {{s} : s \in Fresh(Slabs)}

SlabCreate(a) ==
    \E c \in Chunks(a) : \E s \in c :
        /\ pc_slab' = pc_slab \ {c}
        /\ chunk' = [chunk EXCEPT ![a] = c \ {s}]
        /\ owner' = [owner EXCEPT ![s] = a]
        /\ list' = [list EXCEPT ![s] = "partial"]
        /\ free' = [free EXCEPT ![s] = NodesOf(s)]

(* scan_queue starts at the head of the queue of a.                         *)
StartScan(t, a, l) ==
    /\ q' = [q EXCEPT ![t] = head[a]]
    /\ flag' = [flag EXCEPT ![t] = FALSE]
    /\ ret' = [ret EXCEPT ![t] = l]
    /\ Goto(t, "scan")

(* The atls whose queue thread t scans.                                     *)
Scanned(t) == IF ret[t] = "r_free" THEN tl2[t] ELSE tls[t]

(* scan_queue: every node but the last is freed; the last one stays as the  *)
(* head.  The nodes are of blocks of the thread (FreesOwn), so              *)
(* slab_free never passes one on.                                           *)
ScanFree(t) ==
    /\ On(t, "scan") /\ next[q[t]] # None
    /\ FreeLocal(tls[t], q[t])
    /\ q' = [q EXCEPT ![t] = next[@]]
    /\ flag' = [flag EXCEPT ![t] = TRUE]
    /\ UNCHANGED <<tls, lists, hazard, head, tail, inUse, pc, ret, prepend, reap>>

(* Mutant: the head stays where it was.                                     *)
HeadStays(t) ==
    /\ On(t, "scan") /\ next[q[t]] = None
    /\ q' = [q EXCEPT ![t] = None]
    /\ Goto(t, ret[t])
    /\ UNCHANGED <<tls, lists, hazard, head, tail, links, blocks, inUse, ret,
                   prepend, reap, flag>>

ScanLast(t) ==
    /\ On(t, "scan") /\ next[q[t]] = None
    /\ head' = [head EXCEPT ![Scanned(t)] = q[t]]
    /\ q' = [q EXCEPT ![t] = None]
    /\ Goto(t, ret[t])
    /\ UNCHANGED <<tls, lists, hazard, tail, links, blocks, inUse, ret, prepend,
                   reap, flag>>
-----------------------------------------------------------------------------
(* Threads come and go                                                      *)

(* An operation of a thread without an atls starts in init_tls and then     *)
(* goes on as if it had one (malloc_aux, free_aux).                         *)
InitTls(t, l) ==
    /\ tls[t] = None
    /\ ret' = [ret EXCEPT ![t] = l]
    /\ Goto(t, IF d_list = {} THEN "i_new" ELSE "i_lock")
    /\ UNCHANGED <<tls, lists, hazard, head, tail, links, blocks, bt, old, reap,
                   scan>>

InitLock(t) ==
    /\ On(t, "i_lock") /\ d_lock = None
    /\ d_lock' = t
    /\ Goto(t, "i_take")
    /\ UNCHANGED <<tls, d_list, h_list, h_lock, gone, hazard, head, tail, links,
                   blocks, inUse, ret, prepend, reap, scan>>

(* init_tls: the list may have been emptied since it was looked at.         *)
InitTake(t) ==
    /\ On(t, "i_take")
    /\ d_lock' = None
    /\ \/ \E a \in d_list :
            /\ d_list' = d_list \ {a}
            /\ tls' = [tls EXCEPT ![t] = a]
            /\ Goto(t, ret[t])
       \/ /\ d_list = {}
          /\ Goto(t, "i_new")
          /\ UNCHANGED <<d_list, tls>>
    /\ UNCHANGED <<h_list, h_lock, gone, hazard, head, tail, links, blocks,
                   inUse, ret, prepend, reap, scan>>

(* init_tls, init_atls: a new page, its first node the empty queue.         *)
(* get_mmap_memory always has one; bound: Atls.                             *)
InitNew(t) ==
    /\ On(t, "i_new")
    /\ \E a \in Fresh(Atls) :
        /\ tls' = [tls EXCEPT ![t] = a]
        /\ owner' = [owner EXCEPT ![a] = a]
        /\ list' = [list EXCEPT ![a] = "bl"]
        /\ free' = [free EXCEPT ![a] = {<<a, 1>>}]
        /\ head' = [head EXCEPT ![a] = <<a, 0>>]
        /\ tail' = [tail EXCEPT ![a] = <<a, 0>>]
        /\ queued' = [queued EXCEPT ![<<a, 0>>] = a]
    /\ Goto(t, "i_hlock")
    /\ UNCHANGED <<lists, hazard, next, chunk, pc_slab, inUse, ret, prepend,
                   reap, scan>>

(* init_atls: the critical section of h_lock adds the atls to h_list.       *)
InitHazard(t) ==
    /\ On(t, "i_hlock") /\ h_lock = None
    /\ h_list' = h_list \cup {tls[t]}
    /\ Goto(t, ret[t])
    /\ UNCHANGED <<tls, d_list, d_lock, h_lock, gone, hazard, head, tail, links,
                   blocks, inUse, ret, prepend, reap, scan>>

(* destroy_tls: the destructor of a thread forgets its atls...              *)
DestroyTls(t) ==
    /\ Call(t) /\ tls[t] # None
    /\ tl2' = [tl2 EXCEPT ![t] = tls[t]]
    /\ tls' = [tls EXCEPT ![t] = None]
    /\ Goto(t, "d_lock")
    /\ UNCHANGED <<lists, hazard, head, tail, links, blocks, inUse, ret, prepend,
                   wait, scan>>

(* ... and then puts it on the list of the dead.                            *)
DestroyPush(t) ==
    /\ On(t, "d_lock") /\ d_lock = None
    /\ d_list' = d_list \cup {tl2[t]}
    /\ tl2' = [tl2 EXCEPT ![t] = None]
    /\ Goto(t, "idle")
    /\ UNCHANGED <<tls, h_list, d_lock, h_lock, gone, hazard, head, tail, links,
                   blocks, inUse, ret, prepend, wait, scan>>
-----------------------------------------------------------------------------
(* free                                                                     *)

(* free, slab_free: is the block mine?  If not, prepend_queue reads its     *)
(* tail pointer: btail = *bs.                                               *)
FreeNode(t, n) ==
    /\ \/ /\ owner[n[1]] = tls[t]
          /\ FreeLocal(tls[t], n)
          /\ p' = [p EXCEPT ![t] = None]
          /\ Goto(t, "idle")
          /\ UNCHANGED bt
       \/ /\ owner[n[1]] # tls[t]
          /\ p' = [p EXCEPT ![t] = n]
          /\ bt' = [bt EXCEPT ![t] = owner[n[1]]]
          /\ Goto(t, "p_hazard")
          /\ UNCHANGED <<blocks, links>>
    /\ UNCHANGED <<tls, lists, hazard, head, tail, ret, old, reap, scan>>

(* free: the program gives a node back.                                     *)
Free(t) ==
    /\ Call(t)
    /\ \E n \in inUse :
        /\ inUse' = inUse \ {n}
        /\ \/ InitTls(t, "free") /\ p' = [p EXCEPT ![t] = n]
           \/ tls[t] # None /\ FreeNode(t, n)

(* free_aux: free, after init_tls, which has found memory.                  *)
FreeAux(t) ==
    /\ On(t, "free")
    /\ FreeNode(t, p[t])
    /\ UNCHANGED inUse

(* prepend_queue: publish the hazard pointer...                             *)
PrependHazard(t) ==
    /\ On(t, "p_hazard")
    /\ hazard' = [hazard EXCEPT ![tls[t]] = bt[t]]
    /\ Goto(t, "p_again")
    /\ UNCHANGED <<tls, lists, head, tail, links, blocks, inUse, ret, prepend,
                   reap, scan>>

(* Mutant: the tail pointer is not read again.                              *)
AgainNever(t) ==
    /\ On(t, "p_again")
    /\ Goto(t, "p_xchg")
    /\ UNCHANGED <<tls, lists, hazard, head, tail, links, blocks, inUse, ret,
                   prepend, reap, scan>>

(* ... and read the tail pointer of the block again: it must not have       *)
(* changed.                                                                 *)
PrependAgain(t) ==
    /\ On(t, "p_again")
    /\ bt' = [bt EXCEPT ![t] = owner[p[t][1]]]
    /\ Goto(t, IF owner[p[t][1]] = bt[t] THEN "p_xchg" ELSE "p_hazard")
    /\ UNCHANGED <<tls, lists, hazard, head, tail, links, blocks, inUse, ret, p,
                   old, reap, scan>>

(* prepend_queue: p->next = NULL; tail = xchg_ptr(btail, p).                *)
PrependXchg(t) ==
    /\ On(t, "p_xchg")
    /\ next' = [next EXCEPT ![p[t]] = None]
    /\ tail' = [tail EXCEPT ![bt[t]] = p[t]]
    /\ queued' = [queued EXCEPT ![p[t]] = bt[t]]
    /\ old' = [old EXCEPT ![t] = tail[bt[t]]]
    /\ Goto(t, "p_link")
    /\ UNCHANGED <<tls, lists, hazard, head, blocks, inUse, ret, p, bt, reap,
                   scan>>

(* prepend_queue: tail->next = p.  The registers are not used any more.     *)
PrependLink(t) ==
    /\ On(t, "p_link")
    /\ next' = [next EXCEPT ![old[t]] = p[t]]
    /\ p' = [p EXCEPT ![t] = None]
    /\ bt' = [bt EXCEPT ![t] = None]
    /\ old' = [old EXCEPT ![t] = None]
    /\ Goto(t, "p_clear")
    /\ UNCHANGED <<tls, lists, hazard, head, tail, queued, blocks, inUse, ret,
                   reap, scan>>

(* Mutant: the hazard pointer stays.                                        *)
ClearNothing(t) ==
    /\ On(t, "p_clear")
    /\ Goto(t, "idle")
    /\ UNCHANGED <<tls, lists, hazard, head, tail, links, blocks, inUse, ret,
                   prepend, reap, scan>>

(* prepend_queue: tl->hazard = NULL.                                        *)
PrependClear(t) ==
    /\ On(t, "p_clear")
    /\ hazard' = [hazard EXCEPT ![tls[t]] = None]
    /\ Goto(t, "idle")
    /\ UNCHANGED <<tls, lists, head, tail, links, blocks, inUse, ret, prepend,
                   reap, scan>>
-----------------------------------------------------------------------------
(* malloc                                                                   *)

(* malloc_aux: malloc, of a size that slabs have or of a larger one, first  *)
(* needs an atls.                                                           *)
MallocAux(t) ==
    /\ Call(t)
    /\ \E l \in {"m_slab", "m_heap"} : InitTls(t, l)
    /\ UNCHANGED <<inUse, p>>

Mallocs(t, l) == On(t, l) \/ (Call(t) /\ tls[t] # None)

(* slab_alloc, slab_alloc_nolist: scan the queue if no spare slab is left.  *)
MallocSlab(t) ==
    /\ Mallocs(t, "m_slab")
    /\ \/ /\ \E b \in OnList(tls[t], "partial") : \E n \in free[b] : TakeNode(b, n)
          /\ Goto(t, "idle")
          /\ UNCHANGED <<ret, scan>>
       \/ /\ OnList(tls[t], "partial") = {} /\ chunk[tls[t]] = {}
          /\ StartScan(t, tls[t], "m_create")
          /\ UNCHANGED <<blocks, inUse>>
       \/ /\ OnList(tls[t], "partial") = {} /\ chunk[tls[t]] # {}
          /\ Goto(t, "m_create")
          /\ UNCHANGED <<blocks, inUse, ret, scan>>
    /\ UNCHANGED <<tls, lists, hazard, head, tail, links, prepend, reap>>

(* slab_alloc_nolist: create a slab; bound: Slabs, after which it goes on   *)
(* as without memory for a slab and takes a node from the heap.  The list   *)
(* of partial slabs is still empty, because a full slab of which a node is  *)
(* freed stays on the full list.                                            *)
MallocCreate(t) ==
    /\ On(t, "m_create")
    /\ \/ SlabCreate(tls[t]) /\ Goto(t, "m_slab")
       \/ Chunks(tls[t]) = {} /\ Goto(t, "m_heap") /\ UNCHANGED blocks
    /\ flag' = [flag EXCEPT ![t] = FALSE]
    /\ UNCHANGED <<tls, lists, hazard, head, tail, links, inUse, ret, prepend,
                   reap, q>>

(* fast_alloc, slow_alloc: a free node of the thread's heap pages, else     *)
(* block_alloc tries to find some more.                                     *)
MallocHeap(t) ==
    /\ Mallocs(t, "m_heap")
    /\ \/ /\ \E b \in OnList(tls[t], "bl") : \E n \in free[b] : TakeNode(b, n)
          /\ Goto(t, "idle")
       \/ /\ \A b \in OnList(tls[t], "bl") : free[b] = {}
          /\ Goto(t, "r_check")
          /\ UNCHANGED <<blocks, inUse>>
    /\ UNCHANGED <<tls, lists, hazard, head, tail, links, ret, prepend, reap, scan>>

(* block_alloc, block_alloc_aux: try again if the queue held something,     *)
(* else take a new page; bound: Pages, after which it goes on as without    *)
(* memory for a page: malloc returns NULL.                                  *)
MallocBlock(t) ==
    /\ On(t, "m_scanned")
    /\ \/ flag[t] /\ Goto(t, "m_heap") /\ UNCHANGED blocks
       \/ /\ ~ flag[t]
          /\ \E b \in Fresh(Pages) :
                /\ owner' = [owner EXCEPT ![b] = tls[t]]
                /\ list' = [list EXCEPT ![b] = "bl"]
                /\ free' = [free EXCEPT ![b] = NodesOf(b)]
          /\ Goto(t, "m_heap")
          /\ UNCHANGED <<chunk, pc_slab>>
       \/ ~ flag[t] /\ Fresh(Pages) = {} /\ Goto(t, "idle") /\ UNCHANGED blocks
    /\ flag' = [flag EXCEPT ![t] = FALSE]
    /\ UNCHANGED <<tls, lists, hazard, head, tail, links, inUse, ret, prepend,
                   reap, q>>
-----------------------------------------------------------------------------
(* reap_dead                                                                *)

(* block_alloc goes on with its own queue if there is no one to reap.       *)
NoneDead(t) == StartScan(t, tls[t], "m_scanned")

(* Look at d_list without the lock.                                         *)
ReapCheck(t) ==
    /\ On(t, "r_check")
    /\ \/ d_list = {} /\ NoneDead(t)
       \/ d_list # {} /\ Goto(t, "r_try") /\ UNCHANGED <<ret, scan>>
    /\ UNCHANGED <<tls, lists, hazard, head, tail, links, blocks, inUse, prepend,
                   reap>>

(* mutex_trylock(&d_lock).                                                  *)
ReapTry(t) ==
    /\ On(t, "r_try")
    /\ \/ /\ d_lock = None
          /\ d_lock' = t
          /\ Goto(t, "r_take")
          /\ UNCHANGED <<ret, scan>>
       \/ d_lock # None /\ NoneDead(t) /\ UNCHANGED d_lock
    /\ UNCHANGED <<tls, d_list, h_list, h_lock, gone, hazard, head, tail, links,
                   blocks, inUse, prepend, reap>>

(* Take a dead thread off the list and unlock.                              *)
ReapTake(t) ==
    /\ On(t, "r_take")
    /\ d_lock' = None
    /\ \/ \E a \in d_list :
            /\ d_list' = d_list \ {a}
            /\ tl2' = [tl2 EXCEPT ![t] = a]
            /\ Goto(t, "r_hlock")
            /\ UNCHANGED <<ret, scan>>
       \/ d_list = {} /\ NoneDead(t) /\ UNCHANGED <<d_list, tl2>>
    /\ UNCHANGED <<tls, h_list, h_lock, gone, hazard, head, tail, links, blocks,
                   inUse, prepend, wait>>

(* Lock h_lock and remove the dead thread from the hazard list.             *)
ReapLock(t) ==
    /\ On(t, "r_hlock") /\ h_lock = None
    /\ h_lock' = t
    /\ h_list' = h_list \ {tl2[t]}
    /\ Goto(t, "r_merge")
    /\ UNCHANGED <<tls, d_list, d_lock, gone, hazard, head, tail, links, blocks,
                   inUse, ret, prepend, reap, scan>>

Live(b) == list[b] \in {"bl", "partial", "full"}
Merged(a) == {b \in Blocks : owner[b] = a /\ Live(b)}

(* atls_merge: the tail pointers of the blocks change one by one.  An empty *)
(* slab goes to the full list.                                              *)
ReapMerge(t) ==
    /\ On(t, "r_merge")
    /\ \E b \in Merged(tl2[t]) :
        /\ owner' = [owner EXCEPT ![b] = tls[t]]
        /\ list' = [list EXCEPT ![b] = IF b \in Slabs /\ Used(b) = {}
                                       THEN "full" ELSE @]
    /\ UNCHANGED <<tls, lists, hazard, head, tail, links, free, chunk, pc_slab,
                   inUse, pc, ret, prepend, reap, scan>>

(* Mutant: blocks are left with the dead thread.                            *)
MergedEarly(t) ==
    /\ On(t, "r_merge")
    /\ pc_slab' = pc_slab \cup ({chunk[tl2[t]]} \ {{}})
    /\ chunk' = [chunk EXCEPT ![tl2[t]] = {}]
    /\ wait' = [wait EXCEPT ![t] = h_list]
    /\ Goto(t, "r_wait")
    /\ UNCHANGED <<tls, lists, hazard, head, tail, links, owner, list, free,
                   inUse, ret, prepend, tl2, scan>>

(* slab_merge: the spare slabs go to the slabs of no thread.                *)
ReapMerged(t) ==
    /\ On(t, "r_merge") /\ Merged(tl2[t]) = {}
    /\ pc_slab' = pc_slab \cup ({chunk[tl2[t]]} \ {{}})
    /\ chunk' = [chunk EXCEPT ![tl2[t]] = {}]
    /\ wait' = [wait EXCEPT ![t] = h_list]
    /\ Goto(t, "r_wait")
    /\ UNCHANGED <<tls, lists, hazard, head, tail, links, owner, list, free,
                   inUse, ret, prepend, tl2, scan>>

(* Mutant: the hazard pointers are not looked at.                           *)
WaitUnchecked(t) ==
    /\ On(t, "r_wait")
    /\ \E a \in wait[t] : wait' = [wait EXCEPT ![t] = @ \ {a}]
    /\ UNCHANGED <<tls, lists, hazard, head, tail, links, blocks, inUse, pc, ret,
                   prepend, tl2, scan>>

(* Wait for all threads to not point to the dead thread.  The plain stores  *)
(* of ReapMerge are visible before these plain loads.                       *)
ReapWait(t) ==
    /\ On(t, "r_wait")
    /\ \E a \in wait[t] :
        /\ hazard[a] # tl2[t]
        /\ wait' = [wait EXCEPT ![t] = @ \ {a}]
    /\ UNCHANGED <<tls, lists, hazard, head, tail, links, blocks, inUse, pc, ret,
                   prepend, tl2, scan>>

(* Unlock, and scan all that is pending in the queue of the dead thread.    *)
ReapScan(t) ==
    /\ On(t, "r_wait") /\ wait[t] = {}
    /\ h_lock' = None
    /\ StartScan(t, tl2[t], "r_free")
    /\ UNCHANGED <<tls, d_list, h_list, d_lock, gone, hazard, head, tail, links,
                   blocks, inUse, prepend, reap>>

(* Free the head of its queue and its page, and try to allocate again.      *)
ReapFree(t) ==
    /\ On(t, "r_free")
    /\ FreeLocal(tls[t], head[tl2[t]])
    /\ gone' = gone \cup {tl2[t]}
    /\ tl2' = [tl2 EXCEPT ![t] = None]
    /\ flag' = [flag EXCEPT ![t] = FALSE]
    /\ Goto(t, "m_heap")
    /\ UNCHANGED <<tls, d_list, h_list, d_lock, h_lock, hazard, head, tail,
                   inUse, ret, prepend, wait, q>>
-----------------------------------------------------------------------------
Step(t) ==
    \/ InitLock(t) \/ InitTake(t) \/ InitNew(t) \/ InitHazard(t)
    \/ DestroyTls(t) \/ DestroyPush(t)
    \/ Free(t) \/ FreeAux(t) \/ PrependHazard(t) \/ PrependAgain(t)
    \/ PrependXchg(t) \/ PrependLink(t) \/ PrependClear(t)
    \/ MallocAux(t) \/ ScanFree(t) \/ ScanLast(t) \/ MallocSlab(t)
    \/ MallocCreate(t) \/ MallocHeap(t) \/ MallocBlock(t)
    \/ ReapCheck(t) \/ ReapTry(t) \/ ReapTake(t) \/ ReapLock(t)
    \/ ReapMerge(t) \/ ReapMerged(t) \/ ReapWait(t) \/ ReapScan(t)
    \/ ReapFree(t)

(* The bounds are reached.                                                  *)
Finished ==
    /\ calls = MaxCalls /\ \A t \in Threads : pc[t] \in {"idle", "i_new"}
    /\ UNCHANGED vars

Next == (\E t \in Threads : Step(t)) \/ Finished

Spec == Init /\ [][Next]_vars
-----------------------------------------------------------------------------
(* Properties                                                               *)

(* The successor of a node in a queue, counting a link that the thread that *)
(* exchanged the tail has not stored yet.                                   *)
Pending(n) == {p[t] : t \in {u \in Threads : pc[u] = "p_link" /\ old[u] = n}}
Successors(n) == Pending(n) \cup ({next[n]} \ {None})

Scanners(a) == {t \in Threads : pc[t] = "scan" /\ Scanned(t) = a}
Front(a) == IF Scanners(a) = {} THEN {head[a]} \ {None}
            ELSE {q[t] : t \in Scanners(a)}

(* The nodes of the queue of a.                                             *)
Queue(a) ==
    LET reach[S \in SUBSET Nodes] ==
            LET more == S \cup UNION {Successors(n) : n \in S}
            IN  IF more = S THEN S ELSE reach[more]
    IN  reach[Front(a)]

Queues == Atls \ gone
Freeing(t) == p[t] # None /\ pc[t] # "p_link"

(* Where a node is.                                                         *)
Places(n) == {<<"in use">> : x \in inUse \cap {n}}
             \cup {<<"freeing", t>> : t \in {u \in Threads : Freeing(u) /\ p[u] = n}}
             \cup {<<"free", b>> : b \in {c \in Blocks : n \in free[c]}}
             \cup {<<"queue", a>> : a \in {c \in Queues : n \in Queue(c)}}

(* No node is lost and none is handed out twice: every node of a block is   *)
(* in exactly one place, with the program, free in its block, on its way in *)
(* one thread that frees it, or in one queue.  A queue is one chain that    *)
(* ends at its tail.  This is about free with an atls: free_nomem, which a  *)
(* failed init_tls would call, does not use a hazard pointer.               *)
NodesAccounted ==
    /\ \A n \in Nodes :
          Cardinality(Places(n)) = IF list[n[1]] = "new" THEN 0 ELSE 1
    /\ \A a \in Queues : \A n \in Queue(a) :
          queued[n] = a /\ ((Successors(n) = {}) <=> (n = tail[a]))

(* The atls that may have a block of a node in the queue of a: a itself, or *)
(* that of the thread that merges a.                                        *)
Keepers(a) == {a} \cup {tls[t] : t \in {u \in Threads : tl2[u] = a /\ tls[u] # None}}

(* prepend_queue puts a node in the queue of the atls that owns its block,  *)
(* or whose blocks are being merged into another thread, so that scan_queue *)
(* and reap_dead only free nodes of blocks of their own thread: slab_free   *)
(* never has to pass one on.                                                *)
FreesOwn ==
    /\ \A n \in Nodes : queued[n] \in Queues => owner[n[1]] \in Keepers(queued[n])
    /\ \A t \in Threads :
          /\ pc[t] = "scan" => owner[q[t][1]] = tls[t]
          /\ pc[t] = "r_free" => owner[head[tl2[t]][1]] = tls[t]

(* What Reclaim calls the state: is an atls there, who owns a block, of     *)
(* which block does a thread free a node, and how far it is with that and   *)
(* with reaping.                                                            *)
life == [a \in Atls |-> IF a \in gone THEN "gone" ELSE
                        IF list[a] = "new" THEN "new" ELSE "live"]
home == [b \in Blocks |-> IF Live(b) THEN owner[b] ELSE None]
blk == [t \in Threads |-> IF p[t] = None THEN None ELSE p[t][1]]

Publishing(l) == CASE l = "p_hazard" -> "publish"
                   [] l = "p_again" -> "confirm"
                   [] l \in {"p_xchg", "p_link"} -> "use"
                   [] l = "p_clear" -> "clear"
                   [] OTHER -> "other"
st == [t \in Threads |-> Publishing(pc[t])]

Reaping(a, l) == CASE a = None -> "none"
                   [] a # None /\ l \in {"d_lock", "r_hlock"} -> "owned"
                   [] a # None /\ l = "r_merge" -> "merge"
                   [] a # None /\ l = "r_wait" -> "wait"
                   [] OTHER -> "apart"
rp == [t \in Threads |-> Reaping(tl2[t], pc[t])]

R == INSTANCE Reclaim WITH joined <- h_list, dead <- d_list, hold <- tl2

(* prepend_queue: the tail that a thread exchanges, and the node it links   *)
(* to, are in the queue of an atls that has not been returned, and that no  *)
(* reap_dead has started to take apart.                                     *)
OwnerStays == R!OwnerStays

(* reap_dead, which holds h_lock, only spins on the hazard pointer of a     *)
(* thread that is inside prepend_queue and is going to clear it, never on   *)
(* one that was left behind.                                                *)
WaitsForWork == R!WaitsForWork

(* prepend_queue, reap_dead, init_tls and destroy_tls: the protocol of the  *)
(* hazard pointers is that of Reclaim.  A thread that frees has an atls, as *)
(* init_tls never fails here: free_nomem is not part of it.                 *)
ImplementsReclaim == R!Spec
=============================================================================
