# A TLA+ model of Huron

Huron detects false sharing in a profiling run and repairs it by rewriting the
program. This directory holds TLA+ models of its parts, the TLC runs that check
them on small instances, and proofs for the parts where the small instances
leave a doubt.

## 1. The system

    source --Instrumenter--> instrumented program + runtime/
                                  |  record.log, mallocRuntimeIDs.txt
                                  v
                             postprocess: DetectPass -> RepairPass/Layout
                                  |  profile: thread, old offset, new offset
                                  v
    source --RedirectPtr---> repaired program

| part | state it keeps | operations | talks to |
|---|---|---|---|
| `runtime/SharedSpinLock.h` | `write_now`, `readers_count` | lock, unlock, shared forms | used by MallocInfo |
| `runtime/MallocInfo.h`, `Segment.h`, hooks in `Runtime.cpp` | live blocks, all blocks ever recorded, bounds of the heap, next id | malloc/calloc/realloc/posix_memalign/free hooks, `handle_access`, dump | every thread reads, thread 0 writes |
| `runtime/xthread.h`, `LoggingThread.*` | Thread objects, a table and a file per thread | create, end, log an access, flush, finalize | `pthread_create`, files |
| `postprocess/Detect.cpp`, `Stats.h` | bins of log lines, estimates per cache line | read, bin, estimate, rank, output | reads the runtime's files |
| `postprocess/Repair.cpp` class Layout | ranges per instruction and thread, pieces, new places | insert, merge, extrapolate, place, remap | input from Detect, output for RedirectPtr |
| `RedirectPtr/` | call graph with threads, clones, table of changes | search, propagate, clone, replace calls, unroll, change | reads Layout's lines |
| `Instrumenter/`, `MemoryAnalysis/`, `AlignMalloc/` | none beyond a walk over the module | insert calls, find constant offsets, align | numbering of instructions |
| `others/tmi/src/ll_alloc.c` | a heap, slabs and a queue per thread, lists of threads and of dead threads, hazard pointers | malloc, free, realloc, aligned_alloc, exit of a thread, reaping of a dead one | linked into programs that TMI repairs; Huron is compared with it |
| `second_pass/`, `kmeans_repair/` | earlier approaches | redirect at run time, cluster accesses | not in the pipeline |

What is hard about each of them, and what it has to get right:

- *SharedSpinLock.* Two atomics and no queue. A reader may have counted itself
  in when a writer announces itself, and has to back off. Exclusion, balance of
  the count, priority of writers, no starvation of a writer.
- *MallocInfo.* The bounds of the heap are read by every thread without the
  lock that guards the map, while thread 0 moves them; blocks are freed and their
  addresses reused while an access is being looked up. What is logged must name
  the right block, and nothing that should be logged may be lost.
- *Logging.* Tables are written out when full and at exit, counters are 32 bits
  wide, threads may outlive `main`, file or thread creation may fail, and a killed
  run leaves files that the next run appends to. Every access has to be in the log
  once.
- *DetectPass.* The estimate depends on the order in which an `unordered_map`
  returns groups, and sums wrap at 32 bits. Heavy false sharing must be found in
  every order, and only false sharing reported.
- *Layout.* Ranges nest, overlap and touch in any combination; affinities are
  bit masks; a pattern may be continued to threads that never ran. Bytes that
  were different must stay different, bytes that were the same stay the same, and
  threads must end up on different cache lines.
- *RedirectPtr.* The call graph has cycles, and a depth-first search with a set of
  visited nodes has to reach a fixed point in any order of the edges. A thread
  must not escape from its clones, and each instruction must get the offset of its
  thread and turn.
- *ll_alloc.* A thread frees a block of another by appending it to the owner's queue
  without a lock, while the owner may die, be merged into a third thread and be
  returned; only a hazard pointer holds that up. In a heap page, separators with
  flags about both neighbours have to be right after every split and merge, as the
  next merge trusts them.

## 2. The modules

| module | models | TLC | proofs |
|---|---|---|---|
| `RWLock` | abstract readers-writer lock | | |
| `SharedSpinLock` | the lock, one action per atomic access | `MCSharedSpinLock` | `SharedSpinLock_proofs` |
| `MallocInfo` | allocation hooks and the lookup of an access | `MCMallocInfo` | `MallocInfo_proofs` |
| `Logging` | thread objects, tables, files, exit | `MCLogging` | `Logging_proofs` |
| `Detect` | DetectPass | `MCDetect` | |
| `Placement` | merging, placing and looking up ranges | `MCPlacement` | `Placement_proofs` |
| `Layout` | class Layout; contains `Placement` by INSTANCE | `MCLayout` | |
| `CallGraph` | CallGraph.h and how `runOnModule` fills it | `MCRedirectPtr` | |
| `RedirectPtr` | the rest of the pass; extends `CallGraph` | `MCRedirectPtr` | `RedirectPtr_proofs` |
| `Reclaim` | what the hazard pointers of ll_alloc promise | | `Reclaim_proofs` |
| `LLQueue` | threads, slabs, queues and reaping of ll_alloc | `MCLLQueue` | `LLQueue_steps`, `LLQueue_proofs` |
| `LLHeap` | heap pages of ll_alloc | `MCLLHeap` | |

How they fit together. `MallocInfo` treats a critical section of the lock as one
step; `SharedSpinLock` implements `RWLock`, which is what justifies that.
`MallocInfo!LoggedIdDumped` (every id in the log has a line in the file of
allocations) is the assumption `DetectAssumption` of `Detect`.
`Detect!OutputExact` says which accesses `Layout` is given. `Layout` runs the
actions of `Placement`, and its property `Places` says so as a refinement.
`Layout!Faithful` is about the lines that are the profile of `RedirectPtr`.
`LLQueue` implements `Reclaim`, which is a theorem; what it takes as one step, freeing a node of a heap
page, is what `LLHeap` models in detail, and there the queue of the other thread is
one step.

**SharedSpinLock.** `pc` says where a thread is in the header's functions. A turn
of a spin loop that finds nothing changed is a stuttering step. Sequential
consistency is assumed, since the read-modify-write operations of x86-64 are full
barriers.

**MallocInfo.** Thread 0 goes through `Malloc`, `InsertAlive` (under the lock),
`InsertHeap`/`Widen` (each word of the bounds separately and in either order, for
the data race), `InsertTotal`; free and realloc likewise with `EraseEntry` and
`Shrink`. An access is `BeginAccess`, `Contain` (two separate loads), `FindIdOffset`
or `GlobalContain`, `EndAccess`. libc is external: it hands out any free range and
takes blocks back. The variable `workload` says what happens beside thread 0 allocating
and freeing in any order (`realloc`, frees by other threads: `foreign`, a libc that is
out of memory: `fail`); it is chosen once, among the constant `Programs`. The id and the
offset of a record are cut to `uint32_t` by `Record`, modulo the constant `UINT32`. The
history variable `cut` has the recorded blocks below which thread 0 has freed another
one: `Segment::shrink` then moves the end of the heap below them, and their accesses may
go unlogged. Backtraces and `total_alloc` are left out.

**Logging.** `ThreadCreate` and `EndThread` hold the mutex and are one step.
`BeginLog` writes the table out when it is full, `Increment` counts, and the
finalizer's loop is one step per call (`FinStop`, `FinFlush`, `FinClose`, `FinCat`,
`FinRemove`). A file is the sum of its lines. `made`, `lost` and `left` are history
variables: what was asked to be logged, what wrapped counters forgot, what earlier
killed runs left. `Workload` has nested creation, unjoined threads, exit from any
thread, and failures of `pthread_create` and of `fopen` (`OpenBuffer`), the one for
the initial thread included. `Crash` and `RunAgain` model a
kill and the next run in the same directory.

**Detect.** `log` is a bag, as a record can be in the log twice after its table was
written out in between. `Estimates` is the set of values over all orders of the
groups. Counts are taken modulo `RWMod`, PCs modulo `PCMod`; the sums are exact
until they are compared, which gives the same result as wrapping on the way.

**Placement and Layout.** A loop over a sorted container is one step per element
and takes the least one left. `Bits` is the C++ expression `1 << thread` in an `int`,
with its sign extension. The order of affinity groups is that of the numeric value
of the mask. Wherever the code runs into an assertion or reads an element that is
not there, the model stops in a stage of its own.

**CallGraph and RedirectPtr.** A program is its calls, its `pthread_create` sites
and its profile. The search is modelled with its stack (`dfs`) and any order of the
edges. A version of a function is a function and a thread, or `Original`. The
functions in the table do not touch each other, so cloning all of them is one step,
and so is applying the table; which of several failing assertions comes first is
open. LLVM's unroller is external and may fail.

**LLQueue.** One action per access to shared memory of `prepend_queue`, `scan_queue`,
`reap_dead`, `init_tls` and `destroy_tls`, between the locks that guard them. A slab
goes through the lists of its owner (`bl`, `partial`, `full`), the spare slabs of a
thread (`chunk`) and those of nobody (`pc_slab`); which of several members of a list
is taken is left open. `next` may hold anything until a node is linked. Three
assumptions: memory is sequentially consistent (`reap_dead` has no fence of its own
between storing the new owners of blocks and loading the hazard pointers); a call of
`get_mmap_memory` of `tmimem.cpp` is one step, although it takes no lock; and its
`HEAP_SIZE` is not used up. As `get_mmap_memory` and `adjust_slab_memory` only move a
pointer and never fail, `init_tls` always has an atls: `free_nomem`, the `NULL` of
`malloc_aux` and the second try of `block_alloc_aux` are not reached in this build.

**Reclaim.** The same protocol with the queues, the locks and the lists forgotten: an
atls is new, live or gone, a block has a home, and a thread publishes, confirms, uses
and clears its hazard pointer. Its invariant is in the module as well, since the proof
about `LLQueue` uses it.

**LLHeap.** One action per call of the allocator, with the operators named after the C
functions they are. A heap is a record: its pages, the separators by place, the fast
lists, the lists by size, the btree as a sorted list, the queue. Sizes count units
of 16 bytes and wrap at `SizeMod`. Memory that the program or a list link has written
over is `Junk`, so that a separator that is read too late would be noticed.

## 3. The runs

| run | instance | states | what it shows |
|---|---|---|---|
| `spin_lock` | 4 threads, with fairness | 4.6 k | exclusion, the count and the owner of the flag, refinement of `RWLock`, no reader passes an announced writer, and the writer enters |
| `malloc` | 2 threads, a heap of 3 bytes, 2 or 3 allocations of 1 or 3 bytes, two kinds of programs, `UINT32` 2 | 863 k | ids and offsets in the log are right up to the cast, globals are always logged as globals, `data_alive` is exact between calls; no access to a recorded block is lost unless thread 0 has freed one below it; the two files agree for every program |
| `log` | main and 2 workers, 3 records, tables of 2 entries, counters modulo 2, nested creation, exits anywhere, failures, 1 kill | 711 k | nothing is lost or doubled outside of what is accounted for, `record.log` is complete when nothing was killed, each thread has an object of its own, tables are bounded |
| `place_any` | every set of 13 ranges with threads | 55 k | pieces cover, bytes are kept apart, the size suffices, threads are apart |
| `layout` | 3 log lines in any order, or 4 that may be extrapolated, 2 instructions, 3 threads | 1.2 M | the same from the log to the lines, with and without analysis and extrapolation; `Layout` runs `Placement` |
| `detect` | 2 allocations, 2 cache lines, 3 threads, 4 log lines | 382 k | no false sharing over the threshold is missed, all that is reported is real, an allocation that is clearly the worst by the log leads the ranking, the output is the log |
| `redirect` | 5776 programs of 4 functions | 184 k | the threads of functions are exact, threads stay in their clones, offsets are the ones of the thread |
| `ll_queue` | 3 threads, 3 atls, 1 further page, 3 slabs of one node, 5 calls | 292 k | every node is in one place, a thread frees only nodes of its own blocks out of a queue, the owner of a queue in use stays, a reaper waits only for threads at work, refinement of `Reclaim` |
| `ll_heap` | 2 threads, 5 calls of 3 sizes and 2 alignments, pages of 8 to 10 units | 102 k | chunks tile their pages, flags are right, every chunk is in one place, requests are met |
| `log_unjoined` | 1 unjoined worker | violated | the flag that should stop a thread is never tested |
| `place_wide_threads` | threads an int's width apart | violated | such threads share a bit and are placed side by side |
| `ll_heap_largest` | the largest size below `BTMALLOC` | violated | the page mapped for it is too small |

Bounds. Four threads on the lock let two writers and two readers meet. A heap of
three bytes beside a global and three allocations let three blocks be neighbours, be
freed in any order and their addresses be reused; `UINT32` 2 cuts the third id and the
third offset. `LOG_SIZE` 2 and `CountMod` 2 let a counter wrap while the table is not
full yet, and a table fill; a run that may be killed has three accesses of one object,
the last run one of each (`MCMaxAccess`). In `Detect`, one more line than the smallest
false sharing lets a third group and a duplicate appear, and `RWMod` 16 makes the
sum of two heavy lines and a third wrap, and that of two not. Four inserts in `Layout` are the least
for an extrapolation with two threads beside main. `CACHELINE` 2 and ranges of 1 to 3 bytes have all ways in which two
or three ranges can lie to each other. Two recursive functions below a thread's
start function, one of them shared with another start, are enough for cycles
that a search enters in the middle. In `LLQueue` three threads are one that frees, the
owner and one that reaps the owner; five calls are enough to fill a slab, free its
node from elsewhere, exit and reap. In `LLHeap` a page holds three chunks, so that one
can be merged to both sides, and `QS_MAX` 3 makes every list, the btree and the large
head of a queue occur within five calls. `MaxCalls`, `MaxPages`, `MaxId`, `MaxAccess`,
`MaxKills`, `MaxInserts` and `MaxLines` are bounds of the model; every other constant
is one of the code, made small.

Fairness. Only `WriterEnters` needs it. `FairSpec` assumes that a thread inside the
lock's functions, or holding it, keeps running (weak fairness per thread). The
operating system's scheduler gives that; the critical sections are a map lookup or
an update. It is not assumed that anybody ever calls `lock`.

Symmetry is used in the runs of `Logging` (workers and records are only compared) and
of `LLQueue` and `LLHeap` (threads are only compared), not for liveness. `malloc` does
not check for deadlock: a failed assertion in the hook of `realloc` ends the program.

### The disagreements

- `log_unjoined`: `LoggingThread.cpp:11` tests the pointer `writing`, not the flag
  behind it. `stop_logging` therefore stops nobody, and a thread that `main` has not
  joined changes its table while the finalizer writes it out. The comments
  "True: thread is writing to its buffer." and "Ask all threads to stop writing"
  state the intention.
- `place_wide_threads`: `Repair.cpp:220` shifts an `int`, so threads 32 apart get the
  same bit, although the assertion in the line above admits 64 threads.
- `ll_heap_largest`: `block_alloc_aux` clips the size of a page to `BTMALLOC`, header
  included (`ll_alloc.c:4396`), but `block_alloc` sends it every request below
  `BTMALLOC`. For the largest of them `split_node` computes a negative remainder; its
  own test, "too big to fit in split", is compiled in debug builds only.

## 4. The proofs

Everything here holds for every value of the constants that satisfies the named
assumption of the module.

- *SharedSpinLock_proofs.* `MutualExclusion` is not inductive: a writer may enter on
  seeing zero because the count is the number of counted threads, and a reader may
  enter on seeing the flag down because the flag is up whenever it is owned. The
  three together are (`IInv`). From it follow `TypeCorrect`, `MutualExclusionHolds`,
  `BookkeepingHolds` (the count is exact, the flag has one owner), `Refinement` of
  `RWLock` and `WriterPriority`. Assumes a finite set of threads.
- *MallocInfo_proofs.* `TypeCorrect` for all workloads. `LoggedRightHolds` and
  `AliveExactHolds` when only thread 0 frees its blocks and does not reallocate
  (`Basic`). The invariant relates the entry in `data_alive` to the live block at
  every point of a call, and each access in flight to a block that its thread may use;
  that the record is the block's id and offset, each cut to `uint32_t`, is the lemma
  `Recorded`. Under the same condition `GlobalAccessLoggedHolds` (the bounds never reach
  down to the globals, nor does any half of them that was read early) and
  `HeapAccessLoggedHolds`, for frees in any order: the bounds enclose every recorded block
  outside of `cut`, and every load of them that an access has done was permissive enough.
  `LoggedIdDumpedHolds` is for every workload, frees by other threads and `realloc`
  included: ids are handed out in order, so an id in the dump is not used again
  (`Numbered`); what `data_alive` has is in the dump or is about to be (`AliveDumped`);
  lines of the dump stay, so a result found earlier still has its line
  (`ResultsDumped`).
- *Logging_proofs.* `TypeCorrect`, `OwnObjectHolds`, `BufferBoundedHolds`. Types and
  ownership are inductive only together, as an object's index is the size of the
  vector at its creation. `ConservedHolds` when no thread outlives
  the finalizer, failures and kills included; `RecordCompleteHolds` without kills. Their
  invariant says how far the finalizer has come: what is written, closed, concatenated.
- *Placement_proofs.* The invariant has a part per loop: the pieces on the stack are
  disjoint and carry the bits of exactly the ranges visited; then they partition all
  ranges; then those placed are apart, and those of earlier groups are a cache line
  below `offset`. From it follow `PiecesCoverHolds`, `BijectiveHolds`, `FitsNewSizeHolds`
  and, for threads below the width of an `int` minus one, `FalseSharingGoneHolds`.
  `FitsNewSize` and the others assume that `offset` does not wrap, which is in the model's
  use of natural numbers for it.
- *RedirectPtr_proofs.* For every program, profile and order of the edges.
  `ThreadsExactHolds`: while the search from a function runs, a caller of a visited node
  is visited itself or waits on the stack of `goNext`; when the stack is empty, what was
  not visited is closed under calls and does not hold the function, so that nothing that
  reaches it was left out (`CGInv`). No induction over paths is needed, as `Reach` is the
  least closed set. `StaysInThreadHolds`: the versions that the property allows are a set
  closed under the calls of the clones (`CloneInv`). `TypeCorrect`: every call that
  is replaced goes to a clone that exists.
- *Reclaim_proofs.* `OwnerStaysHolds` and `WaitsForWorkHolds`, for any number of threads,
  atls and blocks (assumption `NoneApart`: the null pointer is none of them). That an
  owner stays while it is used needs to know where every atls is (`OnePlace`, `Holding`),
  that blocks leave an atls before the reaper looks at hazard pointers (`Homes`), that a
  thread has published what it uses and is on the list reapers walk (`Published`), and
  the core of it, `Protected`: whoever reaps an owner in use has not yet passed the
  hazard pointer of the thread that uses it. `Confirm` establishes it, as the block
  still had that owner after the pointer was published.
- *LLQueue_steps*, *LLQueue_proofs.* `ImplementsReclaimHolds`: the allocator, one access to memory at a
  time, implements `Reclaim`, for any number of threads, atls, pages, slabs, nodes and
  calls, under the three assumptions named in section 2; with it `OwnerStaysHolds` and `WaitsForWorkHolds` of `LLQueue`. The steps in
  which a block leaves its owner are the hard ones: `Reclaim` allows them only when no
  thread is about to free a node of the block. `slab_free` gives a slab away when all
  its nodes are free, so one has to know that a node that is being freed is not free
  already (`NodesApart`, itself listed as `NodesApartHolds`). A node becomes free when
  `scan_queue` finds it, so it must not be found twice, nor before the thread that puts
  it there is done: that is the shape of the queues (`QueuesLinked`). A queue is not a
  chain while threads are between exchanging the tail and storing the link; the invariant
  says that nothing has two predecessors, that the front of a queue has none, and that
  each of those threads has an end of its own to link to. It keeps
  this shape because nobody resets the queue under a thread that links, which is what the
  hazard pointers are for. So neither invariant is inductive without the other, and `IInv`
  is both: types, what a thread has in hand at each label (`Control`), who is on `h_list`
  (`Joined`), spare slabs in one chunk each (`ChunksApart`), nodes, queues, and
  `Reclaim`'s. `FreesOwnHolds`: a node in a queue, or about to be put there by a thread
  that has confirmed its hazard pointer, is of a block of that atls or of the one that
  merges it (`Kept`). `LLQueue_steps` has the invariant, the simulation of `Reclaim` and
  all parts of the invariant but the queues; `LLQueue_proofs` has those and the theorems.

Only model-checked, and why:

- `WriterEnters`: liveness under fairness.
- `Faithful`, `FalseSharingGone` and `Places` of `Layout`, and all of `Detect`: their
  operators fold over logs and lists of any length, and what a fold computes needs
  induction over data, which the prover does not offer here. `AccessesMoved` rests on a
  sorted table in the same way.
- `LLHeap`: the scans of lists and pages are recursive operators.
- `NodesAccounted` of `LLQueue`: it says that a node in a queue is reached from the front
  by following links, which takes induction along the queue. That a node is nowhere
  twice is part of `NodesApart` and `QueuesLinked`, which are proved.

## 5. Not modelled

- `Instrumenter`, `AlignMalloc`: one rewrite per instruction, no state.
- `MemoryAnalysis`: its result is the constant `Analyses` of `Layout`.
- `RepairPass`: reading and printing, and the multimap over all allocations. An
  instruction that uses two repaired allocations gets the lines of both; `Layout`
  models one allocation.
- `CustomUnrollLoop.cpp`: a copy of LLVM's unroller with a hook.
- `second_pass/`, `kmeans_repair/`: not in the pipeline; the latter computes in
  floating point.
- Of `others/`, everything but `ll_alloc.c` and the two functions of `tmimem.cpp` that
  give it memory: `ll_alloc_original.c` is the version it was
  made from; the rest of TMI, `xed` and Sheriff are third-party systems.
- Of `ll_alloc.c`: blocks above `BTMALLOC`, which are mapped one by one; the inner nodes
  of the btree; `calloc`, the handlers around `fork`, statistics and debug checks;
  the paths for a failed mapping, which `tmimem.cpp` never reports.
- `test_suites/`, scripts: benchmarks, measurements.
- Parsing and printing of files, backtraces, debug output.

Three things that may go wrong and that no property excludes, since the repository
promises nothing of them: sums of counts that wrap can hide false sharing
(`Detect.cpp:196`; `MissesNone` is about sums that do not), allocations with equal counts
are dropped from the ranking (`Stats.h:17`; `RankingFollowsLog` is about those that do
not tie), and numbers of functions and instructions are cut to 16 bits
(`Detect.cpp:36`; `OutputExact` states the output up to the cut).

Some things that the code does and that no run claims otherwise, because nothing in
the repository does: a `realloc` gets its new size in the operand of the block
(`GroupFuncLoop.h:88`), an indirect call in a thread's function is dereferenced as null
(`CallGraph.h:43`), only the first `pthread_create` of a function is changed
(`RedirectPtr.cpp:224`), the main thread keeps calling the unrepaired original of a
cloned function (`RedirectPtr.cpp:276`), and in an unrolled loop an instruction with a
single offset moves in the first turn only (`GroupFuncLoop.h:101`). The model has all
of these; `StaysInThread` and `AccessesMoved` say what holds beside them.

## 6. Plan

1. `RepairPass`: several allocations in one multimap, composed from `Detect` and
   `Layout`, with the property that an instruction's lines belong to one allocation
   or the case is told apart.
2. `RedirectPtr` with the thread numbers of `Logging`: which clone does thread *i* of
   the runtime start in, when the profile lacks a thread.
3. `second_pass`: `my_malloc_hook` and `redirect_ptr` with the unlocked bounds of the heap.
4. `MemoryAnalysis` as a worklist over a small def-use graph; `Instrumenter`'s numbering
   against the one of `RedirectPtr`.
