------------------------------- MODULE Detect -------------------------------
(***************************************************************************)
(* The detection of false sharing: DetectPass of postprocess/Detect.cpp,   *)
(* with FSRankStat of postprocess/Stats.h.                                 *)
(*                                                                         *)
(* DetectPass reads the allocations (mallocRuntimeIDs.txt) and the log     *)
(* (record.log), sorts the lines of the log into bins by allocation and    *)
(* byte range, estimates the false sharing on every cache line of an       *)
(* allocation, and keeps the allocations that have a cache line over the   *)
(* threshold.  Their accesses are the input of Layout.                     *)
(*                                                                         *)
(* The ranges of a cache line are grouped by the set of threads that use   *)
(* them.  The groups come out of an unordered_map, and the estimate        *)
(* depends on their order: any order is possible here.  find_overlap only  *)
(* prints a warning and is left out.                                       *)
(***************************************************************************)
EXTENDS Integers, FiniteSets, FiniteSetsExt, SequencesExt, Bags, BagsExt

CONSTANTS MallocFile,  \* id -> [start, size, pc], the lines of mallocRuntimeIDs.txt
          LogLines,    \* lines that may be in record.log
          MaxLines,    \* bound: lines in record.log
          Threshold,   \* threshold
          LineBytes,   \* 1 << CACHELINE_BIT
          RWMod,       \* 2^32, the width of RW
          PCMod        \* 2^16, the width of PC

\* Every id in the log is in the file of allocations: MallocInfo!LoggedIdDumped.
ASSUME DetectAssumption ==
    /\ \A m \in DOMAIN MallocFile :
         m \in Int /\ MallocFile[m].start \in Nat /\ MallocFile[m].size \in Nat \ {0}
    /\ \A l \in LogLines :
         /\ l.m_id \in DOMAIN MallocFile /\ l.thread \in Nat /\ l.pc \in Nat
         /\ l.r \in Nat /\ l.w \in Nat /\ l.size \in Nat \ {0}
         /\ l.addr >= MallocFile[l.m_id].start
         /\ l.addr + l.size <= MallocFile[l.m_id].start + MallocFile[l.m_id].size
    /\ MaxLines \in Nat /\ Threshold \in Nat \ {0} /\ LineBytes \in Nat \ {0}
    /\ RWMod \in Nat \ {0} /\ PCMod \in Nat \ {0}

VARIABLES
    stage,    \* where compute() is
    mallocs,  \* id -> allocation
    log,      \* history: the lines read, as they are in the file
    bins,     \* id -> the records of its bucket, a bag
    todo,     \* ids of bins still to be processed
    data,     \* id -> what MallocStorageT keeps, for the valid ones
    ranking,  \* fs_mloc_ordering
    output    \* id -> MallocOutput

vars == <<stage, mallocs, log, bins, todo, data, ranking, output>>

Init ==
    /\ stage = "mallocs" /\ mallocs = <<>> /\ log = EmptyBag /\ bins = <<>> /\ todo = {}
    /\ data = <<>> /\ ranking = <<>> /\ output = <<>>

With(f, x, v) == [y \in DOMAIN f \cup {x} |-> IF y = x THEN v ELSE f[y]]

-----------------------------------------------------------------------------
(* Reading the files *)

\* A PC has 16 bits; the -1 of the globals becomes PC::null().
ReadMallocs ==
    /\ stage = "mallocs" /\ stage' = "log"
    /\ mallocs' = [id \in DOMAIN MallocFile |-> [MallocFile[id] EXCEPT !.pc = @ % PCMod]]
    /\ UNCHANGED <<log, bins, todo, data, ranking, output>>

\* The record of a line: to_unsigned<uint16_t> keeps the low bits of a PC.
Record(l) == [l EXCEPT !.pc = @ % PCMod]

\* bins[next_r.m_id][key].push_back(next_r)
ReadLine(l) ==
    /\ stage = "log" /\ BagCardinality(log) < MaxLines
    /\ log' = BagAdd(log, l)
    /\ bins' = With(bins, l.m_id,
                    BagAdd(IF l.m_id \in DOMAIN bins THEN bins[l.m_id] ELSE EmptyBag, Record(l)))
    /\ UNCHANGED <<stage, mallocs, todo, data, ranking, output>>

EndOfLog ==
    /\ stage = "log" /\ stage' = "process"
    /\ todo' = DOMAIN bins
    /\ UNCHANGED <<mallocs, log, bins, data, ranking, output>>

-----------------------------------------------------------------------------
(* The cache lines of an allocation *)

\* The address range of a record, the key of its bucket.
Key(rec) == [start |-> rec.addr, end |-> rec.addr + rec.size]

\* A range that ends where a cache line starts is counted there too.
CachelinesOver(key) == (key.start \div LineBytes)..(key.end \div LineBytes)

Cachelines(key) == (key.start \div LineBytes)..((key.end - 1) \div LineBytes)

\* The records of a bag that belong to a range on the cache line.
OnLine(bag, clid) == {rec \in BagToSet(bag) : clid \in Cachelines(Key(rec))}

LinesOf(bag) == UNION {Cachelines(Key(rec)) : rec \in BagToSet(bag)}

\* The number of reads and of writes of some records of a bag.
Reads(bag, recs) == MapThenSumSet(LAMBDA rec : CopiesIn(rec, bag) * rec.r, recs)
Writes(bag, recs) == MapThenSumSet(LAMBDA rec : CopiesIn(rec, bag) * rec.w, recs)

\* AddrRecord::get_thread_ids
ThreadIds(recs, key) == {rec.thread : rec \in {x \in recs : Key(x) = key}}

\* thread_groups(): the records of the ranges that the same threads use.
ThreadGroups(recs) ==
    LET threads(rec) == ThreadIds(recs, Key(rec))
    IN  {[threads |-> ts, records |-> {rec \in recs : threads(rec) = ts}] :
           ts \in {threads(rec) : rec \in recs}}

\* rhs_rw_suffer_from_lhs, in uint32_t
Suffer(bag, lhs, rhs) ==
    LET others == {rec \in rhs.records : rec.thread \notin lhs.threads}
    IN  Min({Writes(bag, lhs.records) % RWMod,
             (Reads(bag, others) + Writes(bag, others)) % RWMod})

\* Only the next group is compared.
FalseSharingNext(bag, groups) ==
    MapThenSumSet(LAMBDA i : Max({0} \cup {Suffer(bag, groups[i], groups[i + 1])}),
                  1..(Len(groups) - 1))

\* estm_false_sharing for one order of the groups
FalseSharing(bag, groups) ==
    LET worst(i) == Max({0} \cup UNION {{Suffer(bag, groups[i], groups[j]),
                                         Suffer(bag, groups[j], groups[i])} :
                                        j \in (i + 1)..Len(groups)})
    IN  MapThenSumSet(worst, 1..Len(groups))

\* What the estimate for a cache line can be.
Estimates(bag, clid) ==
    {FalseSharing(bag, groups) : groups \in SetToSeqs(ThreadGroups(OnLine(bag, clid)))}

\* calc_graphs(): the sum is taken over all cache lines, then those below the
\* threshold are dropped.
Storage(estm_fs) ==
    [fs |-> MapThenSumSet(LAMBDA c : estm_fs[c], DOMAIN estm_fs),
     graphs |-> {c \in DOMAIN estm_fs : estm_fs[c] >= Threshold}]

\* One turn of the loop over bins, which is ordered by id.
Process ==
    /\ stage = "process" /\ todo # {}
    /\ LET id == Min(todo)
           bag == bins[id]
       IN  /\ \E estm_fs \in [LinesOf(bag) -> UNION {Estimates(bag, c) : c \in LinesOf(bag)}] :
                /\ \A c \in LinesOf(bag) : estm_fs[c] \in Estimates(bag, c)
                /\ data' = IF Storage(estm_fs).graphs # {}
                           THEN With(data, id, Storage(estm_fs)) ELSE data
           /\ todo' = todo \ {id}
    /\ UNCHANGED <<stage, mallocs, log, bins, ranking, output>>

-----------------------------------------------------------------------------
(* The results *)

\* Allocations are ranked by the number of their cache lines.
FalseSharingLines(id) == Cardinality(data[id].graphs)

\* get_n_false_sharing()
FalseSharingOf(id) == data[id].fs

\* fsrStat.emplace in the order of data: the first allocation with a count
\* keeps it.
RankAll ==
    /\ stage = "process" /\ todo = {} /\ stage' = "ranked"
    /\ ranking' = [fs \in {FalseSharingOf(id) : id \in DOMAIN data} |->
                     Min({id \in DOMAIN data : FalseSharingOf(id) = fs})]
    /\ UNCHANGED <<mallocs, log, bins, todo, data, output>>

\* shift_by(m_start, false), with one end left as it was.
OffsetHalf(key, start) == [start |-> key.start - start, end |-> key.end]

\* shift_by(m_start, false)
Offset(key, start) == [start |-> key.start - start, end |-> key.end - start]

\* get_api_output(): pc_threads is a multimap, so that a record that is in
\* the log twice is there twice.
Accesses(bag, start) ==
    LET access(rec) == <<Offset(Key(rec), start), rec.pc, rec.thread>>
    IN  [a \in {access(rec) : rec \in BagToSet(bag)} |->
           MapThenSumSet(LAMBDA rec : CopiesIn(rec, bag),
                         {rec \in BagToSet(bag) : access(rec) = a})]

GetApiOutput ==
    /\ stage = "ranked" /\ stage' = "end"
    /\ output' = [id \in DOMAIN data |->
                    [accesses |-> Accesses(bins[id], mallocs[id].start),
                     pc |-> mallocs[id].pc, size |-> mallocs[id].size]]
    /\ UNCHANGED <<mallocs, log, bins, todo, data, ranking>>

Ended == stage = "end" /\ UNCHANGED vars

Next ==
    \/ ReadMallocs \/ EndOfLog \/ Process \/ RankAll \/ GetApiOutput \/ Ended
    \/ \E l \in LogLines : ReadLine(l)

Spec == Init /\ [][Next]_vars

-----------------------------------------------------------------------------
(* Properties, stated on the lines of the log *)

\* The lines of the log about bytes of an allocation on a cache line.
Logged(id, clid) ==
    {l \in BagToSet(log) :
       l.m_id = id /\ \E b \in l.addr..(l.addr + l.size - 1) : b \div LineBytes = clid}

Total(lines) == Reads(log, lines) + Writes(log, lines)

Finished == stage \in {"ranked", "end"}

\* How often threads that do not use the range of a suffer from its writers
\* when they use the range of b, on one cache line.
Disturbed(id, clid, a, b) ==
    LET here == {l \in Logged(id, clid) : Key(l) = Key(a)}
        there == {l \in Logged(id, clid) : /\ Key(l) = Key(b)
                                           /\ \A h \in here : h.thread # l.thread}
    IN  Min({Writes(log, here), Total(there)})

\* False sharing is not missed: where threads write one range of a cache line
\* at least Threshold times, and threads that do not use it access another
\* range of that line as often, the line is reported, in whatever order the
\* unordered maps return the groups.  The counts must not wrap.
MissesNone ==
    Finished =>
        \A id \in DOMAIN bins : \A c \in LinesOf(bins[id]) :
            \A a, b \in Logged(id, c) :
                /\ Total(Logged(id, c)) < RWMod
                /\ Disturbed(id, c, a, b) >= Threshold
                => id \in DOMAIN data /\ c \in data[id].graphs

\* What is reported is false sharing: on the cache line two threads use
\* different ranges and one of them writes, and the line has been accessed at
\* least Threshold times, even if counts have wrapped.
ReportsReal ==
    \A id \in DOMAIN data : \A c \in data[id].graphs :
        /\ \E a, b \in Logged(id, c) : a.thread # b.thread /\ Key(a) # Key(b) /\ a.w > 0
        /\ Total(Logged(id, c)) >= Threshold

\* What the log says of an allocation at least and at most: the worst pair of
\* ranges, and all accesses, on each of its cache lines.
Worst(id, clid) == Max({0} \cup {Disturbed(id, clid, a, b) : a, b \in Logged(id, clid)})
AtLeast(id) == MapThenSumSet(LAMBDA c : Worst(id, c), LinesOf(bins[id]))
AtMost(id) == MapThenSumSet(LAMBDA c : Total(Logged(id, c)), LinesOf(bins[id]))

\* The ranking follows the log.  Of allocations with the same count only the
\* first is in it, and none is missing for another reason; and where the log
\* leaves no doubt which of two has more false sharing, the count of that one
\* is ranked above the other, in whatever order the unordered maps return the
\* groups.  The counts must not wrap.
RankingFollowsLog ==
    Finished =>
        /\ \A a \in DOMAIN data : \E fs \in DOMAIN ranking :
             data[ranking[fs]].fs = data[a].fs /\ ranking[fs] <= a
        /\ \A a, b \in DOMAIN data :
             /\ \A c \in LinesOf(bins[a]) : Total(Logged(a, c)) < RWMod
             /\ AtLeast(a) > AtMost(b)
             => \E fs \in DOMAIN ranking :
                  /\ data[ranking[fs]].fs = data[a].fs
                  /\ \A g \in DOMAIN ranking : ranking[g] = b => fs > g

\* Layout gets every line of the log about a reported allocation, as offsets
\* in it, and nothing else.  A PC beyond 16 bits is another instruction there.
OutputExact ==
    stage = "end" =>
        \A id \in DOMAIN output :
            LET lines == {l \in BagToSet(log) : l.m_id = id}
                start == MallocFile[id].start
                as(l) == <<[start |-> l.addr - start, end |-> l.addr + l.size - start],
                           l.pc % PCMod, l.thread>>
            IN  /\ BagToSet(output[id].accesses) = {as(l) : l \in lines}
                /\ BagCardinality(output[id].accesses) =
                     MapThenSumSet(LAMBDA l : CopiesIn(l, log), lines)
                /\ \A a \in BagToSet(output[id].accesses) :
                     a[1].start >= 0 /\ a[1].end <= MallocFile[id].size
=============================================================================
