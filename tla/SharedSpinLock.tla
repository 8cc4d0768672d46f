--------------------------- MODULE SharedSpinLock ---------------------------
(***************************************************************************)
(* runtime/SharedSpinLock.h: the readers-writer spin lock that guards      *)
(* MallocInfo::data_alive.  A writer first takes the flag write_now and    *)
(* then waits for the readers to drain; a reader first counts itself in    *)
(* readers_count and then looks at write_now again, backing off if a       *)
(* writer announced itself in between.                                     *)
(*                                                                         *)
(* Every atomic access of the header is one action.  On the x86-64 targets *)
(* Huron builds for, each read-modify-write is a full barrier, so the      *)
(* accesses are sequentially consistent.  A turn of a spin loop that finds *)
(* its condition unchanged (and yields) changes nothing: it is a           *)
(* stuttering step.                                                        *)
(***************************************************************************)
EXTENDS Integers, FiniteSets

CONSTANT Threads

ASSUME ThreadsAssumption == IsFiniteSet(Threads)

VARIABLES write_now,      \* std::atomic<bool>
          readers_count,  \* std::atomic<int>
          pc              \* where each thread is in the header's functions

vars == <<write_now, readers_count, pc>>

PCs == {"idle",
        "exchange", "drain", "exclusive",
        "wait", "add", "recheck", "retreat", "shared"}

At(l) == {t \in Threads : pc[t] = l}

Goto(t, from, to) == pc[t] = from /\ pc' = [pc EXCEPT ![t] = to]

Init ==
    /\ write_now = FALSE
    /\ readers_count = 0
    /\ pc = [t \in Threads |-> "idle"]

-----------------------------------------------------------------------------
(* lock() and unlock() *)

Lock(t) ==
    /\ Goto(t, "idle", "exchange")
    /\ UNCHANGED <<write_now, readers_count>>

\* The spin ends on the exchange(true) that returns false.
Exchange(t) ==
    /\ Goto(t, "exchange", "drain")
    /\ ~write_now
    /\ write_now' = TRUE
    /\ UNCHANGED readers_count

\* The writer enters without looking at the readers.
DrainSkipped(t) ==
    /\ Goto(t, "drain", "exclusive")
    /\ UNCHANGED <<write_now, readers_count>>

\* The writer gives the flag back instead of waiting for the readers.
DrainYields(t) ==
    /\ Goto(t, "drain", IF readers_count = 0 THEN "exclusive" ELSE "exchange")
    /\ write_now' = (readers_count = 0)
    /\ UNCHANGED readers_count

\* "wait for readers to exit"
Drain(t) ==
    /\ Goto(t, "drain", "exclusive")
    /\ readers_count = 0
    /\ UNCHANGED <<write_now, readers_count>>

Unlock(t) ==
    /\ Goto(t, "exclusive", "idle")
    /\ write_now' = FALSE
    /\ UNCHANGED readers_count

-----------------------------------------------------------------------------
(* lock_shared() and unlock_shared() *)

LockShared(t) ==
    /\ Goto(t, "idle", "wait")
    /\ UNCHANGED <<write_now, readers_count>>

\* The reader counts itself in without waiting for the writer.
WaitSkipped(t) ==
    /\ Goto(t, "wait", "add")
    /\ UNCHANGED <<write_now, readers_count>>

\* "wait for unlock"
Wait(t) ==
    /\ Goto(t, "wait", "add")
    /\ ~write_now
    /\ UNCHANGED <<write_now, readers_count>>

AddReader(t) ==
    /\ Goto(t, "add", "recheck")
    /\ readers_count' = readers_count + 1
    /\ UNCHANGED write_now

\* The second test is forgotten: the reader enters whatever write_now says.
RecheckDropped(t) ==
    /\ Goto(t, "recheck", "shared")
    /\ UNCHANGED <<write_now, readers_count>>

Recheck(t) ==
    /\ Goto(t, "recheck", IF write_now THEN "retreat" ELSE "shared")
    /\ UNCHANGED <<write_now, readers_count>>

\* The fallback path forgets to take the reader out of the count again.
RetreatCounted(t) ==
    /\ Goto(t, "retreat", "wait")
    /\ UNCHANGED <<write_now, readers_count>>

\* "locked while transaction? Fallback. Go another round"
Retreat(t) ==
    /\ Goto(t, "retreat", "wait")
    /\ readers_count' = readers_count - 1
    /\ UNCHANGED write_now

UnlockShared(t) ==
    /\ Goto(t, "shared", "idle")
    /\ readers_count' = readers_count - 1
    /\ UNCHANGED write_now

-----------------------------------------------------------------------------

\* The steps a thread takes once it has called one of the functions.
Step(t) == \/ Exchange(t) \/ Drain(t) \/ Unlock(t)
           \/ Wait(t) \/ AddReader(t) \/ Recheck(t) \/ Retreat(t)
           \/ UnlockShared(t)

Next == \E t \in Threads : Lock(t) \/ LockShared(t) \/ Step(t)

Spec == Init /\ [][Next]_vars

\* Every thread inside the lock keeps being scheduled, and the critical
\* sections of MallocInfo.h end: they contain no call that blocks.
FairSpec == Spec /\ \A t \in Threads : WF_vars(Step(t))

-----------------------------------------------------------------------------

\* The threads that are counted in readers_count.
Counted == At("recheck") \cup At("retreat") \cup At("shared")

\* The threads that own write_now.
Owners == At("drain") \cup At("exclusive")

\* The two atomics and the program counters have their types; readers_count
\* never leaves the range the number of threads gives it.
TypeOK ==
    /\ write_now \in BOOLEAN
    /\ readers_count \in 0..Cardinality(Threads)
    /\ pc \in [Threads -> PCs]

\* lock() excludes every other holder: while a thread is between lock() and
\* unlock(), no other thread is, and no thread is between lock_shared() and
\* unlock_shared().
MutualExclusion ==
    \A t \in At("exclusive") : At("exclusive") = {t} /\ At("shared") = {}

\* Backing off and leaving balance every increment of readers_count, so a
\* writer that waits for zero waits for exactly the readers that are inside.
ReadersBalanced == readers_count = Cardinality(Counted)

\* write_now is set exactly while one thread owns it: unlock() never releases
\* the lock for a thread that did not take it.
OwnerUnique ==
    /\ write_now <=> Owners # {}
    /\ \A t, u \in Owners : t = u

\* The lock keeps the promise of the abstract readers-writer lock.
Abstract == INSTANCE RWLock WITH writers <- At("exclusive"),
                                 readers <- At("shared")
ImplementsRWLock == Abstract!Spec

\* "writers have priority": once a writer has taken
\* write_now, readers that keep arriving cannot hold it off.
WriterEnters == \A t \in Threads : pc[t] = "drain" ~> pc[t] = "exclusive"

\* While the flag of a writer is up, no further reader gets past the wait
\* loop: the readers the writer waits for can only become fewer.
NoReaderPassesWriter ==
    [][write_now /\ write_now' =>
         At("shared")' \subseteq At("shared") /\ At("add")' \subseteq At("add")]_vars
=============================================================================
