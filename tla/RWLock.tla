------------------------------- MODULE RWLock -------------------------------
(***************************************************************************)
(* What a readers-writer lock promises to the code that uses it: at any    *)
(* time the lock is free, held by one writer, or held by a set of readers. *)
(* SharedSpinLock is shown to implement this specification.                *)
(***************************************************************************)

CONSTANT Threads

VARIABLES writers,  \* the threads that returned from lock()
          readers   \* the threads that returned from lock_shared()

vars == <<writers, readers>>

Init == writers = {} /\ readers = {}

AcquireExclusive(t) ==
    /\ writers = {} /\ readers = {}
    /\ writers' = {t}
    /\ UNCHANGED readers

ReleaseExclusive(t) ==
    /\ t \in writers
    /\ writers' = writers \ {t}
    /\ UNCHANGED readers

AcquireShared(t) ==
    /\ writers = {} /\ t \notin readers
    /\ readers' = readers \cup {t}
    /\ UNCHANGED writers

ReleaseShared(t) ==
    /\ t \in readers
    /\ readers' = readers \ {t}
    /\ UNCHANGED writers

Next == \E t \in Threads : \/ AcquireExclusive(t) \/ ReleaseExclusive(t)
                           \/ AcquireShared(t)    \/ ReleaseShared(t)

Spec == Init /\ [][Next]_vars
=============================================================================
