--------------------------- MODULE Reclaim_proofs ---------------------------
(***************************************************************************)
(* The proofs about Reclaim: an owner whose queue a thread uses stays, and *)
(* a reaper only waits for threads that are at work, for every number of   *)
(* threads, atls and blocks.                                               *)
(***************************************************************************)
EXTENDS Reclaim, TLAPS

\* A step has three tries of the SMT solver and one of Zenon.
USE SMTT(20), SMTT(30), SMTT(40), Zenon
-----------------------------------------------------------------------------
(* Every variable keeps its type.                                           *)
LEMMA TypesStep ==
    ASSUME NoneApart, IInv, NEW t \in Threads, Step(t) PROVE Types'
<1> USE NoneApart, IInv DEF NoneApart, IInv, Types, Holding, Published, States, Phases
<1>1. CASE New(t) BY <1>1 DEF New
<1>2. CASE Join(t) BY <1>2 DEF Join
<1>3. CASE Adopt(t) BY <1>3 DEF Adopt
<1>4. CASE Exit(t) BY <1>4 DEF Exit
<1>5. CASE Bury(t) BY <1>5 DEF Bury
<1>6. CASE Obtain(t) BY <1>6 DEF Obtain
<1>7. CASE FreeOwn(t) BY <1>7 DEF FreeOwn, Emptied
<1>8. CASE Take(t) BY <1>8 DEF Take
<1>9. CASE Read(t) BY <1>9 DEF Read
<1>10. CASE Publish(t) BY <1>10 DEF Publish
<1>11. CASE Confirm(t) BY <1>11 DEF Confirm
<1>12. CASE Use(t) BY <1>12 DEF Use
<1>13. CASE Clear(t) BY <1>13 DEF Clear
<1>14. CASE ReapTake(t) BY <1>14 DEF ReapTake
<1>15. CASE ReapStart(t) BY <1>15 DEF ReapStart
<1>16. CASE Merge(t) BY <1>16 DEF Merge
<1>17. CASE Merged(t) BY <1>17 DEF Merged
<1>18. CASE Wait(t) BY <1>18 DEF Wait
<1>19. CASE TakeApart(t) BY <1>19 DEF TakeApart
<1>20. CASE Return(t) BY <1>20 DEF Return, Emptied
<1>21. QED BY <1>1, <1>2, <1>3, <1>4, <1>5, <1>6, <1>7, <1>8, <1>9, <1>10, <1>11, <1>12,
    <1>13, <1>14, <1>15, <1>16, <1>17, <1>18, <1>19, <1>20, Zenon DEF Step

(* An atls keeps one place.                                                 *)
LEMMA OnePlaceStep ==
    ASSUME NoneApart, IInv, NEW t \in Threads, Step(t) PROVE OnePlace'
<1>1. CASE Join(t) \/ Obtain(t) \/ FreeOwn(t) \/ Take(t) \/ Read(t) \/ Publish(t) \/
            Confirm(t) \/ Use(t) \/ Clear(t) \/ ReapStart(t) \/ Merge(t) \/ Merged(t) \/
            Wait(t) \/ TakeApart(t)
  <2>1. UNCHANGED <<dead, life, tls, hold>> BY <1>1 DEF Join, Obtain, FreeOwn, Take, Read,
        Publish, Confirm, Use, Clear, ReapStart, Merge, Merged, Wait, TakeApart
  <2> QED BY <2>1, IInv DEF IInv, OnePlace
<1> USE NoneApart, IInv DEF NoneApart, IInv, OnePlace, Types, Holding
<1>2. CASE New(t) BY <1>2 DEF New
<1>3. CASE Adopt(t) BY <1>3 DEF Adopt
<1>4. CASE Exit(t) BY <1>4 DEF Exit
<1>5. CASE Bury(t) BY <1>5 DEF Bury
<1>6. CASE ReapTake(t) BY <1>6 DEF ReapTake
<1>7. CASE Return(t) BY <1>7 DEF Return, Emptied
<1> QED BY <1>1, <1>2, <1>3, <1>4, <1>5, <1>6, <1>7, Zenon DEF Step

(* A thread that holds an atls stays out of prepend_queue.                  *)
LEMMA HoldingStep ==
    ASSUME NoneApart, IInv, NEW t \in Threads, Step(t) PROVE Holding'
<1>1. CASE Join(t) \/ Obtain(t) \/ FreeOwn(t) \/ Take(t) \/ Merge(t) \/ Wait(t)
  <2>1. UNCHANGED <<hold, rp, st, tls>> BY <1>1 DEF Join, Obtain, FreeOwn, Take, Merge,
        Wait
  <2> QED BY <2>1, IInv DEF IInv, Holding
<1> USE NoneApart, IInv DEF NoneApart, IInv, Holding, Types, OnePlace, Published
<1>2. CASE New(t) BY <1>2 DEF New
<1>3. CASE Adopt(t) BY <1>3 DEF Adopt
<1>4. CASE Exit(t) BY <1>4 DEF Exit
<1>5. CASE Bury(t) BY <1>5 DEF Bury
<1>6. CASE Read(t) BY <1>6 DEF Read
<1>7. CASE Publish(t) BY <1>7 DEF Publish
<1>8. CASE Confirm(t) BY <1>8 DEF Confirm
<1>9. CASE Use(t) BY <1>9 DEF Use
<1>10. CASE Clear(t) BY <1>10 DEF Clear
<1>11. CASE ReapTake(t) BY <1>11 DEF ReapTake
<1>12. CASE ReapStart(t) BY <1>12 DEF ReapStart
<1>13. CASE Merged(t) BY <1>13 DEF Merged
<1>14. CASE TakeApart(t) BY <1>14 DEF TakeApart
<1>15. CASE Return(t) BY <1>15 DEF Return, Emptied
<1> QED BY <1>1, <1>2, <1>3, <1>4, <1>5, <1>6, <1>7, <1>8, <1>9, <1>10, <1>11, <1>12,
          <1>13, <1>14, <1>15, Zenon DEF Step

(* Merging all blocks comes before waiting.                                 *)
LEMMA HomesStep ==
    ASSUME NoneApart, IInv, NEW t \in Threads, Step(t) PROVE Homes'
<1>1. CASE Join(t) \/ Adopt(t) \/ Take(t) \/ Read(t) \/ Publish(t) \/ Confirm(t) \/ Use(t)
            \/ Clear(t) \/ Wait(t)
  <2>1. UNCHANGED <<home, life, hold, rp>> BY <1>1 DEF Join, Adopt, Take, Read, Publish,
        Confirm, Use, Clear, Wait
  <2> QED BY <2>1, IInv DEF IInv, Homes
<1> USE NoneApart, IInv DEF NoneApart, IInv, Homes, Types, OnePlace, Holding
<1>2. CASE New(t) BY <1>2 DEF New
<1>3. CASE Exit(t) BY <1>3 DEF Exit
<1>4. CASE Bury(t) BY <1>4 DEF Bury
<1>5. CASE Obtain(t) BY <1>5 DEF Obtain
<1>6. CASE FreeOwn(t) BY <1>6 DEF FreeOwn, Emptied
<1>7. CASE ReapTake(t) BY <1>7 DEF ReapTake
<1>8. CASE ReapStart(t) BY <1>8 DEF ReapStart
<1>9. CASE Merge(t) BY <1>9 DEF Merge
<1>10. CASE Merged(t) BY <1>10 DEF Merged
<1>11. CASE TakeApart(t) BY <1>11 DEF TakeApart
<1>12. CASE Return(t) BY <1>12 DEF Return, Emptied
<1> QED BY <1>1, <1>2, <1>3, <1>4, <1>5, <1>6, <1>7, <1>8, <1>9, <1>10, <1>11, <1>12,
          Zenon DEF Step

(* A block is not emptied under a thread that frees a node of it.           *)
LEMMA InUseStep ==
    ASSUME NoneApart, IInv, NEW t \in Threads, Step(t) PROVE InUse'
<1>1. CASE Join(t) \/ Adopt(t) \/ Exit(t) \/ Bury(t) \/ Publish(t) \/ Confirm(t) \/
            Clear(t) \/ ReapTake(t) \/ ReapStart(t) \/ Merged(t) \/ Wait(t) \/
            TakeApart(t)
  <2>1. UNCHANGED <<blk, home>> BY <1>1 DEF Join, Adopt, Exit, Bury, Publish, Confirm,
        Clear, ReapTake, ReapStart, Merged, Wait, TakeApart
  <2> QED BY <2>1, IInv DEF IInv, InUse
<1> USE NoneApart, IInv DEF NoneApart, IInv, InUse, Types, Holding
<1>2. CASE New(t) BY <1>2 DEF New
<1>3. CASE Obtain(t) BY <1>3 DEF Obtain
<1>4. CASE FreeOwn(t) BY <1>4 DEF FreeOwn, Emptied
<1>5. CASE Take(t) BY <1>5 DEF Take
<1>6. CASE Read(t) BY <1>6 DEF Read
<1>7. CASE Use(t) BY <1>7 DEF Use
<1>8. CASE Merge(t) BY <1>8 DEF Merge
<1>9. CASE Return(t) BY <1>9 DEF Return, Emptied
<1> QED BY <1>1, <1>2, <1>3, <1>4, <1>5, <1>6, <1>7, <1>8, <1>9, Zenon DEF Step

(* The hazard pointer of a thread stays what it has published.              *)
LEMMA PublishedStep ==
    ASSUME NoneApart, IInv, NEW t \in Threads, Step(t) PROVE Published'
<1>1. CASE Bury(t) \/ Obtain(t) \/ ReapTake(t) \/ Merge(t) \/ Merged(t) \/ Wait(t) \/
            TakeApart(t) \/ Return(t)
  <2>1. UNCHANGED <<tls, joined, st, blk, bt, hazard>> BY <1>1 DEF Bury, Obtain, ReapTake,
        Merge, Merged, Wait, TakeApart, Return
  <2> QED BY <2>1, IInv DEF IInv, Published
<1> USE NoneApart, IInv DEF NoneApart, IInv, Published, Types, OnePlace, Holding, InUse
<1>2. CASE New(t) BY <1>2 DEF New
<1>3. CASE Join(t) BY <1>3 DEF Join
<1>4. CASE Adopt(t) BY <1>4 DEF Adopt
<1>5. CASE Exit(t) BY <1>5 DEF Exit
<1>6. CASE FreeOwn(t) BY <1>6 DEF FreeOwn, Emptied
<1>7. CASE Take(t) BY <1>7 DEF Take
<1>8. CASE Read(t) BY <1>8 DEF Read
<1>9. CASE Publish(t) BY <1>9 DEF Publish
<1>10. CASE Confirm(t) BY <1>10 DEF Confirm
<1>11. CASE Use(t) BY <1>11 DEF Use
<1>12. CASE Clear(t) BY <1>12 DEF Clear
<1>13. CASE ReapStart(t) BY <1>13 DEF ReapStart
<1> QED BY <1>1, <1>2, <1>3, <1>4, <1>5, <1>6, <1>7, <1>8, <1>9, <1>10, <1>11, <1>12,
          <1>13, Zenon DEF Step

(* A reaper meets the hazard pointer of a thread that uses an owner.        *)
LEMMA ProtectedStep ==
    ASSUME NoneApart, IInv, NEW t \in Threads, Step(t) PROVE Protected'
<1>1. CASE Join(t) \/ Obtain(t) \/ FreeOwn(t) \/ Take(t) \/ Merge(t)
  <2>1. UNCHANGED <<st, bt, life, hold, rp, tls, wait>> BY <1>1 DEF Join, Obtain, FreeOwn,
        Take, Merge
  <2> QED BY <2>1, IInv DEF IInv, Protected
<1> USE NoneApart, IInv DEF NoneApart, IInv, Protected, Types, OnePlace, Holding, Homes,
    InUse, Published
<1>2. CASE New(t) BY <1>2 DEF New
<1>3. CASE Adopt(t) BY <1>3 DEF Adopt
<1>4. CASE Exit(t) BY <1>4 DEF Exit
<1>5. CASE Bury(t) BY <1>5 DEF Bury
<1>6. CASE Read(t) BY <1>6 DEF Read
<1>7. CASE Publish(t) BY <1>7 DEF Publish
<1>8. CASE Confirm(t) BY <1>8 DEF Confirm
<1>9. CASE Use(t) BY <1>9 DEF Use
<1>10. CASE Clear(t) BY <1>10 DEF Clear
<1>11. CASE ReapTake(t) BY <1>11 DEF ReapTake
<1>12. CASE ReapStart(t) BY <1>12 DEF ReapStart
<1>13. CASE Merged(t) BY <1>13 DEF Merged
<1>14. CASE Wait(t) BY <1>14 DEF Wait
<1>15. CASE TakeApart(t) BY <1>15 DEF TakeApart
<1>16. CASE Return(t) BY <1>16 DEF Return, Emptied
<1> QED BY <1>1, <1>2, <1>3, <1>4, <1>5, <1>6, <1>7, <1>8, <1>9, <1>10, <1>11, <1>12,
          <1>13, <1>14, <1>15, <1>16, Zenon DEF Step

(* A hazard pointer is cleared before the thread goes on.                   *)
LEMMA AtWorkStep ==
    ASSUME NoneApart, IInv, NEW t \in Threads, Step(t) PROVE AtWork'
<1>1. CASE Join(t) \/ Bury(t) \/ Obtain(t) \/ FreeOwn(t) \/ Take(t) \/ ReapTake(t) \/
            ReapStart(t) \/ Merge(t) \/ Merged(t) \/ Wait(t) \/ TakeApart(t) \/ Return(t)
  <2>1. UNCHANGED <<hazard, tls, st>> BY <1>1 DEF Join, Bury, Obtain, FreeOwn, Take,
        ReapTake, ReapStart, Merge, Merged, Wait, TakeApart, Return
  <2> QED BY <2>1, IInv DEF IInv, AtWork
<1> USE NoneApart, IInv DEF NoneApart, IInv, AtWork, Types, OnePlace, Holding, Published
<1>2. CASE New(t) BY <1>2 DEF New
<1>3. CASE Adopt(t) BY <1>3 DEF Adopt
<1>4. CASE Exit(t) BY <1>4 DEF Exit
<1>5. CASE Read(t)
  <2>1. UNCHANGED <<tls, hazard>> /\ \A u \in Threads : st[u] # "other" => st'[u] # "other"
    BY <1>5 DEF Read
  <2> QED BY <2>1
<1>6. CASE Publish(t) BY <1>6 DEF Publish
<1>7. CASE Confirm(t)
  <2>1. UNCHANGED <<tls, hazard>> /\ \A u \in Threads : st[u] # "other" => st'[u] # "other"
    BY <1>7 DEF Confirm
  <2> QED BY <2>1
<1>8. CASE Use(t)
  <2>1. UNCHANGED <<tls, hazard>> /\ \A u \in Threads : st[u] # "other" => st'[u] # "other"
    BY Zenon, <1>8 DEF Use
  <2> QED BY <2>1
<1>9. CASE Clear(t) BY <1>9 DEF Clear
<1> QED BY <1>1, <1>2, <1>3, <1>4, <1>5, <1>6, <1>7, <1>8, <1>9, Zenon DEF Step

-----------------------------------------------------------------------------
(* The invariant holds at first...                                          *)
LEMMA InitIInv == ASSUME NoneApart, Init PROVE IInv
BY DEF NoneApart, Init, IInv, Types, States, Phases, OnePlace, Holding, Homes, InUse,
    Published, Protected, AtWork

(* ... and every step keeps it.                                             *)
LEMMA NextIInv == ASSUME NoneApart, IInv, [Next]_vars PROVE IInv'
<1>1. CASE UNCHANGED vars
    <2> USE IInv, <1>1 DEF vars, IInv
    <2>1. Types' BY DEF Types
    <2>2. OnePlace' BY Zenon DEF OnePlace
    <2>3. Holding' BY DEF Holding
    <2>4. Homes' BY DEF Homes
    <2>5. InUse' BY DEF InUse
    <2>6. Published' BY DEF Published
    <2>7. Protected' BY DEF Protected
    <2>8. AtWork' BY DEF AtWork
    <2> QED BY <2>1, <2>2, <2>3, <2>4, <2>5, <2>6, <2>7, <2>8
<1>2. CASE Next
    <2>1. PICK t \in Threads : Step(t) BY <1>2 DEF Next
    <2>2. QED
        BY NoneApart, IInv, <2>1, TypesStep, OnePlaceStep, HoldingStep, HomesStep, InUseStep,
           PublishedStep, ProtectedStep, AtWorkStep, Zenon DEF IInv
<1>3. QED BY [Next]_vars, <1>1, <1>2

(* The protocol of the hazard pointers keeps its invariant.                 *)
THEOREM Invariant == ASSUME NoneApart PROVE Spec => []IInv
<1>1. Init => IInv BY NoneApart, InitIInv
<1>2. IInv /\ [Next]_vars => IInv' BY NoneApart, NextIInv
<1>3. QED BY <1>1, <1>2, PTL DEF Spec

(* An owner stays as long as a thread uses its queue: prepend_queue never   *)
(* exchanges the tail of a queue that reap_dead takes apart or has returned.*)
THEOREM OwnerStaysHolds == ASSUME NoneApart PROVE Spec => []OwnerStays
<1>1. IInv => OwnerStays
    BY NoneApart DEF NoneApart, IInv, Types, Published, Protected, OwnerStays
<1>2. QED BY <1>1, NoneApart, Invariant, PTL

(* A reaper that spins on a hazard pointer waits for a thread that is in    *)
(* prepend_queue, so that it does not wait for ever.                        *)
THEOREM WaitsForWorkHolds == ASSUME NoneApart PROVE Spec => []WaitsForWork
<1>1. IInv => WaitsForWork
    BY NoneApart DEF NoneApart, IInv, Types, Holding, AtWork, WaitsForWork
<1>2. QED BY <1>1, NoneApart, Invariant, PTL
=============================================================================
