----------------------- MODULE SharedSpinLock_proofs ------------------------
(***************************************************************************)
(* The lock is correct for every finite set of threads.                    *)
(*                                                                         *)
(* MutualExclusion is not inductive: that a writer which sees zero readers *)
(* may enter rests on readers_count being the number of counted threads,   *)
(* and that a reader which sees write_now down may enter rests on          *)
(* write_now being up whenever a thread owns it.  The inductive invariant  *)
(* is therefore the three facts together.                                  *)
(***************************************************************************)
EXTENDS SharedSpinLock, FiniteSetTheorems, TLAPS

\* A step has three tries of the SMT solver and one of Zenon.
USE SMTT(20), SMTT(30), SMTT(40), Zenon

PCTypeOK ==
    /\ write_now \in BOOLEAN
    /\ readers_count \in Int
    /\ pc \in [Threads -> PCs]

IInv == PCTypeOK /\ ReadersBalanced /\ OwnerUnique /\ MutualExclusion

\* A set of threads is finite and its cardinality is a number within the
\* number of threads.
LEMMA ThreadSetFinite ==
    ASSUME NEW S \in SUBSET Threads
    PROVE  /\ IsFiniteSet(S)
           /\ Cardinality(S) \in Nat
           /\ Cardinality(S) <= Cardinality(Threads)
           /\ Cardinality(Threads) \in Nat
           /\ Cardinality(S) = 0 <=> S = {}
  BY ThreadsAssumption, FS_Subset, FS_CardinalityType, FS_EmptySet

\* The inductive invariant holds when the lock is constructed.
LEMMA InitIInv == Init => IInv
<1> SUFFICES ASSUME Init PROVE IInv
  OBVIOUS
<1>1. PCTypeOK
  <2>1. write_now \in BOOLEAN
    BY Zenon DEF Init
  <2>2. readers_count \in Int /\ pc \in [Threads -> PCs]
    BY DEF Init, PCs
  <2> QED BY <2>1, <2>2 DEF PCTypeOK
<1>2. At("exclusive") = {} /\ Owners = {} /\ Counted = {}
  BY DEF Init, At, Owners, Counted
<1>3. OwnerUnique /\ MutualExclusion
  BY <1>2 DEF Init, OwnerUnique, MutualExclusion
<1>4. ReadersBalanced
  BY <1>2, FS_EmptySet DEF Init, ReadersBalanced
<1> QED BY <1>1, <1>3, <1>4 DEF IInv

\* How one thread's move changes the set of counted threads.
LEMMA CountedMove ==
    ASSUME PCTypeOK, NEW t \in Threads, NEW from \in PCs, NEW to \in PCs,
           Goto(t, from, to)
    PROVE  LET C == {"recheck", "retreat", "shared"}
           IN  /\ from \in C <=> t \in Counted
               /\ to \in C    => Counted' = Counted \cup {t}
               /\ to \notin C => Counted' = Counted \ {t}
  BY DEF PCTypeOK, Goto, Counted, At, PCs

\* Every step keeps readers_count equal to the number of counted threads:
\* the only steps that change one side change the other by as much.
LEMMA BalancedStep == PCTypeOK /\ ReadersBalanced /\ [Next]_vars => ReadersBalanced'
<1> SUFFICES ASSUME PCTypeOK, ReadersBalanced, [Next]_vars
             PROVE  ReadersBalanced'
  OBVIOUS
<1> Counted \in SUBSET Threads
  BY DEF Counted, At
<1>0. IsFiniteSet(Counted) /\ Cardinality(Counted) \in Nat
  BY ThreadSetFinite
<1> USE DEF PCs
<1>1. ASSUME NEW t \in Threads, Lock(t) PROVE ReadersBalanced'
  <2>1. Counted' = Counted
    BY <1>1, CountedMove DEF Lock
  <2> QED BY <1>1, <2>1 DEF Lock, ReadersBalanced
<1>2. ASSUME NEW t \in Threads, LockShared(t) PROVE ReadersBalanced'
  <2>1. Counted' = Counted
    BY <1>2, CountedMove DEF LockShared
  <2> QED BY <1>2, <2>1 DEF LockShared, ReadersBalanced
<1>3. ASSUME NEW t \in Threads, Exchange(t) \/ Drain(t) \/ Unlock(t) \/ Wait(t)
      PROVE ReadersBalanced'
  <2>1. Counted' = Counted
    BY <1>3, CountedMove DEF Exchange, Drain, Unlock, Wait
  <2> QED BY <1>3, <2>1 DEF Exchange, Drain, Unlock, Wait, ReadersBalanced
<1>4. ASSUME NEW t \in Threads, AddReader(t) PROVE ReadersBalanced'
  <2>1. t \notin Counted /\ Counted' = Counted \cup {t}
    BY <1>4, CountedMove DEF AddReader
  <2>2. Cardinality(Counted \cup {t}) = Cardinality(Counted) + 1
    BY <2>1, <1>0, FS_AddElement
  <2> QED BY <1>4, <2>1, <2>2 DEF AddReader, ReadersBalanced
<1>5. ASSUME NEW t \in Threads, Recheck(t) PROVE ReadersBalanced'
  <2>1. t \in Counted /\ Counted' = Counted \cup {t}
    BY <1>5, CountedMove DEF Recheck
  <2> QED BY <1>5, <2>1 DEF Recheck, ReadersBalanced
<1>6. ASSUME NEW t \in Threads, Retreat(t) \/ UnlockShared(t)
      PROVE ReadersBalanced'
  <2>1. t \in Counted /\ Counted' = Counted \ {t}
    BY <1>6, CountedMove DEF Retreat, UnlockShared
  <2>2. Cardinality(Counted \ {t}) = Cardinality(Counted) - 1
    BY <2>1, <1>0, FS_RemoveElement
  <2> QED BY <1>6, <2>1, <2>2 DEF Retreat, UnlockShared, ReadersBalanced
<1>7. CASE UNCHANGED vars
  BY <1>7 DEF vars, ReadersBalanced, Counted, At
<1> QED BY <1>1, <1>2, <1>3, <1>4, <1>5, <1>6, <1>7 DEF Next, Step

\* Every step keeps the inductive invariant.
LEMMA StepIInv == IInv /\ [Next]_vars => IInv'
<1> SUFFICES ASSUME IInv, [Next]_vars PROVE IInv'
  OBVIOUS
<1>1. ReadersBalanced'
  BY BalancedStep DEF IInv
<1>2. PCTypeOK'
  <2> USE DEF Lock, LockShared, Exchange, Drain, Unlock, Wait, AddReader, Recheck,
              Retreat, UnlockShared, Next, Step, vars
  <2>1. (write_now \in BOOLEAN)'
    BY Zenon DEF IInv, PCTypeOK
  <2>2. (readers_count \in Int)'
    BY DEF IInv, PCTypeOK
  <2>3. (pc \in [Threads -> PCs])'
    BY DEF IInv, PCTypeOK, Goto, PCs
  <2> QED BY <2>1, <2>2, <2>3 DEF PCTypeOK
<1>3. readers_count = 0 => At("shared") = {}
  <2>1. Counted \in SUBSET Threads
    BY DEF Counted, At
  <2>2. readers_count = 0 => Counted = {}
    BY Zenon, <2>1, ThreadSetFinite DEF IInv, ReadersBalanced
  <2> QED BY <2>2 DEF Counted
<1> USE DEF PCTypeOK, OwnerUnique, MutualExclusion, Owners, At, Goto, PCs
<1>4. ASSUME NEW t \in Threads, Lock(t) \/ LockShared(t) \/ Wait(t) \/ AddReader(t)
      PROVE  OwnerUnique' /\ MutualExclusion'
  BY <1>4 DEF IInv, Lock, LockShared, Wait, AddReader
<1>5. ASSUME NEW t \in Threads, Exchange(t) PROVE OwnerUnique' /\ MutualExclusion'
  BY <1>5 DEF IInv, Exchange
<1>6. ASSUME NEW t \in Threads, Drain(t) PROVE OwnerUnique' /\ MutualExclusion'
  BY <1>6, <1>3 DEF IInv, Drain
<1>7. ASSUME NEW t \in Threads, Unlock(t) PROVE OwnerUnique' /\ MutualExclusion'
  BY <1>7 DEF IInv, Unlock
<1>8. ASSUME NEW t \in Threads, Recheck(t) PROVE OwnerUnique' /\ MutualExclusion'
  BY <1>8 DEF IInv, Recheck
<1>9. ASSUME NEW t \in Threads, Retreat(t) \/ UnlockShared(t)
      PROVE  OwnerUnique' /\ MutualExclusion'
  BY <1>9 DEF IInv, Retreat, UnlockShared
<1>10. ASSUME UNCHANGED vars PROVE OwnerUnique' /\ MutualExclusion'
  BY <1>10 DEF IInv, vars
<1> HIDE DEF PCTypeOK, OwnerUnique, MutualExclusion
<1>11. OwnerUnique' /\ MutualExclusion'
  BY <1>4, <1>5, <1>6, <1>7, <1>8, <1>9, <1>10 DEF Next, Step
<1> QED BY <1>1, <1>2, <1>11 DEF IInv

\* The inductive invariant holds throughout.
LEMMA Invariance == Spec => []IInv
  BY InitIInv, StepIInv, PTL DEF Spec

\* For any number of threads, readers_count stays between zero and that
\* number, and the control state is well formed.
THEOREM TypeCorrect == Spec => []TypeOK
<1>1. IInv => TypeOK
  <2> SUFFICES ASSUME IInv PROVE readers_count \in 0..Cardinality(Threads)
    BY DEF IInv, PCTypeOK, TypeOK
  <2>1. Counted \in SUBSET Threads
    BY DEF Counted, At
  <2> QED BY <2>1, ThreadSetFinite DEF IInv, ReadersBalanced
<1> QED BY <1>1, Invariance, PTL

\* For any number of threads, a thread between lock() and unlock() is alone.
THEOREM MutualExclusionHolds == Spec => []MutualExclusion
<1>1. IInv => MutualExclusion
  BY DEF IInv
<1> QED BY <1>1, Invariance, PTL

\* For any number of threads, readers_count is the number of readers inside
\* the protocol, and write_now has exactly one owner while it is up.
THEOREM BookkeepingHolds == Spec => [](ReadersBalanced /\ OwnerUnique)
<1>1. IInv => ReadersBalanced /\ OwnerUnique
  BY DEF IInv
<1> QED BY <1>1, Invariance, PTL

\* Every step of the lock is a step of the abstract readers-writer lock or
\* leaves its holders alone: Drain acquires exclusively, Recheck acquires
\* shared when write_now is down, Unlock and UnlockShared release.
LEMMA StepRefines == IInv /\ [Next]_vars => [Abstract!Next]_Abstract!vars
<1> SUFFICES ASSUME IInv, [Next]_vars PROVE [Abstract!Next]_Abstract!vars
  OBVIOUS
<1>0. readers_count = 0 => At("shared") = {}
  <2>1. Counted \in SUBSET Threads
    BY DEF Counted, At
  <2>2. readers_count = 0 => Counted = {}
    BY Zenon, <2>1, ThreadSetFinite DEF IInv, ReadersBalanced
  <2> QED BY <2>2 DEF Counted
<1> USE DEF IInv, PCTypeOK, PCs, At, Goto
<1>1. ASSUME NEW t \in Threads,
             Lock(t) \/ LockShared(t) \/ Exchange(t) \/ Wait(t) \/ AddReader(t) \/ Retreat(t)
      PROVE  UNCHANGED Abstract!vars
  BY <1>1 DEF Lock, LockShared, Exchange, Wait, AddReader, Retreat, Abstract!vars
<1>2. ASSUME NEW t \in Threads, Drain(t) PROVE Abstract!AcquireExclusive(t)
  <2>1. At("exclusive") = {}
    BY <1>2 DEF Drain, OwnerUnique, Owners
  <2> QED BY <1>2, <1>0, <2>1 DEF Drain, Abstract!AcquireExclusive
<1>3. ASSUME NEW t \in Threads, Unlock(t) PROVE Abstract!ReleaseExclusive(t)
  BY <1>3 DEF Unlock, Abstract!ReleaseExclusive
<1>4. ASSUME NEW t \in Threads, Recheck(t)
      PROVE  Abstract!AcquireShared(t) \/ UNCHANGED Abstract!vars
  <2>1. CASE write_now
    BY <1>4, <2>1 DEF Recheck, Abstract!vars
  <2>2. CASE ~write_now
    BY <1>4, <2>2 DEF Recheck, OwnerUnique, Owners, Abstract!AcquireShared
  <2> QED BY <2>1, <2>2
<1>5. ASSUME NEW t \in Threads, UnlockShared(t) PROVE Abstract!ReleaseShared(t)
  BY <1>5 DEF UnlockShared, Abstract!ReleaseShared
<1>6. ASSUME UNCHANGED vars PROVE UNCHANGED Abstract!vars
  BY <1>6 DEF vars, Abstract!vars
<1> HIDE DEF IInv, PCTypeOK, PCs, At, Goto
<1> QED BY <1>1, <1>2, <1>3, <1>4, <1>5, <1>6 DEF Next, Step, Abstract!Next

\* For any number of threads, SharedSpinLock implements the readers-writer
\* lock that MallocInfo relies on.
THEOREM Refinement == Spec => ImplementsRWLock
<1>1. Init => Abstract!Init
  BY DEF Init, Abstract!Init, At
<1> QED BY <1>1, StepRefines, Invariance, PTL DEF Spec, ImplementsRWLock, Abstract!Spec

\* For any number of threads, no reader enters or gets past the wait loop of
\* lock_shared() while write_now stays up.
THEOREM WriterPriority == Spec => NoReaderPassesWriter
<1>1. IInv /\ [Next]_vars =>
        [write_now /\ write_now' =>
           At("shared")' \subseteq At("shared") /\ At("add")' \subseteq At("add")]_vars
  BY DEF IInv, PCTypeOK, PCs, At, Goto, vars, Next, Step, Lock, LockShared, Exchange,
         Drain, Unlock, Wait, AddReader, Recheck, Retreat, UnlockShared
<1> QED BY <1>1, Invariance, PTL DEF Spec, NoReaderPassesWriter
=============================================================================
