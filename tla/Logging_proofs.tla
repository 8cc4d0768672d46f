--------------------------- MODULE Logging_proofs ---------------------------
(***************************************************************************)
(* Proofs about Logging, for any number of threads, any capacity, table    *)
(* size and counter width.                                                 *)
(*                                                                         *)
(* TypeOK and Owned are inductive together; Roomy rests on them, and so    *)
(* does the account of what is logged, which also needs that main() joins  *)
(* its threads.                                                            *)
(***************************************************************************)
EXTENDS Logging, FiniteSetTheorems, TLAPS

\* A step that names no prover is tried with Zenon, the SMT solver, and Zenon again.
USE ZenonT(5), SMTT(20), SMTT(30), SMTT(40), ZenonT(20)

\* An empty table, and the sum of two, are counts.
LEMMA NoneCounts == None \in Counts
  BY DEF None, Counts

LEMMA PlusCounts ==
  ASSUME NEW f \in Counts, NEW g \in Counts
  PROVE  Plus(f, g) \in Counts /\ \A c \in Cells : Plus(f, g)[c] = f[c] + g[c]
  BY SMTT(20), SMTT(30) DEF Plus, Counts

\* What a thread's object is, by where the thread is; the finalizer's loop
\* stays within its bounds.
Owned ==
    /\ OwnObject
    /\ current[Main] = 0 /\ fin.i <= fin.last
    /\ \A t \in Tids : pc[t] = "log" => current[t] # NoIndex /\ arg[t] \in Cells

LEMMA CounterWidth == CountMod \in Nat \ {0, 1}
  BY ConstAssumption

LEMMA InitType == Init => TypeOK
  <1> SUFFICES ASSUME Init PROVE TypeOK
    OBVIOUS
  <1>1. NoCounts \in [Index -> Counts]
    BY NoneCounts DEF NoCounts
  <1>2. 0 \in Index /\ 1 \in 1..MAX_THREADS
    BY ConstAssumption, SMTT(20), SMTT(30) DEF Index
  <1>3. StartCurrent \in [Tids -> Index \cup {NoIndex}]
    BY <1>2 DEF StartCurrent
  <1>4. StartPc \in [Tids -> {"none", "run", "log", "exit", "done"}]
    BY DEF StartPc
  <1>5. \A b \in BOOLEAN : First(b) \in [Index -> BOOLEAN]
    BY DEF First
  <1>7. /\ hooks \in [Index -> BOOLEAN] /\ writing \in [Index -> BOOLEAN]
        /\ buffer_f \in [Index -> BOOLEAN]
    BY <1>5 DEF Init
  <1>8. /\ size = 1 /\ aliveThreads = 1 /\ current = StartCurrent
        /\ keys = [i \in Index |-> {}] /\ count = NoCounts /\ stdio = NoCounts
        /\ pc = StartPc /\ arg = [t \in Tids |-> NoAccess] /\ fin = Idle
        /\ made = NoCounts /\ lost = NoCounts
        /\ file = NoCounts /\ record = NoCounts /\ left = NoCounts /\ kills = 0
    BY Zenon DEF Init
  <1>6. Idle \in [at : {"no", "end", "aborted", "asserted", "crashed"} \cup FinSteps,
                  i : Index, last : Index]
    BY <1>2 DEF Idle
  <1> QED
    BY <1>1, <1>2, <1>3, <1>4, <1>6, <1>7, <1>8, SMTT(20), SMTT(30) DEF TypeOK

LEMMA InitOwned == Init => Owned
  BY ConstAssumption, SMTT(20), SMTT(30)
     DEF Init, Idle, Owned, OwnObject, StartCurrent, StartPc, Tids, NoIndex

-----------------------------------------------------------------------------
(* Types *)

\* One step per action; FlushLog is shared by two of them.
LEMMA FlushType ==
  ASSUME TypeOK, NEW i \in Index, FlushLog(i)
  PROVE  /\ keys' \in [Index -> SUBSET Records]
         /\ count' \in [Index -> Counts] /\ stdio' \in [Index -> Counts]
  <1>1. Plus(stdio[i], count[i]) \in Counts
    BY PlusCounts DEF TypeOK
  <1> QED
    BY <1>1, NoneCounts DEF TypeOK, FlushLog

LEMMA TypeStep == TypeOK /\ Owned /\ [Next]_vars => TypeOK'
  <1> SUFFICES ASSUME TypeOK, Owned, [Next]_vars PROVE TypeOK'
    OBVIOUS
  <1>0. 0 \in Index /\ 1 \in 1..MAX_THREADS /\ MAX_THREADS \in Nat
    BY ConstAssumption, SMTT(20), SMTT(30) DEF Index
  <1>1. ASSUME NEW t \in Tids, NEW v \in Workers, NEW opened \in BOOLEAN,
               NEW w \in BOOLEAN, NEW created \in BOOLEAN,
               PthreadCreate(t, v, opened, w, created)
        PROVE  TypeOK'
    <2>1. CASE ~(current[t] # NoIndex /\ hooks[current[t]])
      BY <1>1, <2>1 DEF TypeOK, PthreadCreate, threadVars, diskVars, historyVars
    <2>2. CASE /\ current[t] # NoIndex /\ hooks[current[t]]
               /\ size >= MAX_THREADS
      BY <1>1, <2>2 DEF TypeOK, PthreadCreate, ThreadCreate, threadVars, diskVars, historyVars
    <2>3. CASE /\ current[t] # NoIndex /\ hooks[current[t]]
               /\ ~(size >= MAX_THREADS)
      <3>1. size \in Index /\ size' \in 1..MAX_THREADS /\ aliveThreads' \in Int
        BY <1>0, <1>1, <2>3, SMTT(20), SMTT(30) DEF TypeOK, PthreadCreate, ThreadCreate, Index
      <3>2. current' \in [Tids -> Index \cup {NoIndex}]
        <4>1. current' = [current EXCEPT ![v] = IF created THEN size ELSE @]
          BY <1>1, <2>3 DEF PthreadCreate, ThreadCreate
        <4>2. current \in [Tids -> Index \cup {NoIndex}]
          BY DEF TypeOK
        <4> QED
          BY <3>1, <4>1, <4>2 DEF Tids
      <3>3. hooks' \in [Index -> BOOLEAN]
        BY Zenon, <3>1, <1>1, <2>3 DEF TypeOK, PthreadCreate, ThreadCreate
      <3>4. writing' \in [Index -> BOOLEAN] /\ buffer_f' \in [Index -> BOOLEAN]
        BY <3>1, <1>1, <2>3, SMTT(20), SMTT(30) DEF TypeOK, PthreadCreate, ThreadCreate, Construct
      <3>5. pc' \in [Tids -> {"none", "run", "log", "exit", "done"}]
        BY <1>1, <2>3, SMTT(20), SMTT(30) DEF TypeOK, PthreadCreate, ThreadCreate
      <3> QED
        BY <1>1, <2>3, <3>1, <3>2, <3>3, <3>4, <3>5
           DEF TypeOK, PthreadCreate, ThreadCreate, diskVars, historyVars
    <2> QED
      BY <2>1, <2>2, <2>3
  <1>2. ASSUME NEW t \in Tids, EndThread(t) PROVE TypeOK'
    BY <1>2, SMTT(20), SMTT(30) DEF TypeOK, EndThread, threadVars, diskVars, historyVars
  <1>3. ASSUME NEW t \in Tids, NEW c \in Cells, BeginLog(t, c) PROVE TypeOK'
    <2>1. CASE current[t] = NoIndex
      BY <1>3, <2>1 DEF TypeOK, BeginLog, Crash, diskVars, historyVars
    <2>2. CASE current[t] # NoIndex
      <3>1. current[t] \in Index
        BY <2>2, SMTT(20), SMTT(30) DEF TypeOK
      <3>2. /\ hooks' \in [Index -> BOOLEAN]
            /\ pc' \in [Tids -> {"none", "run", "log", "exit", "done"}]
            /\ arg' \in [Tids -> Cells \cup {NoAccess}]
        BY Zenon, <1>3, <2>2 DEF TypeOK, BeginLog
      <3>3. /\ keys' \in [Index -> SUBSET Records]
            /\ count' \in [Index -> Counts] /\ stdio' \in [Index -> Counts]
        <4>1. CASE FlushLog(current[t])
          BY <4>1, <3>1, FlushType
        <4>2. CASE UNCHANGED <<keys, count, stdio>>
          BY <4>2 DEF TypeOK
        <4> QED
          BY <4>1, <4>2, <1>3, <2>2 DEF BeginLog
      <3>4. fin' = fin \/ fin' = [fin EXCEPT !.at = "crashed"]
        BY <1>3, <2>2 DEF BeginLog, Crash
      <3> QED
        BY <1>3, <3>2, <3>3, <3>4 DEF TypeOK, BeginLog, diskVars, historyVars
    <2> QED
      BY <2>1, <2>2
  <1>4. ASSUME NEW t \in Tids, EndLog(t) PROVE TypeOK'
    <2> DEFINE i == current[t]
               c == arg[t]
    <2>1. i \in Index /\ c \in Cells /\ c[1] \in Records
      BY <1>4 DEF TypeOK, Owned, EndLog, Cells
    <2>2. keys' = [keys EXCEPT ![i] = @ \cup {c[1]}]
      BY <1>4 DEF EndLog
    <2>3. keys' \in [Index -> SUBSET Records]
      BY <2>1, <2>2 DEF TypeOK
    <2>4. \A n \in Nat : Increment(n) \in Nat
      BY SMTT(20), SMTT(30) DEF Increment
    <2>5. count' = [count EXCEPT ![i][c] = Increment(@)]
      BY <1>4 DEF EndLog
    <2>6. count' \in [Index -> Counts]
      BY <2>1, <2>4, <2>5, SMTT(20), SMTT(30) DEF TypeOK, Counts
    <2>7. made' \in [Index -> Counts]
      BY <1>4, <2>1, SMTT(20), SMTT(30) DEF TypeOK, EndLog, Counts
    <2>8. lost' = [lost EXCEPT ![i][c] = IF count'[i][c] = 0 THEN @ + CountMod ELSE @]
      BY <1>4 DEF EndLog
    <2>9. lost' \in [Index -> Counts]
      BY <2>1, <2>8, CounterWidth, SMTT(20), SMTT(30) DEF TypeOK, Counts
    <2>10. /\ hooks' \in [Index -> BOOLEAN]
           /\ pc' \in [Tids -> {"none", "run", "log", "exit", "done"}]
           /\ arg' \in [Tids -> Cells \cup {NoAccess}]
      BY Zenon, <1>4 DEF TypeOK, EndLog
    <2> QED
      BY <1>4, <2>3, <2>6, <2>7, <2>9, <2>10 DEF TypeOK, EndLog, diskVars
  <1>5. ASSUME NEW t \in Tids, Exit(t) PROVE TypeOK'
    <2>1. size - 1 \in Index
      BY <1>0, SMTT(20), SMTT(30) DEF TypeOK, Index
    <2>2. /\ pc' \in [Tids -> {"none", "run", "log", "exit", "done"}]
          /\ hooks' \in [Index -> BOOLEAN]
      BY Zenon, <1>5 DEF TypeOK, Exit
    <2>3. fin' \in [at : {"no", "end", "aborted", "asserted", "crashed"} \cup FinSteps,
                    i : Index, last : Index]
      BY <1>0, <1>5, <2>1, SMTT(20), SMTT(30) DEF TypeOK, Exit, Crash, FinSteps
    <2> QED
      BY <1>5, <2>2, <2>3 DEF TypeOK, Exit, diskVars, historyVars
  <1>6. ASSUME NEW i \in Index, Spill(i) PROVE TypeOK'
    <2>1. Plus(file[i], stdio[i]) \in Counts
      BY PlusCounts DEF TypeOK
    <2> QED
      BY <1>6, <2>1, NoneCounts DEF TypeOK, Spill, historyVars
  <1>7. ASSUME Finalizer PROVE TypeOK'
    <2>0. fin.i \in Index /\ fin.last \in Index
      BY DEF TypeOK
    <2>1. CASE FinStop
      BY <2>1 DEF TypeOK, FinStop, FinGoto, FinSteps, diskVars, historyVars
    <2>2. CASE FinFlush
      <3>1. /\ keys' \in [Index -> SUBSET Records]
            /\ count' \in [Index -> Counts] /\ stdio' \in [Index -> Counts]
        <4>1. CASE FlushLog(fin.i)
          BY <4>1, <2>0, FlushType
        <4>2. CASE UNCHANGED <<keys, count, stdio>>
          BY <4>2 DEF TypeOK
        <4> QED
          BY <4>1, <4>2, <2>2 DEF FinFlush
      <3>2. fin' \in [at : {"no", "end", "aborted", "asserted", "crashed"} \cup FinSteps,
                      i : Index, last : Index]
        BY <2>2 DEF TypeOK, FinFlush, FinGoto, FinSteps
      <3> QED
        BY <2>2, <3>1, <3>2 DEF TypeOK, FinFlush, diskVars, historyVars
    <2>3. CASE FinClose
      <3>1. Plus(file[fin.i], stdio[fin.i]) \in Counts
        BY <2>0, PlusCounts DEF TypeOK
      <3> QED
        BY <2>3, <3>1, NoneCounts DEF TypeOK, FinClose, FinGoto, FinSteps, historyVars
    <2>4. CASE FinCat
      <3>1. Plus(record[fin.i], file[fin.i]) \in Counts
        BY <2>0, PlusCounts DEF TypeOK
      <3>2. record' \in [Index -> Counts]
        BY <2>4, <3>1 DEF TypeOK, FinCat
      <3>3. fin' \in [at : {"no", "end", "aborted", "asserted", "crashed"} \cup FinSteps,
                      i : Index, last : Index]
        BY <2>4 DEF TypeOK, FinCat, FinGoto, FinSteps
      <3> QED
        BY <2>4, <3>2, <3>3 DEF TypeOK, FinCat, threadVars, historyVars
    <2>5. CASE FinRemove
      <3>1. fin' \in [at : {"no", "end", "aborted", "asserted", "crashed"} \cup FinSteps,
                      i : Index, last : Index]
        <4>1. CASE fin.i = fin.last
          BY <2>5, <4>1 DEF TypeOK, FinRemove
        <4>2. CASE fin.i # fin.last
          <5>1. fin.i + 1 \in Index
            BY <2>0, <4>2, <1>0, SMTT(20), SMTT(30) DEF Index, Owned
          <5> QED
            BY Zenon, <2>5, <4>2, <5>1 DEF TypeOK, FinRemove, FinSteps
        <4> QED
          BY <4>1, <4>2
      <3> QED
        BY <2>5, <3>1, NoneCounts DEF TypeOK, FinRemove, threadVars, historyVars
    <2> QED
      BY <1>7, <2>1, <2>2, <2>3, <2>4, <2>5 DEF Finalizer
  <1>8. ASSUME RunAgain PROVE TypeOK'
    <2>1. \A j \in Index : Plus(file[j], record[j]) \in Counts
      BY PlusCounts DEF TypeOK
    <2>2. left' \in [Index -> Counts] /\ kills' \in Nat
      BY <1>8, <2>1, SMTT(20), SMTT(30) DEF TypeOK, RunAgain
    <2>3. NoCounts \in [Index -> Counts]
      BY NoneCounts DEF NoCounts
    <2>4. StartCurrent \in [Tids -> Index \cup {NoIndex}]
      BY <1>0 DEF StartCurrent
    <2>5. StartPc \in [Tids -> {"none", "run", "log", "exit", "done"}]
      BY DEF StartPc
    <2>8. \A b \in BOOLEAN : First(b) \in [Index -> BOOLEAN]
      BY DEF First
    <2>6. /\ hooks' \in [Index -> BOOLEAN] /\ writing' \in [Index -> BOOLEAN]
          /\ buffer_f' \in [Index -> BOOLEAN]
      BY <1>8, <2>8 DEF RunAgain
    <2>9. /\ size' = 1 /\ aliveThreads' = 1 /\ current' = StartCurrent
          /\ keys' = [i \in Index |-> {}] /\ count' = NoCounts /\ stdio' = NoCounts
          /\ pc' = StartPc /\ arg' = [t \in Tids |-> NoAccess] /\ fin' = Idle
          /\ made' = NoCounts /\ lost' = NoCounts
          /\ file' = file /\ record' = record
      BY Zenon, <1>8 DEF RunAgain, diskVars
    <2>7. Idle \in [at : {"no", "end", "aborted", "asserted", "crashed"} \cup FinSteps,
                    i : Index, last : Index]
      BY <1>0 DEF Idle
    <2> QED
      BY <1>0, <2>2, <2>3, <2>4, <2>5, <2>6, <2>7, <2>9, SMTT(20), SMTT(30) DEF TypeOK
  <1>9. CASE UNCHANGED vars
    BY <1>9 DEF TypeOK, vars, threadVars, diskVars, historyVars
  <1> QED
    BY <1>1, <1>2, <1>3, <1>4, <1>5, <1>6, <1>7, <1>8, <1>9 DEF Next, Ended

-----------------------------------------------------------------------------
(* Threads and their objects *)

LEMMA OwnedStep == TypeOK /\ Owned /\ [Next]_vars => Owned'
  <1> SUFFICES ASSUME TypeOK, Owned, [Next]_vars PROVE Owned'
    OBVIOUS
  <1> USE DEF Owned, OwnObject
  <1>0. Main \in Tids /\ Main \notin Workers /\ Workers \subseteq Tids
    BY ConstAssumption DEF Tids
  <1>1. ASSUME NEW t \in Tids, NEW v \in Workers, NEW opened \in BOOLEAN,
               NEW w \in BOOLEAN, NEW created \in BOOLEAN,
               PthreadCreate(t, v, opened, w, created)
        PROVE  Owned'
    <2>0. fin'.i <= fin'.last
      BY <1>1 DEF PthreadCreate, ThreadCreate, TypeOK
    <2>1. pc[v] = "none" /\ arg' = arg /\ (pc' = pc \/ pc' = [pc EXCEPT ![v] = "run"])
      BY <1>1 DEF PthreadCreate, ThreadCreate, TypeOK
    <2>2. CASE current' = current /\ size' = size
      BY <2>0, <2>1, <2>2 DEF TypeOK
    <2>3. CASE size' = size + 1 /\ current' = [current EXCEPT ![v] = IF created THEN size ELSE @]
      <3>1. size \in Nat /\ size # 0 /\ \A u \in Tids : current[u] \in Int
        BY ConstAssumption, SMTT(20), SMTT(30) DEF TypeOK, Index, NoIndex
      <3>2. \A u \in Tids : u # v => current'[u] = current[u]
        BY <2>3 DEF TypeOK
      <3>3. current'[v] = size \/ current'[v] = current[v]
        BY <1>0, <2>3 DEF TypeOK
      <3>4. \A u \in Tids : pc'[u] = "log" => u # v /\ pc[u] = "log"
        BY <1>0, <2>1 DEF TypeOK
      <3> QED
        BY <1>0, <2>0, <2>1, <2>3, <3>1, <3>2, <3>3, <3>4, SMTT(20), SMTT(30)
    <2> QED
      BY <1>1, <2>2, <2>3 DEF PthreadCreate, ThreadCreate
  <1>2. ASSUME NEW t \in Tids, EndThread(t) PROVE Owned'
    BY <1>2 DEF TypeOK, EndThread
  <1>3. ASSUME NEW t \in Tids, NEW c \in Cells, BeginLog(t, c) PROVE Owned'
    BY <1>3 DEF TypeOK, BeginLog, Crash
  <1>4. ASSUME NEW t \in Tids, EndLog(t) PROVE Owned'
    BY <1>4 DEF TypeOK, EndLog
  <1>5. ASSUME NEW t \in Tids, Exit(t) PROVE Owned'
    <2>1. 0 <= size - 1
      BY ConstAssumption, SMTT(20), SMTT(30) DEF TypeOK
    <2>2. fin'.i <= fin'.last
      BY <1>5, <2>1, SMTT(20), SMTT(30) DEF TypeOK, Exit, Crash
    <2> QED
      BY <1>5, <2>2 DEF TypeOK, Exit
  <1>6. ASSUME NEW i \in Index, Spill(i) PROVE Owned'
    BY <1>6 DEF Spill
  <1>7. ASSUME Finalizer PROVE Owned'
    <2>1. fin'.i <= fin'.last
      <3>1. fin.i \in Int /\ fin.last \in Int
        BY SMTT(20), SMTT(30) DEF TypeOK, Index
      <3>2. CASE FinRemove
        BY <3>1, <3>2, SMTT(20), SMTT(30) DEF TypeOK, FinRemove
      <3>3. CASE FinStop \/ FinFlush \/ FinClose \/ FinCat
        BY <3>3 DEF TypeOK, FinStop, FinFlush, FinClose, FinCat, FinGoto
      <3> QED
        BY <1>7, <3>2, <3>3 DEF Finalizer
    <2> QED
      BY <1>7, <2>1 DEF Finalizer, FinStop, FinFlush, FinClose, FinCat, FinRemove
  <1>8. ASSUME RunAgain PROVE Owned'
    BY <1>8, <1>0, SMTT(20), SMTT(30) DEF RunAgain, Idle, StartCurrent, StartPc, NoIndex
  <1>9. CASE UNCHANGED vars
    BY <1>9 DEF vars
  <1> QED
    BY Zenon, <1>1, <1>2, <1>3, <1>4, <1>5, <1>6, <1>7, <1>8, <1>9 DEF Next, Ended

\* All state of xthread, of the Thread objects and of the finalizer keeps its
\* type, whatever the program does; in particular _threads never outgrows
\* the capacity reserved for it.
THEOREM TypeCorrect == Spec => []TypeOK
  <1>1. Init => TypeOK /\ Owned
    BY InitType, InitOwned
  <1>2. TypeOK /\ Owned /\ [Next]_vars => (TypeOK /\ Owned)'
    BY TypeStep, OwnedStep
  <1> QED
    BY <1>1, <1>2, PTL DEF Spec

\* "Reserve space, don't allow the vector to move around": every thread has a
\* Thread object of its own, whatever the program does.
THEOREM OwnObjectHolds == Spec => []OwnObject
  <1>1. Init => TypeOK /\ Owned
    BY InitType, InitOwned
  <1>2. TypeOK /\ Owned /\ [Next]_vars => (TypeOK /\ Owned)'
    BY TypeStep, OwnedStep
  <1>3. Owned => OwnObject
    BY DEF Owned
  <1> QED
    BY <1>1, <1>2, <1>3, PTL DEF Spec

-----------------------------------------------------------------------------
(* The size of outputBuf *)

\* A thread that is about to count an access has room for it.
Roomy ==
    /\ BufferBounded
    /\ Running => \A t \in Tids : pc[t] = "log" => Cardinality(keys[current[t]]) < LOG_SIZE

LEMMA FiniteKeys ==
  ASSUME TypeOK, NEW i \in Index
  PROVE  IsFiniteSet(keys[i]) /\ Cardinality(keys[i]) \in Nat
  <1>1. keys[i] \subseteq Records
    BY DEF TypeOK
  <1> QED
    BY <1>1, ConstAssumption, FS_Subset, FS_CardinalityType

LEMMA InitRoomy == Init => Roomy
  BY FS_EmptySet, ConstAssumption, SMTT(20), SMTT(30) DEF Init, Roomy, BufferBounded, StartPc

LEMMA RoomyStep == TypeOK /\ Owned /\ Roomy /\ [Next]_vars => Roomy'
  <1> SUFFICES ASSUME TypeOK, Owned, Roomy, [Next]_vars PROVE Roomy'
    OBVIOUS
  <1> USE DEF Roomy, BufferBounded
  <1>0. Cardinality({}) = 0 /\ LOG_SIZE \in Nat /\ 0 < LOG_SIZE
    BY FS_EmptySet, ConstAssumption, SMTT(20), SMTT(30)
  <1>f. ASSUME NEW i \in Index, FlushLog(i)
        PROVE  \A j \in Index : keys'[j] = IF j = i THEN {} ELSE keys[j]
    BY <1>f DEF TypeOK, FlushLog
  <1>1. ASSUME NEW t \in Tids, NEW v \in Workers, NEW opened \in BOOLEAN,
               NEW w \in BOOLEAN, NEW created \in BOOLEAN,
               PthreadCreate(t, v, opened, w, created)
        PROVE  Roomy'
    <2>1. keys' = keys /\ (Running' => Running)
      BY <1>1 DEF PthreadCreate, ThreadCreate, threadVars, Running, FinSteps, TypeOK
    <2>2. \A u \in Tids : pc'[u] = "log" => pc[u] = "log" /\ current'[u] = current[u]
      BY <1>1, SMTT(20), SMTT(30) DEF PthreadCreate, ThreadCreate, TypeOK
    <2> QED
      BY <2>1, <2>2
  <1>2. ASSUME NEW t \in Tids, EndThread(t) PROVE Roomy'
    BY <1>2 DEF TypeOK, EndThread, Running, threadVars
  <1>3. ASSUME NEW t \in Tids, NEW c \in Cells, BeginLog(t, c) PROVE Roomy'
    <2>1. CASE fin' = [fin EXCEPT !.at = "crashed"] /\ keys' = keys
      BY <2>1 DEF TypeOK, Running, FinSteps
    <2>2. CASE fin' = fin
      <3> DEFINE i == current[t]
      <3>1. i \in Index
        BY <1>3, <2>2 DEF TypeOK, BeginLog, Crash, Running, FinSteps
      <3>2. \A u \in Tids : current'[u] = current[u] /\ (u # t => pc'[u] = pc[u])
        BY <1>3, <2>2 DEF TypeOK, BeginLog, Crash, Running, FinSteps
      <3>3. \A j \in Index : j # i => keys'[j] = keys[j]
        BY <1>3, <1>f, <3>1 DEF BeginLog
      <3>4. Cardinality(keys'[i]) < LOG_SIZE
        <4>1. CASE Full(i)
          BY <1>0, <1>3, <1>f, <2>2, <3>1, <4>1, SMTT(20), SMTT(30)
             DEF BeginLog, Crash, TypeOK, Running, FinSteps
        <4>2. CASE ~Full(i)
          <5>1. keys' = keys
            BY <1>3, <3>1, <4>2 DEF BeginLog, NoIndex
          <5> QED
            BY <1>0, <3>1, <4>2, <5>1, FiniteKeys, SMTT(20), SMTT(30) DEF Full
        <4> QED
          BY <4>1, <4>2
      <3>5. \A j \in Index : Cardinality(keys'[j]) <= LOG_SIZE
        <4>1. Cardinality(keys'[i]) <= LOG_SIZE
          <5>1. keys'[i] = {} \/ keys'[i] = keys[i]
            BY <1>3, <1>f, <3>1 DEF BeginLog
          <5> QED
            BY <1>0, <3>1, <5>1, SMTT(20), SMTT(30)
        <4> QED
          BY <3>3, <4>1
      <3>6. \A u \in Tids : u # t /\ pc[u] = "log" => current[u] \in Index /\ current[u] # i
        BY <3>1 DEF Owned, OwnObject, TypeOK, Index, NoIndex
      <3>7. Running
        BY <1>3 DEF BeginLog
      <3> QED
        BY <3>2, <3>3, <3>4, <3>5, <3>6, <3>7
    <2> QED
      BY <1>3, <2>1, <2>2 DEF BeginLog, Crash
  <1>4. ASSUME NEW t \in Tids, EndLog(t) PROVE Roomy'
    <2> DEFINE i == current[t]
               r == arg[t][1]
    <2>1. i \in Index /\ Running /\ pc[t] = "log" /\ Cardinality(keys[i]) < LOG_SIZE
      BY <1>4 DEF TypeOK, Owned, EndLog
    <2>2. keys' = [keys EXCEPT ![i] = @ \cup {r}]
      BY <1>4 DEF EndLog
    <2>3. Cardinality(keys'[i]) <= LOG_SIZE
      <3>1. keys'[i] = keys[i] \cup {r}
        BY <2>1, <2>2 DEF TypeOK
      <3>2. Cardinality(keys[i] \cup {r}) <= Cardinality(keys[i]) + 1
        <4>1. IsFiniteSet(keys[i]) /\ Cardinality(keys[i]) \in Nat
          BY <2>1, FiniteKeys
        <4>2. Cardinality(keys[i] \cup {r})
                = IF r \in keys[i] THEN Cardinality(keys[i]) ELSE Cardinality(keys[i]) + 1
          BY Zenon, <4>1, FS_AddElement
        <4> QED
          BY <4>1, <4>2, SMTT(20), SMTT(30)
      <3>3. Cardinality(keys[i] \cup {r}) \in Nat
        BY Zenon, <2>1, FiniteKeys, FS_AddElement, FS_CardinalityType
      <3> QED
        BY <1>0, <2>1, <3>1, <3>2, <3>3, FiniteKeys, SMTT(20), SMTT(30)
    <2>4. \A j \in Index : j # i => keys'[j] = keys[j]
      BY <2>2 DEF TypeOK
    <2>5. \A u \in Tids : pc'[u] = "log" => u # t /\ pc[u] = "log" /\ current'[u] = current[u]
      BY <1>4 DEF TypeOK, EndLog
    <2>6. \A u \in Tids : u # t /\ pc[u] = "log" => current[u] \in Index /\ current[u] # i
      BY <2>1 DEF Owned, OwnObject, TypeOK, Index, NoIndex
    <2> QED
      BY <2>1, <2>3, <2>4, <2>5, <2>6
  <1>5. ASSUME NEW t \in Tids, Exit(t) PROVE Roomy'
    BY <1>5 DEF TypeOK, Exit, Running
  <1>6. ASSUME NEW i \in Index, Spill(i) PROVE Roomy'
    BY <1>6 DEF Spill, Running
  <1>7. ASSUME Finalizer PROVE Roomy'
    <2>1. fin.i \in Index /\ Running
      BY <1>7 DEF TypeOK, Finalizer, FinStop, FinFlush, FinClose, FinCat, FinRemove, FinGoto,
                  Running, FinSteps
    <2>2. \A j \in Index : keys'[j] = keys[j] \/ keys'[j] = {}
      BY <1>7, <1>f, <2>1 DEF Finalizer, FinStop, FinFlush, FinClose, FinCat, FinRemove,
          threadVars
    <2>3. pc' = pc /\ current' = current
      BY <1>7 DEF Finalizer, FinStop, FinFlush, FinClose, FinCat, FinRemove
    <2>4. \A u \in Tids : pc[u] = "log" => current[u] \in Index
      BY DEF Owned, TypeOK
    <2>5. \A j \in Index : Cardinality(keys'[j]) <= LOG_SIZE
      BY <1>0, <2>2, SMTT(20), SMTT(30)
    <2>6. \A u \in Tids : pc'[u] = "log" => Cardinality(keys'[current'[u]]) < LOG_SIZE
      BY <1>0, <2>1, <2>2, <2>3, <2>4
    <2> QED
      BY <2>5, <2>6
  <1>8. ASSUME RunAgain PROVE Roomy'
    BY <1>0, <1>8, SMTT(20), SMTT(30) DEF RunAgain, StartPc
  <1>9. CASE UNCHANGED vars
    BY <1>9 DEF vars, threadVars, Running
  <1> QED
    BY Zenon, <1>1, <1>2, <1>3, <1>4, <1>5, <1>6, <1>7, <1>8, <1>9 DEF Next, Ended

\* outputBuf never has more entries than were reserved for it: log_load_store
\* writes it out before the entry that would be one too many.
THEOREM BufferBoundedHolds == Spec => []BufferBounded
  <1>1. Init => TypeOK /\ Owned /\ Roomy
    BY InitType, InitOwned, InitRoomy
  <1>2. TypeOK /\ Owned /\ Roomy /\ [Next]_vars => (TypeOK /\ Owned /\ Roomy)'
    BY TypeStep, OwnedStep, RoomyStep
  <1>3. Roomy => BufferBounded
    BY DEF Roomy
  <1> QED
    BY <1>1, <1>2, <1>3, PTL DEF Spec
-----------------------------------------------------------------------------
\* The log accounts for every access, for programs in which main() joins its
\* threads before it returns.  From that assumption follows Joined: once the
\* finalizer runs nobody logs.  Written describes how far it has come.

FinalRuns == FinSteps \cup {"end"}

\* Once the finalizer has started every other thread has ended.
Joined == fin.at \in FinalRuns => \A t \in Tids : pc[t] \notin {"run", "log"}

LEMMA InitJoined == Init => Joined
  BY SMTT(20), SMTT(30) DEF Init, Joined, Idle, FinalRuns, FinSteps

\* A thread that runs does so before the finalizer.
LEMMA BeforeExit ==
  ASSUME TypeOK, Joined, Running, NEW t \in Tids, pc[t] \in {"run", "log"}
  PROVE  fin.at = "no"
  BY DEF Joined, Running, FinalRuns

LEMMA JoinedStep ==
  ASSUME "unjoined" \notin Workload
  PROVE  TypeOK /\ Owned /\ Joined /\ [Next]_vars => Joined'
  <1> SUFFICES ASSUME TypeOK, Owned, Joined, [Next]_vars PROVE Joined'
    OBVIOUS
  <1>1. ASSUME NEW t \in Tids, NEW v \in Workers, NEW opened \in BOOLEAN,
               NEW w \in BOOLEAN, NEW created \in BOOLEAN,
               PthreadCreate(t, v, opened, w, created)
        PROVE  Joined'
    <2>1. fin.at = "no"
      BY <1>1, BeforeExit DEF PthreadCreate
    <2>2. fin' = fin \/ fin' = [fin EXCEPT !.at = "aborted"]
      BY <1>1 DEF PthreadCreate, ThreadCreate
    <2> QED
      BY <2>1, <2>2 DEF Joined, FinalRuns, FinSteps, TypeOK
  <1>2. ASSUME NEW t \in Tids, EndThread(t) PROVE Joined'
    BY <1>2 DEF TypeOK, EndThread, Joined
  <1>3. ASSUME NEW t \in Tids, NEW c \in Cells, BeginLog(t, c) PROVE Joined'
    <2>1. fin.at = "no"
      BY <1>3, BeforeExit DEF BeginLog
    <2>2. fin' = fin \/ fin' = [fin EXCEPT !.at = "crashed"]
      BY <1>3 DEF BeginLog, Crash
    <2> QED
      BY <2>1, <2>2 DEF Joined, FinalRuns, FinSteps, TypeOK
  <1>4. ASSUME NEW t \in Tids, EndLog(t) PROVE Joined'
    <2>1. fin.at = "no" /\ fin' = fin
      BY <1>4, BeforeExit DEF EndLog
    <2> QED
      BY <2>1 DEF Joined, FinalRuns, FinSteps
  <1>5. ASSUME NEW t \in Tids, Exit(t) PROVE Joined'
    <2>1. CASE t # Main
      <3>1. current[t] # 0
        BY <2>1, SMTT(20), SMTT(30) DEF Owned, OwnObject, Tids, NoIndex
      <3>2. fin'.at \in {"crashed", "asserted"}
        BY <1>5, <3>1, SMTT(20), SMTT(30) DEF Exit, Crash, TypeOK
      <3> QED
        BY <3>2 DEF Joined, FinalRuns, FinSteps
    <2>2. CASE t = Main
      BY <1>5, <2>2 DEF Exit, Joined, Tids, TypeOK
    <2> QED
      BY <2>1, <2>2
  <1>6. ASSUME NEW i \in Index, Spill(i) PROVE Joined'
    BY <1>6 DEF Spill, Joined
  <1>7. ASSUME Finalizer PROVE Joined'
    <2>1. fin.at \in FinalRuns /\ pc' = pc
      BY <1>7 DEF Finalizer, FinStop, FinFlush, FinClose, FinCat, FinRemove, FinGoto,
                  FinalRuns, FinSteps
    <2> QED
      BY <2>1 DEF Joined
  <1>8. ASSUME RunAgain PROVE Joined'
    BY <1>8 DEF RunAgain, Idle, Joined, FinalRuns, FinSteps
  <1>9. CASE UNCHANGED vars
    BY <1>9 DEF vars, Joined
  <1> QED
    BY <1>1, <1>2, <1>3, <1>4, <1>5, <1>6, <1>7, <1>8, <1>9 DEF Next, Ended

-----------------------------------------------------------------------------
(* Conserved *)

\* A file is concatenated after it was closed: nothing is left in stdio.
Closed == fin.at \in {"cat", "rm"} => stdio[fin.i] = None

LEMMA InitClosed == Init => Closed
  BY SMTT(20), SMTT(30) DEF Init, Closed, Idle

LEMMA ClosedStep == TypeOK /\ Owned /\ Joined /\ Closed /\ [Next]_vars => Closed'
  <1> SUFFICES ASSUME TypeOK, Owned, Joined, Closed, [Next]_vars PROVE Closed'
    OBVIOUS
  <1> USE DEF Closed
  <1>1. ASSUME NEW t \in Tids, NEW v \in Workers, NEW opened \in BOOLEAN,
               NEW w \in BOOLEAN, NEW created \in BOOLEAN,
               PthreadCreate(t, v, opened, w, created)
        PROVE  Closed'
    <2>1. fin.at = "no"
      BY <1>1, BeforeExit DEF PthreadCreate
    <2>2. fin' = fin \/ fin' = [fin EXCEPT !.at = "aborted"]
      BY <1>1 DEF PthreadCreate, ThreadCreate
    <2> QED
      BY <2>1, <2>2 DEF TypeOK
  <1>2. ASSUME NEW t \in Tids, EndThread(t) PROVE Closed'
    BY <1>2 DEF EndThread, threadVars
  <1>3. ASSUME NEW t \in Tids, NEW c \in Cells, BeginLog(t, c) PROVE Closed'
    <2>1. fin.at = "no"
      BY <1>3, BeforeExit DEF BeginLog
    <2>2. fin' = fin \/ fin' = [fin EXCEPT !.at = "crashed"]
      BY <1>3 DEF BeginLog, Crash
    <2> QED
      BY <2>1, <2>2 DEF TypeOK
  <1>4. ASSUME NEW t \in Tids, EndLog(t) PROVE Closed'
    BY <1>4 DEF EndLog
  <1>5. ASSUME NEW t \in Tids, Exit(t) PROVE Closed'
    BY <1>5, SMTT(20), SMTT(30) DEF Exit, Crash, TypeOK
  <1>6. ASSUME NEW i \in Index, Spill(i) PROVE Closed'
    BY <1>6 DEF Spill, TypeOK
  <1>7. ASSUME Finalizer PROVE Closed'
    <2>1. CASE FinClose
      BY <2>1 DEF FinClose, FinGoto, TypeOK
    <2>2. CASE FinStop \/ FinFlush \/ FinCat \/ FinRemove
      BY Zenon, <2>2 DEF FinStop, FinFlush, FinCat, FinRemove, FinGoto, TypeOK, threadVars
    <2> QED
      BY <1>7, <2>1, <2>2 DEF Finalizer
  <1>8. ASSUME RunAgain PROVE Closed'
    BY <1>8 DEF RunAgain, Idle
  <1>9. CASE UNCHANGED vars
    BY <1>9 DEF vars, threadVars
  <1> QED
    BY <1>1, <1>2, <1>3, <1>4, <1>5, <1>6, <1>7, <1>8, <1>9 DEF Next, Ended

LEMMA InitConserved == Init => Conserved
  BY SMTT(20), SMTT(30) DEF Init, Conserved, Accounted, NoCounts, None, Idle

\* A step that leaves every counter alone, and does not enter or leave the
\* window between cat and rm, keeps the accounts.
LEMMA CountsKept ==
  ASSUME Conserved, UNCHANGED <<count, stdio, diskVars, historyVars>>,
         (fin'.at = "rm") = (fin.at = "rm"), fin'.i = fin.i \/ fin.at # "rm"
  PROVE  Conserved'
  BY DEF Conserved, Accounted, diskVars, historyVars

\* Writing a table out moves its counts to stdio.
LEMMA FlushKept ==
  ASSUME TypeOK, NEW i \in Index, FlushLog(i), NEW j \in Index, NEW c \in Cells
  PROVE  count'[j][c] + stdio'[j][c] = count[j][c] + stdio[j][c]
  <1>1. \A k \in Index : count[k][c] \in Nat /\ stdio[k][c] \in Nat
    BY SMTT(20), SMTT(30) DEF TypeOK, Counts
  <1>2. CASE j = i
    <2>1. stdio'[i] = Plus(stdio[i], count[i]) /\ count'[i] = None
      BY DEF TypeOK, FlushLog
    <2>2. stdio'[i][c] = stdio[i][c] + count[i][c] /\ count'[i][c] = 0
      BY <2>1 DEF Plus, None
    <2> QED
      BY <1>1, <1>2, <2>2, SMTT(20), SMTT(30)
  <1>3. CASE j # i
    <2>1. stdio'[j] = stdio[j] /\ count'[j] = count[j]
      BY <1>3 DEF TypeOK, FlushLog
    <2> QED
      BY <2>1
  <1> QED
    BY <1>2, <1>3

LEMMA ConservedStep ==
  TypeOK /\ Owned /\ Joined /\ Closed /\ Conserved /\ [Next]_vars => Conserved'
  <1> SUFFICES ASSUME TypeOK, Owned, Joined, Closed, Conserved, [Next]_vars PROVE Conserved'
    OBVIOUS
  <1>n. ASSUME NEW j \in Index, NEW c \in Cells
        PROVE  /\ count[j][c] \in Nat /\ stdio[j][c] \in Nat /\ file[j][c] \in Nat
               /\ record[j][c] \in Nat /\ made[j][c] \in Nat /\ lost[j][c] \in Nat
               /\ left[j][c] \in Nat
    BY SMTT(20), SMTT(30) DEF TypeOK, Counts
  <1>1. ASSUME NEW t \in Tids, NEW v \in Workers, NEW opened \in BOOLEAN,
               NEW w \in BOOLEAN, NEW created \in BOOLEAN,
               PthreadCreate(t, v, opened, w, created)
        PROVE  Conserved'
    <2>1. fin.at = "no"
      BY <1>1, BeforeExit DEF PthreadCreate
    <2>2. fin' = fin \/ fin' = [fin EXCEPT !.at = "aborted"]
      BY <1>1 DEF PthreadCreate, ThreadCreate
    <2>3. UNCHANGED <<count, stdio, diskVars, historyVars>>
      BY <1>1 DEF PthreadCreate, ThreadCreate, threadVars
    <2>4. fin'.at # "rm" /\ fin.at # "rm"
      BY <2>1, <2>2 DEF TypeOK
    <2> QED
      BY <2>3, <2>4, CountsKept
  <1>2. ASSUME NEW t \in Tids, EndThread(t) PROVE Conserved'
    BY <1>2, CountsKept DEF EndThread, threadVars
  <1>3. ASSUME NEW t \in Tids, NEW c \in Cells, BeginLog(t, c) PROVE Conserved'
    <2>1. fin.at = "no"
      BY <1>3, BeforeExit DEF BeginLog
    <2>2. fin' = fin \/ fin' = [fin EXCEPT !.at = "crashed"]
      BY <1>3 DEF BeginLog, Crash
    <2>3. fin'.at # "rm" /\ fin.at # "rm"
      BY <2>1, <2>2 DEF TypeOK
    <2>4. CASE UNCHANGED <<count, stdio>>
      BY <1>3, <2>3, <2>4, CountsKept DEF BeginLog
    <2>5. CASE current[t] # NoIndex /\ FlushLog(current[t])
      <3>1. current[t] \in Index
        BY <2>5 DEF TypeOK
      <3> SUFFICES ASSUME NEW j \in Index, NEW d \in Cells
                   PROVE  (Accounted(j, d) + lost[j][d] = made[j][d] + left[j][d])'
        BY DEF Conserved
      <3>2. count'[j][d] + stdio'[j][d] = count[j][d] + stdio[j][d]
        BY <2>5, <3>1, FlushKept
      <3>3. /\ file' = file /\ record' = record /\ made' = made
            /\ lost' = lost /\ left' = left
        BY <1>3 DEF BeginLog, diskVars, historyVars
      <3>4. Accounted(j, d) + lost[j][d] = made[j][d] + left[j][d]
        BY DEF Conserved
      <3>5. count'[j][d] \in Nat /\ stdio'[j][d] \in Nat
        BY <2>5, <3>1, FlushType DEF Counts
      <3> QED
        BY <1>n, <2>3, <3>2, <3>3, <3>4, <3>5 DEF Accounted
    <2> QED
      BY <1>3, <2>4, <2>5 DEF BeginLog
  <1>4. ASSUME NEW t \in Tids, EndLog(t) PROVE Conserved'
    <2> DEFINE i == current[t]
               c == arg[t]
    <2>1. i \in Index /\ c \in Cells
      BY <1>4 DEF TypeOK, Owned, EndLog
    <2>2. /\ count' = [count EXCEPT ![i][c] = Increment(@)]
          /\ made' = [made EXCEPT ![i][c] = @ + 1]
          /\ lost' = [lost EXCEPT ![i][c] = IF count'[i][c] = 0 THEN @ + CountMod ELSE @]
          /\ UNCHANGED <<stdio, file, record, fin, left>>
      BY <1>4 DEF EndLog, diskVars
    <2> HIDE DEF i, c
    <2> SUFFICES ASSUME NEW j \in Index, NEW d \in Cells
                 PROVE  (Accounted(j, d) + lost[j][d] = made[j][d] + left[j][d])'
      BY DEF Conserved
    <2>3. Accounted(j, d) + lost[j][d] = made[j][d] + left[j][d]
      BY DEF Conserved
    <2>4. CASE j = i /\ d = c
      <3>1. count'[i][c] = Increment(count[i][c])
        BY <2>1, <2>2 DEF TypeOK, Counts
      <3>2. made'[i][c] = made[i][c] + 1
        BY <2>1, <2>2 DEF TypeOK, Counts
      <3>3. lost'[i][c] = IF count'[i][c] = 0 THEN lost[i][c] + CountMod ELSE lost[i][c]
        BY <2>1, <2>2 DEF TypeOK, Counts
      <3>4. count'[i][c] + lost'[i][c] = count[i][c] + lost[i][c] + 1
        BY <1>n, <2>1, <3>1, <3>3, CounterWidth, SMTT(20), SMTT(30) DEF Increment
      <3>5. count'[i][c] \in Nat /\ lost'[i][c] \in Nat
        BY <1>n, <2>1, <3>1, <3>3, CounterWidth, SMTT(20), SMTT(30) DEF Increment
      <3>6. UNCHANGED <<stdio, file, record, fin, left>>
        BY <2>2
      <3>7. /\ count[i][c] \in Nat /\ stdio[i][c] \in Nat /\ file[i][c] \in Nat
            /\ record[i][c] \in Nat /\ made[i][c] \in Nat /\ lost[i][c] \in Nat
            /\ left[i][c] \in Nat
        BY <1>n, <2>1
      <3> QED
        BY <2>3, <2>4, <3>2, <3>4, <3>5, <3>6, <3>7, SMTT(20), SMTT(30) DEF Accounted
    <2>5. CASE ~(j = i /\ d = c)
      <3>1. count'[j][d] = count[j][d] /\ made'[j][d] = made[j][d] /\ lost'[j][d] = lost[j][d]
        BY <2>1, <2>2, <2>5 DEF TypeOK, Counts
      <3> QED
        BY <2>2, <2>3, <3>1 DEF Accounted
    <2> QED
      BY <2>4, <2>5
  <1>5. ASSUME NEW t \in Tids, Exit(t) PROVE Conserved'
    <2>1. fin.at # "rm" /\ fin'.at # "rm"
      BY <1>5, SMTT(20), SMTT(30) DEF Exit, Crash, TypeOK
    <2> QED
      BY <1>5, <2>1, CountsKept DEF Exit
  <1>6. ASSUME NEW i \in Index, Spill(i) PROVE Conserved'
    <2> SUFFICES ASSUME NEW j \in Index, NEW d \in Cells
                 PROVE  (Accounted(j, d) + lost[j][d] = made[j][d] + left[j][d])'
      BY DEF Conserved
    <2>1. Accounted(j, d) + lost[j][d] = made[j][d] + left[j][d]
      BY DEF Conserved
    <2>2. UNCHANGED <<count, record, fin, made, lost, left>>
      BY <1>6 DEF Spill, historyVars
    <2>3. CASE j # i
      <3>1. file'[j] = file[j] /\ stdio'[j] = stdio[j]
        BY <1>6, <2>3 DEF Spill, TypeOK
      <3> QED
        BY <2>1, <2>2, <3>1 DEF Accounted
    <2>4. CASE j = i
      <3>1. ~(fin.at = "rm" /\ fin.i = i)
        BY Zenon, <1>6 DEF Spill, Closed
      <3>2. file'[i] = Plus(file[i], stdio[i]) /\ stdio'[i] = None
        BY <1>6 DEF Spill, TypeOK
      <3>3. file'[i][d] = file[i][d] + stdio[i][d] /\ stdio'[i][d] = 0
        BY <3>2 DEF Plus, None
      <3> QED
        BY <1>n, <2>1, <2>2, <2>4, <3>1, <3>3, SMTT(20), SMTT(30) DEF Accounted
    <2> QED
      BY <2>3, <2>4
  <1>7. ASSUME Finalizer PROVE Conserved'
    <2>0. fin.i \in Index
      BY DEF TypeOK
    <2>1. CASE FinStop
      BY <2>1, CountsKept DEF FinStop, FinGoto, TypeOK
    <2>2. CASE FinFlush
      <3>1. fin.at # "rm" /\ fin'.at # "rm"
        BY <2>2 DEF FinFlush, FinGoto, TypeOK
      <3>2. CASE UNCHANGED <<count, stdio>>
        BY <2>2, <3>1, <3>2, CountsKept DEF FinFlush
      <3>3. CASE FlushLog(fin.i)
        <4> SUFFICES ASSUME NEW j \in Index, NEW d \in Cells
                     PROVE  (Accounted(j, d) + lost[j][d] = made[j][d] + left[j][d])'
          BY DEF Conserved
        <4>1. Accounted(j, d) + lost[j][d] = made[j][d] + left[j][d]
          BY DEF Conserved
        <4>2. count'[j][d] + stdio'[j][d] = count[j][d] + stdio[j][d]
          BY <2>0, <3>3, FlushKept
        <4>3. UNCHANGED <<file, record, made, lost, left>>
          BY <2>2 DEF FinFlush, diskVars, historyVars
        <4>4. count'[j][d] \in Nat /\ stdio'[j][d] \in Nat
          BY <2>0, <3>3, FlushType DEF Counts
        <4> QED
          BY <1>n, <3>1, <4>1, <4>2, <4>3, <4>4 DEF Accounted
      <3> QED
        BY <2>2, <3>2, <3>3 DEF FinFlush
    <2>3. CASE FinClose \/ FinCat \/ FinRemove
      <3> SUFFICES ASSUME NEW j \in Index, NEW d \in Cells
                   PROVE  (Accounted(j, d) + lost[j][d] = made[j][d] + left[j][d])'
        BY DEF Conserved
      <3>1. Accounted(j, d) + lost[j][d] = made[j][d] + left[j][d]
        BY DEF Conserved
      <3>2. UNCHANGED <<count, made, lost, left>>
        BY <2>3 DEF FinClose, FinCat, FinRemove, threadVars, historyVars
      <3>3. CASE FinClose
        <4>1. fin.at # "rm" /\ fin'.at # "rm" /\ record' = record
          BY <3>3 DEF FinClose, FinGoto, TypeOK
        <4>2. file'[j][d] + stdio'[j][d] = file[j][d] + stdio[j][d] /\ file'[j][d] \in Nat
                /\ stdio'[j][d] \in Nat
          BY <1>n, <2>0, <3>3, SMTT(20), SMTT(30) DEF FinClose, TypeOK, Plus, None
        <4>3. /\ count[j][d] \in Nat /\ stdio[j][d] \in Nat /\ file[j][d] \in Nat
              /\ record[j][d] \in Nat /\ made[j][d] \in Nat /\ lost[j][d] \in Nat
              /\ left[j][d] \in Nat
          BY <1>n
        <4> QED
          BY <3>1, <3>2, <4>1, <4>2, <4>3, SMTT(20), SMTT(30) DEF Accounted
      <3>4. CASE FinCat
        <4>1. fin.at = "cat" /\ fin'.at = "rm" /\ fin'.i = fin.i /\ UNCHANGED <<stdio, file>>
          BY <3>4 DEF FinCat, FinGoto, TypeOK, threadVars
        <4>2. record'[j][d] = IF j = fin.i THEN record[j][d] + file[j][d] ELSE record[j][d]
          BY <2>0, <3>4 DEF FinCat, TypeOK, Plus
        <4>3. /\ count[j][d] \in Nat /\ stdio[j][d] \in Nat /\ file[j][d] \in Nat
              /\ record[j][d] \in Nat
          BY <1>n
        <4>4. Accounted(j, d)' = Accounted(j, d)
          <5>1. CASE j = fin.i
            BY <3>2, <4>1, <4>2, <4>3, <5>1, SMTT(20), SMTT(30) DEF Accounted
          <5>2. CASE j # fin.i
            BY <3>2, <4>1, <4>2, <4>3, <5>2 DEF Accounted
          <5> QED BY <5>1, <5>2
        <4> QED
          BY <3>1, <3>2, <4>4
      <3>5. CASE FinRemove
        <4>1. fin.at = "rm" /\ fin'.at # "rm" /\ UNCHANGED <<stdio, record>>
          BY <3>5 DEF FinRemove, TypeOK, threadVars
        <4>2. file'[j][d] = IF j = fin.i THEN 0 ELSE file[j][d]
          BY <2>0, <3>5 DEF FinRemove, TypeOK, None
        <4> QED
          BY <1>n, <3>1, <3>2, <4>1, <4>2 DEF Accounted
      <3> QED
        BY <2>3, <3>3, <3>4, <3>5
    <2> QED
      BY <1>7, <2>1, <2>2, <2>3 DEF Finalizer
  <1>8. ASSUME RunAgain PROVE Conserved'
    <2> SUFFICES ASSUME NEW j \in Index, NEW d \in Cells
                 PROVE  (Accounted(j, d) + lost[j][d] = made[j][d] + left[j][d])'
      BY DEF Conserved
    <2>1. left'[j][d] = file[j][d] + record[j][d]
      BY <1>8 DEF RunAgain, Plus
    <2>2. /\ count'[j][d] = 0 /\ stdio'[j][d] = 0 /\ made'[j][d] = 0 /\ lost'[j][d] = 0
          /\ file' = file /\ record' = record /\ fin'.at # "rm"
      BY <1>8 DEF RunAgain, NoCounts, None, Idle, diskVars
    <2>3. file[j][d] \in Nat /\ record[j][d] \in Nat
      BY <1>n
    <2> QED
      BY <2>1, <2>2, <2>3, SMTT(20), SMTT(30) DEF Accounted
  <1>9. CASE UNCHANGED vars
    BY <1>9, CountsKept DEF vars, threadVars
  <1> QED
    BY <1>1, <1>2, <1>3, <1>4, <1>5, <1>6, <1>7, <1>8, <1>9 DEF Next, Ended

\* In a program that joins its threads no access is lost or counted twice on
\* its way from outputBuf to record.log, over any number of write-outs,
\* failures of fopen and pthread_create, nested creations, kills and re-runs.
THEOREM ConservedHolds ==
  ASSUME "unjoined" \notin Workload
  PROVE  Spec => []Conserved
  <1> DEFINE I == TypeOK /\ Owned /\ Joined /\ Closed /\ Conserved
  <1>1. Init => I
    BY InitType, InitOwned, InitJoined, InitClosed, InitConserved
  <1>2. I /\ [Next]_vars => I'
    BY TypeStep, OwnedStep, JoinedStep, ClosedStep, ConservedStep
  <1> QED
    BY <1>1, <1>2, PTL DEF Spec

-----------------------------------------------------------------------------
(* RecordComplete *)

\* Nothing about object i waits anywhere.
Done(i) == count[i] = None /\ stdio[i] = None /\ file[i] = None

\* How far the finalizer has come.
Written ==
    /\ fin.at \in FinalRuns =>
         /\ fin.last = size - 1
         /\ \A i \in Index : i < fin.i => Done(i)
    /\ fin.at \in {"close", "cat", "rm"} => count[fin.i] = None
    /\ fin.at = "end" => fin.i = fin.last /\ Done(fin.i)

LEMMA InitWritten == Init => Written
  BY SMTT(20), SMTT(30) DEF Init, Written, Done, NoCounts, Idle, FinalRuns, FinSteps

LEMMA WrittenStep ==
  TypeOK /\ Owned /\ Joined /\ Closed /\ Written /\ [Next]_vars => Written'
  <1> SUFFICES ASSUME TypeOK, Owned, Joined, Closed, Written, [Next]_vars PROVE Written'
    OBVIOUS
  <1>0. fin.i \in Index /\ fin.last \in Index /\ size \in Nat
    BY ConstAssumption, SMTT(20), SMTT(30) DEF TypeOK
  <1>i. \A i \in Index : i \in Nat
    BY SMTT(20), SMTT(30) DEF Index
  <1>1. ASSUME NEW t \in Tids, NEW v \in Workers, NEW opened \in BOOLEAN,
               NEW w \in BOOLEAN, NEW created \in BOOLEAN,
               PthreadCreate(t, v, opened, w, created)
        PROVE  Written'
    <2>1. fin.at = "no"
      BY <1>1, BeforeExit DEF PthreadCreate
    <2>2. fin' = fin \/ fin' = [fin EXCEPT !.at = "aborted"]
      BY <1>1 DEF PthreadCreate, ThreadCreate
    <2>3. fin'.at \notin FinalRuns /\ fin'.at \notin {"close", "cat", "rm", "end"}
      BY <2>1, <2>2 DEF TypeOK, FinalRuns, FinSteps
    <2> QED
      BY <2>3 DEF Written
  <1>2. ASSUME NEW t \in Tids, EndThread(t) PROVE Written'
    BY <1>2 DEF EndThread, threadVars, diskVars, Written, Done
  <1>3. ASSUME NEW t \in Tids, NEW c \in Cells, BeginLog(t, c) PROVE Written'
    <2>1. fin.at = "no"
      BY <1>3, BeforeExit DEF BeginLog
    <2>2. fin' = fin \/ fin' = [fin EXCEPT !.at = "crashed"]
      BY <1>3 DEF BeginLog, Crash
    <2>3. fin'.at \notin FinalRuns /\ fin'.at \notin {"close", "cat", "rm", "end"}
      BY <2>1, <2>2 DEF TypeOK, FinalRuns, FinSteps
    <2> QED
      BY <2>3 DEF Written
  <1>4. ASSUME NEW t \in Tids, EndLog(t) PROVE Written'
    <2>1. fin.at = "no" /\ fin' = fin
      BY <1>4, BeforeExit DEF EndLog
    <2> QED
      BY <2>1 DEF Written, FinalRuns, FinSteps
  <1>5. ASSUME NEW t \in Tids, Exit(t) PROVE Written'
    <2>1. UNCHANGED <<size, count, stdio, file>>
      BY <1>5 DEF Exit, diskVars
    <2>2. CASE fin'.at \in {"crashed", "asserted"}
      BY <2>1, <2>2 DEF Written, Done, FinalRuns, FinSteps
    <2>3. CASE fin' = [at |-> "stop", i |-> 0, last |-> size - 1]
      BY <1>i, <2>1, <2>3, SMTT(20), SMTT(30) DEF Written, Done
    <2>4. fin' = [fin EXCEPT !.at = "crashed"]
            \/ fin' = [at |-> "asserted", i |-> 0, last |-> size - 1]
            \/ fin' = [at |-> "stop", i |-> 0, last |-> size - 1]
      BY <1>5 DEF Exit, Crash
    <2> QED
      BY <2>2, <2>3, <2>4, SMTT(20), SMTT(30) DEF TypeOK
  <1>6. ASSUME NEW i \in Index, Spill(i) PROVE Written'
    <2>1. UNCHANGED <<size, count, fin>>
      BY <1>6 DEF Spill
    <2>2. \A j \in Index : Done(j) => j # i
      BY <1>6 DEF Spill, Done
    <2>3. \A j \in Index : j # i => file'[j] = file[j] /\ stdio'[j] = stdio[j]
      BY <1>6 DEF Spill, TypeOK
    <2>4. \A j \in Index : Done(j) => Done(j)'
      BY <2>1, <2>2, <2>3 DEF Done
    <2> QED
      BY <1>0, <2>1, <2>4 DEF Written
  <1>7. ASSUME Finalizer PROVE Written'
    <2>1. size' = size
      BY <1>7 DEF Finalizer, FinStop, FinFlush, FinClose, FinCat, FinRemove
    <2>2. \A j \in Index : j # fin.i =>
             count'[j] = count[j] /\ stdio'[j] = stdio[j] /\ file'[j] = file[j]
      BY <1>7 DEF Finalizer, FinStop, FinFlush, FinClose, FinCat, FinRemove, FlushLog, TypeOK,
                  threadVars, diskVars
    <2>3. \A j \in Index : j # fin.i /\ Done(j) => Done(j)'
      BY <2>2 DEF Done
    <2>4. fin.at \in FinalRuns /\ fin.last = size - 1 /\ fin.i < size
      <3>1. fin.at \in FinalRuns
        BY <1>7 DEF Finalizer, FinStop, FinFlush, FinClose, FinCat, FinRemove, FinGoto,
                    FinalRuns, FinSteps
      <3> QED
        BY <1>0, <1>i, <3>1, SMTT(20), SMTT(30) DEF Written, Owned
    <2>6. \A j \in Index : j < fin.i => Done(j)'
      BY <1>0, <1>i, <2>3, <2>4, SMTT(20), SMTT(30) DEF Written
    <2>7. CASE FinStop \/ FinFlush
      <3>1. fin'.i = fin.i /\ fin'.last = fin.last
              /\ fin'.at \in {"flush", "crashed", "close"}
        BY <2>7 DEF FinStop, FinFlush, FinGoto, TypeOK
      <3>2. fin'.at = "close" => count'[fin.i] = None
        BY <1>0, <2>7 DEF FinStop, FinFlush, FinGoto, FlushLog, TypeOK
      <3> QED
        BY <2>1, <2>4, <2>6, <3>1, <3>2 DEF Written
    <2>8. CASE FinClose \/ FinCat
      <3>1. fin'.i = fin.i /\ fin'.last = fin.last /\ fin'.at \in {"cat", "rm"}
              /\ fin.at \in {"close", "cat"} /\ count' = count
        BY <2>8 DEF FinClose, FinCat, FinGoto, TypeOK, threadVars
      <3> QED
        BY <2>1, <2>4, <2>6, <3>1 DEF Written
    <2>9. CASE FinRemove
      <3>1. fin.at = "rm" /\ count' = count /\ stdio' = stdio /\ file'[fin.i] = None
        BY <1>0, <2>9 DEF FinRemove, TypeOK, threadVars
      <3>2. count'[fin.i] = None /\ stdio'[fin.i] = None /\ file'[fin.i] = None
        BY <3>1 DEF Written, Closed
      <3>3. CASE fin.i = fin.last
        <4>1. fin'.at = "end" /\ fin'.i = fin.i /\ fin'.last = fin.last
          BY <2>9, <3>3 DEF FinRemove, TypeOK
        <4> QED
          BY <2>1, <2>4, <2>6, <3>2, <3>3, <4>1 DEF Written, Done
      <3>4. CASE fin.i # fin.last
        <4>1. fin'.at = "stop" /\ fin'.i = fin.i + 1 /\ fin'.last = fin.last
          BY <2>9, <3>4 DEF FinRemove, TypeOK
        <4>2. \A j \in Index : j < fin.i + 1 => Done(j)'
          <5>1. \A j \in Index : j < fin.i + 1 => j < fin.i \/ j = fin.i
            BY <1>0, <1>i, SMTT(20), SMTT(30)
          <5> QED
            BY <2>6, <3>2, <5>1 DEF Done
        <4> QED
          BY <2>1, <2>4, <4>1, <4>2 DEF Written
      <3> QED
        BY <3>3, <3>4
    <2> QED
      BY <1>7, <2>7, <2>8, <2>9 DEF Finalizer
  <1>8. ASSUME RunAgain PROVE Written'
    BY <1>8 DEF RunAgain, Idle, Written, FinalRuns, FinSteps
  <1>9. CASE UNCHANGED vars
    BY Zenon, <1>9 DEF vars, threadVars, diskVars, Written, Done
  <1> QED
    BY <1>1, <1>2, <1>3, <1>4, <1>5, <1>6, <1>7, <1>8, <1>9 DEF Next, Ended

\* When the finalizer of a program that joined its threads is done, record.log
\* has every access of every thread, apart from what wrapped counters forgot
\* and whatever killed runs have left behind.
THEOREM RecordCompleteHolds ==
  ASSUME "unjoined" \notin Workload
  PROVE  Spec => []RecordComplete
  <1> DEFINE I == TypeOK /\ Owned /\ Joined /\ Closed /\ Conserved /\ Written
  <1>1. Init => I
    BY InitType, InitOwned, InitJoined, InitClosed, InitConserved, InitWritten
  <1>2. I /\ [Next]_vars => I'
    BY TypeStep, OwnedStep, JoinedStep, ClosedStep, ConservedStep, WrittenStep
  <1>3. I => RecordComplete
    <2> SUFFICES ASSUME I, fin.at = "end", NEW i \in Index, i < size, NEW c \in Cells
                 PROVE  record[i][c] + lost[i][c] = made[i][c] + left[i][c]
      BY DEF RecordComplete
    <2>1. Done(i)
      <3>1. i \in Nat /\ fin.i \in Nat /\ size \in Nat
        BY ConstAssumption, SMTT(20), SMTT(30) DEF TypeOK, Index
      <3>2. i < fin.i \/ i = fin.i
        BY <3>1, SMTT(20), SMTT(30) DEF Written, FinalRuns
      <3> QED
        BY <3>2 DEF Written, FinalRuns
    <2>2. count[i][c] = 0 /\ stdio[i][c] = 0 /\ file[i][c] = 0
      BY <2>1 DEF Done, None
    <2>3. Accounted(i, c) + lost[i][c] = made[i][c] + left[i][c]
      BY DEF Conserved
    <2>4. record[i][c] \in Nat
      BY SMTT(20), SMTT(30) DEF TypeOK, Counts
    <2>5. Accounted(i, c) = record[i][c]
      BY <2>2, <2>4, SMTT(20), SMTT(30) DEF Accounted
    <2> HIDE DEF I
    <2> QED
      BY <2>3, <2>5
  <1> QED
    BY <1>1, <1>2, <1>3, PTL DEF Spec
=============================================================================
