------------------------------ MODULE Logging -------------------------------
(***************************************************************************)
(* The log of the profiling runtime: runtime/xthread.h,                    *)
(* runtime/LoggingThread.{h,cpp} and the thread creation and exit hooks of *)
(* runtime/Runtime.cpp.                                                    *)
(*                                                                         *)
(* Every thread counts its accesses in a table of its own (outputBuf),     *)
(* which is written to a file of its own when it is full; at exit the      *)
(* finalizer of the main thread writes all tables out and concatenates the *)
(* files.  A Thread object is known by its index in _threads; current maps *)
(* a thread of the process to its object.  A file is the sum of its lines: *)
(* how often each record was read and written.  stdio is what fprintf has  *)
(* taken and not yet passed on to the file.                                *)
(*                                                                         *)
(* The mutex of xthread is held for the whole of thread_create and of      *)
(* removeThread, so both are single actions.                               *)
(***************************************************************************)
EXTENDS Integers, FiniteSets, Functions

CONSTANTS Workers,      \* threads of the process besides the main thread
          MAX_THREADS,  \* capacity reserved in _threads
          LOG_SIZE,     \* entries in outputBuf before it is written out
          Records,      \* the LocRecords of the program
          Kinds,        \* kinds of accesses that the program makes
          CountMod,     \* 2^32: counters are unsigned int
          MaxAccess,    \* bound: accesses of each object, by run
          MaxKills,     \* bound: runs that are killed
          Workload      \* what the program does, see Workloads

(* "nested"     threads other than main create threads                      *)
(* "unjoined"   main returns while other threads run                        *)
(* "exit_any"   another thread calls exit()                                 *)
(* "no_thread"  pthread_create fails                                        *)
(* "no_file"    fopen fails                                                 *)
Workloads == {"nested", "unjoined", "exit_any", "no_thread", "no_file"}

Main == "main"
Tids == Workers \cup {Main}
Index == 0..(MAX_THREADS - 1)
NoIndex == -1                    \* current == nullptr
Cells == Records \X Kinds

ASSUME ConstAssumption ==
    /\ Main \notin Workers /\ IsFiniteSet(Workers)
    /\ MAX_THREADS \in Nat \ {0} /\ LOG_SIZE \in Nat \ {0}
    /\ CountMod \in Nat \ {0, 1} /\ MaxKills \in Nat
    /\ MaxAccess \in [0..MaxKills -> [Index -> Nat]]
    /\ IsFiniteSet(Records) /\ Kinds \subseteq {"read", "write"}
    /\ Workload \subseteq Workloads

VARIABLES
    (* xthread *)
    size,            \* _threads.size()
    aliveThreads,
    current,
    (* the Thread objects *)
    hooks,           \* all_hooks_active
    writing,
    buffer_f,        \* is the file open?
    keys, count,     \* outputBuf: the records in it and their counters
    stdio,
    (* the file system *)
    file,            \* __record__<index>.log
    record,          \* record.log, by the index in its lines
    (* the process *)
    pc, arg,         \* where each thread is and the access it logs
    fin,             \* the finalizer: its next step, and for which object
    (* history *)
    made,            \* accesses each object was asked to log, in this run
    lost,            \* accesses that wrapped counters have forgotten
    left,            \* what killed runs have left in the files
    kills

threadVars == <<hooks, writing, buffer_f, keys, count, stdio>>
diskVars == <<file, record>>
historyVars == <<made, lost, left, kills>>
vars == <<size, aliveThreads, current, threadVars, diskVars, pc, arg, fin, historyVars>>

None == [c \in Cells |-> 0]
Plus(f, g) == [c \in Cells |-> f[c] + g[c]]
NoAccess == <<>>
Idle == [at |-> "no", i |-> 0, last |-> 0]
FinSteps == {"stop", "flush", "close", "cat", "rm"}
Running == fin.at \in {"no"} \cup FinSteps

\* What main() finds: initInitialThread() has made object 0 and no other.
First(b) == [i \in Index |-> i = 0 /\ b]
NoCounts == [i \in Index |-> None]
StartCurrent == [t \in Tids |-> IF t = Main THEN 0 ELSE NoIndex]
StartPc == [t \in Tids |-> IF t = Main THEN "run" ELSE "none"]

\* open_buffer: fopen may fail, and *writing then stays uninitialized.
OpenBuffer(opened, w) == (opened \/ "no_file" \in Workload) /\ (opened => w)

Init ==
    /\ size = 1 /\ aliveThreads = 1 /\ current = StartCurrent /\ hooks = First(TRUE)
    /\ \E opened, w \in BOOLEAN :
         OpenBuffer(opened, w) /\ buffer_f = First(opened) /\ writing = First(w)
    /\ keys = [i \in Index |-> {}] /\ count = NoCounts /\ stdio = NoCounts
    /\ file = NoCounts /\ record = NoCounts
    /\ pc = StartPc /\ arg = [t \in Tids |-> NoAccess] /\ fin = Idle
    /\ made = NoCounts /\ lost = NoCounts /\ left = NoCounts /\ kills = 0

-----------------------------------------------------------------------------
(* Threads *)

\* Thread::Thread for object i.
Construct(i, opened, w) ==
    /\ OpenBuffer(opened, w)
    /\ buffer_f' = [buffer_f EXCEPT ![i] = opened]
    /\ writing' = [writing EXCEPT ![i] = w]

\* back() is read before the new object is in place.
ThreadCreateSwapped(t, v, opened, w, created) ==
    IF size >= MAX_THREADS
    THEN /\ fin' = [fin EXCEPT !.at = "aborted"]
         /\ UNCHANGED <<size, aliveThreads, current, threadVars, pc>>
    ELSE /\ Construct(size, opened, w)
         /\ size' = size + 1
         /\ aliveThreads' = aliveThreads + 1
         /\ hooks' = [hooks EXCEPT ![current[t]] = TRUE, ![size] = FALSE]
         /\ created \/ "no_thread" \in Workload
         /\ pc' = [pc EXCEPT ![v] = IF created THEN "run" ELSE @]
         /\ current' = [current EXCEPT ![v] = IF created THEN size - 1 ELSE @]
         /\ UNCHANGED <<keys, count, stdio, fin>>

\* thread_create with its abort() when _threads is full.
ThreadCreate(t, v, opened, w, created) ==
    IF size >= MAX_THREADS
    THEN /\ fin' = [fin EXCEPT !.at = "aborted"]
         /\ UNCHANGED <<size, aliveThreads, current, threadVars, pc>>
    ELSE /\ Construct(size, opened, w)
         /\ size' = size + 1
         /\ aliveThreads' = aliveThreads + 1
         /\ hooks' = [hooks EXCEPT ![current[t]] = TRUE, ![size] = FALSE]
         /\ created \/ "no_thread" \in Workload
         /\ pc' = [pc EXCEPT ![v] = IF created THEN "run" ELSE @]
         /\ current' = [current EXCEPT ![v] = IF created THEN size ELSE @]
         /\ UNCHANGED <<keys, count, stdio, fin>>

\* The hook of pthread_create: a thread whose hooks are not active goes
\* straight to libpthread, and v has no Thread object.
PthreadCreate(t, v, opened, w, created) ==
    /\ Running /\ pc[t] = "run" /\ pc[v] = "none"
    /\ t = Main \/ "nested" \in Workload
    /\ IF current[t] # NoIndex /\ hooks[current[t]]
       THEN ThreadCreate(t, v, opened, w, created)
       ELSE /\ pc' = [pc EXCEPT ![v] = "run"]
            /\ UNCHANGED <<size, aliveThreads, current, threadVars, fin>>
    /\ UNCHANGED <<diskVars, arg, historyVars>>

\* startThread after the start routine has returned: removeThread().
EndThread(t) ==
    /\ Running /\ t # Main /\ pc[t] = "run"
    /\ pc' = [pc EXCEPT ![t] = "done"]
    /\ aliveThreads' = IF current[t] = NoIndex THEN aliveThreads ELSE aliveThreads - 1
    /\ UNCHANGED <<size, current, threadVars, diskVars, arg, fin, historyVars>>

-----------------------------------------------------------------------------
(* Logging *)

\* The counters are written a second time with the next table.
FlushedTwice(i) ==
    /\ stdio' = [stdio EXCEPT ![i] = Plus(@, count[i])]
    /\ keys' = [keys EXCEPT ![i] = {}]
    /\ UNCHANGED count

\* flush_log of object i: every entry becomes a line.
FlushLog(i) ==
    /\ stdio' = [stdio EXCEPT ![i] = Plus(@, count[i])]
    /\ keys' = [keys EXCEPT ![i] = {}]
    /\ count' = [count EXCEPT ![i] = None]

\* fprintf to a stream that is not there.
FlushFaults(i) == keys[i] # {} /\ ~buffer_f[i]

Crash == fin' = [fin EXCEPT !.at = "crashed"]

\* The table is written out when it is over its size.
FullOver(i) == Cardinality(keys[i]) > LOG_SIZE

Full(i) == Cardinality(keys[i]) = LOG_SIZE

\* handle_access up to the lookup in outputBuf.  writing is a pointer, so
\* `if (!writing)` never returns.
BeginLog(t, c) ==
    /\ Running /\ pc[t] = "run"
    /\ LET i == current[t]
       IN  IF i = NoIndex
           THEN Crash /\ UNCHANGED <<hooks, keys, count, stdio, pc, arg>>
           ELSE /\ SumFunction(made[i]) < MaxAccess[kills][i]
                /\ hooks' = [hooks EXCEPT ![i] = FALSE]
                /\ pc' = [pc EXCEPT ![t] = "log"]
                /\ arg' = [arg EXCEPT ![t] = c]
                /\ IF ~Full(i) THEN UNCHANGED <<keys, count, stdio, fin>>
                   ELSE IF FlushFaults(i) THEN Crash /\ UNCHANGED <<keys, count, stdio>>
                   ELSE FlushLog(i) /\ UNCHANGED fin
    /\ UNCHANGED <<size, aliveThreads, current, writing, buffer_f, diskVars, historyVars>>

\* An unsigned int counter.
Increment(n) == IF n + 1 = CountMod THEN 0 ELSE n + 1

\* The entry is found or made, and counted; the hook returns.
EndLog(t) ==
    /\ Running /\ pc[t] = "log"
    /\ LET i == current[t]  c == arg[t]
       IN  /\ keys' = [keys EXCEPT ![i] = @ \cup {c[1]}]
           /\ count' = [count EXCEPT ![i][c] = Increment(@)]
           /\ hooks' = [hooks EXCEPT ![i] = TRUE]
           /\ made' = [made EXCEPT ![i][c] = @ + 1]
           /\ lost' = [lost EXCEPT ![i][c] = IF count'[i][c] = 0 THEN @ + CountMod ELSE @]
    /\ pc' = [pc EXCEPT ![t] = "run"]
    /\ arg' = [arg EXCEPT ![t] = NoAccess]
    /\ UNCHANGED <<size, aliveThreads, current, writing, buffer_f, stdio, diskVars,
                   fin, left, kills>>

\* External: stdio passes lines on when it likes.
Spill(i) ==
    /\ Running /\ stdio[i] # None
    /\ file' = [file EXCEPT ![i] = Plus(@, stdio[i])]
    /\ stdio' = [stdio EXCEPT ![i] = None]
    /\ UNCHANGED <<size, aliveThreads, current, hooks, writing, buffer_f, keys, count,
                   record, pc, arg, fin, historyVars>>

-----------------------------------------------------------------------------
(* Exit *)

\* Only as many objects as there are live threads are visited.
ExitAlive(t) ==
    /\ Running /\ pc[t] = "run" /\ fin.at = "no"
    /\ t = Main \/ "exit_any" \in Workload
    /\ "unjoined" \in Workload \/ t # Main \/ \A v \in Workers : pc[v] \in {"none", "done"}
    /\ pc' = [pc EXCEPT ![t] = "exit"]
    /\ IF current[t] = NoIndex
       THEN Crash /\ UNCHANGED hooks
       ELSE /\ hooks' = [hooks EXCEPT ![current[t]] = FALSE]
            /\ fin' = [at |-> IF current[t] = 0 THEN "stop" ELSE "asserted",
                       i |-> 0, last |-> aliveThreads - 1]
    /\ UNCHANGED <<size, aliveThreads, current, writing, buffer_f, keys, count, stdio,
                   diskVars, arg, historyVars>>

\* exit(), or main() returns: the finalizer runs on the calling thread, and
\* flush_all_concat_to asserts that its index is 0.
Exit(t) ==
    /\ Running /\ pc[t] = "run" /\ fin.at = "no"
    /\ t = Main \/ "exit_any" \in Workload
    /\ "unjoined" \in Workload \/ t # Main \/ \A v \in Workers : pc[v] \in {"none", "done"}
    /\ pc' = [pc EXCEPT ![t] = "exit"]
    /\ IF current[t] = NoIndex
       THEN Crash /\ UNCHANGED hooks
       ELSE /\ hooks' = [hooks EXCEPT ![current[t]] = FALSE]
            /\ fin' = [at |-> IF current[t] = 0 THEN "stop" ELSE "asserted",
                       i |-> 0, last |-> size - 1]
    /\ UNCHANGED <<size, aliveThreads, current, writing, buffer_f, keys, count, stdio,
                   diskVars, arg, historyVars>>

FinGoto(from, to) == fin.at = from /\ fin' = [fin EXCEPT !.at = to]

\* stop_logging: *writing = false;
FinStop ==
    /\ FinGoto("stop", "flush")
    /\ writing' = [writing EXCEPT ![fin.i] = FALSE]
    /\ UNCHANGED <<size, aliveThreads, current, hooks, buffer_f, keys, count, stdio,
                   diskVars, pc, arg, historyVars>>

\* flush_log();
FinFlush ==
    /\ IF FlushFaults(fin.i)
       THEN FinGoto("flush", "crashed") /\ UNCHANGED <<keys, count, stdio>>
       ELSE FinGoto("flush", "close") /\ FlushLog(fin.i)
    /\ UNCHANGED <<size, aliveThreads, current, hooks, writing, buffer_f, diskVars, pc, arg,
                   historyVars>>

\* if (buffer_f) fclose(buffer_f);
FinClose ==
    /\ FinGoto("close", "cat")
    /\ file' = [file EXCEPT ![fin.i] = Plus(@, stdio[fin.i])]
    /\ stdio' = [stdio EXCEPT ![fin.i] = None]
    /\ UNCHANGED <<size, aliveThreads, current, hooks, writing, buffer_f, keys, count,
                   record, pc, arg, historyVars>>

\* cat __record__<i>.log >> record.log
FinCat ==
    /\ FinGoto("cat", "rm")
    /\ record' = [record EXCEPT ![fin.i] = Plus(@, file[fin.i])]
    /\ UNCHANGED <<size, aliveThreads, current, threadVars, file, pc, arg, historyVars>>

\* rm __record__<i>.log, and on to the next object
FinRemove ==
    /\ fin.at = "rm"
    /\ fin' = IF fin.i = fin.last THEN [fin EXCEPT !.at = "end"]
              ELSE [fin EXCEPT !.at = "stop", !.i = @ + 1]
    /\ file' = [file EXCEPT ![fin.i] = None]
    /\ UNCHANGED <<size, aliveThreads, current, threadVars, record, pc, arg, historyVars>>

Finalizer == FinStop \/ FinFlush \/ FinClose \/ FinCat \/ FinRemove

\* The process is killed, or has ended, and the program is run once more:
\* the files stay.
RunAgain ==
    /\ kills < MaxKills
    /\ kills' = kills + 1
    /\ left' = [i \in Index |-> Plus(file[i], record[i])]
    /\ size' = 1 /\ aliveThreads' = 1 /\ current' = StartCurrent /\ hooks' = First(TRUE)
    /\ \E opened, w \in BOOLEAN :
         OpenBuffer(opened, w) /\ buffer_f' = First(opened) /\ writing' = First(w)
    /\ keys' = [i \in Index |-> {}] /\ count' = NoCounts /\ stdio' = NoCounts
    /\ pc' = StartPc /\ arg' = [t \in Tids |-> NoAccess] /\ fin' = Idle
    /\ made' = NoCounts /\ lost' = NoCounts
    /\ UNCHANGED diskVars

\* Nothing is left to do.
Ended == ~Running /\ UNCHANGED vars

Next ==
    \/ \E t \in Tids, v \in Workers, opened, w, created \in BOOLEAN :
         PthreadCreate(t, v, opened, w, created)
    \/ \E t \in Tids : EndThread(t) \/ (\E c \in Cells : BeginLog(t, c)) \/ EndLog(t) \/ Exit(t)
    \/ \E i \in Index : Spill(i)
    \/ Finalizer \/ RunAgain \/ Ended

Spec == Init /\ [][Next]_vars

-----------------------------------------------------------------------------
(* Properties *)

Counts == [Cells -> Nat]

TypeOK ==
    /\ size \in 1..MAX_THREADS /\ aliveThreads \in Int
    /\ current \in [Tids -> Index \cup {NoIndex}]
    /\ hooks \in [Index -> BOOLEAN] /\ writing \in [Index -> BOOLEAN]
    /\ buffer_f \in [Index -> BOOLEAN]
    /\ keys \in [Index -> SUBSET Records] /\ count \in [Index -> Counts]
    /\ stdio \in [Index -> Counts] /\ file \in [Index -> Counts]
    /\ record \in [Index -> Counts]
    /\ pc \in [Tids -> {"none", "run", "log", "exit", "done"}]
    /\ arg \in [Tids -> Cells \cup {NoAccess}]
    /\ fin \in [at : {"no", "end", "aborted", "asserted", "crashed"} \cup FinSteps,
                i : Index, last : Index]
    /\ made \in [Index -> Counts] /\ lost \in [Index -> Counts]
    /\ left \in [Index -> Counts] /\ kills \in Nat

\* The lines about object i that exist somewhere.  While a file has been
\* concatenated and not yet removed its lines are there twice.
Accounted(i, c) ==
    count[i][c] + stdio[i][c] + record[i][c]
      + (IF fin.at = "rm" /\ fin.i = i THEN 0 ELSE file[i][c])

\* No access is lost or counted twice on its way from outputBuf over stdio
\* and the file of the thread to record.log, however often the table is
\* written out, apart from what the unsigned counters forget when they wrap.
\* Files that killed runs left behind are the only other lines.
Conserved ==
    \A i \in Index, c \in Cells : Accounted(i, c) + lost[i][c] = made[i][c] + left[i][c]

\* When the finalizer is done record.log has every access of every thread of
\* this run, behind the lines of killed runs.
RecordComplete ==
    fin.at = "end" =>
        \A i \in Index, c \in Cells :
            i < size => record[i][c] + lost[i][c] = made[i][c] + left[i][c]

\* outputBuf never grows over the size it was reserved for.
BufferBounded == \A i \in Index : Cardinality(keys[i]) <= LOG_SIZE

\* "Reserve space, don't allow the vector to move around": every thread has a
\* Thread object of its own among the first MAX_THREADS.
OwnObject ==
    /\ \A t \in Tids : current[t] < size
    /\ \A t, v \in Tids : t # v /\ current[t] # NoIndex => current[t] # current[v]

\* "True: thread is writing to its buffer", and what the finalizer relies on
\* when it asks all threads to stop: a thread whose flag is off logs nothing.
QuietWhenStopped ==
    \A i \in Index :
        i < size /\ ~writing[i] /\ ~(fin.at = "flush" /\ fin.i = i) => keys[i] = {}
=============================================================================
