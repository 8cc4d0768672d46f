---------------------------- MODULE RedirectPtr -----------------------------
(***************************************************************************)
(* The repair of the program: RedirectPtr.cpp, Utils.h, GroupFuncLoop.h    *)
(* and UnrollLoopPass.h of RedirectPtr/.  The pass reads the lines that    *)
(* Layout wrote.  Every function in the call graph gets a clone per        *)
(* thread, the calls in a clone go to clones of the same thread, and each  *)
(* instruction of the profile gets the offset of the thread its clone is   *)
(* for.  An instruction with several offsets sits in a loop that is        *)
(* unrolled, and turn i gets offset i.                                     *)
(*                                                                         *)
(* A version of a function is a pair of the function and a thread, or      *)
(* Original.  Loop unrolling (CustomUnrollLoop.cpp, LLVM's own code) is    *)
(* external: it succeeds or it does not.  isCorrectInst holds when the     *)
(* profile was made for the same module, and is left out.                  *)
(***************************************************************************)
EXTENDS CallGraph, FiniteSets, FiniteSetsExt, TLC

CONSTANTS NoLoop

(* An entry of the profile is [kind, redirects, add, loop].                 *)
(*   "redirect"             redirects: thread -> <<<<from, to>>, ...>>      *)
(*   "malloc", "calloc",    add: bytes by which the block grows             *)
(*   "realloc"                                                              *)
(* loop is the outermost loop around the instruction, or NoLoop.  The       *)
(* instructions of a function with an entry are numbered from 1.            *)

VARIABLES
    clones,   \* the versions that cloneFunc made; clonedFuncs, funcThread
    callTo,   \* version -> the versions that its calls go to
    table,    \* absPosProfile: version -> instruction -> ThreadedPCInfo
    final     \* finalTable of the versions that are done: what each turn gets

rpVars == <<clones, callTo, table, final>>
vars == <<cgVars, rpVars>>

Original == -1

\* The key of the pthread_create call at a site in the table of its function.
Pthread(i) == -i

Init ==
    /\ CGInit
    /\ clones = {} /\ table = <<>> /\ final = <<>>
    /\ callTo = [v \in Funcs \X {Original} |->
                   {<<g, Original>> : g \in program.calls[v[1]] \cap Funcs}]

-----------------------------------------------------------------------------
(* Cloning *)

\* The constructor of PCInfo sorts the lines of each thread.
Lines(entry, tid) ==
    IF tid \in DOMAIN entry.redirects
    THEN SortSeq(entry.redirects[tid],
                 LAMBDA a, b : a[1] < b[1] \/ (a[1] = b[1] /\ a[2] < b[2]))
    ELSE <<>>

\* ThreadedPCInfo(pc, tid): what the instruction gets, for each turn of its loop.
ThreadedPCInfo(entry, tid) ==
    [kind |-> entry.kind, loop |-> entry.loop,
     turns |-> IF entry.kind = "redirect"
               THEN [i \in DOMAIN Lines(entry, tid) |->
                       Lines(entry, tid)[i][2] - Lines(entry, tid)[i][1]]
               ELSE <<entry.add>>]

\* getEquivalentInsts
EquivalentInsts(f, tid) ==
    [inst \in DOMAIN program.profile[f] |-> ThreadedPCInfo(program.profile[f][inst], tid)]

\* startersPthreads keeps the first call that starts a function.
SitesOf(f) == {i \in DOMAIN program.sites : program.sites[i].starter = f}

\* The first calls that start a cloned function, in function f.
SitesIn(f) ==
    {i \in DOMAIN program.sites : /\ program.sites[i].in = f
                                  /\ program.sites[i].starter \in graph
                                  /\ i = Min(SitesOf(program.sites[i].starter))}

\* The j-th of a set of threads.
Nth(S, j) == CHOOSE t \in S : Cardinality({u \in S : u < t}) = j - 1

\* ThreadedPCInfo(dupFuncs): the clones in the order of the threads.
DupFuncs(site) ==
    [kind |-> "start", loop |-> site.loop,
     turns |-> [j \in 1..Cardinality(threads[site.starter]) |->
                  <<site.starter, Nth(threads[site.starter], j)>>]]

PthreadInsts(f) ==
    [x \in {Pthread(i) : i \in SitesIn(f)} |-> DupFuncs(program.sites[-x])]

\* cloneFunc for all functions of the graph
CloneFuncs ==
    /\ stage = "clone"
    /\ IF \A f \in graph : Cardinality(threads[f]) > 1
       THEN /\ clones' = UNION {{<<f, t>> : t \in threads[f]} : f \in graph}
            /\ callTo' = [v \in DOMAIN callTo \cup clones' |-> callTo[<<v[1], Original>>]]
            /\ table' = [v \in {c \in clones' : DOMAIN program.profile[c[1]] # {}}
                                \cup {<<f, Original>> : f \in {e \in Funcs : SitesIn(e) # {}}} |->
                            IF v \in clones' THEN EquivalentInsts(v[1], v[2])
                            ELSE PthreadInsts(v[1])]
            /\ stage' = "calls"
       ELSE stage' = "assert_threads" /\ UNCHANGED <<clones, callTo, table>>
    /\ UNCHANGED <<program, sites, graph, threads, hinted, dfs, visited, final>>

Cloned == {v[1] : v \in clones}

\* A call of the function itself is left as it is.
FindReplaceOther(v, w) ==
    IF w[2] = Original /\ w[1] \in Cloned /\ w[1] # v[1] THEN <<w[1], v[2]>> ELSE w

\* findReplace: the version that a call in clone v goes to instead of w.
FindReplace(v, w) == IF w[2] = Original /\ w[1] \in Cloned THEN <<w[1], v[2]>> ELSE w

\* A callee without a clone for the thread is not noticed.
ReplaceThreadedFuncCallsUnchecked ==
    /\ stage = "calls" /\ stage' = "default"
    /\ callTo' = [v \in DOMAIN callTo |->
                    IF v \in clones THEN {FindReplace(v, w) : w \in callTo[v]} ELSE callTo[v]]
    /\ UNCHANGED <<program, sites, graph, threads, hinted, dfs, visited, clones, table, final>>

\* The calls in all clones are replaced; a clone for the thread must exist.
ReplaceThreadedFuncCalls ==
    /\ stage = "calls"
    /\ IF \E v \in clones : \E w \in callTo[v] : w[1] \in Cloned /\ <<w[1], v[2]>> \notin clones
       THEN stage' = "assert_clone" /\ UNCHANGED callTo
       ELSE /\ stage' = "default"
            /\ callTo' = [v \in DOMAIN callTo |->
                            IF v \in clones THEN {FindReplace(v, w) : w \in callTo[v]}
                            ELSE callTo[v]]
    /\ UNCHANGED <<program, sites, graph, threads, hinted, dfs, visited, clones, table, final>>

\* "By default, thread 0."
NonCloned ==
    LET fs == {f \in Funcs \ graph : DOMAIN program.profile[f] # {}}
    IN  /\ stage = "default" /\ stage' = "loops"
        /\ table' = [v \in DOMAIN table \cup {<<f, Original>> : f \in fs} |->
                       (IF v \in DOMAIN table THEN table[v] ELSE <<>>)
                       @@ (IF v[2] = Original /\ v[1] \in fs THEN EquivalentInsts(v[1], 0) ELSE <<>>)]
        /\ UNCHANGED <<program, sites, graph, threads, hinted, dfs, visited, clones, callTo, final>>

-----------------------------------------------------------------------------
(* GroupFuncLoop and UnrollLoopPass *)

\* The instructions of a version that bring their loop to be unrolled.
Multi(v) == {x \in DOMAIN table[v] : Len(table[v][x].turns) # 1}

\* Every turn gets what is meant for the turn before it.
HookLate(turns, j) == turns[IF j = 1 THEN 1 ELSE j - 1]

\* storeHookInfoToTable: the instruction itself is turn 1, its copies follow.
Hook(turns, j) == turns[j]

\* An instruction with one offset is not among the hooks: when another one
\* brings its loop to be unrolled, the copies of it stay as they are.
Turns(v, x) ==
    LET turns == table[v][x].turns
        unrolled == {y \in Multi(v) : table[v][y].loop = table[v][x].loop}
    IN  IF x \in Multi(v) THEN [j \in DOMAIN turns |-> Hook(turns, j)]
        ELSE IF unrolled = {} THEN turns
        ELSE [j \in 1..Max({Len(table[v][y].turns) : y \in unrolled}) |->
                IF j = 1 THEN turns[1] ELSE 0]

\* adjustMalloc puts the new size into operand 0, which realloc has its block in.
Applied(v, x) ==
    [kind |-> table[v][x].kind, turns |-> Turns(v, x),
     operand |-> CASE table[v][x].kind = "malloc" -> "size"
                   [] table[v][x].kind = "realloc" -> "block"
                   [] table[v][x].kind = "start" -> "start_routine"
                   [] OTHER -> "pointer"]

SameLoop(v, x, y) == table[v][x].loop = table[v][y].loop
SameCount(v, x, y) == Len(table[v][x].turns) = Len(table[v][y].turns)

\* getAllLoops, getLoopUnrollCount, unrollLoop and the changes to a function:
\* the assertions that may stop the pass, or "done".
Outcomes(v) ==
    LET even(x) == \A y \in Multi(v) : SameLoop(v, x, y) => SameCount(v, x, y)
        unrolls == \A x \in Multi(v) : even(x) /\ table[v][x].turns # <<>>
        calloc == \E x \in DOMAIN table[v] : table[v][x].kind = "calloc"
    IN  IF \E x \in Multi(v) : table[v][x].loop = NoLoop THEN {"assert_loop"}
        ELSE {o \in {"assert_count"} : \E x \in Multi(v) : ~even(x)}
             \cup {o \in {"assert_unroll"} : \E x \in Multi(v) : even(x)}
             \cup {o \in {"assert_calloc"} : unrolls /\ calloc}
             \cup {o \in {"done"} : unrolls /\ ~calloc}

\* GroupFuncLoop on all functions of the table, in the order of an unordered_map
RunOnFunctions ==
    /\ stage = "loops"
    /\ \/ \E v \in DOMAIN table : stage' \in Outcomes(v) \ {"done"} /\ UNCHANGED final
       \/ /\ \A v \in DOMAIN table : "done" \in Outcomes(v)
          /\ final' = [v \in DOMAIN table |-> [x \in DOMAIN table[v] |-> Applied(v, x)]]
          /\ stage' = "end"
    /\ UNCHANGED <<program, sites, graph, threads, hinted, dfs, visited, clones, callTo, table>>

Failures == {"crashed", "assert_threads", "assert_clone", "assert_loop", "assert_count",
             "assert_unroll", "assert_calloc"}

Ended == stage \in {"end"} \cup Failures /\ UNCHANGED vars

Next ==
    \/ CGNext /\ UNCHANGED rpVars
    \/ CloneFuncs \/ ReplaceThreadedFuncCalls \/ NonCloned \/ RunOnFunctions \/ Ended

Spec == Init /\ [][Next]_vars

-----------------------------------------------------------------------------
(* Properties *)

TypeOK ==
    /\ graph \subseteq Funcs
    /\ stage \in {"search", "propagate", "clone", "calls", "default", "loops", "end"} \cup Failures
    /\ clones \subseteq Funcs \X Nat
    /\ DOMAIN callTo = (Funcs \X {Original}) \cup clones
    /\ \A v \in DOMAIN callTo : callTo[v] \subseteq DOMAIN callTo
    /\ DOMAIN final \subseteq DOMAIN table /\ DOMAIN table \subseteq DOMAIN callTo

\* The versions that calls lead to from v.
ReachVersions(v) ==
    LET closed == {S \in SUBSET DOMAIN callTo : \A w \in S : callTo[w] \subseteq S}
    IN  {w \in DOMAIN callTo : \A S \in closed : v \in S => w \in S}

Completed == stage = "end"

\* A thread that is started in a clone for it never leaves the clones for it,
\* except for functions from which no instruction of the profile is reached:
\* it cannot come back to the unrepaired original of a cloned function.
StaysInThread ==
    Completed =>
        \A v \in clones : \A w \in ReachVersions(v) :
            IF w[2] = Original THEN \A g \in Reach(w[1]) : HintOf(g) = {}
            ELSE w[2] = v[2]

\* No other instruction of the loop has another number of offsets.
Alike(w, x) == \A y \in DOMAIN table[w] : SameLoop(w, x, y) => SameCount(w, x, y)

\* Every instruction of the profile that a thread reaches from the clone it is
\* started in has the offsets that Layout wrote for this thread, turn by turn.
\* This is about instructions whose loop is unrolled on their own account.
AccessesMoved ==
    Completed =>
        \A v \in clones : \A w \in ReachVersions(v) : \A x \in DOMAIN program.profile[w[1]] :
            LET entry == program.profile[w[1]][x]
            IN  entry.kind = "redirect" /\ Alike(w, x) =>
                  /\ Len(final[w][x].turns) = Len(entry.redirects[v[2]])
                  /\ \A j \in DOMAIN final[w][x].turns :
                       LET line == entry.redirects[v[2]][j]
                       IN  final[w][x].turns[j] = line[2] - line[1]
=============================================================================
