----------------------------- MODULE CallGraph ------------------------------
(***************************************************************************)
(* RedirectPtr/CallGraph.h and the parts of RedirectPtr.cpp that use it:   *)
(* which functions do the threads of the program run, and which threads    *)
(* have to be told apart in each of them.                                  *)
(*                                                                         *)
(* A node is made for every function that a thread can reach by calls from *)
(* the function it starts in.  The threads that the profile has for the    *)
(* instructions of a function are passed upwards to its callers, by a      *)
(* depth-first search from each function in the profile.  Nodes without    *)
(* threads are dropped.  The edges of a node are in the order of an        *)
(* unordered_set: any order is possible.                                   *)
(***************************************************************************)
EXTENDS Integers, Sequences, Functions

CONSTANTS Funcs,       \* the defined functions of the module
          NoFunction,  \* getCalledFunction() of an indirect call
          Programs     \* modules, with the profile that was made for each

(* A program has                                                            *)
(*   calls    function -> the functions it calls                            *)
(*   sites    the calls of pthread_create in the order of the module: the   *)
(*            function it is in, its loop, and the function it starts       *)
(*   profile  function -> instruction -> its PCInfo, see module RedirectPtr *)
ASSUME CallGraphAssumption ==
    /\ NoFunction \notin Funcs
    /\ \A p \in Programs :
         /\ p.calls \in [Funcs -> SUBSET (Funcs \cup {NoFunction})]
         /\ p.sites \in Seq(Range(p.sites))
         /\ \A i \in DOMAIN p.sites : p.sites[i].in \in Funcs /\ p.sites[i].starter \in Funcs
         /\ DOMAIN p.profile = Funcs
         /\ \A f \in Funcs : \A i \in DOMAIN p.profile[f] :
              DOMAIN p.profile[f][i].redirects \subseteq Nat

VARIABLES
    program,  \* the module that the pass runs on
    stage,    \* what runOnModule does, or how it failed
    sites,    \* the calls of pthread_create still to be looked at
    graph,    \* the functions that have a node
    threads,  \* GraphNode::threads
    hinted,   \* hinted, the ones still to be searched from
    dfs,      \* the calls of goNext: a node and the edges it has left
    visited   \* visited

cgVars == <<program, stage, sites, graph, threads, hinted, dfs, visited>>

\* The top of a stack, and what is below it.
Last(s) == s[Len(s)]
Front(s) == SubSeq(s, 1, Len(s) - 1)

Callers(f) == {g \in graph : f \in program.calls[g]}
Callees(f) == graph \cap program.calls[f]

\* The functions that calls lead to.
Reach(f) ==
    {g \in Funcs : \A S \in SUBSET Funcs :
       f \in S /\ (\A h \in S : program.calls[h] \cap Funcs \subseteq S) => g \in S}

\* The threads that the profile has for a function; getThreads().
HintOf(f) ==
    UNION {DOMAIN program.profile[f][i].redirects : i \in DOMAIN program.profile[f]}

CGInit ==
    /\ program \in Programs
    /\ stage = "search" /\ sites = program.sites /\ graph = {}
    /\ threads = [f \in Funcs |-> {}] /\ hinted = {} /\ dfs = <<>> /\ visited = {}

-----------------------------------------------------------------------------

\* addFunc goes on to the callees of new nodes; a null callee is dereferenced.
AddStartFunc ==
    /\ stage = "search" /\ sites # <<>>
    /\ LET new == Reach(Head(sites).starter) \ graph
       IN  IF \E f \in new : NoFunction \in program.calls[f]
           THEN stage' = "crashed" /\ UNCHANGED graph
           ELSE graph' = graph \cup new /\ UNCHANGED stage
    /\ sites' = Tail(sites)
    /\ UNCHANGED <<program, threads, hinted, dfs, visited>>

\* Only functions with a node are hinted.
HintFuncThreads ==
    /\ stage = "search" /\ sites = <<>> /\ stage' = "propagate"
    /\ threads' = [f \in Funcs |-> IF f \in graph THEN HintOf(f) ELSE {}]
    /\ hinted' = {f \in graph : DOMAIN program.profile[f] # {}}
    /\ UNCHANGED <<program, sites, graph, dfs, visited>>

\* The search goes down to the callees.
EdgesDown(f) == Callees(f)

\* DFSNode(false)
Edges(f) == Callers(f)

StartSearch(h) ==
    /\ stage = "propagate" /\ dfs = <<>> /\ h \in hinted
    /\ hinted' = hinted \ {h}
    /\ dfs' = <<[node |-> h, edges |-> Edges(h)]>> /\ visited' = {h}
    /\ UNCHANGED <<program, stage, sites, graph, threads>>

\* mergeThreadInfo, and goNext unless the node was visited.
FollowEdge(n) ==
    /\ dfs # <<>> /\ n \in Last(dfs).edges
    /\ threads' = [threads EXCEPT ![n] = @ \cup threads[Last(dfs).node]]
    /\ LET rest == [dfs EXCEPT ![Len(dfs)].edges = @ \ {n}]
       IN  dfs' = IF n \in visited THEN rest
                  ELSE Append(rest, [node |-> n, edges |-> Edges(n)])
    /\ visited' = visited \cup {n}
    /\ UNCHANGED <<program, stage, sites, graph, hinted>>

LeaveNode ==
    /\ dfs # <<>> /\ Last(dfs).edges = {}
    /\ dfs' = Front(dfs)
    /\ UNCHANGED <<program, stage, sites, graph, threads, hinted, visited>>

\* propagateFuncThreads drops the nodes without threads.
Cleanup ==
    /\ stage = "propagate" /\ hinted = {} /\ dfs = <<>> /\ stage' = "clone"
    /\ graph' = {f \in graph : threads[f] # {}}
    /\ UNCHANGED <<program, sites, threads, hinted, dfs, visited>>

CGNext ==
    \/ AddStartFunc \/ HintFuncThreads \/ LeaveNode \/ Cleanup
    \/ \E f \in Funcs : StartSearch(f) \/ FollowEdge(f)

-----------------------------------------------------------------------------

\* The functions that threads can run.
Started == UNION {Reach(program.sites[i].starter) : i \in DOMAIN program.sites}

\* Once the search is over the nodes are the functions of threads from which
\* an instruction of the profile can be reached, and each has exactly the
\* threads of all such instructions, however the search went.
ThreadsExact ==
    stage \notin {"search", "propagate", "crashed"} =>
        /\ graph = {f \in Started : \E g \in Reach(f) : HintOf(g) # {}}
        /\ \A f \in graph : threads[f] = UNION {HintOf(g) : g \in Reach(f)}
=============================================================================
