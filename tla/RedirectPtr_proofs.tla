------------------------- MODULE RedirectPtr_proofs -------------------------
(***************************************************************************)
(* Proofs about RedirectPtr and CallGraph, for every module, every profile *)
(* and every order in which the search follows the edges of a node.        *)
(*                                                                         *)
(* The call graph.  While the search from a function h runs, what has been *)
(* visited has the threads of h, and a caller of a visited node is either  *)
(* visited or waits on the stack of goNext.  When the stack is empty the   *)
(* rest of the graph is closed under calls and does not hold h, so that    *)
(* every node from which h is reached was visited (SearchOver).  In the    *)
(* other direction no node ever gets a thread that is not in the profile   *)
(* of a function it reaches.                                               *)
(*                                                                         *)
(* The clones.  What a thread can reach from its clone is contained in any *)
(* set that holds the clone and is closed under the calls, and the set of  *)
(* the versions that StaysInThread allows is one.                          *)
(***************************************************************************)
EXTENDS RedirectPtr, SequenceTheorems, TLAPS

\* A step has three tries of the SMT solver and one of Zenon.
USE SMTT(20), SMTT(30), SMTT(40), Zenon

\* Calls do not lead out of S.
Closed(S) == S \subseteq Funcs /\ \A h \in S : program.calls[h] \cap Funcs \subseteq S

\* The threads of the instructions that a thread in f may come to.
Below(f) == UNION {HintOf(g) : g \in Reach(f)}

\* The function that the search was started from.
Origin == dfs[1].node

\* A call of goNext.
Frames == [node : Funcs, edges : SUBSET Funcs]

CGType ==
    /\ program \in Programs
    /\ sites \in Seq(Range(program.sites))
    /\ graph \subseteq Funcs
    /\ threads \in [Funcs -> SUBSET Nat]
    /\ hinted \subseteq graph
    /\ dfs \in Seq(Frames)
    /\ visited \subseteq Funcs

\* A start function has its nodes, or its call is still to be looked at.
SearchInv ==
    stage = "search" =>
        /\ dfs = <<>> /\ hinted = {}
        /\ Closed(graph) /\ graph \subseteq Started
        /\ \A i \in DOMAIN program.sites :
             \/ Reach(program.sites[i].starter) \subseteq graph
             \/ \E j \in DOMAIN sites : sites[j] = program.sites[i]

\* The search from Origin: what is visited, and what waits to be.
DfsInv ==
    dfs # <<>> =>
        /\ stage = "propagate"
        /\ Origin \in visited /\ visited \subseteq graph
        /\ \A n \in visited : HintOf(Origin) \subseteq threads[n]
        /\ \A k \in DOMAIN dfs : /\ dfs[k].node \in visited
                                 /\ dfs[k].edges \subseteq Callers(dfs[k].node)
        /\ \A n \in visited : \A c \in Callers(n) :
             c \in visited \/ \E k \in DOMAIN dfs : dfs[k].node = n /\ c \in dfs[k].edges

\* The functions whose threads are still on their way.
Pending == hinted \cup (IF dfs = <<>> THEN {} ELSE {Origin})

PropagateInv ==
    stage = "propagate" =>
        /\ graph = Started /\ Closed(graph)
        /\ \A f \in Funcs : threads[f] \subseteq Below(f)
        /\ \A f \in graph : HintOf(f) \subseteq threads[f]
        /\ \A h \in graph \ Pending : \A f \in graph :
             h \in Reach(f) => HintOf(h) \subseteq threads[f]

CGInv == CGType /\ SearchInv /\ DfsInv /\ PropagateInv /\ ThreadsExact

\* The calls of the program, as versions.
CallsOf(f) == {<<g, Original>> : g \in program.calls[f] \cap Funcs}

Early == {"search", "propagate", "crashed", "clone", "assert_threads"}

\* What has been cloned, and where the calls go.
CloneInv ==
    /\ stage \in {"search", "propagate", "clone", "calls", "default", "loops", "end"}
                   \cup Failures
    /\ stage \in Early => clones = {} /\ table = <<>>
    /\ stage \notin Early => clones = UNION {{<<f, t>> : t \in threads[f]} : f \in graph}
    /\ DOMAIN callTo = (Funcs \X {Original}) \cup clones
    /\ \A f \in Funcs : callTo[<<f, Original>>] = CallsOf(f)
    /\ stage \in {"calls", "assert_clone"} => \A v \in clones : callTo[v] = CallsOf(v[1])
    /\ stage \notin Early \cup {"calls", "assert_clone"} =>
         \A v \in clones : callTo[v] = {FindReplace(v, w) : w \in CallsOf(v[1])}
    /\ \A v \in DOMAIN callTo : callTo[v] \subseteq DOMAIN callTo
    /\ DOMAIN table \subseteq DOMAIN callTo
    /\ DOMAIN final \subseteq DOMAIN table

IInv == CGInv /\ CloneInv
-----------------------------------------------------------------------------
(* What calls lead to *)

\* The assumption on the programs, for the one that the pass runs on.
LEMMA ProgramFacts ==
    ASSUME program \in Programs
    PROVE  /\ NoFunction \notin Funcs
           /\ program.calls \in [Funcs -> SUBSET (Funcs \cup {NoFunction})]
           /\ program.sites \in Seq(Range(program.sites))
           /\ \A i \in DOMAIN program.sites : program.sites[i].starter \in Funcs
           /\ \A f \in Funcs : HintOf(f) \subseteq Nat
<1>1. \A f \in Funcs : \A i \in DOMAIN program.profile[f] :
        DOMAIN program.profile[f][i].redirects \subseteq Nat
  BY CallGraphAssumption
<1>2. \A f \in Funcs : HintOf(f) \subseteq Nat
  BY <1>1 DEF HintOf
<1> QED BY <1>2, CallGraphAssumption

\* A function reaches itself.
LEMMA ReachSelf ==
    ASSUME NEW f \in Funcs
    PROVE  f \in Reach(f)
BY DEF Reach

\* What a function reaches is closed under calls.
LEMMA ReachClosed ==
    ASSUME NEW f \in Funcs
    PROVE  Closed(Reach(f))
BY DEF Reach, Closed

\* It is the least such set.
LEMMA ReachLeast ==
    ASSUME NEW S, Closed(S), NEW f \in S
    PROVE  Reach(f) \subseteq S
BY DEF Reach, Closed

\* Reaching is transitive.
LEMMA ReachTrans ==
    ASSUME NEW f \in Funcs, NEW g \in Reach(f)
    PROVE  g \in Funcs /\ Reach(g) \subseteq Reach(f)
BY ReachClosed, ReachLeast DEF Reach

\* A caller reaches what its callee reaches, and has its threads below it.
LEMMA BelowCall ==
    ASSUME NEW c \in Funcs, NEW n \in Funcs, n \in program.calls[c]
    PROVE  Reach(n) \subseteq Reach(c) /\ Below(n) \subseteq Below(c)
<1>1. n \in Reach(c)
  BY ReachSelf, ReachClosed DEF Closed
<1>2. Reach(n) \subseteq Reach(c)
  BY <1>1, ReachTrans
<1> QED BY <1>2 DEF Below

\* The functions of threads are closed under calls.
LEMMA StartedClosed ==
    ASSUME program \in Programs
    PROVE  Closed(Started)
<1>1. \A i \in DOMAIN program.sites : Closed(Reach(program.sites[i].starter))
  BY ProgramFacts, ReachClosed
<1> QED BY <1>1 DEF Started, Closed

-----------------------------------------------------------------------------
(* The call graph *)

\* None of this changes while the pass runs on one program.
LEMMA SameProgram ==
    ASSUME program' = program
    PROVE  /\ Started' = Started
           /\ \A f : HintOf(f)' = HintOf(f)
           /\ \A f : Reach(f)' = Reach(f)
           /\ \A f : Below(f)' = Below(f)
           /\ \A S : Closed(S)' = Closed(S)
           /\ \A f : CallsOf(f)' = CallsOf(f)
<1>1. \A f : HintOf(f)' = HintOf(f)
  BY DEF HintOf
<1>2. \A f : Reach(f)' = Reach(f)
  BY DEF Reach
<1>3. \A f : Below(f)' = Below(f)
  BY DEF Below, Reach, HintOf
<1>4. Started' = Started
  BY DEF Started, Reach
<1> QED BY <1>1, <1>2, <1>3, <1>4 DEF Closed, CallsOf

\* When the search from a function is over, every node that reaches it has
\* its threads.
LEMMA SearchOver ==
    ASSUME NEW h \in visited, visited \subseteq graph, Closed(graph),
           \A n \in visited : \A c \in Callers(n) : c \in visited,
           NEW f \in graph, h \in Reach(f)
    PROVE  f \in visited
<1> DEFINE S == graph \ visited
<1>1. Closed(S)
  BY DEF Closed, Callers
<1>2. ASSUME f \notin visited PROVE FALSE
  <2>1. Reach(f) \subseteq S
    BY <1>1, <1>2, ReachLeast
  <2> QED BY <2>1
<1> QED BY <1>2

\* When no search is left, the nodes have exactly the threads below them.
LEMMA PropagateOver ==
    ASSUME CGType, PropagateInv, stage = "propagate", hinted = {}, dfs = <<>>
    PROVE  \A f \in graph : threads[f] = Below(f)
<1> TAKE f \in graph
<1>1. f \in Funcs /\ Closed(graph)
  BY DEF CGType, PropagateInv
<1>2. Reach(f) \subseteq graph
  BY <1>1, ReachLeast
<1>3. \A g \in Reach(f) : HintOf(g) \subseteq threads[f]
  BY <1>2 DEF PropagateInv, Pending
<1>4. threads[f] \subseteq Below(f)
  BY <1>1 DEF PropagateInv
<1> QED BY <1>3, <1>4 DEF Below

LEMMA CGInitial == Init => CGInv
<1> SUFFICES ASSUME Init PROVE CGInv
  OBVIOUS
<1> USE DEF Init, CGInit
<1>1. CGType
  BY ProgramFacts DEF CGType
<1>2. SearchInv
  BY ProgramFacts DEF SearchInv, Closed
<1> QED BY <1>1, <1>2 DEF CGInv, DfsInv, PropagateInv, ThreadsExact

\* One step of the search for nodes.
LEMMA AddStartFuncStep ==
    ASSUME CGInv, AddStartFunc
    PROVE  CGInv'
<1> DEFINE s == Head(sites).starter
<1>0. /\ program \in Programs /\ program' = program /\ stage = "search"
      /\ threads' = threads /\ hinted' = hinted /\ dfs' = dfs /\ visited' = visited
      /\ dfs = <<>> /\ hinted = {} /\ Closed(graph) /\ graph \subseteq Started
      /\ sites \in Seq(Range(program.sites)) /\ sites # <<>> /\ sites' = Tail(sites)
      /\ graph \subseteq Funcs
  BY DEF CGInv, CGType, SearchInv, AddStartFunc
<1>1. PICK i \in DOMAIN program.sites : Head(sites) = program.sites[i]
  BY <1>0, ProgramFacts DEF Range
<1>2. s \in Funcs /\ Closed(Reach(s)) /\ Reach(s) \subseteq Started
  BY <1>0, <1>1, ProgramFacts, ReachClosed DEF Started
<1>3. Tail(sites) \in Seq(Range(program.sites))
  BY <1>0
<1>4. stage' \in {"search", "crashed"} /\ graph' \subseteq Funcs
  BY <1>0, <1>2 DEF AddStartFunc, Closed
<1>5. CGType'
  BY <1>0, <1>3, <1>4 DEF CGInv, CGType
<1>6. ASSUME stage' = "search" PROVE SearchInv'
  <2>1. graph' = graph \cup Reach(s)
    BY <1>0, <1>6 DEF AddStartFunc
  <2>2. Closed(graph') /\ graph' \subseteq Started
    BY <1>0, <1>2, <2>1 DEF Closed
  <2>3. ASSUME NEW k \in DOMAIN program.sites
        PROVE  \/ Reach(program.sites[k].starter) \subseteq graph'
               \/ \E j \in DOMAIN sites' : sites'[j] = program.sites[k]
    <3>1. CASE Reach(program.sites[k].starter) \subseteq graph
      BY <2>1, <3>1
    <3>2. CASE \E j \in DOMAIN sites : sites[j] = program.sites[k]
      <4>1. PICK j \in DOMAIN sites : sites[j] = program.sites[k]
        BY <3>2
      <4>2. CASE j = 1
        BY <4>1, <4>2, <2>1, <1>0
      <4>3. CASE j # 1
        <5>1. j - 1 \in DOMAIN Tail(sites) /\ Tail(sites)[j - 1] = sites[j]
          BY <4>1, <4>3, <1>0
        <5> QED BY <5>1, <4>1, <1>0
      <4> QED BY <4>2, <4>3
    <3> QED BY <3>1, <3>2, <1>0 DEF CGInv, SearchInv
  <2> QED BY <1>0, <2>2, <2>3, SameProgram DEF SearchInv, Closed, Reach
<1>7. (stage' = "crashed" => SearchInv') /\ DfsInv' /\ PropagateInv' /\ ThreadsExact'
  BY <1>0, <1>4 DEF SearchInv, DfsInv, PropagateInv, ThreadsExact
<1> QED BY <1>4, <1>5, <1>6, <1>7 DEF CGInv

\* The threads of the profile.
LEMMA HintFuncThreadsStep ==
    ASSUME CGInv, HintFuncThreads
    PROVE  CGInv'
<1>0. /\ program \in Programs /\ program' = program /\ stage = "search" /\ stage' = "propagate"
      /\ sites = <<>> /\ sites' = sites /\ graph' = graph /\ dfs' = dfs /\ visited' = visited
      /\ dfs = <<>> /\ Closed(graph) /\ graph \subseteq Started
      /\ threads' = [f \in Funcs |-> IF f \in graph THEN HintOf(f) ELSE {}]
      /\ hinted' = {f \in graph : DOMAIN program.profile[f] # {}}
  BY DEF CGInv, CGType, SearchInv, HintFuncThreads
<1>1. graph = Started
  <2>1. \A i \in DOMAIN program.sites : Reach(program.sites[i].starter) \subseteq graph
    BY <1>0 DEF CGInv, SearchInv
  <2> QED BY <1>0, <2>1 DEF Started
<1>2. threads' \in [Funcs -> SUBSET Nat]
  BY <1>0, ProgramFacts
<1>3. CGType'
  BY <1>0, <1>2 DEF CGInv, CGType
<1>4. PropagateInv'
  <2>1. \A f \in Funcs : threads'[f] \subseteq Below(f)
    BY <1>0, ReachSelf DEF Below
  <2>2. \A f \in graph : threads'[f] = HintOf(f)
    BY <1>0 DEF Closed
  <2>3. \A h \in graph \ hinted' : HintOf(h) = {}
    BY <1>0 DEF HintOf
  <2>4. Closed(graph)' /\ Started' = Started
    BY <1>0, SameProgram DEF Closed
  <2>5. \A f \in graph : HintOf(f)' \subseteq threads'[f]
    BY <2>2, <1>0, SameProgram
  <2>6. \A f \in Funcs : threads'[f] \subseteq Below(f)'
    BY <2>1, <1>0, SameProgram
  <2>7. \A h \in graph \ Pending' : HintOf(h)' = {}
    BY <2>3, <1>0, SameProgram DEF Pending
  <2> QED BY <1>0, <1>1, <2>4, <2>5, <2>6, <2>7 DEF PropagateInv
<1> QED BY <1>0, <1>3, <1>4 DEF CGInv, SearchInv, DfsInv, ThreadsExact

\* A search begins.
LEMMA StartSearchStep ==
    ASSUME CGInv, NEW h \in Funcs, StartSearch(h)
    PROVE  CGInv'
<1>0. /\ program \in Programs /\ program' = program /\ stage = "propagate" /\ stage' = stage
      /\ sites' = sites /\ graph' = graph /\ threads' = threads
      /\ dfs = <<>> /\ h \in hinted /\ hinted' = hinted \ {h} /\ visited' = {h}
      /\ dfs' = <<[node |-> h, edges |-> Callers(h)]>>
      /\ h \in graph /\ graph \subseteq Funcs
  BY DEF CGInv, CGType, StartSearch, Edges
<1>1. Callers(h)' = Callers(h) /\ Callers(h) \subseteq Funcs
  BY <1>0 DEF Callers
<1>2. /\ dfs' # <<>> /\ DOMAIN dfs' = {1}
      /\ dfs'[1].node = h /\ dfs'[1].edges = Callers(h)
  BY <1>0
<1>3. CGType'
  <2>1. [node |-> h, edges |-> Callers(h)] \in Frames
    BY <1>1 DEF Frames
  <2> QED BY <1>0, <2>1 DEF CGInv, CGType
<1>4. DfsInv'
  <2>1. HintOf(h) \subseteq threads[h]
    BY <1>0 DEF CGInv, PropagateInv
  <2>2. Origin' = h
    BY <1>2 DEF Origin
  <2>3. HintOf(Origin)' = HintOf(h)
    BY <1>0, <2>2 DEF HintOf
  <2>4. \A c \in Callers(h) : c \in dfs'[1].edges
    BY <1>2
  <2>5. \A k \in DOMAIN dfs' : Callers(dfs[k].node)' = Callers(h)
    BY <1>0, <1>2 DEF Callers
  <2> QED BY <1>0, <1>1, <1>2, <2>1, <2>2, <2>3, <2>4, <2>5 DEF DfsInv
<1>5. PropagateInv'
  <2>1. Pending' = Pending
    BY <1>0, <1>2 DEF Pending, Origin
  <2> QED BY <1>0, <2>1, SameProgram DEF CGInv, PropagateInv, Closed
<1> QED BY <1>0, <1>3, <1>4, <1>5 DEF CGInv, SearchInv, ThreadsExact

\* One element of a sequence is replaced.
LEMMA ReplaceOne ==
    ASSUME NEW R, NEW s \in Seq(R), NEW i \in 1..Len(s), NEW e \in R
    PROVE  /\ [s EXCEPT ![i] = e] \in Seq(R)
           /\ Len([s EXCEPT ![i] = e]) = Len(s)
           /\ \A k \in 1..Len(s) : [s EXCEPT ![i] = e][k] = IF k = i THEN e ELSE s[k]
OBVIOUS

\* One field of a call of goNext is replaced.
LEMMA LessEdges ==
    ASSUME NEW r \in Frames, NEW E
    PROVE  [r EXCEPT !.edges = E] = [node |-> r.node, edges |-> E]
BY DEF Frames

\* An edge is followed.
LEMMA FollowEdgeStep ==
    ASSUME CGInv, NEW n \in Funcs, FollowEdge(n)
    PROVE  CGInv'
<1> DEFINE len == Len(dfs)
           m == dfs[len].node
           rest == [dfs EXCEPT ![len].edges = @ \ {n}]
           node == [node |-> n, edges |-> Callers(n)]
<1>0. /\ program \in Programs /\ program' = program /\ stage = "propagate" /\ stage' = stage
      /\ sites' = sites /\ graph' = graph /\ hinted' = hinted
      /\ dfs # <<>> /\ dfs \in Seq(Frames)
      /\ len \in Nat \ {0} /\ len \in DOMAIN dfs /\ DOMAIN dfs = 1..len
      /\ threads \in [Funcs -> SUBSET Nat]
      /\ graph \subseteq Funcs /\ visited \subseteq graph
  BY DEF CGInv, CGType, FollowEdge, DfsInv
<1>1. /\ n \in dfs[len].edges /\ m \in visited /\ n \in Callers(m) /\ m \in Funcs
      /\ threads' = [threads EXCEPT ![n] = @ \cup threads[m]]
      /\ dfs' = (IF n \in visited THEN rest ELSE Append(rest, node))
      /\ visited' = visited \cup {n}
  BY <1>0 DEF CGInv, DfsInv, FollowEdge, Last, Edges
<1>2. n \in graph /\ m \in program.calls[n]
  BY <1>1 DEF Callers
<1>3. \A f : Callers(f)' = Callers(f) /\ Callers(f) \subseteq Funcs
  BY <1>0 DEF Callers
<1>4. /\ rest \in Seq(Frames) /\ Len(rest) = len
      /\ \A k \in 1..len : rest[k].node = dfs[k].node
      /\ \A k \in 1..len : rest[k].edges = IF k = len THEN dfs[k].edges \ {n} ELSE dfs[k].edges
  <2> DEFINE top == [node |-> m, edges |-> dfs[len].edges \ {n}]
  <2>1. dfs[len] \in Frames
    BY <1>0, ElementOfSeq
  <2>2. top \in Frames
    BY <2>1 DEF Frames
  <2>3. [dfs[len] EXCEPT !.edges = @ \ {n}] = top
    BY <2>1, LessEdges, Zenon
  <2>4. rest = [dfs EXCEPT ![len] = top]
    BY <2>3, Zenon
  <2> HIDE DEF rest, top
  <2>5. /\ rest \in Seq(Frames) /\ Len(rest) = len
        /\ \A k \in 1..len : rest[k] = IF k = len THEN top ELSE dfs[k]
    BY <1>0, <2>2, <2>4, ReplaceOne
  <2>6. top.node = m /\ top.edges = dfs[len].edges \ {n}
    BY DEF top
  <2> QED BY <2>5, <2>6, Zenon
<1>5. /\ dfs' \in Seq(Frames) /\ Len(dfs') >= len
      /\ \A k \in 1..len : dfs'[k] = rest[k]
      /\ n \in visited => Len(dfs') = len
      /\ n \notin visited => Len(dfs') = len + 1 /\ dfs'[len + 1] = node
      /\ node.node = n /\ node.edges = Callers(n)
      /\ \A k \in DOMAIN dfs' : k \in 1..len \/ (k = len + 1 /\ n \notin visited)
      /\ \A k \in 1..len : k \in DOMAIN dfs'
      /\ n \notin visited => len + 1 \in DOMAIN dfs'
  <2>0. node.node = n /\ node.edges = Callers(n)
    OBVIOUS
  <2>1. node \in Frames
    BY <1>3 DEF Frames
  <2> HIDE DEF rest, node, len
  <2>2. CASE n \in visited
    <3>1. dfs' = rest /\ Len(rest) = len /\ DOMAIN rest = 1..len
      BY <2>2, <1>1, <1>4
    <3> QED BY <3>1, <2>0, <2>2, <1>0, <1>4
  <2>3. CASE n \notin visited
    <3>1. dfs' = Append(rest, node)
      BY <2>3, <1>1
    <3>2. /\ dfs' \in Seq(Frames) /\ Len(dfs') = len + 1 /\ dfs'[len + 1] = node
          /\ \A k \in 1..len : dfs'[k] = rest[k]
      BY <3>1, <2>1, <1>4, AppendProperties
    <3>3. DOMAIN dfs' = 1..(len + 1)
      BY <3>2
    <3> QED BY <3>2, <3>3, <2>0, <2>3, <1>0
  <2> QED BY <2>2, <2>3
<1> HIDE DEF len, m, rest, node
<1>6. threads' \in [Funcs -> SUBSET Nat]
  BY <1>0, <1>1
<1>7. \A f \in Funcs : threads[f] \subseteq threads'[f]
  BY <1>0, <1>1
<1>8. CGType'
  BY <1>0, <1>5, <1>6, <1>1 DEF CGInv, CGType
<1>9. Origin' = Origin /\ dfs' # <<>>
  BY <1>0, <1>4, <1>5 DEF Origin
<1>10. HintOf(Origin)' = HintOf(Origin)
  BY <1>9, <1>0 DEF HintOf
<1>11. DfsInv'
  <2>1. \A x \in visited' : HintOf(Origin) \subseteq threads'[x]
    <3>1. HintOf(Origin) \subseteq threads[m]
      BY <1>0, <1>1 DEF CGInv, DfsInv
    <3>2. threads'[n] = threads[n] \cup threads[m]
      BY <1>0, <1>1
    <3>3. \A x \in visited : HintOf(Origin) \subseteq threads[x] /\ x \in Funcs
      BY <1>0 DEF CGInv, DfsInv
    <3> QED BY <3>1, <3>2, <3>3, <1>1, <1>7
  <2>2. ASSUME NEW k \in DOMAIN dfs'
        PROVE  dfs'[k].node \in visited' /\ dfs'[k].edges \subseteq Callers(dfs'[k].node)
    <3>1. CASE k \in 1..len
      <4>1. dfs[k].node \in visited /\ dfs[k].edges \subseteq Callers(dfs[k].node)
        BY <3>1, <1>0 DEF CGInv, DfsInv
      <4>2. dfs'[k].node = dfs[k].node /\ dfs'[k].edges \subseteq dfs[k].edges
        BY <3>1, <1>4, <1>5, Zenon
      <4> QED BY <4>1, <4>2, <1>1
    <3>2. CASE k = len + 1 /\ n \notin visited
      BY <3>2, <1>1, <1>5
    <3> QED BY <3>1, <3>2, <1>0, <1>5
  <2>3. ASSUME NEW x \in visited', NEW c \in Callers(x), c \notin visited'
        PROVE  \E k \in DOMAIN dfs' : dfs'[k].node = x /\ c \in dfs'[k].edges
    <3>1. CASE x \in visited
      <4>1. PICK k \in DOMAIN dfs : dfs[k].node = x /\ c \in dfs[k].edges
        BY <3>1, <2>3, <1>0, <1>1 DEF CGInv, DfsInv
      <4>2. k \in 1..len /\ c # n
        BY <4>1, <2>3, <1>0, <1>1
      <4>3. dfs'[k].node = dfs[k].node /\ dfs[k].edges \ {n} \subseteq dfs'[k].edges
        BY <4>2, <1>4, <1>5, Zenon
      <4>4. k \in DOMAIN dfs'
        BY <4>2, <1>0, <1>5
      <4> QED BY <4>1, <4>2, <4>3, <4>4
    <3>2. CASE x = n /\ n \notin visited
      <4>1. len + 1 \in DOMAIN dfs' /\ dfs'[len + 1].node = x /\ c \in dfs'[len + 1].edges
        BY <3>2, <2>3, <1>0, <1>5
      <4> QED BY <4>1
    <3> QED BY <3>1, <3>2, <1>1
  <2>4. \A k : Callers(dfs[k].node)' = Callers(dfs'[k].node)
    BY <1>0 DEF Callers
  <2>5. Origin' \in visited' /\ visited' \subseteq graph'
    BY <1>0, <1>1, <1>2, <1>9 DEF CGInv, DfsInv
  <2> QED BY <1>0, <1>3, <1>10, <2>1, <2>2, <2>3, <2>4, <2>5 DEF DfsInv
<1>12. PropagateInv'
  <2>1. Pending' = Pending
    BY <1>0, <1>9 DEF Pending
  <2>2. \A f \in Funcs : threads'[f] \subseteq Below(f)
    <3>1. Below(m) \subseteq Below(n)
      BY <1>1, <1>2, BelowCall
    <3>2. \A f \in Funcs : threads[f] \subseteq Below(f)
      BY <1>0 DEF CGInv, PropagateInv
    <3> QED BY <3>1, <3>2, <1>0, <1>1
  <2>3. /\ graph = Started /\ Closed(graph)
        /\ \A f \in graph : HintOf(f) \subseteq threads[f]
        /\ \A h \in graph \ Pending : \A f \in graph :
             h \in Reach(f) => HintOf(h) \subseteq threads[f]
    BY <1>0 DEF CGInv, PropagateInv
  <2>4. /\ \A f \in graph : HintOf(f) \subseteq threads'[f]
        /\ \A h \in graph \ Pending : \A f \in graph :
             h \in Reach(f) => HintOf(h) \subseteq threads'[f]
    BY <2>3, <1>7, <1>0
  <2>5. Closed(graph)'
    BY <2>3, <1>0 DEF Closed
  <2> QED BY <1>0, <2>1, <2>2, <2>3, <2>4, <2>5, SameProgram DEF PropagateInv
<1> QED BY <1>0, <1>8, <1>11, <1>12 DEF CGInv, SearchInv, ThreadsExact

\* The last element of a sequence is removed.
LEMMA FrontFacts ==
    ASSUME NEW R, NEW s \in Seq(R), s # <<>>
    PROVE  /\ Front(s) \in Seq(R) /\ Len(Front(s)) = Len(s) - 1
           /\ \A k \in 1..(Len(s) - 1) : Front(s)[k] = s[k]
<1> DEFINE n == Len(s) - 1
           f == SubSeq(s, 1, n)
<1>1. \A i \in 1..n : s[i] \in R
  BY ElementOfSeq
<1>2. n \in Nat
  BY EmptySeq, LenProperties
<1>3. Front(s) = f
  BY DEF Front
<1> HIDE DEF n
<1>4. /\ f \in Seq(R)
      /\ Len(f) = IF 1 <= n THEN n - 1 + 1 ELSE 0
      /\ \A i \in 1..(n - 1 + 1) : f[i] = s[1 + i - 1]
  BY <1>1, <1>2, SubSeqProperties
<1> HIDE DEF f
<1>5. Len(f) = n /\ \A k \in 1..n : f[k] = s[k]
  BY <1>2, <1>4
<1> QED BY <1>3, <1>4, <1>5 DEF n

\* A call of goNext returns.
LEMMA LeaveNodeStep ==
    ASSUME CGInv, LeaveNode
    PROVE  CGInv'
<1> DEFINE len == Len(dfs)
<1>0. /\ program \in Programs /\ program' = program /\ stage = "propagate" /\ stage' = stage
      /\ sites' = sites /\ graph' = graph /\ hinted' = hinted /\ threads' = threads
      /\ visited' = visited
      /\ dfs # <<>> /\ dfs \in Seq(Frames)
      /\ len \in Nat \ {0} /\ DOMAIN dfs = 1..len
      /\ dfs[len].edges = {} /\ dfs' = Front(dfs)
  BY DEF CGInv, CGType, LeaveNode, DfsInv, Last
<1>1. /\ dfs' \in Seq(Frames) /\ Len(dfs') = len - 1
      /\ \A k \in 1..(len - 1) : dfs'[k] = dfs[k]
      /\ DOMAIN dfs' = 1..(len - 1)
  <2>1. /\ dfs' \in Seq(Frames) /\ Len(dfs') = len - 1
        /\ \A k \in 1..(len - 1) : dfs'[k] = dfs[k]
    BY <1>0, FrontFacts, Zenon
  <2>2. DOMAIN dfs' = 1..(len - 1)
    BY <2>1
  <2> QED BY <2>1, <2>2
<1> HIDE DEF len
<1>2. CGType'
  BY <1>0, <1>1 DEF CGInv, CGType
<1>3. \A f : Callers(f)' = Callers(f)
  BY <1>0 DEF Callers
<1>4. \A x \in visited : \A c \in Callers(x) :
        c \in visited \/ \E k \in 1..(len - 1) : dfs[k].node = x /\ c \in dfs[k].edges
  <2> SUFFICES ASSUME NEW x \in visited, NEW c \in Callers(x), c \notin visited
               PROVE  \E k \in 1..(len - 1) : dfs[k].node = x /\ c \in dfs[k].edges
    OBVIOUS
  <2>1. PICK k \in DOMAIN dfs : dfs[k].node = x /\ c \in dfs[k].edges
    BY <1>0 DEF CGInv, DfsInv
  <2>2. k \in 1..(len - 1)
    BY <2>1, <1>0
  <2> QED BY <2>1, <2>2
<1>5. CASE len > 1
  <2>1. dfs' # <<>> /\ Origin' = Origin
    BY <1>0, <1>1, <1>5 DEF Origin
  <2>2. HintOf(Origin)' = HintOf(Origin)
    BY <2>1, <1>0 DEF HintOf
  <2>3. \A k : Callers(dfs[k].node)' = Callers(dfs'[k].node)
    BY <1>0 DEF Callers
  <2>4. \A k \in DOMAIN dfs' : k \in 1..(len - 1) /\ k \in DOMAIN dfs
    BY <1>0, <1>1
  <2>5. \A k \in 1..(len - 1) : k \in DOMAIN dfs'
    BY <1>0, <1>1
  <2>6. \A k \in DOMAIN dfs' : /\ dfs'[k].node \in visited
                               /\ dfs'[k].edges \subseteq Callers(dfs'[k].node)
    BY <2>4, <1>0, <1>1 DEF CGInv, DfsInv
  <2>7. \A x \in visited : \A c \in Callers(x) :
          c \in visited \/ \E k \in DOMAIN dfs' : dfs'[k].node = x /\ c \in dfs'[k].edges
    BY <2>5, <1>1, <1>4
  <2>8. DfsInv'
    BY <1>0, <1>3, <2>1, <2>2, <2>3, <2>6, <2>7 DEF CGInv, DfsInv
  <2>9. PropagateInv'
    <3>1. Pending' = Pending
      BY <1>0, <2>1 DEF Pending
    <3> QED BY <1>0, <3>1, SameProgram DEF CGInv, PropagateInv, Closed
  <2> QED BY <1>0, <1>2, <2>8, <2>9 DEF CGInv, SearchInv, ThreadsExact
<1>6. CASE len = 1
  <2>1. dfs' = <<>>
    BY <1>0, <1>1, <1>6
  <2>2. \A x \in visited : \A c \in Callers(x) : c \in visited
    BY <1>4, <1>6
  <2>3. Origin \in visited /\ visited \subseteq graph /\ Closed(graph)
    BY <1>0 DEF CGInv, DfsInv, PropagateInv
  <2>4. \A f \in graph : Origin \in Reach(f) => HintOf(Origin) \subseteq threads[f]
    <3> SUFFICES ASSUME NEW f \in graph, Origin \in Reach(f)
                 PROVE  HintOf(Origin) \subseteq threads[f]
      OBVIOUS
    <3>1. f \in visited
      BY <2>2, <2>3, SearchOver
    <3> QED BY <3>1, <1>0 DEF CGInv, DfsInv
  <2>5. \A h \in graph \ Pending' : \A f \in graph :
          h \in Reach(f) => HintOf(h) \subseteq threads[f]
    BY <1>0, <2>1, <2>4 DEF CGInv, PropagateInv, Pending
  <2>6. PropagateInv'
    BY <1>0, <2>5, SameProgram DEF CGInv, PropagateInv, Closed
  <2> QED BY <1>0, <1>2, <2>1, <2>6 DEF CGInv, SearchInv, DfsInv, ThreadsExact
<1> QED BY <1>0, <1>5, <1>6

\* The nodes without threads are dropped.
LEMMA CleanupStep ==
    ASSUME CGInv, Cleanup
    PROVE  CGInv'
<1>0. /\ program \in Programs /\ program' = program /\ stage = "propagate" /\ stage' = "clone"
      /\ sites' = sites /\ threads' = threads /\ hinted' = hinted /\ dfs' = dfs
      /\ visited' = visited /\ hinted = {} /\ dfs = <<>>
      /\ graph' = {f \in graph : threads[f] # {}}
  BY DEF CGInv, CGType, Cleanup
<1>1. \A f \in graph : threads[f] = Below(f)
  BY <1>0, PropagateOver DEF CGInv
<1>2. CGType'
  BY <1>0 DEF CGInv, CGType
<1>3. graph = Started
  BY <1>0 DEF CGInv, PropagateInv
<1>4. graph' = {f \in Started : \E g \in Reach(f) : HintOf(g) # {}}
  BY <1>0, <1>1, <1>3 DEF Below
<1>5. \A f \in graph' : threads'[f] = UNION {HintOf(g) : g \in Reach(f)}
  BY <1>0, <1>1 DEF Below
<1>6. ThreadsExact'
  BY <1>0, <1>4, <1>5, SameProgram DEF ThreadsExact
<1> QED BY <1>0, <1>2, <1>6, Zenon DEF CGInv, SearchInv, DfsInv, PropagateInv

\* The later steps leave the graph alone.
LEMMA CGRest ==
    ASSUME CGInv, UNCHANGED <<program, sites, graph, threads, hinted, dfs, visited>>,
           stage \notin {"search", "propagate", "crashed"},
           stage' \notin {"search", "propagate", "crashed"}
    PROVE  CGInv'
<1>1. CGType'
  BY DEF CGInv, CGType
<1>2. dfs = <<>> /\ dfs' = dfs /\ program' = program /\ graph' = graph /\ threads' = threads
  BY DEF CGInv, DfsInv
<1>3. ThreadsExact'
  BY <1>2, SameProgram DEF CGInv, ThreadsExact
<1> QED BY <1>1, <1>2, <1>3 DEF CGInv, SearchInv, DfsInv, PropagateInv

LEMMA CGStutter ==
    ASSUME CGInv, UNCHANGED cgVars
    PROVE  CGInv'
<1>0. /\ program' = program /\ stage' = stage /\ sites' = sites /\ graph' = graph
      /\ threads' = threads /\ hinted' = hinted /\ dfs' = dfs /\ visited' = visited
  BY DEF cgVars
<1>1. CGType'
  BY <1>0 DEF CGInv, CGType
<1>2. SearchInv'
  BY <1>0, SameProgram DEF CGInv, SearchInv, Closed, Reach
<1>3. DfsInv'
  BY <1>0 DEF CGInv, DfsInv, Origin, Callers, HintOf
<1>4. PropagateInv'
  BY <1>0, SameProgram DEF CGInv, PropagateInv, Closed, Pending, Origin
<1>5. ThreadsExact'
  BY <1>0, SameProgram DEF CGInv, ThreadsExact
<1> QED BY <1>1, <1>2, <1>3, <1>4, <1>5 DEF CGInv

LEMMA CGStep ==
    ASSUME CGInv, CGNext
    PROVE  CGInv'
<1>1. CASE AddStartFunc
  BY <1>1, AddStartFuncStep
<1>2. CASE HintFuncThreads
  BY <1>2, HintFuncThreadsStep
<1>3. CASE LeaveNode
  BY <1>3, LeaveNodeStep
<1>4. CASE Cleanup
  BY <1>4, CleanupStep
<1>5. ASSUME NEW f \in Funcs, StartSearch(f) PROVE CGInv'
  BY <1>5, StartSearchStep
<1>6. ASSUME NEW f \in Funcs, FollowEdge(f) PROVE CGInv'
  BY <1>6, FollowEdgeStep
<1> QED BY <1>1, <1>2, <1>3, <1>4, <1>5, <1>6 DEF CGNext

-----------------------------------------------------------------------------
(* The clones *)

LEMMA CloneInitial == Init => CloneInv
<1> SUFFICES ASSUME Init PROVE CloneInv
  OBVIOUS
<1>1. \A f \in Funcs : <<f, Original>> \in Funcs \X {Original}
                       /\ callTo[<<f, Original>>] = CallsOf(f)
  BY DEF Init, CallsOf
<1>2. DOMAIN callTo = Funcs \X {Original} /\ clones = {} /\ table = <<>> /\ final = <<>>
      /\ stage = "search"
  BY DEF Init, CGInit
<1>3. \A v \in DOMAIN callTo : callTo[v] \subseteq DOMAIN callTo
  BY <1>2 DEF Init
<1> QED BY <1>1, <1>2, <1>3 DEF CloneInv, Early, Failures

\* While the graph is built there are no clones.
LEMMA CloneCGStep ==
    ASSUME CGInv, CloneInv, CGNext, UNCHANGED rpVars
    PROVE  CloneInv'
<1>1. /\ stage \in {"search", "propagate"} /\ program' = program
      /\ stage' \in {"search", "propagate", "crashed", "clone"}
  BY Zenon DEF CGNext, AddStartFunc, HintFuncThreads, LeaveNode, Cleanup, StartSearch,
      FollowEdge,
         CGInv, DfsInv
<1>2. clones' = clones /\ callTo' = callTo /\ table' = table /\ final' = final
  BY DEF rpVars
<1>3. clones = {}
  BY <1>1 DEF CloneInv, Early
<1> QED BY <1>1, <1>2, <1>3, SameProgram DEF CloneInv, Early, Failures

\* The clones are made, with the calls of the originals.
LEMMA CloneFuncsStep ==
    ASSUME CGInv, CloneInv, CloneFuncs
    PROVE  CloneInv'
<1>a. stage = "clone" /\ stage \in Early
  BY DEF CloneFuncs, Early
<1>b. clones = {} /\ table = <<>> /\ DOMAIN final \subseteq DOMAIN table
      /\ DOMAIN callTo = (Funcs \X {Original}) \cup clones
  BY <1>a DEF CloneInv
<1>0. /\ program' = program /\ graph' = graph /\ threads' = threads
      /\ final' = final /\ graph \subseteq Funcs /\ threads \in [Funcs -> SUBSET Nat]
      /\ DOMAIN callTo = Funcs \X {Original}
      /\ \A f \in Funcs : callTo[<<f, Original>>] = CallsOf(f)
  BY <1>b DEF CGInv, CGType, CloneInv, CloneFuncs
<1>c. DOMAIN final = {}
  <2>1. \A x : x \notin DOMAIN <<>>
    OBVIOUS
  <2> QED BY <1>b, <2>1, Zenon
<1>1. CASE stage' = "assert_threads" /\ UNCHANGED <<clones, callTo, table>>
  BY <1>b, <1>0, <1>1, SameProgram DEF CloneInv, Early, Failures
<1>2. CASE stage' = "calls"
  <2>1. /\ clones' = UNION {{<<f, t>> : t \in threads[f]} : f \in graph}
        /\ callTo' = [v \in DOMAIN callTo \cup clones' |-> callTo[<<v[1], Original>>]]
        /\ DOMAIN table' \subseteq DOMAIN callTo \cup clones'
    BY <1>0, <1>2 DEF CloneFuncs
  <2>2. \A v \in clones' : v[1] \in Funcs
    BY <1>0, <2>1
  <2>3. DOMAIN callTo' = (Funcs \X {Original}) \cup clones'
    BY <1>0, <2>1
  <2>4. \A f \in Funcs : callTo'[<<f, Original>>] = CallsOf(f)
    BY <1>0, <2>1
  <2>5. \A v \in clones' : callTo'[v] = CallsOf(v[1])
    BY <1>0, <2>1, <2>2
  <2>6. \A f \in Funcs : CallsOf(f) \subseteq DOMAIN callTo'
    BY <2>3 DEF CallsOf
  <2>7. \A v \in DOMAIN callTo' : callTo'[v] \subseteq DOMAIN callTo'
    BY <2>2, <2>3, <2>4, <2>5, <2>6
  <2>8. \A f : CallsOf(f)' = CallsOf(f)
    BY <1>0, SameProgram
  <2>9. \A v \in clones' : CallsOf(v[1])' = CallsOf(v[1])
    BY <2>8
  <2>10. stage' \notin Early /\ stage' \in {"calls", "default"}
    BY <1>2 DEF Early
  <2>11. (\A f \in Funcs : callTo[<<f, Original>>] = CallsOf(f))'
    BY <2>4, <2>8
  <2>12. (\A v \in clones : callTo[v] = CallsOf(v[1]))'
    BY <2>5, <2>9
  <2>13. (clones = UNION {{<<f, t>> : t \in threads[f]} : f \in graph})'
    BY <1>0, <2>1
  <2>14. (DOMAIN table \subseteq DOMAIN callTo /\ DOMAIN final \subseteq DOMAIN table)'
    BY <1>0, <1>c, <2>1, <2>3
  <2>15. stage' \in {"calls", "assert_clone"}
    BY <1>2
  <2> QED BY <2>3, <2>7, <2>10, <2>11, <2>12, <2>13, <2>14, <2>15 DEF CloneInv
<1> QED BY <1>1, <1>2 DEF CloneFuncs

\* The calls in the clones go to clones; none of them is missing.
LEMMA ReplaceStep ==
    ASSUME CGInv, CloneInv, ReplaceThreadedFuncCalls
    PROVE  CloneInv'
<1>0. /\ program' = program /\ graph' = graph /\ threads' = threads
      /\ clones' = clones /\ table' = table /\ final' = final
      /\ DOMAIN callTo = (Funcs \X {Original}) \cup clones
      /\ \A f \in Funcs : callTo[<<f, Original>>] = CallsOf(f)
      /\ \A v \in DOMAIN callTo : callTo[v] \subseteq DOMAIN callTo
      /\ DOMAIN table \subseteq DOMAIN callTo /\ DOMAIN final \subseteq DOMAIN table
  BY DEF CloneInv, ReplaceThreadedFuncCalls
<1>a. stage = "calls" /\ stage \notin Early
  BY DEF ReplaceThreadedFuncCalls, Early
<1>b. /\ clones = UNION {{<<f, t>> : t \in threads[f]} : f \in graph}
      /\ \A v \in clones : callTo[v] = CallsOf(v[1])
  BY <1>a DEF CloneInv
<1>c. \A f : CallsOf(f)' = CallsOf(f)
  BY <1>0, SameProgram
<1>d. \A v \in clones : v[2] # Original
  BY <1>b DEF CGInv, CGType, Original
<1>1. CASE stage' = "assert_clone" /\ UNCHANGED callTo
  BY <1>0, <1>1, <1>b, <1>c DEF CloneInv, Early, Failures
<1>2. CASE stage' = "default"
  <2>1. /\ callTo' = [v \in DOMAIN callTo |->
                        IF v \in clones THEN {FindReplace(v, w) : w \in callTo[v]}
                        ELSE callTo[v]]
        /\ \A v \in clones : \A w \in callTo[v] : w[1] \in Cloned => <<w[1], v[2]>> \in clones
    BY <1>2, Zenon DEF ReplaceThreadedFuncCalls
  <2>2. DOMAIN callTo' = DOMAIN callTo
    BY <2>1
  <2>3. \A f \in Funcs : <<f, Original>> \in DOMAIN callTo /\ <<f, Original>> \notin clones
    BY <1>0, <1>d
  <2>4. \A f \in Funcs : callTo'[<<f, Original>>] = CallsOf(f)
    BY <1>0, <2>1, <2>3
  <2>5. \A v \in clones : callTo'[v] = {FindReplace(v, w) : w \in CallsOf(v[1])}
    BY <1>0, <1>b, <2>1, Zenon
  <2>6. \A v \in DOMAIN callTo : callTo'[v] \subseteq DOMAIN callTo
    BY <1>0, <2>1 DEF FindReplace
  <2>7. \A v : \A w : FindReplace(v, w)' = FindReplace(v, w)
    BY <1>0 DEF FindReplace, Cloned
  <2>8. \A v \in clones : CallsOf(v[1])' = CallsOf(v[1])
    BY <1>c
  <2>9. \A v \in clones : callTo'[v] = {FindReplace(v, w)' : w \in CallsOf(v[1])'}
    BY <2>5, <2>7, <2>8
  <2>10. stage' \notin Early /\ stage' \in {"calls", "default"}
    BY <1>2 DEF Early
  <2>11. (\A f \in Funcs : callTo[<<f, Original>>] = CallsOf(f))'
    BY <1>c, <2>4
  <2>12. (\A v \in clones : callTo[v] = {FindReplace(v, w) : w \in CallsOf(v[1])})'
    BY <1>0, <2>9
  <2>13. (clones = UNION {{<<f, t>> : t \in threads[f]} : f \in graph})'
    BY <1>0, <1>b
  <2>14. /\ (DOMAIN callTo = (Funcs \X {Original}) \cup clones)'
         /\ (\A v \in DOMAIN callTo : callTo[v] \subseteq DOMAIN callTo)'
         /\ (DOMAIN table \subseteq DOMAIN callTo /\ DOMAIN final \subseteq DOMAIN table)'
    BY <1>0, <2>2, <2>6
  <2>15. stage' \notin {"calls", "assert_clone"}
    BY <1>2
  <2> QED BY <2>10, <2>11, <2>12, <2>13, <2>14, <2>15 DEF CloneInv
<1> QED BY <1>1, <1>2 DEF ReplaceThreadedFuncCalls

\* The functions without clones, and the changes to all functions.
LEMMA LaterStep ==
    ASSUME CGInv, CloneInv, NonCloned \/ RunOnFunctions
    PROVE  CloneInv'
<1>0. /\ program' = program /\ graph' = graph /\ threads' = threads
      /\ clones' = clones /\ callTo' = callTo
  BY DEF NonCloned, RunOnFunctions
<1>1. /\ stage \in {"default", "loops"}
      /\ stage' \in {"loops", "end", "assert_loop", "assert_count", "assert_unroll",
                    "assert_calloc"}
  BY DEF NonCloned, RunOnFunctions, Outcomes
<1>2. DOMAIN table' \subseteq DOMAIN callTo
  <2>1. CASE NonCloned
    <3>1. DOMAIN table' \subseteq DOMAIN table \cup (Funcs \X {Original})
      BY <2>1 DEF NonCloned
    <3> QED BY <3>1 DEF CloneInv
  <2>2. CASE RunOnFunctions
    BY <2>2 DEF RunOnFunctions, CloneInv
  <2> QED BY <2>1, <2>2
<1>3. DOMAIN final' \subseteq DOMAIN table'
  <2>1. CASE NonCloned
    <3>1. DOMAIN table \subseteq DOMAIN table' /\ final' = final
      BY <2>1 DEF NonCloned
    <3> QED BY <3>1 DEF CloneInv
  <2>2. CASE RunOnFunctions
    <3>1. table' = table /\ (final' = final \/ DOMAIN final' = DOMAIN table)
      BY <2>2 DEF RunOnFunctions
    <3> QED BY <3>1 DEF CloneInv
  <2> QED BY <2>1, <2>2
<1>4. \A f : CallsOf(f)' = CallsOf(f)
  BY <1>0, SameProgram
<1>5. /\ clones = UNION {{<<f, t>> : t \in threads[f]} : f \in graph}
      /\ \A v \in clones : callTo[v] = {FindReplace(v, w) : w \in CallsOf(v[1])}
  BY <1>1 DEF CloneInv, Early
<1>6. \A v : \A w : FindReplace(v, w)' = FindReplace(v, w)
  BY <1>0 DEF FindReplace, Cloned
<1>7. \A v \in clones : CallsOf(v[1])' = CallsOf(v[1])
  BY <1>4
<1>8. \A v \in clones : callTo[v] = {FindReplace(v, w)' : w \in CallsOf(v[1])'}
  BY <1>5, <1>6, <1>7
<1> QED BY <1>0, <1>1, <1>2, <1>3, <1>4, <1>5, <1>8 DEF CloneInv, Early, Failures

-----------------------------------------------------------------------------
(* The theorems *)

LEMMA Inductive == ASSUME IInv, [Next]_vars PROVE IInv'
<1>1. CASE CGNext /\ UNCHANGED rpVars
  BY <1>1, CGStep, CloneCGStep DEF IInv
<1>2. CASE CloneFuncs
  <2>1. CGInv'
    BY <1>2, CGRest DEF IInv, CloneFuncs
  <2> QED BY <1>2, <2>1, CloneFuncsStep DEF IInv
<1>3. CASE ReplaceThreadedFuncCalls
  <2>1. CGInv'
    BY <1>3, CGRest DEF IInv, ReplaceThreadedFuncCalls
  <2> QED BY <1>3, <2>1, ReplaceStep DEF IInv
<1>4. CASE NonCloned \/ RunOnFunctions
  <2>1. stage' \notin {"search", "propagate", "crashed"}
    BY <1>4 DEF NonCloned, RunOnFunctions, Outcomes
  <2>2. CGInv'
    BY <1>4, <2>1, CGRest DEF IInv, NonCloned, RunOnFunctions
  <2> QED BY <1>4, <2>2, LaterStep DEF IInv
<1>5. CASE UNCHANGED vars
  <2>1. UNCHANGED cgVars /\ UNCHANGED rpVars
    BY <1>5 DEF vars
  <2>2. CGInv'
    BY <2>1, CGStutter DEF IInv
  <2>3. /\ program' = program /\ stage' = stage /\ graph' = graph /\ threads' = threads
        /\ clones' = clones /\ callTo' = callTo /\ table' = table /\ final' = final
    BY <2>1 DEF cgVars, rpVars
  <2>4. CloneInv'
    BY <2>3 DEF IInv, CloneInv, CallsOf, FindReplace, Cloned
  <2> QED BY <2>2, <2>4 DEF IInv
<1> QED BY <1>1, <1>2, <1>3, <1>4, <1>5 DEF Next, Ended

LEMMA Invariant == Spec => []IInv
<1>1. Init => IInv
  BY CGInitial, CloneInitial DEF IInv
<1>2. IInv /\ [Next]_vars => IInv'
  BY Inductive
<1> QED BY <1>1, <1>2, PTL DEF Spec

\* The state of the pass has its type: versions are of functions of the
\* module, and calls, table and finalTable only ever name versions that exist.
THEOREM TypeCorrect == Spec => []TypeOK
<1>1. IInv => TypeOK
  <2> SUFFICES ASSUME IInv PROVE TypeOK
    OBVIOUS
  <2>1. clones \subseteq Funcs \X Nat
    <3>1. CASE stage \in Early
      BY <3>1 DEF IInv, CloneInv
    <3>2. CASE stage \notin Early
      BY <3>2 DEF IInv, CloneInv, CGInv, CGType
    <3> QED BY <3>1, <3>2
  <2> QED BY <2>1 DEF IInv, CGInv, CGType, CloneInv, TypeOK
<1> QED BY <1>1, Invariant, PTL

\* Whatever the module, its profile and the order of the edges: once the
\* search of propagateFuncThreads is over, the nodes are the functions of
\* threads that reach an instruction of the profile, each with exactly the
\* threads of those instructions.
THEOREM ThreadsExactHolds == Spec => []ThreadsExact
<1>1. IInv => ThreadsExact
  BY DEF IInv, CGInv
<1> QED BY <1>1, Invariant, PTL

\* A thread that runs in its clone stays in clones for it until it has come to
\* a function from which no instruction of the profile is reached.
THEOREM StaysInThreadHolds == Spec => []StaysInThread
<1>1. IInv => StaysInThread
  <2> SUFFICES ASSUME IInv, stage = "end", NEW v \in clones, NEW w \in ReachVersions(v)
               PROVE  IF w[2] = Original THEN \A g \in Reach(w[1]) : HintOf(g) = {}
                      ELSE w[2] = v[2]
    BY DEF StaysInThread, Completed
  <2> DEFINE ok(x) == IF x[2] = Original THEN \A g \in Reach(x[1]) : HintOf(g) = {}
                      ELSE x[2] = v[2]
             S == {x \in DOMAIN callTo : ok(x)}
  <2>1. /\ DOMAIN callTo = (Funcs \X {Original}) \cup clones
        /\ \A f \in Funcs : callTo[<<f, Original>>] = CallsOf(f)
        /\ \A x \in clones : callTo[x] = {FindReplace(x, y) : y \in CallsOf(x[1])}
        /\ \A x \in DOMAIN callTo : callTo[x] \subseteq DOMAIN callTo
        /\ clones = UNION {{<<f, t>> : t \in threads[f]} : f \in graph}
    BY DEF IInv, CloneInv, Early
  <2>2. /\ program \in Programs /\ graph \subseteq Funcs
        /\ threads \in [Funcs -> SUBSET Nat]
        /\ graph = {f \in Started : \E g \in Reach(f) : HintOf(g) # {}}
        /\ \A f \in graph : threads[f] = UNION {HintOf(g) : g \in Reach(f)}
    BY DEF IInv, CGInv, CGType, ThreadsExact
  <2>3. \A x \in clones : x[1] \in graph /\ x[2] # Original /\ x = <<x[1], x[2]>>
    BY <2>1, <2>2 DEF Original
  <2>4. graph \subseteq Cloned
    <3> SUFFICES ASSUME NEW f \in graph PROVE f \in Cloned
      OBVIOUS
    <3>1. PICK t : t \in threads[f]
      BY <2>2
    <3>2. <<f, t>> \in clones
      BY <3>1, <2>1
    <3> QED BY <3>2 DEF Cloned
  <2>5. ASSUME NEW x \in S, NEW y \in callTo[x] PROVE ok(y)
    <3>1. CASE x[2] = Original
      <4>1. x[1] \in Funcs /\ x = <<x[1], Original>>
        BY <3>1, <2>1, <2>3
      <4>2. PICK g \in program.calls[x[1]] \cap Funcs : y = <<g, Original>>
        BY <4>1, <2>1, <2>5 DEF CallsOf
      <4>3. Reach(g) \subseteq Reach(x[1])
        BY <4>1, <4>2, BelowCall
      <4> QED BY <3>1, <4>2, <4>3
    <3>2. CASE x[2] # Original
      <4>1. x \in clones /\ x[2] = v[2] /\ x[1] \in graph
        BY <3>2, <2>1, <2>3
      <4>2. PICK g \in program.calls[x[1]] \cap Funcs : y = FindReplace(x, <<g, Original>>)
        BY <4>1, <2>1, <2>5 DEF CallsOf
      <4>3. CASE g \in Cloned
        <5>1. y = <<g, x[2]>>
          BY <4>2, <4>3 DEF FindReplace
        <5> QED BY <5>1, <4>1, <3>2
      <4>4. CASE g \notin Cloned
        <5>1. y = <<g, Original>>
          BY <4>2, <4>4 DEF FindReplace
        <5>2. g \in Started /\ g \notin graph
          BY <4>1, <4>2, <4>4, <2>2, <2>4, StartedClosed DEF Closed
        <5>3. \A f \in Reach(g) : HintOf(f) = {}
          BY <5>2, <2>2
        <5> QED BY <5>1, <5>3
      <4> QED BY <4>3, <4>4
    <3> QED BY <3>1, <3>2
  <2>6. \A x \in S : callTo[x] \subseteq S
    BY <2>1, <2>5
  <2>7. v \in S
    BY <2>1, <2>3
  <2>8. S \in SUBSET DOMAIN callTo
    OBVIOUS
  <2>9. w \in S
    <3> HIDE DEF S
    <3> QED BY <2>6, <2>7, <2>8 DEF ReachVersions
  <2> QED BY <2>9
<1> QED BY <1>1, Invariant, PTL
=============================================================================
