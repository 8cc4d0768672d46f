------------------------------ MODULE Reclaim ------------------------------
(***************************************************************************)
(* What the hazard pointers of ll_alloc.c promise: a thread that gives a   *)
(* node to the owner of its block touches the queue of an owner that is    *)
(* still there, although a dead owner may be merged into another thread    *)
(* and returned at any time, and only the hazard pointers hold that up.    *)
(*                                                                         *)
(* The queues, the slabs and the locks are left out.  LLQueue is shown to  *)
(* implement this specification, and Reclaim_proofs proves what it         *)
(* promises.                                                               *)
(***************************************************************************)

CONSTANTS Threads, Atls, Blocks, None

VARIABLES
    life,    \* is an atls new, live or gone
    tls,     \* the atls of a thread
    joined,  \* the atls whose hazard pointers a reaper looks at
    dead,    \* the atls that belong to no thread
    hazard,  \* hazard pointer of an atls
    home,    \* the atls that owns a block, None if the block is not in use
    blk,     \* the block of the node that a thread frees
    bt,      \* the owner that the thread has read from the block
    st,      \* how far the thread is with publishing it
    hold,    \* the atls that a thread buries or reaps
    rp,      \* how far it is
    wait     \* hazard pointers that a reaper has still to look at

vars == <<life, tls, joined, dead, hazard, home, blk, bt, st, hold, rp, wait>>

Init ==
    /\ life = [a \in Atls |-> "new"] /\ tls = [t \in Threads |-> None]
    /\ joined = {} /\ dead = {} /\ hazard = [a \in Atls |-> None]
    /\ home = [b \in Blocks |-> None] /\ blk = [t \in Threads |-> None]
    /\ bt = [t \in Threads |-> None] /\ st = [t \in Threads |-> "other"]
    /\ hold = [t \in Threads |-> None] /\ rp = [t \in Threads |-> "none"]
    /\ wait = [t \in Threads |-> {}]
-----------------------------------------------------------------------------
(* Threads come and go.  A new atls comes with a block.                     *)
New(t) ==
    /\ tls[t] = None /\ hold[t] = None
    /\ \E a \in Atls, b \in Blocks :
        /\ life[a] = "new" /\ home[b] = None
        /\ life' = [life EXCEPT ![a] = "live"]
        /\ tls' = [tls EXCEPT ![t] = a]
        /\ home' = [home EXCEPT ![b] = a]
    /\ UNCHANGED <<joined, dead, hazard, blk, bt, st, hold, rp, wait>>

Join(t) ==
    /\ tls[t] # None
    /\ joined' = joined \cup {tls[t]}
    /\ UNCHANGED <<life, tls, dead, hazard, home, blk, bt, st, hold, rp, wait>>

Adopt(t) ==
    /\ tls[t] = None /\ hold[t] = None
    /\ \E a \in dead : /\ dead' = dead \ {a}
                       /\ tls' = [tls EXCEPT ![t] = a]
    /\ UNCHANGED <<life, joined, hazard, home, blk, bt, st, hold, rp, wait>>

Exit(t) ==
    /\ tls[t] # None /\ hold[t] = None /\ st[t] = "other"
    /\ hold' = [hold EXCEPT ![t] = tls[t]]
    /\ tls' = [tls EXCEPT ![t] = None]
    /\ rp' = [rp EXCEPT ![t] = "owned"]
    /\ UNCHANGED <<life, joined, dead, hazard, home, blk, bt, st, wait>>

Bury(t) ==
    /\ rp[t] = "owned" /\ tls[t] = None
    /\ dead' = dead \cup {hold[t]}
    /\ hold' = [hold EXCEPT ![t] = None]
    /\ rp' = [rp EXCEPT ![t] = "none"]
    /\ UNCHANGED <<life, tls, joined, hazard, home, blk, bt, st, wait>>
-----------------------------------------------------------------------------
(* A block comes into use, and leaves it when no other thread than t still  *)
(* frees a node of it.                                                      *)
Obtain(t) ==
    /\ tls[t] # None
    /\ \E b \in Blocks : /\ home[b] = None
                         /\ home' = [home EXCEPT ![b] = tls[t]]
    /\ UNCHANGED <<life, tls, joined, dead, hazard, blk, bt, st, hold, rp, wait>>

Emptied(t) ==
    \/ UNCHANGED home
    \/ \E b \in Blocks : /\ \A u \in Threads : u # t => blk[u] # b
                         /\ home' = [home EXCEPT ![b] = None]

(* A node is freed by its owner.                                            *)
FreeOwn(t) ==
    /\ st[t] = "other"
    /\ blk' = [blk EXCEPT ![t] = None]
    /\ Emptied(t)
    /\ UNCHANGED <<life, tls, joined, dead, hazard, bt, st, hold, rp, wait>>

(* A thread without an atls has a node to free.                             *)
Take(t) ==
    /\ blk[t] = None
    /\ \E b \in Blocks : home[b] # None /\ blk' = [blk EXCEPT ![t] = b]
    /\ UNCHANGED <<life, tls, joined, dead, hazard, home, bt, st, hold, rp, wait>>

(* A thread frees a node of another: it reads the owner of the block,...    *)
Read(t) ==
    /\ tls[t] \in joined /\ tls[t] # None /\ hold[t] = None /\ st[t] = "other"
    /\ \E b \in Blocks :
        /\ blk[t] \in {None, b} /\ home[b] # None
        /\ blk' = [blk EXCEPT ![t] = b]
        /\ bt' = [bt EXCEPT ![t] = home[b]]
    /\ st' = [st EXCEPT ![t] = "publish"]
    /\ UNCHANGED <<life, tls, joined, dead, hazard, home, hold, rp, wait>>

(* ... publishes it,...                                                     *)
Publish(t) ==
    /\ st[t] = "publish"
    /\ hazard' = [hazard EXCEPT ![tls[t]] = bt[t]]
    /\ st' = [st EXCEPT ![t] = "confirm"]
    /\ UNCHANGED <<life, tls, joined, dead, home, blk, bt, hold, rp, wait>>

(* ... reads it again,...                                                   *)
Confirm(t) ==
    /\ st[t] = "confirm"
    /\ bt' = [bt EXCEPT ![t] = home[blk[t]]]
    /\ st' = [st EXCEPT ![t] = IF home[blk[t]] = bt[t] THEN "use" ELSE "publish"]
    /\ UNCHANGED <<life, tls, joined, dead, hazard, home, blk, hold, rp, wait>>

(* ... and, if it has not changed, puts the node in its queue.              *)
Use(t) ==
    /\ st[t] = "use"
    /\ blk' = [blk EXCEPT ![t] = None]
    /\ bt' = [bt EXCEPT ![t] = None]
    /\ st' = [st EXCEPT ![t] = "clear"]
    /\ UNCHANGED <<life, tls, joined, dead, hazard, home, hold, rp, wait>>

Clear(t) ==
    /\ st[t] = "clear"
    /\ hazard' = [hazard EXCEPT ![tls[t]] = None]
    /\ st' = [st EXCEPT ![t] = "other"]
    /\ UNCHANGED <<life, tls, joined, dead, home, blk, bt, hold, rp, wait>>
-----------------------------------------------------------------------------
(* A thread takes over the blocks of a dead atls,...                        *)
ReapTake(t) ==
    /\ tls[t] # None /\ hold[t] = None /\ st[t] = "other"
    /\ \E a \in dead : /\ dead' = dead \ {a}
                       /\ hold' = [hold EXCEPT ![t] = a]
    /\ rp' = [rp EXCEPT ![t] = "owned"]
    /\ UNCHANGED <<life, tls, joined, hazard, home, blk, bt, st, wait>>

ReapStart(t) ==
    /\ rp[t] = "owned" /\ tls[t] # None
    /\ joined' = joined \ {hold[t]}
    /\ rp' = [rp EXCEPT ![t] = "merge"]
    /\ UNCHANGED <<life, tls, dead, hazard, home, blk, bt, st, hold, wait>>

Merge(t) ==
    /\ rp[t] = "merge"
    /\ \E b \in Blocks : /\ home[b] = hold[t]
                         /\ home' = [home EXCEPT ![b] = tls[t]]
    /\ UNCHANGED <<life, tls, joined, dead, hazard, blk, bt, st, hold, rp, wait>>

Merged(t) ==
    /\ rp[t] = "merge" /\ \A b \in Blocks : home[b] # hold[t]
    /\ wait' = [wait EXCEPT ![t] = joined]
    /\ rp' = [rp EXCEPT ![t] = "wait"]
    /\ UNCHANGED <<life, tls, joined, dead, hazard, home, blk, bt, st, hold>>

(* ... waits for every hazard pointer to be another one,...                 *)
Wait(t) ==
    /\ rp[t] = "wait"
    /\ \E a \in wait[t] : /\ hazard[a] # hold[t]
                          /\ wait' = [wait EXCEPT ![t] = @ \ {a}]
    /\ UNCHANGED <<life, tls, joined, dead, hazard, home, blk, bt, st, hold, rp>>

(* ... and then takes its queue apart and returns its page.                 *)
TakeApart(t) ==
    /\ rp[t] = "wait" /\ wait[t] = {}
    /\ rp' = [rp EXCEPT ![t] = "apart"]
    /\ UNCHANGED <<life, tls, joined, dead, hazard, home, blk, bt, st, hold, wait>>

Return(t) ==
    /\ rp[t] = "apart"
    /\ life' = [life EXCEPT ![hold[t]] = "gone"]
    /\ hold' = [hold EXCEPT ![t] = None]
    /\ rp' = [rp EXCEPT ![t] = "none"]
    /\ Emptied(t) /\ blk[t] = None
    /\ UNCHANGED <<tls, joined, dead, hazard, blk, bt, st, wait>>
-----------------------------------------------------------------------------
Step(t) ==
    \/ New(t) \/ Join(t) \/ Adopt(t) \/ Exit(t) \/ Bury(t)
    \/ Obtain(t) \/ FreeOwn(t) \/ Take(t)
    \/ Read(t) \/ Publish(t) \/ Confirm(t) \/ Use(t) \/ Clear(t)
    \/ ReapTake(t) \/ ReapStart(t) \/ Merge(t) \/ Merged(t) \/ Wait(t)
    \/ TakeApart(t) \/ Return(t)

Next == \E t \in Threads : Step(t)

Spec == Init /\ [][Next]_vars
-----------------------------------------------------------------------------
(* A thread that uses the queue of an owner uses that of one that is live   *)
(* and that no reaper takes apart.                                          *)
OwnerStays ==
    \A t \in Threads : st[t] = "use" =>
        /\ bt[t] \in Atls /\ life[bt[t]] = "live"
        /\ \A r \in Threads : hold[r] = bt[t] => rp[r] # "apart"

(* A hazard pointer that a reaper waits for is that of a thread that is     *)
(* going to clear or to change it.                                          *)
WaitsForWork ==
    \A r \in Threads : rp[r] = "wait" =>
        \A a \in wait[r] : hazard[a] = hold[r] =>
            \E t \in Threads : tls[t] = a /\ st[t] # "other"
-----------------------------------------------------------------------------
(* The invariant that these promises rest on.                               *)

(* None is no atls and no block.                                            *)
NoneApart == None \notin Atls /\ None \notin Blocks

States == {"publish", "confirm", "use", "clear", "other"}

Phases == {"none", "owned", "merge", "wait", "apart"}

Types ==
    /\ life \in [Atls -> {"new", "live", "gone"}]
    /\ tls \in [Threads -> Atls \cup {None}]
    /\ joined \in SUBSET Atls /\ dead \in SUBSET Atls
    /\ hazard \in [Atls -> Atls \cup {None}]
    /\ home \in [Blocks -> Atls \cup {None}]
    /\ blk \in [Threads -> Blocks \cup {None}]
    /\ bt \in [Threads -> Atls \cup {None}]
    /\ st \in [Threads -> States]
    /\ hold \in [Threads -> Atls \cup {None}]
    /\ rp \in [Threads -> Phases]
    /\ wait \in [Threads -> SUBSET Atls]

(* An atls has one place: a thread, a thread that holds it, or the dead.    *)
OnePlace ==
    /\ \A a \in dead : life[a] = "live"
    /\ \A t \in Threads : tls[t] # None => life[tls[t]] = "live" /\ tls[t] \notin dead
    /\ \A t \in Threads : hold[t] # None => life[hold[t]] = "live" /\ hold[t] \notin dead
    /\ \A t, u \in Threads : tls[t] # None /\ tls[t] = tls[u] => t = u
    /\ \A t, u \in Threads : hold[t] # None /\ hold[t] = hold[u] => t = u
    /\ \A t, u \in Threads : tls[t] # None => tls[t] # hold[u]

(* A thread that holds an atls is at no prepend, and one past burying it    *)
(* has an atls of its own.                                                  *)
Holding ==
    \A t \in Threads :
        /\ hold[t] = None <=> rp[t] = "none"
        /\ hold[t] # None => st[t] = "other"
        /\ rp[t] \in {"merge", "wait", "apart"} => tls[t] # None

(* The owner of a block is live and not yet merged.                         *)
Homes ==
    \A b \in Blocks : home[b] # None =>
        /\ life[home[b]] = "live"
        /\ \A r \in Threads : hold[r] = home[b] => rp[r] \in {"owned", "merge"}

(* A block is in use as long as a thread frees a node of it.                *)
InUse == \A t \in Threads : blk[t] # None => home[blk[t]] # None

(* From publishing on, the atls of the thread is one that reapers look at,  *)
(* and its hazard pointer is the owner that the thread has read.            *)
Published ==
    \A t \in Threads :
        /\ st[t] # "other" => tls[t] # None /\ tls[t] \in joined
        /\ st[t] \in {"publish", "confirm", "use"} => blk[t] # None /\ bt[t] # None
        /\ st[t] \in {"confirm", "use"} => hazard[tls[t]] = bt[t]

(* The owner that a thread uses is live, and a reaper that is past merging  *)
(* it has still to look at the hazard pointer of the thread.                *)
Protected ==
    \A t \in Threads : st[t] = "use" =>
        /\ life[bt[t]] = "live"
        /\ \A r \in Threads : hold[r] = bt[t] =>
              \/ rp[r] \in {"owned", "merge"}
              \/ rp[r] = "wait" /\ tls[t] \in wait[r]

(* A hazard pointer that is set is that of a thread that prepends.          *)
AtWork ==
    \A a \in Atls : hazard[a] # None =>
        \E t \in Threads : tls[t] = a /\ st[t] # "other"

IInv == Types /\ OnePlace /\ Holding /\ Homes /\ InUse /\ Published /\ Protected /\ AtWork
=============================================================================
