----------------------------- MODULE MCProgress -----------------------------
(***************************************************************************)
(* What has to come to an end, for TLC: stopping and restarting the world, *)
(* an allocation that finds no memory, and the queue of finalizers.  A     *)
(* behaviour chooses one of them at its start and the others stand still,  *)
(* so that each is explored by itself.                                     *)
(***************************************************************************)
EXTENDS StopWorld, HeapGrowth, FinalizerRuns

VARIABLE part       \* the component that moves

progressVars == <<stopVars, growthVars, runVars, part>>

------------------------------------------------------------------------------
(* Values of the constants *)

\* Signals arrive and the program has its own, or signals get lost.
MCStopConfigs ==
    {[retry |-> FALSE, other |-> TRUE, stops |-> 3, lost |-> 0],
     [retry |-> TRUE, other |-> FALSE, stops |-> 1, lost |-> 1]}

\* The usual settings; no expansion and a limit; incremental; no collections.
Setting(incr, dontGc, dontExpand, disableAuto, max, retries) ==
    [incremental |-> incr, dontGc |-> dontGc, dontExpand |-> dontExpand,
     disableAuto |-> disableAuto, max |-> max, retries |-> retries]
MCGrowthConfigs ==
    {Setting(FALSE, FALSE, FALSE, FALSE, 0, 1), Setting(FALSE, FALSE, TRUE, TRUE, 4, 2),
     Setting(TRUE, FALSE, FALSE, FALSE, 0, 0), Setting(FALSE, TRUE, FALSE, FALSE, 0, 1)}

------------------------------------------------------------------------------
ProgressInit ==
    /\ part \in {"stop", "growth", "finalizers"}
    /\ StopInit
    /\ part # "stop" => sconf = CHOOSE c \in StopConfigs : TRUE
    /\ GrowthInit
    /\ part # "growth" => gconf = CHOOSE c \in GrowthConfigs : TRUE
    /\ RunsInit
    /\ part # "finalizers" => ~onDemand

ProgressNext ==
    /\ \/ part = "stop" /\ StopNext /\ UNCHANGED <<growthVars, runVars>>
       \/ part = "growth" /\ GrowthNext /\ UNCHANGED <<stopVars, runVars>>
       \/ part = "finalizers" /\ RunsNext /\ UNCHANGED <<stopVars, growthVars>>
    /\ UNCHANGED part

ProgressSpec ==
    /\ ProgressInit /\ [][ProgressNext]_progressVars
    /\ StopFairness
    /\ GrowthFairness
    /\ RunsFairness

------------------------------------------------------------------------------
\* What is counted and waited for is right whenever a stop, an allocation or a
\* finalizer goes on: acknowledgements, blocks, nesting and notifications.
CountsSound == StopSound /\ ReliableStop /\ GrowthTypeOK /\ RunsTypeOK /\ NotifiedOnce

\* What was begun ends: stops, allocations, and the wait of finalizers.
RequestsEnd == StopSucceeds /\ AllocReturns /\ QueueServed
=============================================================================
