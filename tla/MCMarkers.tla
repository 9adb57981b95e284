------------------------------ MODULE MCMarkers ------------------------------
(***************************************************************************)
(* The parallel markers for TLC, and the mark lock and the events that     *)
(* they wait for in the Windows port.  A behaviour chooses one of the two  *)
(* at its start and the other stands still, so that each is explored by    *)
(* itself.                                                                 *)
(***************************************************************************)
EXTENDS ParallelMark, WinEvents

CONSTANTS a, b, c, d, e

VARIABLE part       \* the component that moves

markersVars == <<vars, eventVars, part>>

------------------------------------------------------------------------------
(* Values of the constants *)

\* Three objects below one root with a fourth below one of them, and a stack
\* with room for all: entries are stolen, returned and shared.
Tree == [o \in Obj |-> CASE o = a -> {b, c, d} [] o = d -> {e} [] OTHER -> {}]
Sharing == [succ |-> Tree, helpers |-> 1, stack |-> 5, local |-> 4, phases |-> 1]

\* A chain, and stacks of one entry: entries are dropped and phases repeated.
Chain == [o \in Obj |-> CASE o = a -> {b} [] o = b -> {c} [] OTHER -> {}]
Dropping == [succ |-> Chain, helpers |-> 2, stack |-> 1, local |-> 1, phases |-> 3]

MCMarkConfigs == {Sharing, Dropping}

------------------------------------------------------------------------------
MarkersInit ==
    /\ part \in {"marking", "events"}
    /\ Init
    /\ part # "marking" => mconf = Sharing
    /\ EventsInit

MarkersNext ==
    /\ \/ part = "marking" /\ Next /\ UNCHANGED eventVars
       \/ part = "events" /\ EventsNext /\ UNCHANGED vars
    /\ UNCHANGED part

\* The fairness of the component that moves; the other one could take steps at
\* its start, which nobody asks of it.
MarkersFairness ==
    /\ WF_marking(part = "marking" /\ (GC_do_parallel_mark \/ StopHelp))
    /\ \A k \in 1..MaxHelpers : WF_marking(part = "marking" /\ k \in Helper /\ GC_help_marker(k))
    /\ \A k \in 0..MaxHelpers : WF_marking(part = "marking" /\ k \in Marker /\ MarkLocal(k))
    /\ WF_eventVars(part = "events" /\ LeaderStep)
    /\ \A t \in Actor : WF_eventVars(part = "events" /\ (LockStep(t) \/ MarkerStep(t)))
    /\ \A t \in FlBuilder : WF_eventVars(part = "events" /\ BuilderProceeds(t))

MarkersSpec == MarkersInit /\ [][MarkersNext]_markersVars /\ MarkersFairness

------------------------------------------------------------------------------
\* No wakeup is lost, by condition variables or by events: every mark phase ends.
MarkingEnds == PhaseEnds /\ MarkPhasesEnd
=============================================================================
