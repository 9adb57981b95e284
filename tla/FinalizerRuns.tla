---------------------------- MODULE FinalizerRuns ----------------------------
(***************************************************************************)
(* Who runs the finalizers that a collection has queued, and when          *)
(* (GC_notify_or_invoke_finalizers and GC_invoke_finalizers in finalize.c, *)
(* GC_check_finalizer_nested in pthread_support.c and win32_threads.c).    *)
(*                                                                         *)
(* Every allocation that takes the slow path calls                         *)
(* GC_notify_or_invoke_finalizers once it has released the allocation      *)
(* lock.  Finalizers allocate too, so a thread has a stack of calls of     *)
(* GC_invoke_finalizers.  The limit on its nesting is a counter that each  *)
(* implicit call resets when it ends.  Finalize models which objects are   *)
(* queued; here any registered ones are.                                   *)
(***************************************************************************)
EXTENDS Integers, FiniteSets, Sequences, SequencesExt

CONSTANTS
    Runner,       \* threads of the program
    Finalizable,  \* objects with finalizers
    Daemon,       \* the thread that the notifier wakes, one of Runner
    MaxNest,      \* bound on the calls of GC_invoke_finalizers on a stack
    MaxGcNo     \* bound on GC_gc_no

ASSUME RunsAssumption ==
    /\ Daemon \in Runner /\ IsFiniteSet(Finalizable)
    /\ {MaxNest, MaxGcNo} \subseteq Nat

VARIABLES
    onDemand,     \* GC_finalize_on_demand
    fnlz,         \* which finalizers are fresh, registered, queued (in order) or done
    cycle,        \* GC_gc_no, last_finalizer_notification, calls of the notifier
    stack,        \* each thread's calls of GC_invoke_finalizers, innermost first
    level         \* each thread's finalizer_nested and finalizer_skipped

runVars == <<onDemand, fnlz, cycle, stack, level>>

------------------------------------------------------------------------------
\* A call is between two finalizers, or in the finalizer of one object.
Called(why, o) == [why |-> why, in |-> o]
InLoop(t) == stack[t] # <<>> /\ Head(stack[t]).in = {}

\* The thread runs code of the program, perhaps that of a finalizer.
Code(t) == ~InLoop(t)

Push(t, why) == stack' = [stack EXCEPT ![t] = <<Called(why, {})>> \o @]
Pop(t) == stack' = [stack EXCEPT ![t] = Tail(@)]
MayNest(t) == Len(stack[t]) < MaxNest

Implicit(t) == SelectSeq(stack[t], LAMBDA c : c.why = "implicit")

RunsInit ==
    /\ onDemand \in BOOLEAN
    /\ fnlz = [fresh |-> Finalizable, registered |-> {}, queue |-> <<>>, done |-> {}]
    /\ cycle = [no |-> 0, told |-> 0, calls |-> 0, wake |-> FALSE]
    /\ stack = [t \in Runner |-> <<>>]
    /\ level = [t \in Runner |-> [nested |-> 0, skipped |-> 0]]

GC_register_finalizer(t, o) ==
    /\ Code(t) /\ o \in fnlz.fresh
    /\ fnlz' = [fnlz EXCEPT !.fresh = @ \ {o}, !.registered = @ \cup {o}]
    /\ UNCHANGED <<onDemand, cycle, stack, level>>

(***************************************************************************)
(* A collection by thread t: GC_stopped_mark counts it and GC_finalize     *)
(* queues os, all with the lock held.  After a failed allocation           *)
(* GC_finalize lifts the limit on t's nesting.                             *)
(***************************************************************************)
GC_finalize(t, os, failed) ==
    /\ Code(t) /\ cycle.no < MaxGcNo
    /\ os # {} /\ os \subseteq fnlz.registered
    /\ fnlz' = [fnlz EXCEPT !.registered = @ \ os, !.queue = SetToSeq(os) \o @]
    /\ cycle' = [cycle EXCEPT !.no = @ + 1, !.calls = 0]
    /\ level' = IF failed THEN [level EXCEPT ![t].nested = 0] ELSE level
    /\ UNCHANGED <<onDemand, stack>>

------------------------------------------------------------------------------
(* GC_notify_or_invoke_finalizers, whose first test of the queue is        *)
(* repeated with the lock held *)

\* What the limit on the nesting says: skip this call, or make it at a level.
GC_check_finalizer_nested(l) ==
    IF l.nested > 0 /\ l.skipped + 1 < 2 ^ l.nested
    THEN [run |-> FALSE, l |-> [l EXCEPT !.skipped = @ + 1]]
    ELSE [run |-> TRUE,
          l |-> [nested |-> l.nested + 1, skipped |-> IF l.nested > 0 THEN 0 ELSE l.skipped]]

InvokeImplicitly(t) ==
    /\ Code(t) /\ MayNest(t) /\ fnlz.queue # <<>> /\ ~onDemand
    /\ \E c \in {GC_check_finalizer_nested(level[t])} :
         /\ level' = [level EXCEPT ![t] = c.l]
         /\ IF c.run THEN Push(t, "implicit") ELSE UNCHANGED stack
    /\ UNCHANGED <<onDemand, fnlz, cycle>>

\* last_finalizer_notification after the call of the notifier.
ToldAt(told, no) == no

\* mutated form: the notifier is called once, not once in a cycle
ToldEarlier == cycle.told = 0
MayTell == cycle.told # cycle.no

Notify(t) ==
    /\ Code(t) /\ fnlz.queue # <<>> /\ onDemand
    /\ MayTell
    /\ cycle' = [cycle EXCEPT !.told = ToldAt(@, cycle.no), !.calls = @ + 1, !.wake = TRUE]
    /\ UNCHANGED <<onDemand, fnlz, stack, level>>

------------------------------------------------------------------------------
(* GC_invoke_finalizers *)

\* Any thread may decide to run the finalizers now.
GC_invoke_finalizers(t) ==
    /\ Code(t) /\ MayNest(t) /\ fnlz.queue # <<>>
    /\ Push(t, "explicit")
    /\ UNCHANGED <<onDemand, fnlz, cycle, level>>

\* The thread that was notified does.
Woken ==
    /\ stack[Daemon] = <<>> /\ cycle.wake
    /\ cycle' = [cycle EXCEPT !.wake = FALSE]
    /\ Push(Daemon, "explicit")
    /\ UNCHANGED <<onDemand, fnlz, level>>

\* One element is taken with the lock held.
Take(t) ==
    /\ InLoop(t) /\ fnlz.queue # <<>>
    /\ stack' = [stack EXCEPT ![t] = <<Called(Head(@).why, {Head(fnlz.queue)})>> \o Tail(@)]
    /\ fnlz' = [fnlz EXCEPT !.queue = Tail(@)]
    /\ UNCHANGED <<onDemand, cycle, level>>

\* The finalizer returns.
Return(t) ==
    /\ stack[t] # <<>> /\ Code(t)
    /\ fnlz' = [fnlz EXCEPT !.done = @ \cup Head(stack[t]).in]
    /\ stack' = [stack EXCEPT ![t] = <<Called(Head(@).why, {})>> \o Tail(@)]
    /\ UNCHANGED <<onDemand, cycle, level>>

\* An implicit call resets finalizer_nested, for all calls around it as well.
LevelAfter(l, why) == IF why = "implicit" THEN [l EXCEPT !.nested = 0] ELSE l

\* The queue is found empty.
Leave(t) ==
    /\ InLoop(t) /\ fnlz.queue = <<>> /\ Head(stack[t]).why # "all"
    /\ level' = [level EXCEPT ![t] = LevelAfter(@, Head(stack[t]).why)]
    /\ Pop(t)
    /\ UNCHANGED <<onDemand, fnlz, cycle>>

------------------------------------------------------------------------------
(* GC_finalize_all: every registered finalizer is queued and run, until    *)
(* none is registered *)

AllQueued == [fnlz EXCEPT !.registered = {}, !.queue = SetToSeq(fnlz.registered) \o @]

GC_finalize_all(t) ==
    /\ Code(t) /\ MayNest(t) /\ fnlz.registered # {}
    /\ fnlz' = AllQueued
    /\ Push(t, "all")
    /\ UNCHANGED <<onDemand, cycle, level>>

FinalizeAllAgain(t) ==
    /\ InLoop(t) /\ fnlz.queue = <<>> /\ Head(stack[t]).why = "all"
    /\ IF fnlz.registered = {} THEN Pop(t) /\ UNCHANGED fnlz
       ELSE fnlz' = AllQueued /\ UNCHANGED stack
    /\ UNCHANGED <<onDemand, cycle, level>>

------------------------------------------------------------------------------
Allocates(t) == InvokeImplicitly(t) \/ Notify(t)
GoesOnRunning(t) == Take(t) \/ Return(t) \/ Leave(t) \/ FinalizeAllAgain(t)

RunsNext ==
    \/ Woken
    \/ \E t \in Runner :
        \/ \E o \in Finalizable : GC_register_finalizer(t, o)
        \/ \E os \in SUBSET Finalizable, failed \in BOOLEAN : GC_finalize(t, os, failed)
        \/ Allocates(t) \/ GC_invoke_finalizers(t) \/ GC_finalize_all(t)
        \/ GoesOnRunning(t)

(***************************************************************************)
(* Finalizers return and threads go on; the program goes on allocating     *)
(* outside of finalizers too; the thread that is notified runs finalizers. *)
(***************************************************************************)
RunsFairness ==
    /\ WF_runVars(Woken)
    /\ \A t \in Runner :
        /\ WF_runVars(GoesOnRunning(t))
        /\ WF_runVars(stack[t] = <<>> /\ Allocates(t))

------------------------------------------------------------------------------
(* Properties *)

(***************************************************************************)
(* The variables have their types, every finalizer is in one place, and a  *)
(* thread's limit on the nesting never exceeds its implicit calls of       *)
(* GC_invoke_finalizers: outside of them it skips nothing.                 *)
(***************************************************************************)
RunsTypeOK ==
    /\ \A t \in Runner :
          /\ level[t].nested \in 0 .. Len(Implicit(t)) /\ level[t].skipped \in 0 .. 2 ^ MaxNest - 1
          /\ Len(stack[t]) <= MaxNest
    /\ cycle.told \in 0 .. cycle.no /\ cycle.no <= MaxGcNo
    /\ Cardinality(fnlz.fresh) + Cardinality(fnlz.registered) + Len(fnlz.queue)
         + Cardinality(fnlz.done)
         + Cardinality({<<t, i>> \in Runner \X (1 .. MaxNest) :
                          i <= Len(stack[t]) /\ stack[t][i].in # {}})
         = Cardinality(Finalizable)

(***************************************************************************)
(* include/gc/gc.h: the notifier is "Invoked at most once per GC cycle",   *)
(* by whichever of the allocating threads comes first.                     *)
(***************************************************************************)
NotifiedOnce == cycle.calls <= 1

(***************************************************************************)
(* Every queued finalizer is run, on demand or not, although implicit      *)
(* calls from finalizers are skipped at some levels of nesting and the     *)
(* notifier is called once in a cycle.                                     *)
(***************************************************************************)
QueueServed == \A o \in Finalizable : (o \in Range(fnlz.queue)) ~> (o \in fnlz.done)
=============================================================================
