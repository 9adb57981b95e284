----------------------------- MODULE StopWorld -----------------------------
(***************************************************************************)
(* Stopping and restarting the world with signals (pthread_stop_world.c):  *)
(* the thread that holds the allocation lock sends every other thread a    *)
(* suspend signal, the handler acknowledges it with a semaphore and sleeps *)
(* until a restart signal arrives and the stop count has changed.  Signals *)
(* may get lost and are sent again (GC_retry_signals).  The write barrier  *)
(* is the manual one, whose lock must not be held by a stopped thread.     *)
(*                                                                         *)
(* The two signals differ, are not queued, and are masked in the handlers, *)
(* except for the restart signal in sigsuspend.  Threads are not suspended *)
(* one by one (GC_suspend_thread).                                         *)
(***************************************************************************)
EXTENDS Integers, FiniteSets

CONSTANTS Thread,        \* the registered threads but the one that collects
          ResendLimit,   \* RESEND_SIGNALS_LIMIT
          Stopper,       \* the thread that collects, as owner of the dirty lock
          Nobody,
          StopConfigs    \* the settings and bounds below, one chosen at the start

ASSUME ThreadsFinite == IsFiniteSet(Thread)
ASSUME OwnersDiffer == Stopper \notin Thread /\ Nobody \notin Thread \cup {Stopper}
ASSUME StopConfigsAssumption ==
  /\ ResendLimit \in Nat \ {0}
  /\ StopConfigs \subseteq [retry : BOOLEAN, other : BOOLEAN, stops : Nat, lost : Nat]

VARIABLES
  sconf,       \* the configuration
  \* shared
  stopCount,   \* GC_stop_count; odd when threads may run (THREAD_RESTARTED)
  sem,         \* GC_suspend_ack_sem
  dirtyLock,   \* the owner of GC_fault_handler_lock
  pending,     \* pending[t]: the signals sent to t that it has not taken
  lost,        \* signals lost so far
  \* a thread
  tpc,         \* where it is
  back,        \* what the suspend handler returns to
  myStop,      \* my_stop_count
  lastStop,    \* last_stop_count
  \* the thread that collects
  spc,         \* where it is
  todo,        \* threads that GC_suspend_all or GC_restart_all has yet to visit
  sent,        \* ... and the signals it has sent
  nLive,       \* n_live_threads
  prevSent, retry

shared == <<stopCount, sem, dirtyLock, lost>>
thread == <<tpc, back, myStop, lastStop>>
resend == <<prevSent, retry>>
stopper == <<spc, todo, sent, nLive, resend>>
protocol == <<shared, pending, thread, stopper>>
stopVars == <<sconf, protocol>>

RetrySignals == sconf.retry   \* GC_retry_signals
\* The program handles signals that the handlers leave unmasked (SIGINT,
\* SIGQUIT, SIGABRT, SIGTERM).
OtherSignals == sconf.other
MaxStops == sconf.stops       \* bound on the number of GC_stop_world calls
MaxLost == sconf.lost         \* bound on the number of signals lost

Restarted(n) == n % 2 = 1     \* n & THREAD_RESTARTED

StopInit ==
  /\ sconf \in StopConfigs
  /\ stopCount = 1
  /\ sem = 0
  /\ dirtyLock = Nobody
  /\ pending = [t \in Thread |-> {}]
  /\ lost = 0
  /\ tpc = [t \in Thread |-> "run"]
  /\ back = [t \in Thread |-> "run"]
  /\ myStop = [t \in Thread |-> 0]
  /\ lastStop = [t \in Thread |-> 0]
  /\ spc = "idle"
  /\ todo = {}
  /\ sent = 0
  /\ nLive = 0
  /\ prevSent = 0
  /\ retry = 0

Goto(t, label) == tpc' = [tpc EXCEPT ![t] = label]

-----------------------------------------------------------------------------
(***************************************************************************)
(* A thread, outside of the handlers.                                      *)
(***************************************************************************)

\* async_set_pht_entry_from_index: the bit is set with the dirty lock held.
DirtyBegin(t) ==
  /\ tpc[t] = "run"
  /\ dirtyLock = Nobody
  /\ dirtyLock' = t
  /\ Goto(t, "dirty")
  /\ UNCHANGED <<stopCount, sem, lost, pending, back, myStop, lastStop, stopper>>

DirtyEnd(t) ==
  /\ tpc[t] = "dirty"
  /\ dirtyLock' = Nobody
  /\ Goto(t, "run")
  /\ UNCHANGED <<stopCount, sem, lost, pending, back, myStop, lastStop, stopper>>

\* GC_do_blocking_inner sets and clears DO_BLOCKING under the allocation lock.
InHandler(t) == tpc[t] \notin {"run", "dirty", "blocking"}
Blocking(t) == "blocking" = IF InHandler(t) THEN back[t] ELSE tpc[t]
BlockingBegins(t) ==
  /\ tpc[t] = "run"
  /\ spc = "idle"
  /\ Goto(t, "blocking")
  /\ UNCHANGED <<shared, pending, back, myStop, lastStop, stopper>>
BlockingEnds(t) ==
  /\ tpc[t] = "blocking"
  /\ spc = "idle"
  /\ Goto(t, "run")
  /\ UNCHANGED <<shared, pending, back, myStop, lastStop, stopper>>

-----------------------------------------------------------------------------
(***************************************************************************)
(* The signal handlers.                                                    *)
(***************************************************************************)

\* A restart signal that comes late does nothing (GC_restart_handler).
GC_restart_handler(t) ==
  /\ ~InHandler(t)
  /\ "restart" \in pending[t]
  /\ pending' = [pending EXCEPT ![t] = @ \ {"restart"}]
  /\ UNCHANGED <<shared, thread, stopper>>

\* GC_suspend_sigaction is called ...
GC_suspend_sigaction(t) ==
  /\ ~InHandler(t)
  /\ "suspend" \in pending[t]
  /\ pending' = [pending EXCEPT ![t] = @ \ {"suspend"}]
  /\ back' = [back EXCEPT ![t] = tpc[t]]
  /\ Goto(t, "enter")
  /\ UNCHANGED <<shared, myStop, lastStop, stopper>>

\* The order of the handler's steps; the acknowledgement comes first.
FollowingSwapped(label) ==    \* mutant: last_stop_count is stored first
  CASE label = "enter" -> "store" [] label = "store" -> "post"
    [] label = "post" -> "wait"
Following(label) ==
  CASE label = "enter" -> "post" [] label = "post" -> "store"
    [] label = "store" -> "wait"

\* ... and reads the stop count.  It returns if the world is restarting, or
\* if the thread has already acknowledged this stop.
Duplicate(t) == lastStop[t] - (lastStop[t] % 2) = stopCount
LoadStopCount(t) ==
  /\ tpc[t] = "enter"
  /\ IF Restarted(stopCount) \/ Duplicate(t)
     THEN Goto(t, "return") /\ UNCHANGED myStop
     ELSE Goto(t, Following("enter")) /\ myStop' = [myStop EXCEPT ![t] = stopCount]
  /\ UNCHANGED <<shared, pending, back, lastStop, stopper>>

\* The stack pointer has been saved: tell the thread that wants to stop.
Acknowledge(t) ==
  /\ tpc[t] = "post"
  /\ sem' = sem + 1
  /\ Goto(t, Following("post"))
  /\ UNCHANGED <<stopCount, dirtyLock, lost, pending, back, myStop, lastStop, stopper>>

StoreStopCount(t) ==
  /\ tpc[t] = "store"
  /\ lastStop' = [lastStop EXCEPT ![t] = myStop[t]]
  /\ Goto(t, Following("store"))
  /\ UNCHANGED <<shared, pending, back, myStop, stopper>>

\* sigsuspend returns on the restart signal, or on one of the program's own.
Awake(t) ==
  /\ tpc[t] = "wait"
  /\ pending' = [pending EXCEPT ![t] = @ \ {"restart"}]
  /\ Goto(t, "check")
  /\ UNCHANGED <<shared, back, myStop, lastStop, stopper>>
WokenByRestart(t) == "restart" \in pending[t] /\ Awake(t)
WokenByOther(t) == OtherSignals /\ "restart" \notin pending[t] /\ Awake(t)

\* The signal is not authoritative, the stop count is.
GoesBack(t) == stopCount = myStop[t]
CheckStopCount(t) ==
  /\ tpc[t] = "check"
  /\ Goto(t, IF GoesBack(t) THEN "wait" ELSE IF RetrySignals THEN "repost" ELSE "return")
  /\ UNCHANGED <<shared, pending, back, myStop, lastStop, stopper>>

\* More handshaking if the restart signal may be lost.
AcknowledgeRestart(t) ==
  /\ tpc[t] = "repost"
  /\ sem' = sem + 1
  /\ Goto(t, "restore")
  /\ UNCHANGED <<stopCount, dirtyLock, lost, pending, back, myStop, lastStop, stopper>>

StoreRestarted(t) ==
  /\ tpc[t] = "restore"
  /\ lastStop' = [lastStop EXCEPT ![t] = myStop[t] + 1]
  /\ Goto(t, "return")
  /\ UNCHANGED <<shared, pending, back, myStop, stopper>>

\* The signals are unmasked; a pending suspend signal is taken at once.
HandlerReturns(t) ==
  /\ tpc[t] = "return"
  /\ Goto(t, IF "suspend" \in pending[t] THEN "enter" ELSE back[t])
  /\ pending' = [pending EXCEPT ![t] = @ \ {"suspend"}]
  /\ UNCHANGED <<shared, back, myStop, lastStop, stopper>>

-----------------------------------------------------------------------------
(***************************************************************************)
(* The thread that collects.                                               *)
(***************************************************************************)

\* GC_suspend_all or GC_restart_all begins.
VisitAll(label) == spc' = label /\ todo' = Thread /\ sent' = 0

\* GC_stop_world ...
GC_stop_world ==
  /\ spc = "idle"
  /\ stopCount < 2 * MaxStops
  /\ stopCount' = stopCount + 1
  /\ spc' = "dirtylock"
  /\ UNCHANGED <<sem, dirtyLock, lost, pending, thread, todo, sent, nLive, resend>>

\* ... takes the dirty lock first: no thread that holds it will be stopped
LockNotNeeded == dirtyLock' = Stopper  \* mutant: whoever holds it
GC_acquire_dirty_lock == dirtyLock = Nobody /\ dirtyLock' = Stopper
LockDirty ==
  /\ spc = "dirtylock"
  /\ GC_acquire_dirty_lock
  /\ VisitAll("signal")
  /\ UNCHANGED <<stopCount, sem, lost, pending, thread, nLive, resend>>

\* GC_start_world
GC_start_world ==
  /\ spc = "stopped"
  /\ stopCount' = stopCount + 1
  /\ VisitAll("signal")
  /\ UNCHANGED <<sem, dirtyLock, lost, pending, thread, nLive, resend>>

\* One thread of GC_suspend_all or GC_restart_all: those in a blocking call
\* and those that have stored the current stop count are skipped.
Sig == IF Restarted(stopCount) THEN "restart" ELSE "suspend"
Skipped(t) == lastStop[t] = stopCount /\ (RetrySignals \/ ~Restarted(stopCount))
raise_signal(t) ==
  \/ /\ pending' = [pending EXCEPT ![t] = @ \cup {Sig}]
     /\ UNCHANGED lost
  \/ /\ RetrySignals
     /\ lost < MaxLost
     /\ lost' = lost + 1
     /\ UNCHANGED pending
VisitThread(t) ==
  /\ spc \in {"signal", "resend"}
  /\ t \in todo
  /\ todo' = todo \ {t}
  /\ IF Blocking(t) \/ Skipped(t)
     THEN UNCHANGED <<pending, lost, sent>>
     ELSE raise_signal(t) /\ sent' = sent + 1
  /\ UNCHANGED <<stopCount, sem, dirtyLock, thread, spc, nLive, resend>>

\* The first round of signals is out.  GC_start_world waits for nobody unless
\* signals may get lost.
AllSignalled ==
  /\ spc = "signal"
  /\ todo = {}
  /\ nLive' = sent
  /\ spc' = IF RetrySignals THEN "timedwait"
            ELSE IF Restarted(stopCount) THEN "idle" ELSE "barrier"
  /\ UNCHANGED <<shared, pending, thread, todo, sent, resend>>

\* One acknowledgement is taken from the semaphore.
Taken == sem > 0 /\ sem' = sem - 1

\* resend_lost_signals_retry: sem_timedwait for each of them ...
SemTimedWait ==
  /\ spc = "timedwait"
  /\ nLive > 0
  /\ Taken
  /\ nLive' = nLive - 1
  /\ UNCHANGED <<stopCount, dirtyLock, lost, pending, thread, spc, todo, sent, resend>>

\* ... until one times out or all have answered
TimedWaitEnds ==
  /\ spc = "timedwait"
  /\ spc' = "poll"
  /\ prevSent' = 0
  /\ retry' = 0
  /\ nLive = 0 \/ sem = 0
  /\ UNCHANGED <<shared, pending, thread, todo, sent, nLive>>

\* resend_lost_signals: everybody has answered, ...
AllAnswered ==
  /\ spc = "poll"
  /\ nLive \in {0, sem}
  /\ spc' = "barrier"
  /\ UNCHANGED <<shared, pending, thread, todo, sent, nLive, resend>>

\* ... or signals are sent again
MayResend == nLive > 0 /\ sem # nLive
SendAgain ==
  /\ spc = "poll"
  /\ MayResend
  /\ VisitAll("resend")
  /\ UNCHANGED <<shared, pending, thread, nLive, resend>>

LostThreads == sent < nLive - sem
Resent ==
  /\ spc = "resend"
  /\ todo = {}
  /\ retry' = IF sent # prevSent THEN 0 ELSE retry + 1
  /\ IF retry' >= ResendLimit
     THEN spc' = "abort" /\ UNCHANGED <<nLive, prevSent>>
     ELSE /\ nLive' = IF LostThreads THEN sem + sent ELSE nLive
          /\ prevSent' = sent
          /\ spc' = "poll"
  /\ UNCHANGED <<shared, pending, thread, todo, sent>>

\* suspend_restart_barrier: sem_wait, n_live_threads times
SemWait ==
  /\ spc = "barrier"
  /\ nLive > 0
  /\ Taken
  /\ nLive' = nLive - 1
  /\ UNCHANGED <<stopCount, dirtyLock, lost, pending, thread, spc, todo, sent, resend>>

AllWaitedFor == nLive = 0

\* GC_stop_world releases the dirty lock and returns, or GC_start_world returns.
BarrierEnds ==
  /\ spc = "barrier"
  /\ AllWaitedFor
  /\ IF Restarted(stopCount)
     THEN spc' = "idle" /\ UNCHANGED dirtyLock
     ELSE spc' = "stopped" /\ dirtyLock' = Nobody
  /\ UNCHANGED <<stopCount, sem, lost, pending, thread, todo, sent, nLive, resend>>

-----------------------------------------------------------------------------
Handler(t) ==
  \/ GC_suspend_sigaction(t) \/ LoadStopCount(t) \/ Acknowledge(t)
  \/ StoreStopCount(t) \/ WokenByRestart(t) \/ CheckStopCount(t)
  \/ AcknowledgeRestart(t) \/ StoreRestarted(t) \/ HandlerReturns(t)

ThreadStep(t) ==
  \/ DirtyBegin(t) \/ DirtyEnd(t) \/ BlockingBegins(t) \/ BlockingEnds(t)
  \/ GC_restart_handler(t) \/ WokenByOther(t) \/ Handler(t)

Collect ==
  \/ LockDirty \/ GC_start_world \/ (\E t \in Thread : VisitThread(t))
  \/ AllSignalled \/ SemTimedWait \/ TimedWaitEnds \/ AllAnswered \/ SendAgain
  \/ Resent \/ SemWait \/ BarrierEnds

StopNext ==
  /\ GC_stop_world \/ Collect \/ \E t \in Thread : ThreadStep(t)
  /\ UNCHANGED sconf

StopSpec == StopInit /\ [][StopNext]_stopVars

\* Threads are scheduled and take the signals that reach them; the spin lock
\* that the collecting thread tries again and again is got in the end.
StopFairness ==
  /\ WF_protocol(Collect) /\ SF_protocol(LockDirty)
  /\ \A t \in Thread : WF_protocol(Handler(t)) /\ WF_protocol(DirtyEnd(t))

-----------------------------------------------------------------------------
(***************************************************************************)
(* Properties.                                                             *)
(***************************************************************************)
HandlerLabels == {"enter", "post", "store", "wait", "check", "repost",
                  "restore", "return"}

\* Every variable has its type.
StopTypeOK ==
  /\ sconf \in StopConfigs
  /\ stopCount \in Nat /\ sem \in Nat /\ lost \in 0..MaxLost
  /\ dirtyLock \in Thread \cup {Stopper, Nobody}
  /\ pending \in [Thread -> SUBSET {"suspend", "restart"}]
  /\ tpc \in [Thread -> {"run", "dirty", "blocking"} \cup HandlerLabels]
  /\ back \in [Thread -> {"run", "dirty", "blocking"}]
  /\ myStop \in [Thread -> Nat] /\ lastStop \in [Thread -> Nat]
  /\ spc \in {"idle", "dirtylock", "signal", "timedwait", "poll", "resend",
              "barrier", "stopped", "abort"}
  /\ todo \subseteq Thread
  /\ sent \in Nat /\ nLive \in Nat /\ prevSent \in Nat /\ retry \in Nat

\* When GC_stop_world has returned, every thread that is not in a blocking
\* call has saved its stack pointer for this very stop and sleeps, whatever
\* was lost, sent twice or delivered late.
AllStopped ==
  spc = "stopped" => \A t \in Thread :
    ~Blocking(t) => tpc[t] \in {"store", "wait", "check"} /\ myStop[t] = stopCount

\* suspend_restart_barrier asserts that the semaphore is 0 when it returns:
\* nobody acknowledges twice, or too late to be counted.
SemBalanced == spc \in {"stopped", "idle", "dirtylock"} => sem = 0

\* A thread that has acknowledged is never taken for lost ("Lost some threads
\* while stopping or starting world?!").
NobodyLost == spc = "resend" /\ todo = {} => ~LostThreads

\* The collector's view (AtomicStop.tla) of this protocol.
Atomic == INSTANCE AtomicStop WITH
            stopped <- spc = "stopped",
            dirtying <- IF dirtyLock \in Thread THEN dirtyLock ELSE Nobody

\* Stopping the world by signals implements stopping it in one step: no thread
\* begins or ends a GC_dirty while the world is stopped, or is stopped in one.
ImplementsAtomicStop == Atomic!Spec

\* Every stop that was begun succeeds, unless the program is aborted because
\* signals fail constantly; and every thread that was stopped runs again.
StopSucceeds ==
  /\ spc = "dirtylock" ~> spc \in {"stopped", "abort"}
  /\ \A t \in Thread : tpc[t] = "wait" ~> spc = "abort" \/ ~InHandler(t)

\* A stop that returns has stopped everybody, and its acknowledgements are used
\* up.
StopSound == StopTypeOK /\ AllStopped /\ SemBalanced /\ NobodyLost

(***************************************************************************)
(* The inductive invariant behind StopSound and ImplementsAtomicStop when  *)
(* every signal arrives and nothing is sent twice (~RetrySignals).         *)
(***************************************************************************)

\* GC_suspend_all, or the wait for its acknowledgements, is under way.
Stopping == spc \in {"signal", "barrier"} /\ ~Restarted(stopCount)

\* The threads with a suspend signal that they have not acknowledged.
Posting == {t \in Thread : "suspend" \in pending[t] \/ tpc[t] \in {"enter", "post"}}

\* The acknowledgements to come and those in the semaphore are the ones that
\* are waited for, and outside of a stop there are none.
AcksCounted ==
  /\ ~Stopping => Posting = {} /\ sem = 0
  /\ Stopping /\ spc = "signal" => sent = sem + Cardinality(Posting)
  /\ spc = "barrier" => nLive = sem + Cardinality(Posting)
  /\ \A t \in Thread : tpc[t] \in {"enter", "post"} => "suspend" \notin pending[t]

\* Where the collecting thread may be; it holds the dirty lock while it stops
\* the others, and a thread only while it sets a bit.
StopperPlaced ==
  /\ spc \in {"idle", "dirtylock", "signal", "barrier", "stopped"}
  /\ spc \in {"dirtylock", "barrier", "stopped"} => ~Restarted(stopCount)
  /\ spc = "idle" => Restarted(stopCount)
  /\ spc \in {"barrier", "stopped"} => todo = {}
  /\ dirtyLock = Stopper <=> Stopping
  /\ \A t \in Thread : tpc[t] = "dirty" <=> dirtyLock = t

\* The thread has not yet seen this stop.
Fresh(t) == lastStop[t] < stopCount /\ myStop[t] < stopCount

\* What a thread remembers: the stop it has acknowledged, and that it ran when
\* it was interrupted.
ThreadPlaced(t) ==
  /\ tpc[t] \notin {"repost", "restore"}
  /\ InHandler(t) => back[t] = "run"
  /\ lastStop[t] <= stopCount /\ myStop[t] <= stopCount
  /\ Restarted(stopCount) \/ spc = "dirtylock" \/ (spc = "signal" /\ t \in todo)
       => Fresh(t) /\ t \notin Posting
  /\ t \in Posting => ~Blocking(t) /\ lastStop[t] < stopCount
  /\ t \in Posting /\ tpc[t] # "post" => myStop[t] < stopCount
  /\ tpc[t] = "post" => myStop[t] = stopCount
  /\ (Stopping \/ spc = "stopped") /\ t \notin todo \cup Posting /\ ~Blocking(t)
       => tpc[t] \in {"store", "wait", "check"} /\ myStop[t] = stopCount

ReliableStop ==
  ~RetrySignals =>
    StopTypeOK /\ AcksCounted /\ StopperPlaced /\ \A t \in Thread : ThreadPlaced(t)
=============================================================================
