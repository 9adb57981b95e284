----------------------------- MODULE WinEvents ------------------------------
(* The mark lock and the condition variables of win32_threads.c, made of     *)
(* InterlockedExchange and event objects (no GC_PTHREADS_PARAMARK): a lock   *)
(* word with three values and an auto-reset event, and manual-reset events   *)
(* that a waiter resets before it lets go of the lock.  Their users are the  *)
(* collector in GC_do_parallel_mark, the helpers in GC_help_marker (mark.c)  *)
(* and free list builders (mallocx.c).                                       *)
EXTENDS Integers, FiniteSets

CONSTANTS
  WinHelper,  \* marker threads, with an event of GC_marker_cv each
  FlBuilder,  \* client threads that build a free list
  Phases,     \* bound: mark phases
  Entries,    \* entries on the mark stack when a phase starts
  Deposits    \* bound: entries that markers put back on the stack

Leader == "collector"
NoOwner == "nobody"

ASSUME EventsAssumption ==
  /\ {Phases, Entries, Deposits} \subseteq Nat
  /\ WinHelper \intersect FlBuilder = {} /\ Leader \notin WinHelper \union FlBuilder
  /\ NoOwner \notin FlBuilder
  /\ IsFiniteSet(WinHelper) /\ IsFiniteSet(FlBuilder)

Actor == WinHelper \union FlBuilder \union {Leader}

VARIABLES
  GC_mark_mutex_state,  \* 0 unlocked, 1 locked, -1 locked and waiters may exist
  mark_mutex_event,     \* auto-reset event
  builder_cv,           \* manual-reset events
  mark_cv,              \*    (the set of events that are signalled)
  at,                   \* each thread: pc, where it goes on after a lock operation, and after a wait
  GC_mark_no, GC_help_wanted, GC_helper_count, GC_active_count,
  lastMarkNo,             \* my_mark_no of the helpers
  GC_fl_builder_count,
  allocator,            \* the holder of the allocation lock
  onMarkStack,          \* entries on the mark stack
  deposits

eventVars == <<GC_mark_mutex_state, mark_mutex_event, builder_cv, mark_cv, at, GC_mark_no,
               GC_help_wanted, GC_helper_count, GC_active_count, lastMarkNo, GC_fl_builder_count,
               allocator, onMarkStack, deposits>>
lockVars == <<GC_mark_mutex_state, mark_mutex_event>>
markVars == <<GC_mark_no, GC_help_wanted, GC_helper_count, GC_active_count, lastMarkNo, onMarkStack, deposits>>
clientVars == <<builder_cv, mark_cv, markVars, GC_fl_builder_count, allocator>>

Seat(p) == [pc |-> p, ret |-> p, after |-> p]

EventsInit ==
  /\ GC_mark_mutex_state = 0 /\ mark_mutex_event = FALSE
  /\ builder_cv = FALSE /\ mark_cv = {}
  /\ at = [t \in Actor |-> IF t \in WinHelper THEN [Seat("lock") EXCEPT !.ret = "help?"] ELSE Seat("out")]
  /\ GC_mark_no = 0 /\ GC_help_wanted = FALSE /\ GC_helper_count = 0 /\ GC_active_count = 0
  /\ lastMarkNo = [h \in WinHelper |-> 0]
  /\ GC_fl_builder_count = 0 /\ allocator = NoOwner /\ onMarkStack = 0 /\ deposits = 0

-----------------------------------------------------------------------------
\* GC_acquire_mark_lock and GC_release_mark_lock.
In(t, p) == at[t].pc = p
To(t, p) == at' = [at EXCEPT ![t].pc = p]
TakeLock(t, p) == at' = [at EXCEPT ![t].pc = "lock", ![t].ret = p]
DropLock(t, p) == at' = [at EXCEPT ![t].pc = "unlock", ![t].ret = p]

\* Each exchange that finds 0 has got the lock.
WasUnlocked(old) == old = 0
LockTry(t) ==
  /\ In(t, "lock")
  /\ GC_mark_mutex_state' = 1
  /\ To(t, IF WasUnlocked(GC_mark_mutex_state) THEN at[t].ret ELSE "contend")
  /\ UNCHANGED <<mark_mutex_event, clientVars>>
\* mutated form: the word does not say that there are waiters
ContendedAsOne == 1
Contended == -1
LockContend(t) ==
  /\ In(t, "contend")
  /\ GC_mark_mutex_state' = Contended
  /\ To(t, IF WasUnlocked(GC_mark_mutex_state) THEN at[t].ret ELSE "sleep")
  /\ UNCHANGED <<mark_mutex_event, clientVars>>
LockSleep(t) ==
  /\ In(t, "sleep") /\ mark_mutex_event
  /\ mark_mutex_event' = FALSE
  /\ To(t, "contend")
  /\ UNCHANGED <<GC_mark_mutex_state, clientVars>>
UnlockSwap(t) ==
  /\ In(t, "unlock")
  /\ GC_mark_mutex_state' = 0
  /\ To(t, IF GC_mark_mutex_state < 0 THEN "wake" ELSE at[t].ret)
  /\ UNCHANGED <<mark_mutex_event, clientVars>>
UnlockWake(t) ==
  /\ In(t, "wake")
  /\ mark_mutex_event' = TRUE
  /\ To(t, at[t].ret)
  /\ UNCHANGED <<GC_mark_mutex_state, clientVars>>

\* GC_wait_marker: the caller's own event, reset while the lock is held.
GC_wait_marker(t, loop) ==
  /\ mark_cv' = mark_cv \ {t}
  /\ at' = [at EXCEPT ![t] = [pc |-> "unlock", ret |-> "await", after |-> loop]]
AwaitMarker(t) ==
  /\ In(t, "await") /\ t \in mark_cv
  /\ TakeLock(t, at[t].after)
  /\ UNCHANGED <<lockVars, clientVars>>

\* GC_notify_all_marker: every helper's event but the caller's; the
\* collector's instead if the caller is a helper.
Notified(t) == (WinHelper \ {t}) \union (IF t \in WinHelper THEN {Leader} ELSE {})
GC_notify_all_marker(t) == mark_cv' = mark_cv \union Notified(t)

-----------------------------------------------------------------------------
\* A builder in GC_generic_malloc_many; it enters with the allocation lock.
BuilderEnter(t) ==
  /\ t \in FlBuilder /\ In(t, "out") /\ allocator = NoOwner
  /\ allocator' = t
  /\ TakeLock(t, "count")
  /\ UNCHANGED <<lockVars, builder_cv, mark_cv, markVars, GC_fl_builder_count>>
BuilderCount(t) ==
  /\ In(t, "count")
  /\ GC_fl_builder_count' = GC_fl_builder_count + 1
  /\ DropLock(t, "build")
  /\ UNCHANGED <<lockVars, builder_cv, mark_cv, markVars, allocator>>
BuilderBuild(t) ==
  /\ In(t, "build")
  /\ allocator' = NoOwner
  /\ TakeLock(t, "uncount")
  /\ UNCHANGED <<lockVars, builder_cv, mark_cv, markVars, GC_fl_builder_count>>
GC_notify_all_builder_win32(t) ==
  /\ In(t, "uncount")
  /\ GC_fl_builder_count' = GC_fl_builder_count - 1
  /\ builder_cv' = (builder_cv \/ GC_fl_builder_count = 1)
  /\ DropLock(t, "out")
  /\ UNCHANGED <<lockVars, mark_cv, markVars, allocator>>

\* The collector: GC_wait_for_reclaim.
StartGc ==
  /\ In(Leader, "out") /\ allocator = NoOwner /\ GC_mark_no < Phases
  /\ allocator' = Leader
  /\ TakeLock(Leader, "reclaimed?")
  /\ UNCHANGED <<lockVars, builder_cv, mark_cv, markVars, GC_fl_builder_count>>
BuildersGone == GC_fl_builder_count = 0
GC_wait_for_reclaim_win32 ==
  /\ In(Leader, "reclaimed?")
  /\ \/ BuildersGone /\ DropLock(Leader, "mark") /\ UNCHANGED builder_cv
     \/ /\ ~BuildersGone
        /\ builder_cv' = FALSE
        /\ DropLock(Leader, "await_builders")
  /\ UNCHANGED <<lockVars, mark_cv, markVars, GC_fl_builder_count, allocator>>
AwaitBuilders ==
  /\ In(Leader, "await_builders") /\ builder_cv
  /\ TakeLock(Leader, "reclaimed?")
  /\ UNCHANGED <<lockVars, clientVars>>

\* GC_do_parallel_mark.
BeginMark ==
  /\ In(Leader, "mark")
  /\ TakeLock(Leader, "ask_help")
  /\ UNCHANGED <<lockVars, clientVars>>
AskHelp ==
  /\ In(Leader, "ask_help")
  /\ GC_helper_count' = 1 /\ GC_help_wanted' = TRUE /\ onMarkStack' = Entries
  /\ GC_notify_all_marker(Leader)
  /\ To(Leader, "mark_local")
  /\ UNCHANGED <<lockVars, builder_cv, GC_mark_no, GC_active_count, lastMarkNo, deposits,
                 GC_fl_builder_count, allocator>>
HelpersDone ==
  /\ In(Leader, "helpers?")
  /\ GC_help_wanted' = FALSE
  /\ \/ GC_helper_count > 0 /\ GC_wait_marker(Leader, "helpers?") /\ UNCHANGED GC_mark_no
     \/ /\ GC_helper_count = 0
        /\ GC_mark_no' = GC_mark_no + 1
        /\ DropLock(Leader, "tell") /\ UNCHANGED mark_cv
  /\ UNCHANGED <<lockVars, builder_cv, GC_helper_count, GC_active_count, lastMarkNo, onMarkStack,
                 deposits, GC_fl_builder_count, allocator>>
TellMarkersOver ==
  /\ In(Leader, "tell")
  /\ GC_notify_all_marker(Leader)
  /\ allocator' = NoOwner
  /\ To(Leader, "out")
  /\ UNCHANGED <<lockVars, builder_cv, markVars, GC_fl_builder_count>>

\* GC_help_marker, called with the mark lock by GC_mark_thread for each mark number.
HelperJoins == GC_helper_count + 1
HelpMarker(h) ==
  /\ h \in WinHelper /\ In(h, "help?")
  /\ \/ /\ GC_mark_no < lastMarkNo[h] \/ (~GC_help_wanted /\ GC_mark_no = lastMarkNo[h])
        /\ GC_wait_marker(h, "help?")
        /\ UNCHANGED <<GC_helper_count, lastMarkNo>>
     \/ /\ GC_mark_no > lastMarkNo[h]
        /\ lastMarkNo' = [lastMarkNo EXCEPT ![h] = @ + 1]
        /\ UNCHANGED <<at, mark_cv, GC_helper_count>>
     \/ /\ GC_help_wanted /\ GC_mark_no = lastMarkNo[h]
        /\ GC_helper_count' = HelperJoins
        /\ To(h, "mark_local")
        /\ UNCHANGED <<mark_cv, lastMarkNo>>
  /\ UNCHANGED <<lockVars, builder_cv, GC_mark_no, GC_help_wanted, GC_active_count, onMarkStack,
                 deposits, GC_fl_builder_count, allocator>>

\* GC_mark_local: entries are counted only; marking one may deposit another.
GC_mark_local(t) ==
  /\ In(t, "mark_local")
  /\ GC_active_count' = GC_active_count + 1
  /\ DropLock(t, "look")
  /\ UNCHANGED <<lockVars, builder_cv, mark_cv, GC_mark_no, GC_help_wanted, GC_helper_count, lastMarkNo,
                 onMarkStack, deposits, GC_fl_builder_count, allocator>>
LookForWork(t) ==
  /\ In(t, "look")
  /\ \/ onMarkStack > 0 /\ onMarkStack' = onMarkStack - 1 /\ To(t, "work")
     \/ onMarkStack = 0 /\ TakeLock(t, "none?") /\ UNCHANGED onMarkStack
  /\ UNCHANGED <<lockVars, builder_cv, mark_cv, GC_mark_no, GC_help_wanted, GC_helper_count,
                 GC_active_count, lastMarkNo, deposits, GC_fl_builder_count, allocator>>
Work(t) ==
  /\ In(t, "work")
  /\ \/ To(t, "look")
     \/ deposits < Deposits /\ TakeLock(t, "deposit")
  /\ UNCHANGED <<lockVars, clientVars>>
ReturnMarkStack(t) ==
  /\ In(t, "deposit")
  /\ onMarkStack' = onMarkStack + 1 /\ deposits' = deposits + 1
  /\ DropLock(t, "tell_deposit")
  /\ UNCHANGED <<lockVars, builder_cv, mark_cv, GC_mark_no, GC_help_wanted, GC_helper_count,
                 GC_active_count, lastMarkNo, GC_fl_builder_count, allocator>>
TellDeposit(t) ==
  /\ In(t, "tell_deposit")
  /\ GC_notify_all_marker(t)
  /\ To(t, "look")
  /\ UNCHANGED <<lockVars, builder_cv, markVars, GC_fl_builder_count, allocator>>
NoWork(t) ==
  /\ In(t, "none?")
  /\ \/ onMarkStack > 0 /\ DropLock(t, "look") /\ UNCHANGED <<mark_cv, GC_active_count>>
     \/ /\ onMarkStack = 0
        /\ GC_active_count' = GC_active_count - 1
        /\ IF GC_active_count = 1 THEN GC_notify_all_marker(t) ELSE UNCHANGED mark_cv
        /\ To(t, "idle")
  /\ UNCHANGED <<lockVars, builder_cv, GC_mark_no, GC_help_wanted, GC_helper_count, lastMarkNo,
                 onMarkStack, deposits, GC_fl_builder_count, allocator>>
AfterMarking(t) == IF t = Leader THEN "helpers?" ELSE "help?"
IdleMarker(t) ==
  /\ In(t, "idle")
  /\ \/ /\ GC_active_count > 0 /\ onMarkStack = 0
        /\ GC_wait_marker(t, "idle")
        /\ UNCHANGED <<GC_active_count, GC_helper_count, lastMarkNo>>
     \/ /\ GC_active_count = 0 /\ onMarkStack = 0
        /\ GC_helper_count' = GC_helper_count - 1
        /\ IF GC_helper_count = 1 THEN GC_notify_all_marker(t) ELSE UNCHANGED mark_cv
        /\ lastMarkNo' = [h \in WinHelper |-> IF h = t THEN lastMarkNo[h] + 1 ELSE lastMarkNo[h]]
        /\ To(t, AfterMarking(t))
        /\ UNCHANGED GC_active_count
     \/ /\ onMarkStack > 0
        /\ GC_active_count' = GC_active_count + 1
        /\ DropLock(t, "look")
        /\ UNCHANGED <<mark_cv, GC_helper_count, lastMarkNo>>
  /\ UNCHANGED <<lockVars, builder_cv, GC_mark_no, GC_help_wanted, onMarkStack, deposits,
                 GC_fl_builder_count, allocator>>

LockStep(t) == LockTry(t) \/ LockContend(t) \/ LockSleep(t) \/ UnlockSwap(t) \/ UnlockWake(t)
BuilderProceeds(t) == BuilderCount(t) \/ BuilderBuild(t) \/ GC_notify_all_builder_win32(t)
LeaderStep ==
  \/ GC_wait_for_reclaim_win32 \/ AwaitBuilders \/ BeginMark \/ AskHelp \/ HelpersDone
  \/ TellMarkersOver
MarkerStep(t) ==
  \/ AwaitMarker(t) \/ HelpMarker(t) \/ GC_mark_local(t) \/ LookForWork(t) \/ Work(t)
  \/ ReturnMarkStack(t) \/ TellDeposit(t) \/ NoWork(t) \/ IdleMarker(t)

EventsNext ==
  \/ StartGc \/ LeaderStep
  \/ \E t \in Actor : LockStep(t) \/ BuilderEnter(t) \/ BuilderProceeds(t) \/ MarkerStep(t)

\* Threads inside the collector are scheduled; clients need not collect or
\* allocate.
EventsFairness ==
  /\ WF_eventVars(LeaderStep)
  /\ \A t \in Actor : WF_eventVars(LockStep(t) \/ MarkerStep(t))
  /\ \A t \in FlBuilder : WF_eventVars(BuilderProceeds(t))

EventsSpec == EventsInit /\ [][EventsNext]_eventVars /\ EventsFairness

-----------------------------------------------------------------------------
LockHeldAt == {"help?", "count", "uncount", "reclaimed?", "ask_help", "mark_local", "helpers?",
               "deposit", "none?", "idle", "unlock"}
HoldsMarkLock(t) == at[t].pc \in LockHeldAt
\* Types of the lock word, the events and the counts.
EventsTypeOK ==
  /\ GC_mark_mutex_state \in {-1, 0, 1} /\ mark_mutex_event \in BOOLEAN
  /\ builder_cv \in BOOLEAN /\ mark_cv \subseteq WinHelper \union {Leader}
  /\ allocator \in FlBuilder \union {Leader, NoOwner}
  /\ GC_fl_builder_count \in 0 .. Cardinality(FlBuilder)
  /\ GC_helper_count \in 0 .. Cardinality(WinHelper) + 1
  /\ GC_active_count \in 0 .. GC_helper_count
  /\ onMarkStack \in 0 .. Entries + Deposits

\* The exchanges and the event are a lock: one holder, and the word is 0 only
\* when there is none.
MarkLockExclusive ==
  /\ \A t, u \in Actor : HoldsMarkLock(t) /\ HoldsMarkLock(u) => t = u
  /\ GC_mark_mutex_state = 0 <=> \A t \in Actor : ~HoldsMarkLock(t)

\* A thread that sleeps on the mark lock is not forgotten: the holder knows of
\* it, or the event is set or about to be, or another one contends for it too.
SleeperRemembered ==
  (\E t \in Actor : In(t, "sleep")) =>
    \/ GC_mark_mutex_state = -1 \/ mark_mutex_event
    \/ \E u \in Actor : at[u].pc \in {"wake", "contend"}

\* The heap is not marked while a free list is being built (the reason the
\* comment above GC_wait_builder gives), and helpers mark only between
\* GC_help_wanted and the end of their phase.
NoBuilderWhileMarking ==
  /\ at[Leader].pc \notin {"out", "lock", "contend", "sleep", "unlock", "wake", "reclaimed?", "await_builders"} =>
       GC_fl_builder_count = 0
  /\ In(Leader, "out") => GC_active_count = 0 /\ \A h \in WinHelper : at[h].pc \notin {"look", "work", "deposit"}

\* Events set and reset around the lock lose no wakeup: every collection ends,
\* and markers get back to waiting.
MarkPhasesEnd == allocator = Leader ~> allocator # Leader

\* What these rest on.  A thread that takes the lock goes on where the lock is
\* needed, one that drops it where it is not, and one that waits goes back to
\* what it waits for.
ComesTo == LockHeldAt \ {"unlock"}
FreeAt == {"build", "out", "mark", "await_builders", "await", "tell", "look", "tell_deposit"}
Waits(t) == In(t, "await") \/ (at[t].pc \in {"unlock", "wake"} /\ at[t].ret = "await")
SeatOK(t) ==
  /\ at[t].pc \in {"lock", "contend", "sleep", "wake", "work"} \union LockHeldAt \union FreeAt
  /\ at[t].pc \in {"lock", "contend", "sleep"} => at[t].ret \in ComesTo
  /\ at[t].pc \in {"unlock", "wake"} => at[t].ret \in FreeAt
  /\ Waits(t) => at[t].after \in {"helpers?", "help?", "idle"}

\* The place of a thread in its protocol, whatever it does with the lock there.
Whereabouts ==
  [t \in Actor |-> IF Waits(t) THEN at[t].after
                   ELSE IF at[t].pc \in {"lock", "contend", "sleep", "unlock", "wake"} THEN at[t].ret
                   ELSE at[t].pc]
AtPlaces(wh, P) == {t \in Actor : wh[t] \in P}

WorkingAt == {"work", "deposit"}
ActiveAt == {"look", "tell_deposit", "none?"} \union WorkingAt
JoinedAt == {"mark_local", "idle"} \union ActiveAt
BuildingAt == {"build", "uncount"}
HelperAt == {"help?"} \union JoinedAt
BuilderAt == {"out", "count"} \union BuildingAt
LeaderAt == {"out", "reclaimed?", "await_builders", "mark", "ask_help", "helpers?", "tell"} \union JoinedAt

\* The counts are numbers of threads, and no marker makes work of its own.
EventsCounted ==
  /\ GC_helper_count = Cardinality(AtPlaces(Whereabouts, JoinedAt))
  /\ GC_active_count = Cardinality(AtPlaces(Whereabouts, ActiveAt))
  /\ GC_fl_builder_count = Cardinality(AtPlaces(Whereabouts, BuildingAt))
  /\ onMarkStack \in Nat
  /\ onMarkStack + Cardinality(AtPlaces(Whereabouts, WorkingAt)) <= Entries

\* Threads keep to their protocols; the allocation lock keeps builders from
\* starting during a collection; helpers join only while the leader is there.
RolesKept ==
  /\ \A t \in Actor : SeatOK(t)
  /\ \A t \in WinHelper : Whereabouts[t] \in HelperAt
  /\ \A t \in FlBuilder : Whereabouts[t] \in BuilderAt
                          /\ (Whereabouts[t] \in {"count", "build"} <=> allocator = t)
  /\ Whereabouts[Leader] \in LeaderAt
  /\ Whereabouts[Leader] # "out" <=> allocator = Leader
  /\ Whereabouts[Leader] \notin {"out", "reclaimed?", "await_builders"} =>
       AtPlaces(Whereabouts, BuildingAt) = {}
  /\ Whereabouts[Leader] \notin {"helpers?"} \union JoinedAt =>
       ~GC_help_wanted /\ AtPlaces(Whereabouts, JoinedAt) = {}

\* The lock word and the events of win32_threads.c do what the mark lock is for:
\* one holder, no sleeper forgotten, no marking while free lists are built.
MarkLockSound ==
  /\ EventsTypeOK /\ EventsCounted /\ RolesKept
  /\ MarkLockExclusive /\ SleeperRemembered /\ NoBuilderWhileMarking
=============================================================================
