------------------------------ MODULE Builders ------------------------------
(* Free lists built without the allocation lock: GC_generic_malloc_many     *)
(* (mallocx.c) takes a block off the reclaim list, counts itself in         *)
(* GC_fl_builder_count under the mark lock, releases the allocation lock and *)
(* sweeps; a collection waits for all builders first (GC_wait_for_reclaim,   *)
(* pthread_support.c).  The same counter synchronizes the start of the       *)
(* marker threads (GC_start_mark_threads_inner, GC_wait_for_markers_init).   *)
EXTENDS Integers, FiniteSets

CONSTANTS
  Builder,      \* client threads; one of them starts the markers
  Starter,
  Marker,       \* marker threads (GC_markers_m1 of them, at most)
  Page,         \* heap blocks of objects of one size
  NoBuilder,
  MaxGcs        \* bound: collections

ASSUME BuildersAssumption ==
  /\ Starter \in Builder /\ Builder \cap Marker = {} /\ NoBuilder \notin Builder \cup Marker
  /\ NoBuilder \notin Page /\ IsFiniteSet(Builder) /\ IsFiniteSet(Marker)
  /\ MaxGcs \in Nat

VARIABLES
  bpc,          \* where each thread is
  allocLock,    \* holder of the allocation lock
  markLock,     \* holder of the mark lock
  builderCount, \* GC_fl_builder_count
  onCv,         \* threads waiting for builder_cv
  launched,     \* the marker threads that were created
  reclaimable,  \* ok_reclaim_list: blocks to be swept
  fresh,        \* blocks not allocated yet
  unmarked,     \* unmarked[b]: how many objects of the block the marks say are free
  building,     \* the block each thread sweeps; Nobody if it builds a new one
  bytesAllocd, allocdTmp,   \* GC_bytes_allocd and GC_bytes_allocd_tmp
  my,           \* my_bytes_allocd_tmp, my_bytes_allocd
  stopped,      \* the thread that has stopped the world
  gcs,          \* collections so far
  handedOut     \* objects handed out that no collection has accounted for

buildersVars == <<bpc, allocLock, markLock, builderCount, onCv, launched, reclaimable, fresh,
                  unmarked, building, bytesAllocd, allocdTmp, my, stopped, gcs, handedOut>>
locks == <<allocLock, markLock, onCv>>
heapOf == <<reclaimable, fresh, unmarked, building>>
counts == <<bytesAllocd, allocdTmp, my, handedOut>>

SweepSteps == {"merge", "count", "counted", "sweep", "tally", "uncount", "uncounted"}
BPcs == {"idle", "start", "join", "locked", "wait", "stop", "resume", "again", "init", "ready"}
          \cup SweepSteps

BuildersInit ==
  /\ bpc = [t \in Builder \cup Marker |->
             IF t = Starter THEN "start" ELSE IF t \in Builder THEN "idle" ELSE "init"]
  /\ allocLock = NoBuilder /\ markLock = NoBuilder /\ builderCount = 0 /\ onCv = {}
  /\ launched = {} /\ reclaimable = {} /\ fresh = Page
  /\ unmarked = [b \in Page |-> 0] /\ building = [t \in Builder |-> NoBuilder]
  /\ bytesAllocd = 0 /\ allocdTmp = 0 /\ my = [t \in Builder |-> 0]
  /\ stopped = NoBuilder /\ gcs = 0 /\ handedOut = 0

GoOn(t, l) == bpc' = [bpc EXCEPT ![t] = l]
\* Markers are invisible to StopWorldForGc.
Steps(t) == stopped \in {NoBuilder, t} \/ t \in Marker

-----------------------------------------------------------------------------
\* Marker threads.  The creation of one may fail, then no more are created.
GC_start_mark_threads_inner ==
  /\ bpc[Starter] = "start" /\ allocLock = NoBuilder /\ allocLock' = Starter
  /\ launched' \in SUBSET Marker
  /\ GoOn(Starter, IF launched' = {} THEN "locked" ELSE "join")
  /\ UNCHANGED <<markLock, onCv, builderCount, heapOf, counts, stopped, gcs>>
OneReady == builderCount - 1
GC_mark_thread(m) ==
  /\ m \in launched /\ bpc[m] = "init" /\ markLock = NoBuilder
  /\ builderCount' = OneReady
  /\ onCv' = IF builderCount' = 0 THEN {} ELSE onCv
  /\ GoOn(m, "ready")
  /\ UNCHANGED <<allocLock, markLock, launched, heapOf, counts, stopped, gcs>>
GC_wait_for_markers_init ==
  /\ bpc[Starter] = "join" /\ markLock = NoBuilder
  /\ builderCount' = builderCount + Cardinality(launched)
  /\ GoOn(Starter, IF builderCount' # 0 THEN "wait" ELSE "locked")
  /\ UNCHANGED <<locks, launched, heapOf, counts, stopped, gcs>>

-----------------------------------------------------------------------------
\* GC_generic_malloc_many and its lock.
Lock(t) ==
  /\ Steps(t) /\ bpc[t] \in {"idle", "again"} /\ bpc[Starter] \notin {"start", "join"}
  /\ allocLock = NoBuilder /\ allocLock' = t
  /\ GoOn(t, "locked")
  /\ UNCHANGED <<markLock, onCv, builderCount, launched, heapOf, counts, stopped, gcs>>

\* A block of the reclaim list; what other threads have added to
\* GC_bytes_allocd_tmp so far is about to be moved.
TakeBlock(t) ==
  /\ bpc[t] = "locked" /\ allocLock = t /\ launched # {}
  /\ \E b \in reclaimable :
       /\ reclaimable' = reclaimable \ {b}
       /\ building' = [building EXCEPT ![t] = b]
  /\ my' = [my EXCEPT ![t] = allocdTmp]
  /\ GoOn(t, "merge")
  /\ UNCHANGED <<locks, builderCount, launched, fresh, unmarked, bytesAllocd, allocdTmp,
                 handedOut, stopped, gcs>>
TmpLeft(t) == allocdTmp - my[t]
MergeBytes(t) ==
  /\ Steps(t) /\ bpc[t] = "merge"
  /\ allocdTmp' = TmpLeft(t) /\ bytesAllocd' = bytesAllocd + my[t]
  /\ my' = [my EXCEPT ![t] = 0]
  /\ GoOn(t, "count")
  /\ UNCHANGED <<locks, builderCount, launched, heapOf, handedOut, stopped, gcs>>
\* A new block, when nothing is left to be swept.
NewBlock(t) ==
  /\ bpc[t] = "locked" /\ allocLock = t /\ reclaimable = {} /\ launched # {}
  /\ \E b \in fresh :
       /\ fresh' = fresh \ {b}
       /\ bytesAllocd' = bytesAllocd + 1 /\ handedOut' = handedOut + 1
  /\ GoOn(t, "count")
  /\ UNCHANGED <<locks, builderCount, launched, reclaimable, unmarked, building, allocdTmp, my,
                 stopped, gcs>>
Unlock(t) ==
  /\ bpc[t] = "locked" /\ allocLock = t /\ reclaimable = {} /\ (fresh = {} \/ launched = {})
  /\ allocLock' = NoBuilder
  /\ GoOn(t, "idle")
  /\ UNCHANGED <<markLock, onCv, builderCount, launched, heapOf, counts, stopped, gcs>>

\* Counted under both locks; the allocation lock is released first.
Counted(t) == builderCount + 1
EnterBuilder(t) ==
  /\ Steps(t) /\ bpc[t] = "count" /\ markLock = NoBuilder
  /\ builderCount' = Counted(t) /\ markLock' = t /\ allocLock' = NoBuilder
  /\ GoOn(t, "counted")
  /\ UNCHANGED <<onCv, launched, heapOf, counts, stopped, gcs>>
ReleaseMarkLock(t) ==
  /\ Steps(t) /\ bpc[t] \in {"counted", "uncounted"} /\ markLock = t
  /\ markLock' = NoBuilder
  /\ GoOn(t, IF bpc[t] = "counted" THEN "sweep"
             ELSE IF building[t] = NoBuilder THEN "idle" ELSE "again")
  /\ building' = IF bpc[t] = "counted" THEN building ELSE [building EXCEPT ![t] = NoBuilder]
  /\ UNCHANGED <<allocLock, onCv, builderCount, launched, reclaimable, fresh, unmarked, counts,
                 stopped, gcs>>
\* GC_reclaim_generic and, for a new block, GC_build_fl, without any lock.
SweepBlock(t) ==
  /\ Steps(t) /\ bpc[t] = "sweep"
  /\ GoOn(t, "tally")
  /\ IF building[t] = NoBuilder THEN UNCHANGED <<my, handedOut, unmarked>>
     ELSE /\ my' = [my EXCEPT ![t] = unmarked[building[t]]]
          /\ handedOut' = handedOut + unmarked[building[t]]
          /\ unmarked' = [unmarked EXCEPT ![building[t]] = 0]
  /\ UNCHANGED <<locks, builderCount, launched, reclaimable, fresh, building, bytesAllocd,
                 allocdTmp, stopped, gcs>>
\* AO_fetch_and_add; then the allocation is done if the block had free objects
\* or is new, and else the next block is tried, with the allocation lock.
TallyBytes(t) ==
  /\ Steps(t) /\ bpc[t] = "tally"
  /\ allocdTmp' = allocdTmp + my[t] /\ my' = [my EXCEPT ![t] = 0]
  /\ building' = IF my[t] = 0 THEN building ELSE [building EXCEPT ![t] = NoBuilder]
  /\ GoOn(t, "uncount")
  /\ UNCHANGED <<locks, builderCount, launched, reclaimable, fresh, unmarked, bytesAllocd,
                 handedOut, stopped, gcs>>
GC_notify_all_builder(t) == IF builderCount = 1 THEN {} ELSE onCv
Discounted(t) == builderCount - 1
LeaveBuilder(t) ==
  /\ Steps(t) /\ bpc[t] = "uncount" /\ markLock = NoBuilder
  /\ markLock' = t
  /\ onCv' = GC_notify_all_builder(t)
  /\ builderCount' = Discounted(t)
  /\ GoOn(t, "uncounted")
  /\ UNCHANGED <<allocLock, launched, heapOf, counts, stopped, gcs>>

-----------------------------------------------------------------------------
\* A collection by a thread that allocates (GC_try_to_collect_inner).
CollectionBegins(t) ==
  /\ bpc[t] = "locked" /\ allocLock = t /\ gcs < MaxGcs /\ launched # {}
  /\ gcs' = gcs + 1
  /\ GoOn(t, "wait")
  /\ UNCHANGED <<locks, builderCount, launched, heapOf, counts, stopped>>
\* mutated form: a collection does not wait
NoBuildersYet == TRUE
BuildersDone == builderCount <= 0
\* Waiting means releasing the mark lock, and taking it again when woken up;
\* with the lock, the thread looks at the counter.
GC_wait_for_reclaim(t) ==
  /\ bpc[t] = "wait" /\ t \notin onCv /\ markLock = NoBuilder
  /\ IF BuildersDone
     THEN GoOn(t, IF gcs = 0 THEN "locked" ELSE "stop") /\ UNCHANGED onCv
     ELSE onCv' = onCv \cup {t} /\ UNCHANGED bpc
  /\ UNCHANGED <<allocLock, markLock, builderCount, launched, heapOf, counts, stopped, gcs>>
SpuriousWakeup(t) ==
  /\ t \in onCv /\ onCv' = onCv \ {t}
  /\ UNCHANGED <<bpc, allocLock, markLock, builderCount, launched, heapOf, counts, stopped, gcs>>
\* The mark lock is held while threads are stopped.
StopWorldForGc(t) ==
  /\ bpc[t] = "stop" /\ markLock = NoBuilder
  /\ stopped' = t
  /\ GoOn(t, "resume")
  /\ UNCHANGED <<locks, builderCount, launched, heapOf, counts, gcs>>
\* The collection: marks and reclaim list are new, GC_bytes_allocd starts at 0.
MarkAndStartWorld(t) ==
  /\ bpc[t] = "resume" /\ markLock = NoBuilder
  /\ \E u \in [Page \ fresh -> 0..1] :
       unmarked' = [b \in Page |-> IF b \in fresh THEN 0 ELSE u[b]]
  /\ reclaimable' = Page \ fresh
  /\ handedOut' = handedOut - bytesAllocd /\ bytesAllocd' = 0
  /\ stopped' = NoBuilder
  /\ GoOn(t, "locked")
  /\ UNCHANGED <<locks, builderCount, launched, fresh, building, allocdTmp, my, gcs>>

BuildersNext ==
  \/ GC_start_mark_threads_inner
  \/ \E m \in Marker : GC_mark_thread(m)
  \/ GC_wait_for_markers_init
  \/ \E t \in Builder :
       \/ Lock(t)
       \/ TakeBlock(t)
       \/ MergeBytes(t)
       \/ NewBlock(t)
       \/ Unlock(t)
       \/ EnterBuilder(t)
       \/ ReleaseMarkLock(t)
       \/ SweepBlock(t)
       \/ TallyBytes(t)
       \/ LeaveBuilder(t)
       \/ CollectionBegins(t)
       \/ GC_wait_for_reclaim(t)
       \/ SpuriousWakeup(t)
       \/ StopWorldForGc(t)
       \/ MarkAndStartWorld(t)

BuildersSpec == BuildersInit /\ [][BuildersNext]_buildersVars

-----------------------------------------------------------------------------
\* Types.
BuildersTypeOK ==
  /\ bpc \in [Builder \cup Marker -> BPcs]
  /\ allocLock \in Builder \cup {NoBuilder} /\ markLock \in Builder \cup Marker \cup {NoBuilder}
  /\ builderCount \in Int
  /\ onCv \subseteq Builder /\ launched \subseteq Marker
  /\ reclaimable \subseteq Page /\ fresh \subseteq Page /\ unmarked \in [Page -> 0..1]
  /\ building \in [Builder -> Page \cup {NoBuilder}]
  /\ bytesAllocd \in Nat /\ allocdTmp \in Nat /\ my \in [Builder -> Nat] /\ handedOut \in Nat
  /\ stopped \in Builder \cup {NoBuilder} /\ gcs \in 0..MaxGcs

\* With the world stopped no thread examines mark bits or holds a free list that
\* only its local variables refer to, and none sleeps with the mark lock, which
\* the markers need.
NoBuilderInGc ==
  stopped # NoBuilder =>
    /\ \A t \in Builder : bpc[t] \notin SweepSteps \ {"uncounted"}
    /\ markLock \in Marker \cup {NoBuilder}

\* A block has one sweeper at a time, and none while it is in the reclaim list.
OneSweeper ==
  \A t \in Builder : building[t] # NoBuilder /\ bpc[t] \in SweepSteps =>
    /\ building[t] \notin reclaimable
    /\ \A u \in Builder \ {t} : building[u] = building[t] => bpc[u] \notin SweepSteps

\* Threads that have swept an object and not added it to GC_bytes_allocd_tmp yet.
Untallied == {t \in Builder : bpc[t] = "tally" /\ my[t] # 0}

\* No object that was handed out is missing in the counters that decide when
\* to collect, although they are added to without the allocation lock.
\* (A block has at most one free object, so a thread has one to add or none.)
BytesCounted ==
  handedOut = bytesAllocd + allocdTmp + Cardinality(Untallied)

\* When GC_start_mark_threads_inner returns, all markers have stored what the
\* collector needs of them, whatever their number and order.
MarkersReady ==
  bpc[Starter] \notin {"start", "join", "wait"} => \A m \in launched : bpc[m] = "ready"

(***************************************************************************)
(* The inductive invariant behind them.                                    *)
(***************************************************************************)

\* Where a thread holds the allocation lock and the mark lock.
WithAllocLock == {"join", "locked", "wait", "stop", "resume", "merge", "count"}
WithMarkLock == {"counted", "uncounted"}

\* Each lock is held by the thread that is where it holds it.  Only the thread
\* that starts the markers is at the start, and markers only get ready.
LocksHeld ==
  /\ \A t \in Builder : /\ bpc[t] \in WithAllocLock <=> allocLock = t
                        /\ bpc[t] \in WithMarkLock <=> markLock = t
                        /\ bpc[t] \notin {"init", "ready"}
                        /\ bpc[t] \in {"start", "join"} => t = Starter
  /\ \A m \in Marker : bpc[m] = "init" \/ (bpc[m] = "ready" /\ m \in launched)
  /\ markLock \notin Marker

\* Threads that are counted in GC_fl_builder_count, and markers that will be
\* or, before the thread that starts them has added their number, still are not.
CountedIn == {t \in Builder : bpc[t] \in {"counted", "sweep", "tally", "uncount"}}
NotReady == {m \in launched : bpc[m] # "ready"}
Ready == {m \in Marker : bpc[m] = "ready"}

\* GC_fl_builder_count is exact: the builders and the markers not ready yet or,
\* before GC_wait_for_markers_init, minus the markers that are ready.  Until all
\* are ready no other thread gets anywhere, so the two uses do not mix.
CountExact ==
  /\ builderCount = IF bpc[Starter] \in {"start", "join"} THEN -Cardinality(Ready)
                    ELSE Cardinality(CountedIn) + Cardinality(NotReady)
  /\ bpc[Starter] = "start" => launched = {}
  /\ bpc[Starter] \in {"start", "join"} \/ NotReady # {} =>
       /\ \A t \in Builder \ {Starter} : bpc[t] = "idle"
       /\ bpc[Starter] \in {"start", "join", "wait"} /\ gcs = 0

\* A collection past its wait has no builder around, and the thread that stopped
\* the world holds it stopped.
CollectorsAlone ==
  \A t \in Builder : /\ bpc[t] \in {"stop", "resume"} => CountedIn = {}
                     /\ bpc[t] = "resume" => markLock = NoBuilder
                     /\ bpc[t] = "resume" <=> stopped = t

\* A thread has a block, and bytes of its own, only while it builds; what it is
\* about to move from GC_bytes_allocd_tmp is still there.
OwnBlock ==
  \A t \in Builder :
    /\ building[t] # NoBuilder => bpc[t] \in SweepSteps
    /\ my[t] # 0 => \/ bpc[t] = "merge" /\ my[t] <= allocdTmp
                    \/ bpc[t] = "tally" /\ my[t] = 1

Proceeds(t) == ReleaseMarkLock(t) \/ SweepBlock(t) \/ TallyBytes(t) \/ MergeBytes(t)
GetsLock(t) ==
  \/ EnterBuilder(t) \/ LeaveBuilder(t)
  \/ GC_wait_for_reclaim(t) \/ StopWorldForGc(t) \/ MarkAndStartWorld(t)
BuildersFairness ==
  /\ WF_buildersVars(GC_wait_for_markers_init)
  /\ \A m \in Marker : WF_buildersVars(GC_mark_thread(m))
  /\ \A t \in Builder : WF_buildersVars(Proceeds(t)) /\ SF_buildersVars(GetsLock(t))
\* No builder and no collection waits for ever.
CollectionsStart == \A t \in Builder : bpc[t] = "wait" ~> bpc[t] # "wait"

\* Building free lists without the allocation lock disturbs neither collections,
\* nor other builders, nor the counts, nor the start of the markers.
BuildersSound ==
  /\ BuildersTypeOK /\ NoBuilderInGc /\ OneSweeper /\ BytesCounted /\ MarkersReady
  /\ LocksHeld /\ CountExact /\ CollectorsAlone /\ OwnBlock
=============================================================================
