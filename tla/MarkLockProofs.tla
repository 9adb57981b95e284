--------------------------- MODULE MarkLockProofs ---------------------------
(***************************************************************************)
(* Theorems about the mark lock and what is counted under it.  Builders:   *)
(* no free list is built while the world is stopped, and the counts of     *)
(* builders, markers and bytes are right.  WinEvents: the lock word and    *)
(* the event that win32_threads.c makes the mark lock of are a lock.       *)
(* And about WinThreads, which has no lock: the stop reaches every thread  *)
(* that DllMain registered before it, and no stack is left out.            *)
(***************************************************************************)
EXTENDS Builders, WinEvents, WinThreads, FiniteSetTheorems, TLAPS

-----------------------------------------------------------------------------
(* The builders of free lists. *)

\* What the lemmas about single actions carry along; NoBuilderInGc and
\* MarkersReady follow from it.
BInv ==
  /\ BuildersTypeOK /\ OneSweeper /\ BytesCounted
  /\ LocksHeld /\ CountExact /\ CollectorsAlone /\ OwnBlock

\* Nothing sweeps while the world is stopped, and the markers are ready after
\* the start: both are in the exact count and in who holds the locks.
LEMMA InvIsSound ==
  BInv => BuildersSound
<1> SUFFICES ASSUME BInv PROVE BuildersSound
  OBVIOUS
<1>t. BuildersTypeOK /\ LocksHeld /\ CountExact /\ CollectorsAlone
  BY DEF BInv
<1>1. NoBuilderInGc
  <2> SUFFICES ASSUME stopped # NoBuilder
              PROVE  /\ \A u \in Builder : bpc[u] \notin SweepSteps \ {"uncounted"}
                     /\ markLock \in Marker \cup {NoBuilder}
    BY DEF NoBuilderInGc
  <2>1. stopped \in Builder /\ bpc[stopped] = "resume" /\ CountedIn = {} /\ markLock = NoBuilder
    BY <1>t DEF BuildersTypeOK, CollectorsAlone
  <2>2. allocLock = stopped
    BY <1>t, <2>1 DEF LocksHeld, WithAllocLock
  <2>3. ASSUME NEW u \in Builder, bpc[u] \in SweepSteps \ {"uncounted"}
        PROVE  FALSE
    <3>1. bpc[u] \in {"counted", "sweep", "tally", "uncount"} \/ bpc[u] \in {"merge", "count"}
      BY <2>3 DEF SweepSteps
    <3>2. bpc[u] \notin {"counted", "sweep", "tally", "uncount"}
      BY <2>1 DEF CountedIn
    <3>3. bpc[u] \in WithAllocLock
      BY <3>1, <3>2 DEF WithAllocLock
    <3>4. u = stopped
      BY <3>3, <2>2, <1>t DEF LocksHeld
    <3> QED
      BY <3>1, <3>2, <3>4, <2>1
  <2> QED
    BY <2>1, <2>3
<1>2. MarkersReady
  <2>1. bpc[Starter] \notin {"start", "join", "wait"} => NotReady = {}
    BY <1>t DEF CountExact
  <2> QED
    BY <2>1 DEF MarkersReady, NotReady
<1> QED
  BY <1>1, <1>2 DEF BInv, BuildersSound

-----------------------------------------------------------------------------
\* One thread moves.
LEMMA Moved ==
  ASSUME BuildersTypeOK, NEW t \in Builder \cup Marker, NEW l \in BPcs, GoOn(t, l)
  PROVE  /\ bpc' \in [Builder \cup Marker -> BPcs] /\ bpc'[t] = l
         /\ \A u \in Builder \cup Marker : u # t => bpc'[u] = bpc[u]
BY DEF BuildersTypeOK, GoOn

\* The sets that are counted are finite.
LEMMA FiniteParts ==
  ASSUME BuildersTypeOK
  PROVE  /\ IsFiniteSet(CountedIn) /\ IsFiniteSet(NotReady) /\ IsFiniteSet(Ready)
         /\ IsFiniteSet(Untallied)
         /\ Cardinality(CountedIn) \in Nat /\ Cardinality(NotReady) \in Nat
         /\ Cardinality(Ready) \in Nat /\ Cardinality(Untallied) \in Nat
<1>1. CountedIn \subseteq Builder /\ NotReady \subseteq Marker /\ Ready \subseteq Marker
      /\ Untallied \subseteq Builder
  BY DEF CountedIn, NotReady, Ready, Untallied, BuildersTypeOK
<1> QED
  BY <1>1, FS_Subset, FS_CardinalityType, BuildersAssumption

\* A builder's step changes nothing about the markers.
LEMMA MarkersStay ==
  ASSUME BuildersTypeOK, NEW t \in Builder, NEW l \in BPcs, GoOn(t, l), launched' = launched
  PROVE  NotReady' = NotReady /\ Ready' = Ready /\ \A m \in Marker : bpc'[m] = bpc[m]
<1>1. \A m \in Marker : bpc'[m] = bpc[m]
  BY Moved, BuildersAssumption
<1> QED
  BY <1>1 DEF NotReady, Ready, BuildersTypeOK

\* Who is counted after a step of one thread.
Counting == {"counted", "sweep", "tally", "uncount"}
LEMMA CountedStay ==
  ASSUME BuildersTypeOK, NEW t \in Builder, NEW l \in BPcs, GoOn(t, l)
  PROVE  /\ (bpc[t] \in Counting <=> l \in Counting) => CountedIn' = CountedIn
         /\ l \in Counting => CountedIn' = CountedIn \cup {t}
         /\ l \notin Counting => CountedIn' = CountedIn \ {t}
<1>1. \A u \in Builder : u # t => bpc'[u] = bpc[u]
  BY Moved
<1>2. bpc'[t] = l
  BY Moved
<1> QED
  BY <1>1, <1>2 DEF CountedIn, Counting

\* A thread that gets on while it holds the allocation lock, takes it or
\* releases it, and leaves the mark lock alone (or the other way round).
LEMMA LocksStay ==
  ASSUME BInv, NEW t \in Builder, NEW l \in BPcs \ {"init", "ready", "start", "join"}, GoOn(t, l),
         launched' = launched,
         \/ allocLock' = allocLock /\ (bpc[t] \in WithAllocLock <=> l \in WithAllocLock)
         \/ allocLock = NoBuilder /\ allocLock' = t /\ l \in WithAllocLock
         \/ bpc[t] \in WithAllocLock /\ allocLock' = NoBuilder /\ l \notin WithAllocLock,
         \/ markLock' = markLock /\ (bpc[t] \in WithMarkLock <=> l \in WithMarkLock)
         \/ markLock = NoBuilder /\ markLock' = t /\ l \in WithMarkLock
         \/ bpc[t] \in WithMarkLock /\ markLock' = NoBuilder /\ l \notin WithMarkLock
  PROVE  LocksHeld'
<1>t. BuildersTypeOK /\ LocksHeld
  BY DEF BInv
<1>1. bpc'[t] = l /\ \A u \in Builder : u # t => bpc'[u] = bpc[u]
  BY <1>t, Moved
<1>2. \A m \in Marker : bpc'[m] = bpc[m]
  BY <1>t, MarkersStay
<1>3. NoBuilder \notin Builder \cup Marker /\ Builder \cap Marker = {}
  BY BuildersAssumption
<1>a. ASSUME NEW u \in Builder PROVE bpc'[u] \in WithAllocLock <=> allocLock' = u
  <2>1. CASE u = t
    BY <2>1, <1>1, <1>3, <1>t DEF LocksHeld
  <2>2. CASE u # t
    BY <2>2, <1>1, <1>3, <1>t DEF LocksHeld
  <2> QED
    BY <2>1, <2>2
<1>b. ASSUME NEW u \in Builder PROVE bpc'[u] \in WithMarkLock <=> markLock' = u
  <2>1. CASE u = t
    BY <2>1, <1>1, <1>3, <1>t DEF LocksHeld
  <2>2. CASE u # t
    BY <2>2, <1>1, <1>3, <1>t DEF LocksHeld
  <2> QED
    BY <2>1, <2>2
<1>c. ASSUME NEW u \in Builder
      PROVE  bpc'[u] \notin {"init", "ready"} /\ (bpc'[u] \in {"start", "join"} => u = Starter)
  BY <1>1, <1>t DEF LocksHeld
<1>d. \A m \in Marker : bpc'[m] = "init" \/ (bpc'[m] = "ready" /\ m \in launched')
  BY <1>2, <1>t DEF LocksHeld
<1>e. markLock' \notin Marker
  BY <1>3, <1>t DEF LocksHeld
<1> QED
  BY <1>a, <1>b, <1>c, <1>d, <1>e DEF LocksHeld

\* The count stays exact if it changes with the thread; a thread that moves
\* finds the start over, unless it is waiting there for the markers.
LEMMA CountStays ==
  ASSUME BInv, NEW t \in Builder, NEW l \in BPcs \ {"start", "join"}, GoOn(t, l),
         launched' = launched,
         bpc[t] \notin {"start", "join"}, bpc[Starter] \notin {"start", "join"},
         NotReady # {} => t = Starter /\ l = "wait" /\ gcs' = gcs,
         \/ builderCount' = builderCount /\ (bpc[t] \in Counting <=> l \in Counting)
         \/ builderCount' = builderCount + 1 /\ bpc[t] \notin Counting /\ l \in Counting
         \/ builderCount' = builderCount - 1 /\ bpc[t] \in Counting /\ l \notin Counting
  PROVE  CountExact'
<1>t. BuildersTypeOK /\ CountExact
  BY DEF BInv
<1>1. bpc'[t] = l /\ \A u \in Builder : u # t => bpc'[u] = bpc[u]
  BY <1>t, Moved
<1>2. NotReady' = NotReady
  BY <1>t, MarkersStay
<1>s. Starter \in Builder
  BY BuildersAssumption
<1>3. bpc'[Starter] \notin {"start", "join"}
  BY <1>1, <1>s
<1>4. builderCount = Cardinality(CountedIn) + Cardinality(NotReady)
  BY <1>t DEF CountExact
<1>5. t \in CountedIn <=> bpc[t] \in Counting
  BY DEF CountedIn, Counting
<1>f. IsFiniteSet(CountedIn) /\ Cardinality(CountedIn) \in Nat /\ Cardinality(NotReady) \in Nat
  BY <1>t, FiniteParts
<1>6. builderCount' = Cardinality(CountedIn') + Cardinality(NotReady)
  <2>1. CASE builderCount' = builderCount /\ (bpc[t] \in Counting <=> l \in Counting)
    <3>1. CountedIn' = CountedIn
      BY <2>1, <1>t, CountedStay
    <3> QED
      BY <3>1, <2>1, <1>4
  <2>2. CASE builderCount' = builderCount + 1 /\ bpc[t] \notin Counting /\ l \in Counting
    <3>1. CountedIn' = CountedIn \cup {t} /\ t \notin CountedIn
      BY <2>2, <1>t, <1>5, CountedStay
    <3>2. Cardinality(CountedIn \cup {t}) = Cardinality(CountedIn) + 1
      BY <3>1, <1>f, FS_AddElement
    <3> QED
      BY <3>1, <3>2, <2>2, <1>4, <1>f
  <2>3. CASE builderCount' = builderCount - 1 /\ bpc[t] \in Counting /\ l \notin Counting
    <3>1. CountedIn' = CountedIn \ {t} /\ t \in CountedIn
      BY <2>3, <1>t, <1>5, CountedStay
    <3>2. Cardinality(CountedIn \ {t}) = Cardinality(CountedIn) - 1
      BY <3>1, <1>f, FS_RemoveElement
    <3> QED
      BY <3>1, <3>2, <2>3, <1>4, <1>f
  <2> QED
    BY <2>1, <2>2, <2>3
<1>7. NotReady # {} => (\A u \in Builder \ {Starter} : bpc'[u] = "idle") /\ bpc'[Starter] = "wait"
                       /\ gcs' = 0
  BY <1>1, <1>s, <1>t DEF CountExact
<1>8. bpc'[Starter] # "start" /\ bpc'[Starter] # "join"
  BY <1>3
<1> QED
  BY <1>2, <1>6, <1>7, <1>8 DEF CountExact

\* A thread that neither begins to build nor stops or resumes the world.
LEMMA AloneStays ==
  ASSUME BInv, NEW t \in Builder, NEW l \in BPcs, GoOn(t, l), stopped' = stopped,
         l \notin {"stop", "resume"}, bpc[t] # "resume",
         bpc[t] \in Counting \/ l \notin Counting \/ bpc[t] \in WithAllocLock \ {"stop", "resume"},
         \/ markLock' = markLock \/ markLock' = NoBuilder \/ stopped = NoBuilder
  PROVE  CollectorsAlone'
<1>t. BuildersTypeOK /\ LocksHeld /\ CollectorsAlone
  BY DEF BInv
<1>1. bpc'[t] = l /\ \A u \in Builder : u # t => bpc'[u] = bpc[u]
  BY <1>t, Moved
<1>n. NoBuilder \notin Builder
  BY BuildersAssumption
<1>2. ASSUME NEW u \in Builder, bpc'[u] \in {"stop", "resume"} PROVE CountedIn' = {}
  <2>1. u # t /\ bpc[u] \in {"stop", "resume"} /\ CountedIn = {}
    BY <1>2, <1>1, <1>t DEF CollectorsAlone
  <2>2. bpc[t] \notin Counting
    BY <2>1 DEF CountedIn, Counting
  <2>3. bpc[t] \notin WithAllocLock
    BY <2>1, <1>t DEF LocksHeld, WithAllocLock
  <2>4. l \notin Counting
    BY <2>2, <2>3
  <2> QED
    BY <2>1, <2>4, <1>t, CountedStay
<1>3. ASSUME NEW u \in Builder PROVE bpc'[u] = "resume" <=> stopped' = u
  BY <1>1, <1>t DEF CollectorsAlone
<1>4. ASSUME NEW u \in Builder, bpc'[u] = "resume" PROVE markLock' = NoBuilder
  <2>1. bpc[u] = "resume" /\ stopped = u
    BY <1>4, <1>1, <1>t DEF CollectorsAlone
  <2>2. markLock = NoBuilder
    BY <2>1, <1>t DEF CollectorsAlone
  <2> QED
    BY <2>1, <2>2, <1>n
<1> QED
  BY <1>2, <1>3, <1>4 DEF CollectorsAlone

\* A thread that moves keeps its block and its bytes, as do the others.
LEMMA BlocksStay ==
  ASSUME BInv, NEW t \in Builder, NEW l \in BPcs, GoOn(t, l),
         building' = building, reclaimable' = reclaimable,
         bpc[t] \in SweepSteps <=> l \in SweepSteps
  PROVE  OneSweeper' /\ \A u \in Builder : building'[u] # NoBuilder => bpc'[u] \in SweepSteps
<1>t. BuildersTypeOK /\ OneSweeper /\ OwnBlock
  BY DEF BInv
<1>1. bpc'[t] = l /\ \A u \in Builder : u # t => bpc'[u] = bpc[u]
  BY <1>t, Moved
<1>2. \A u \in Builder : bpc'[u] \in SweepSteps <=> bpc[u] \in SweepSteps
  BY <1>1
<1>3. OneSweeper'
  BY <1>2, <1>t DEF OneSweeper
<1> QED
  BY <1>2, <1>3, <1>t DEF OwnBlock

\* The bytes are counted as before if no thread comes to or leaves the tally.
LEMMA BytesStay ==
  ASSUME BInv, NEW t \in Builder, NEW l \in BPcs, GoOn(t, l),
         my' = my, allocdTmp' = allocdTmp, 
         \E d \in Nat : handedOut' = handedOut + d /\ bytesAllocd' = bytesAllocd + d,
         bytesAllocd' \in Nat, handedOut' \in Nat,
         bpc[t] \notin {"tally", "merge"}, l \notin {"tally", "merge"}
  PROVE  BytesCounted' /\ \A u \in Builder : my'[u] # 0 =>
                            \/ bpc'[u] = "merge" /\ my'[u] <= allocdTmp'
                            \/ bpc'[u] = "tally" /\ my'[u] = 1
<1>t. BuildersTypeOK /\ BytesCounted /\ OwnBlock
  BY DEF BInv
<1>1. bpc'[t] = l /\ \A u \in Builder : u # t => bpc'[u] = bpc[u]
  BY <1>t, Moved
<1>2. Untallied' = Untallied
  BY <1>1 DEF Untallied
<1>3. Cardinality(Untallied) \in Nat
  BY <1>t, FiniteParts
<1>n. bytesAllocd \in Nat /\ allocdTmp \in Nat /\ handedOut \in Nat
  BY <1>t DEF BuildersTypeOK
<1>k. handedOut = bytesAllocd + allocdTmp + Cardinality(Untallied)
  BY <1>t DEF BytesCounted
<1>m. handedOut' = bytesAllocd' + allocdTmp + Cardinality(Untallied)
  <2>1. PICK c \in Nat : c = Cardinality(Untallied)
    BY <1>3
  <2>2. handedOut = bytesAllocd + allocdTmp + c
    BY <1>k, <2>1
  <2>3. handedOut' = bytesAllocd' + allocdTmp + c
    BY <2>2, <1>n
  <2> QED
    BY <2>1, <2>3
<1>4. handedOut' = bytesAllocd' + allocdTmp' + Cardinality(Untallied')
  BY <1>2, <1>m
<1>5. \A u \in Builder : my[u] # 0 => bpc'[u] = bpc[u]
  BY <1>1, <1>t DEF OwnBlock
<1> QED
  BY <1>4, <1>5, <1>t DEF BytesCounted, OwnBlock

-----------------------------------------------------------------------------
\* A thread that is past its start or idleness finds all markers ready.
LEMMA Started ==
  ASSUME BInv, NEW t \in Builder, bpc[t] \notin {"idle", "start", "join", "wait"}
  PROVE  NotReady = {} /\ bpc[Starter] \notin {"start", "join"}
BY DEF BInv, CountExact

\* GC_lock.
LEMMA KeepLock ==
  ASSUME BInv, NEW t \in Builder, Lock(t)
  PROVE  BInv'
<1>i. BuildersTypeOK /\ OneSweeper /\ BytesCounted /\ LocksHeld /\ CountExact
      /\ CollectorsAlone /\ OwnBlock
  BY DEF BInv
<1>g. bpc[t] \in {"idle", "again"} /\ bpc[Starter] \notin {"start", "join"} /\ GoOn(t, "locked")
  BY DEF Lock
<1>l. "locked" \in BPcs
  BY DEF BPcs, SweepSteps
<1>h. allocLock = NoBuilder /\ allocLock' = t
  BY DEF Lock
<1>f. UNCHANGED <<markLock, builderCount, onCv, launched, reclaimable, fresh, unmarked, building,
                   bytesAllocd, allocdTmp, my, stopped, gcs, handedOut>>
  BY DEF Lock, locks, heapOf, counts
<1>n. NotReady = {} /\ bpc[Starter] \notin {"start", "join"}
  <2>1. bpc[Starter] = "wait" => allocLock = Starter
    BY <1>i, BuildersAssumption DEF LocksHeld, WithAllocLock
  <2>2. NotReady = {}
    BY <2>1, <1>h, <1>g, <1>i, BuildersAssumption DEF CountExact
  <2> QED
    BY <2>2, <1>g
<1>b. /\ bpc' \in [Builder \cup Marker -> BPcs] /\ bpc'[t] = "locked"
      /\ \A u \in Builder \cup Marker : u # t => bpc'[u] = bpc[u]
  BY <1>i, <1>g, <1>l, Moved
<1>1. BuildersTypeOK'
  BY <1>i, <1>b, <1>f, <1>h, <1>g DEF BuildersTypeOK
<1>2. LocksHeld'
  BY <1>i, <1>g, <1>l, <1>f, <1>h, LocksStay DEF WithAllocLock, WithMarkLock
<1>3. CountExact'
  BY <1>i, <1>g, <1>l, <1>f, <1>n, <1>h, CountStays DEF Counting
<1>4. CollectorsAlone'
  BY <1>i, <1>g, <1>l, <1>f, <1>h, AloneStays DEF Counting, WithAllocLock
<1>5. OneSweeper' /\ \A u \in Builder : building'[u] # NoBuilder => bpc'[u] \in SweepSteps
  BY <1>i, <1>g, <1>l, <1>f, BlocksStay DEF SweepSteps
<1>6. BytesCounted' /\ \A u \in Builder : my'[u] # 0 =>
                            \/ bpc'[u] = "merge" /\ my'[u] <= allocdTmp'
                            \/ bpc'[u] = "tally" /\ my'[u] = 1
  <2>1. bytesAllocd' \in Nat /\ handedOut' \in Nat
    BY <1>1 DEF BuildersTypeOK
  <2>2. \E d \in Nat : handedOut' = handedOut + d /\ bytesAllocd' = bytesAllocd + d
    <3>1. handedOut' = handedOut + 0 /\ bytesAllocd' = bytesAllocd + 0
      BY <2>1, <1>f
    <3> QED
      BY <3>1
  <2> QED
    BY <1>i, <1>g, <1>l, <1>f, <2>1, <2>2, BytesStay
<1> QED
  BY <1>1, <1>2, <1>3, <1>4, <1>5, <1>6 DEF BInv, OwnBlock

\* Nothing to take: the lock is released.
LEMMA KeepUnlock ==
  ASSUME BInv, NEW t \in Builder, Unlock(t)
  PROVE  BInv'
<1>i. BuildersTypeOK /\ OneSweeper /\ BytesCounted /\ LocksHeld /\ CountExact
      /\ CollectorsAlone /\ OwnBlock
  BY DEF BInv
<1>g. bpc[t] = "locked" /\ GoOn(t, "idle")
  BY DEF Unlock
<1>l. "idle" \in BPcs
  BY DEF BPcs, SweepSteps
<1>h. allocLock' = NoBuilder
  BY DEF Unlock
<1>f. UNCHANGED <<markLock, builderCount, onCv, launched, reclaimable, fresh, unmarked, building,
                   bytesAllocd, allocdTmp, my, stopped, gcs, handedOut>>
  BY DEF Unlock, locks, heapOf, counts
<1>n. NotReady = {} /\ bpc[Starter] \notin {"start", "join"}
  BY <1>g, Started
<1>b. /\ bpc' \in [Builder \cup Marker -> BPcs] /\ bpc'[t] = "idle"
      /\ \A u \in Builder \cup Marker : u # t => bpc'[u] = bpc[u]
  BY <1>i, <1>g, <1>l, Moved
<1>1. BuildersTypeOK'
  BY <1>i, <1>b, <1>f, <1>h, <1>g DEF BuildersTypeOK
<1>2. LocksHeld'
  BY <1>i, <1>g, <1>l, <1>f, <1>h, LocksStay DEF WithAllocLock, WithMarkLock
<1>3. CountExact'
  BY <1>i, <1>g, <1>l, <1>f, <1>n, <1>h, CountStays DEF Counting
<1>4. CollectorsAlone'
  BY <1>i, <1>g, <1>l, <1>f, <1>h, AloneStays DEF Counting, WithAllocLock
<1>5. OneSweeper' /\ \A u \in Builder : building'[u] # NoBuilder => bpc'[u] \in SweepSteps
  BY <1>i, <1>g, <1>l, <1>f, BlocksStay DEF SweepSteps
<1>6. BytesCounted' /\ \A u \in Builder : my'[u] # 0 =>
                            \/ bpc'[u] = "merge" /\ my'[u] <= allocdTmp'
                            \/ bpc'[u] = "tally" /\ my'[u] = 1
  <2>1. bytesAllocd' \in Nat /\ handedOut' \in Nat
    BY <1>1 DEF BuildersTypeOK
  <2>2. \E d \in Nat : handedOut' = handedOut + d /\ bytesAllocd' = bytesAllocd + d
    <3>1. handedOut' = handedOut + 0 /\ bytesAllocd' = bytesAllocd + 0
      BY <2>1, <1>f
    <3> QED
      BY <3>1
  <2> QED
    BY <1>i, <1>g, <1>l, <1>f, <2>1, <2>2, BytesStay
<1> QED
  BY <1>1, <1>2, <1>3, <1>4, <1>5, <1>6 DEF BInv, OwnBlock

\* Counted, and then without the allocation lock.
LEMMA KeepEnterBuilder ==
  ASSUME BInv, NEW t \in Builder, EnterBuilder(t)
  PROVE  BInv'
<1>i. BuildersTypeOK /\ OneSweeper /\ BytesCounted /\ LocksHeld /\ CountExact
      /\ CollectorsAlone /\ OwnBlock
  BY DEF BInv
<1>g. bpc[t] = "count" /\ GoOn(t, "counted")
  BY DEF EnterBuilder
<1>l. "counted" \in BPcs
  BY DEF BPcs, SweepSteps
<1>h. markLock = NoBuilder /\ markLock' = t /\ allocLock' = NoBuilder /\ builderCount' = builderCount + 1 /\ Steps(t)
  BY DEF EnterBuilder, Counted
<1>f. UNCHANGED <<onCv, launched, reclaimable, fresh, unmarked, building, bytesAllocd,
                   allocdTmp, my, stopped, gcs, handedOut>>
  BY DEF EnterBuilder, locks, heapOf, counts
<1>n. NotReady = {} /\ bpc[Starter] \notin {"start", "join"}
  BY <1>g, Started
<1>b. /\ bpc' \in [Builder \cup Marker -> BPcs] /\ bpc'[t] = "counted"
      /\ \A u \in Builder \cup Marker : u # t => bpc'[u] = bpc[u]
  BY <1>i, <1>g, <1>l, Moved
<1>1. BuildersTypeOK'
  BY <1>i, <1>b, <1>f, <1>h, <1>g DEF BuildersTypeOK
<1>2. LocksHeld'
  BY <1>i, <1>g, <1>l, <1>f, <1>h, LocksStay DEF WithAllocLock, WithMarkLock
<1>3. CountExact'
  BY <1>i, <1>g, <1>l, <1>f, <1>n, <1>h, CountStays DEF Counting
<1>r. stopped = NoBuilder
  BY <1>h, <1>g, <1>i, BuildersAssumption DEF Steps, CollectorsAlone
<1>4. CollectorsAlone'
  BY <1>i, <1>g, <1>l, <1>f, <1>h, <1>r, AloneStays DEF Counting, WithAllocLock
<1>5. OneSweeper' /\ \A u \in Builder : building'[u] # NoBuilder => bpc'[u] \in SweepSteps
  BY <1>i, <1>g, <1>l, <1>f, BlocksStay DEF SweepSteps
<1>6. BytesCounted' /\ \A u \in Builder : my'[u] # 0 =>
                            \/ bpc'[u] = "merge" /\ my'[u] <= allocdTmp'
                            \/ bpc'[u] = "tally" /\ my'[u] = 1
  <2>1. bytesAllocd' \in Nat /\ handedOut' \in Nat
    BY <1>1 DEF BuildersTypeOK
  <2>2. \E d \in Nat : handedOut' = handedOut + d /\ bytesAllocd' = bytesAllocd + d
    <3>1. handedOut' = handedOut + 0 /\ bytesAllocd' = bytesAllocd + 0
      BY <2>1, <1>f
    <3> QED
      BY <3>1
  <2> QED
    BY <1>i, <1>g, <1>l, <1>f, <2>1, <2>2, BytesStay
<1> QED
  BY <1>1, <1>2, <1>3, <1>4, <1>5, <1>6 DEF BInv, OwnBlock

\* No longer counted.
LEMMA KeepLeaveBuilder ==
  ASSUME BInv, NEW t \in Builder, LeaveBuilder(t)
  PROVE  BInv'
<1>i. BuildersTypeOK /\ OneSweeper /\ BytesCounted /\ LocksHeld /\ CountExact
      /\ CollectorsAlone /\ OwnBlock
  BY DEF BInv
<1>g. bpc[t] = "uncount" /\ GoOn(t, "uncounted")
  BY DEF LeaveBuilder
<1>l. "uncounted" \in BPcs
  BY DEF BPcs, SweepSteps
<1>h. markLock = NoBuilder /\ markLock' = t /\ onCv' \subseteq onCv /\ builderCount' = builderCount - 1 /\ Steps(t)
  BY DEF LeaveBuilder, Discounted, GC_notify_all_builder
<1>f. UNCHANGED <<allocLock, launched, reclaimable, fresh, unmarked, building, bytesAllocd,
                   allocdTmp, my, stopped, gcs, handedOut>>
  BY DEF LeaveBuilder, locks, heapOf, counts
<1>n. NotReady = {} /\ bpc[Starter] \notin {"start", "join"}
  BY <1>g, Started
<1>b. /\ bpc' \in [Builder \cup Marker -> BPcs] /\ bpc'[t] = "uncounted"
      /\ \A u \in Builder \cup Marker : u # t => bpc'[u] = bpc[u]
  BY <1>i, <1>g, <1>l, Moved
<1>1. BuildersTypeOK'
  BY <1>i, <1>b, <1>f, <1>h, <1>g DEF BuildersTypeOK
<1>2. LocksHeld'
  BY <1>i, <1>g, <1>l, <1>f, <1>h, LocksStay DEF WithAllocLock, WithMarkLock
<1>3. CountExact'
  BY <1>i, <1>g, <1>l, <1>f, <1>n, <1>h, CountStays DEF Counting
<1>r. stopped = NoBuilder
  BY <1>h, <1>g, <1>i, BuildersAssumption DEF Steps, CollectorsAlone
<1>4. CollectorsAlone'
  BY <1>i, <1>g, <1>l, <1>f, <1>h, <1>r, AloneStays DEF Counting, WithAllocLock
<1>5. OneSweeper' /\ \A u \in Builder : building'[u] # NoBuilder => bpc'[u] \in SweepSteps
  BY <1>i, <1>g, <1>l, <1>f, BlocksStay DEF SweepSteps
<1>6. BytesCounted' /\ \A u \in Builder : my'[u] # 0 =>
                            \/ bpc'[u] = "merge" /\ my'[u] <= allocdTmp'
                            \/ bpc'[u] = "tally" /\ my'[u] = 1
  <2>1. bytesAllocd' \in Nat /\ handedOut' \in Nat
    BY <1>1 DEF BuildersTypeOK
  <2>2. \E d \in Nat : handedOut' = handedOut + d /\ bytesAllocd' = bytesAllocd + d
    <3>1. handedOut' = handedOut + 0 /\ bytesAllocd' = bytesAllocd + 0
      BY <2>1, <1>f
    <3> QED
      BY <3>1
  <2> QED
    BY <1>i, <1>g, <1>l, <1>f, <2>1, <2>2, BytesStay
<1> QED
  BY <1>1, <1>2, <1>3, <1>4, <1>5, <1>6 DEF BInv, OwnBlock

\* A collection begins with waiting for the builders.
LEMMA KeepCollectionBegins ==
  ASSUME BInv, NEW t \in Builder, CollectionBegins(t)
  PROVE  BInv'
<1>i. BuildersTypeOK /\ OneSweeper /\ BytesCounted /\ LocksHeld /\ CountExact
      /\ CollectorsAlone /\ OwnBlock
  BY DEF BInv
<1>g. bpc[t] = "locked" /\ GoOn(t, "wait")
  BY DEF CollectionBegins
<1>l. "wait" \in BPcs
  BY DEF BPcs, SweepSteps
<1>h. gcs' = gcs + 1 /\ gcs < MaxGcs
  BY DEF CollectionBegins
<1>f. UNCHANGED <<allocLock, markLock, builderCount, onCv, launched, reclaimable, fresh, unmarked,
                   building, bytesAllocd, allocdTmp, my, stopped, handedOut>>
  BY DEF CollectionBegins, locks, heapOf, counts
<1>n. NotReady = {} /\ bpc[Starter] \notin {"start", "join"}
  BY <1>g, Started
<1>b. /\ bpc' \in [Builder \cup Marker -> BPcs] /\ bpc'[t] = "wait"
      /\ \A u \in Builder \cup Marker : u # t => bpc'[u] = bpc[u]
  BY <1>i, <1>g, <1>l, Moved
<1>1. BuildersTypeOK'
  BY <1>i, <1>b, <1>f, <1>h, <1>g, BuildersAssumption DEF BuildersTypeOK
<1>2. LocksHeld'
  BY <1>i, <1>g, <1>l, <1>f, <1>h, LocksStay DEF WithAllocLock, WithMarkLock
<1>3. CountExact'
  BY <1>i, <1>g, <1>l, <1>f, <1>n, <1>h, CountStays DEF Counting
<1>4. CollectorsAlone'
  BY <1>i, <1>g, <1>l, <1>f, <1>h, AloneStays DEF Counting, WithAllocLock
<1>5. OneSweeper' /\ \A u \in Builder : building'[u] # NoBuilder => bpc'[u] \in SweepSteps
  BY <1>i, <1>g, <1>l, <1>f, BlocksStay DEF SweepSteps
<1>6. BytesCounted' /\ \A u \in Builder : my'[u] # 0 =>
                            \/ bpc'[u] = "merge" /\ my'[u] <= allocdTmp'
                            \/ bpc'[u] = "tally" /\ my'[u] = 1
  <2>1. bytesAllocd' \in Nat /\ handedOut' \in Nat
    BY <1>1 DEF BuildersTypeOK
  <2>2. \E d \in Nat : handedOut' = handedOut + d /\ bytesAllocd' = bytesAllocd + d
    <3>1. handedOut' = handedOut + 0 /\ bytesAllocd' = bytesAllocd + 0
      BY <2>1, <1>f
    <3> QED
      BY <3>1
  <2> QED
    BY <1>i, <1>g, <1>l, <1>f, <2>1, <2>2, BytesStay
<1> QED
  BY <1>1, <1>2, <1>3, <1>4, <1>5, <1>6 DEF BInv, OwnBlock

\* A fresh block, counted at once.
LEMMA KeepNewBlock ==
  ASSUME BInv, NEW t \in Builder, NewBlock(t)
  PROVE  BInv'
<1>i. BuildersTypeOK /\ OneSweeper /\ BytesCounted /\ LocksHeld /\ CountExact
      /\ CollectorsAlone /\ OwnBlock
  BY DEF BInv
<1>g. bpc[t] = "locked" /\ GoOn(t, "count")
  BY DEF NewBlock
<1>l. "count" \in BPcs
  BY DEF BPcs, SweepSteps
<1>h. fresh' \subseteq fresh /\ bytesAllocd' = bytesAllocd + 1 /\ handedOut' = handedOut + 1
  BY DEF NewBlock
<1>f. UNCHANGED <<allocLock, markLock, builderCount, onCv, launched, reclaimable, unmarked,
                   building, allocdTmp, my, stopped, gcs>>
  BY DEF NewBlock, locks, heapOf, counts
<1>n. NotReady = {} /\ bpc[Starter] \notin {"start", "join"}
  BY <1>g, Started
<1>b. /\ bpc' \in [Builder \cup Marker -> BPcs] /\ bpc'[t] = "count"
      /\ \A u \in Builder \cup Marker : u # t => bpc'[u] = bpc[u]
  BY <1>i, <1>g, <1>l, Moved
<1>1. BuildersTypeOK'
  BY <1>i, <1>b, <1>f, <1>h, <1>g DEF BuildersTypeOK
<1>2. LocksHeld'
  BY <1>i, <1>g, <1>l, <1>f, <1>h, LocksStay DEF WithAllocLock, WithMarkLock
<1>3. CountExact'
  BY <1>i, <1>g, <1>l, <1>f, <1>n, <1>h, CountStays DEF Counting
<1>4. CollectorsAlone'
  BY <1>i, <1>g, <1>l, <1>f, <1>h, AloneStays DEF Counting, WithAllocLock
<1>k. building[t] = NoBuilder
  BY <1>g, <1>i DEF OwnBlock, SweepSteps
<1>5. OneSweeper' /\ \A u \in Builder : building'[u] # NoBuilder => bpc'[u] \in SweepSteps
  <2>1. \A u \in Builder : building[u] # NoBuilder => bpc'[u] = bpc[u]
    BY <1>k, <1>b
  <2>2. OneSweeper'
    BY <2>1, <1>f, <1>i DEF OneSweeper, OwnBlock
  <2> QED
    BY <2>1, <2>2, <1>f, <1>i DEF OwnBlock
<1>6. BytesCounted' /\ \A u \in Builder : my'[u] # 0 =>
                            \/ bpc'[u] = "merge" /\ my'[u] <= allocdTmp'
                            \/ bpc'[u] = "tally" /\ my'[u] = 1
  <2>1. bytesAllocd' \in Nat /\ handedOut' \in Nat /\ bytesAllocd \in Nat /\ handedOut \in Nat
    BY <1>1, <1>i DEF BuildersTypeOK
  <2>2. \E d \in Nat : handedOut' = handedOut + d /\ bytesAllocd' = bytesAllocd + d
    BY <1>h
  <2> QED
    BY <1>i, <1>g, <1>l, <1>f, <2>1, <2>2, BytesStay
<1> QED
  BY <1>1, <1>2, <1>3, <1>4, <1>5, <1>6 DEF BInv, OwnBlock

\* A block is taken off the reclaim list, which had it for nobody else.
LEMMA KeepTakeBlock ==
  ASSUME BInv, NEW t \in Builder, TakeBlock(t)
  PROVE  BInv'
<1>i. BuildersTypeOK /\ OneSweeper /\ BytesCounted /\ LocksHeld /\ CountExact
      /\ CollectorsAlone /\ OwnBlock
  BY DEF BInv
<1>g. bpc[t] = "locked" /\ GoOn(t, "merge")
  BY DEF TakeBlock
<1>l. "merge" \in BPcs
  BY DEF BPcs, SweepSteps
<1>h. my' = [my EXCEPT ![t] = allocdTmp]
  BY DEF TakeBlock
<1>f. UNCHANGED <<allocLock, markLock, builderCount, onCv, launched, fresh, unmarked,
                   bytesAllocd, allocdTmp, stopped, gcs, handedOut>>
  BY DEF TakeBlock, locks, heapOf, counts
<1>n. NotReady = {} /\ bpc[Starter] \notin {"start", "join"}
  BY <1>g, Started
<1>b. /\ bpc' \in [Builder \cup Marker -> BPcs] /\ bpc'[t] = "merge"
      /\ \A u \in Builder \cup Marker : u # t => bpc'[u] = bpc[u]
  BY <1>i, <1>g, <1>l, Moved
<1>p. PICK b \in reclaimable : /\ reclaimable' = reclaimable \ {b}
                             /\ building' = [building EXCEPT ![t] = b]
  BY DEF TakeBlock
<1>q. b \in Page /\ b # NoBuilder
  BY <1>p, <1>i, BuildersAssumption DEF BuildersTypeOK
<1>v. building' \in [Builder -> Page \cup {NoBuilder}] /\ reclaimable' \subseteq Page
      /\ my' \in [Builder -> Nat]
  BY <1>p, <1>q, <1>h, <1>i DEF BuildersTypeOK
<1>w. /\ building'[t] = b /\ \A u \in Builder : u # t => building'[u] = building[u]
      /\ my'[t] = allocdTmp /\ \A u \in Builder : u # t => my'[u] = my[u]
  BY <1>p, <1>h, <1>i DEF BuildersTypeOK
<1>1. BuildersTypeOK'
  BY <1>i, <1>b, <1>f, <1>h, <1>g, <1>v DEF BuildersTypeOK
<1>2. LocksHeld'
  BY <1>i, <1>g, <1>l, <1>f, <1>h, LocksStay DEF WithAllocLock, WithMarkLock
<1>3. CountExact'
  BY <1>i, <1>g, <1>l, <1>f, <1>n, <1>h, CountStays DEF Counting
<1>4. CollectorsAlone'
  BY <1>i, <1>g, <1>l, <1>f, <1>h, AloneStays DEF Counting, WithAllocLock
<1>5. OneSweeper' /\ \A u \in Builder : building'[u] # NoBuilder => bpc'[u] \in SweepSteps
  <2>1. \A u \in Builder : building[u] # b
    BY <1>p, <1>q, <1>i DEF OneSweeper, OwnBlock
  <2>2. ASSUME NEW u \in Builder, building'[u] # NoBuilder, bpc'[u] \in SweepSteps
        PROVE  /\ building'[u] \notin reclaimable'
               /\ \A v \in Builder \ {u} : building'[v] = building'[u] => bpc'[v] \notin SweepSteps
    <3>1. CASE u = t
      BY <3>1, <2>1, <1>w, <1>p
    <3>2. CASE u # t
      <4>1. building'[u] = building[u] /\ bpc'[u] = bpc[u]
        BY <3>2, <1>w, <1>b
      <4>2. /\ building[u] \notin reclaimable
            /\ \A v \in Builder \ {u} : building[v] = building[u] => bpc[v] \notin SweepSteps
        BY <4>1, <2>2, <1>i DEF OneSweeper
      <4> QED
        BY <4>1, <4>2, <2>1, <1>w, <1>b, <1>p
    <3> QED
      BY <3>1, <3>2
  <2>3. OneSweeper'
    BY <2>2 DEF OneSweeper
  <2>4. "merge" \in SweepSteps
    BY DEF SweepSteps
  <2> QED
    BY <2>3, <2>4, <1>w, <1>b, <1>i DEF OwnBlock
<1>6. BytesCounted' /\ \A u \in Builder : my'[u] # 0 =>
                            \/ bpc'[u] = "merge" /\ my'[u] <= allocdTmp'
                            \/ bpc'[u] = "tally" /\ my'[u] = 1
  <2>1. Untallied' = Untallied
    BY <1>b, <1>w, <1>g DEF Untallied
  <2>2. BytesCounted'
    BY <2>1, <1>f, <1>i DEF BytesCounted
  <2>3. allocdTmp \in Nat
    BY <1>i DEF BuildersTypeOK
  <2> QED
    BY <2>2, <2>3, <1>b, <1>w, <1>f, <1>i DEF OwnBlock
<1> QED
  BY <1>1, <1>2, <1>3, <1>4, <1>5, <1>6 DEF BInv, OwnBlock

\* What was in GC_bytes_allocd_tmp is moved; nobody else moves it.
LEMMA KeepMergeBytes ==
  ASSUME BInv, NEW t \in Builder, MergeBytes(t)
  PROVE  BInv'
<1>i. BuildersTypeOK /\ OneSweeper /\ BytesCounted /\ LocksHeld /\ CountExact
      /\ CollectorsAlone /\ OwnBlock
  BY DEF BInv
<1>g. bpc[t] = "merge" /\ GoOn(t, "count")
  BY DEF MergeBytes
<1>l. "count" \in BPcs
  BY DEF BPcs, SweepSteps
<1>h. allocdTmp' = allocdTmp - my[t] /\ bytesAllocd' = bytesAllocd + my[t]
      /\ my' = [my EXCEPT ![t] = 0]
  BY DEF MergeBytes, TmpLeft
<1>f. UNCHANGED <<allocLock, markLock, builderCount, onCv, launched, reclaimable, fresh,
                   unmarked, building, stopped, gcs, handedOut>>
  BY DEF MergeBytes, locks, heapOf, counts
<1>n. NotReady = {} /\ bpc[Starter] \notin {"start", "join"}
  BY <1>g, Started
<1>b. /\ bpc' \in [Builder \cup Marker -> BPcs] /\ bpc'[t] = "count"
      /\ \A u \in Builder \cup Marker : u # t => bpc'[u] = bpc[u]
  BY <1>i, <1>g, <1>l, Moved
<1>w. /\ my \in [Builder -> Nat] /\ my[t] \in Nat /\ my[t] <= allocdTmp
      /\ allocdTmp \in Nat /\ bytesAllocd \in Nat
  BY <1>g, <1>i DEF BuildersTypeOK, OwnBlock
<1>v. my' \in [Builder -> Nat] /\ allocdTmp' \in Nat /\ bytesAllocd' \in Nat
  BY <1>w, <1>h
<1>x. my'[t] = 0 /\ \A u \in Builder : u # t => my'[u] = my[u]
  BY <1>w, <1>h
<1>1. BuildersTypeOK'
  BY <1>i, <1>b, <1>f, <1>h, <1>g, <1>v DEF BuildersTypeOK
<1>2. LocksHeld'
  BY <1>i, <1>g, <1>l, <1>f, <1>h, LocksStay DEF WithAllocLock, WithMarkLock
<1>3. CountExact'
  BY <1>i, <1>g, <1>l, <1>f, <1>n, <1>h, CountStays DEF Counting
<1>4. CollectorsAlone'
  BY <1>i, <1>g, <1>l, <1>f, <1>h, AloneStays DEF Counting, WithAllocLock
<1>5. OneSweeper' /\ \A u \in Builder : building'[u] # NoBuilder => bpc'[u] \in SweepSteps
  BY <1>i, <1>g, <1>l, <1>f, BlocksStay DEF SweepSteps
<1>6. BytesCounted' /\ \A u \in Builder : my'[u] # 0 =>
                            \/ bpc'[u] = "merge" /\ my'[u] <= allocdTmp'
                            \/ bpc'[u] = "tally" /\ my'[u] = 1
  <2>n. /\ bytesAllocd \in Nat /\ allocdTmp \in Nat /\ handedOut \in Nat
        /\ Cardinality(Untallied) \in Nat /\ IsFiniteSet(Untallied)
        /\ my \in [Builder -> Nat]
    BY <1>i, FiniteParts DEF BuildersTypeOK
  <2>k. handedOut = bytesAllocd + allocdTmp + Cardinality(Untallied)
    BY <1>i DEF BytesCounted
  <2>1. Untallied' = Untallied
    BY <1>b, <1>x, <1>g DEF Untallied
  <2>2. PICK c \in Nat : c = Cardinality(Untallied)
    BY <2>n
  <2>3. PICK d \in Nat : d = my[t]
    BY <1>w
  <2>4. handedOut = bytesAllocd + allocdTmp + c
    BY <2>k, <2>2
  <2>5. handedOut = (bytesAllocd + d) + (allocdTmp - d) + c
    BY <2>4, <2>n
  <2>6. BytesCounted'
    BY <2>1, <2>2, <2>3, <2>5, <1>f, <1>h DEF BytesCounted
  <2>7. \A u \in Builder : u # t => bpc[u] # "merge"
    BY <1>g, <1>i DEF LocksHeld, WithAllocLock
  <2> QED
    BY <2>6, <2>7, <1>b, <1>x, <1>i DEF OwnBlock
<1> QED
  BY <1>1, <1>2, <1>3, <1>4, <1>5, <1>6 DEF BInv, OwnBlock

\* The block is swept; its free objects wait to be counted.
LEMMA KeepSweepBlock ==
  ASSUME BInv, NEW t \in Builder, SweepBlock(t)
  PROVE  BInv'
<1>i. BuildersTypeOK /\ OneSweeper /\ BytesCounted /\ LocksHeld /\ CountExact
      /\ CollectorsAlone /\ OwnBlock
  BY DEF BInv
<1>g. bpc[t] = "sweep" /\ GoOn(t, "tally")
  BY DEF SweepBlock
<1>l. "tally" \in BPcs
  BY DEF BPcs, SweepSteps
<1>f. UNCHANGED <<allocLock, markLock, builderCount, onCv, launched, reclaimable, fresh,
                   building, bytesAllocd, allocdTmp, stopped, gcs>>
  BY DEF SweepBlock, locks, heapOf, counts
<1>n. NotReady = {} /\ bpc[Starter] \notin {"start", "join"}
  BY <1>g, Started
<1>b. /\ bpc' \in [Builder \cup Marker -> BPcs] /\ bpc'[t] = "tally"
      /\ \A u \in Builder \cup Marker : u # t => bpc'[u] = bpc[u]
  BY <1>i, <1>g, <1>l, Moved
<1>z. my[t] = 0 /\ my \in [Builder -> Nat] /\ building[t] \in Page \cup {NoBuilder}
      /\ unmarked \in [Page -> 0..1] /\ handedOut \in Nat
  BY <1>g, <1>i DEF OwnBlock, BuildersTypeOK
<1>p. PICK d \in 0..1 : my' = [my EXCEPT ![t] = d] /\ handedOut' = handedOut + d
                       /\ unmarked' \in [Page -> 0..1]
  <2>1. CASE building[t] = NoBuilder
    <3>1. UNCHANGED <<my, handedOut, unmarked>>
      BY <2>1 DEF SweepBlock
    <3>2. my' = [my EXCEPT ![t] = 0] /\ handedOut' = handedOut + 0
      BY <3>1, <1>z
    <3> QED
      BY <3>1, <3>2, <1>z
  <2>2. CASE building[t] # NoBuilder
    <3>1. /\ my' = [my EXCEPT ![t] = unmarked[building[t]]]
          /\ handedOut' = handedOut + unmarked[building[t]]
          /\ unmarked' = [unmarked EXCEPT ![building[t]] = 0]
      BY <2>2 DEF SweepBlock
    <3>2. unmarked[building[t]] \in 0..1 /\ unmarked' \in [Page -> 0..1]
      BY <2>2, <3>1, <1>z
    <3> QED
      BY <3>1, <3>2
  <2> QED
    BY <2>1, <2>2
<1>x. /\ my' \in [Builder -> Nat] /\ handedOut' \in Nat
      /\ my'[t] = d /\ \A u \in Builder : u # t => my'[u] = my[u]
  BY <1>p, <1>z
<1>1. BuildersTypeOK'
  BY <1>i, <1>b, <1>f, <1>g, <1>x, <1>p DEF BuildersTypeOK
<1>2. LocksHeld'
  BY <1>i, <1>g, <1>l, <1>f, LocksStay DEF WithAllocLock, WithMarkLock
<1>3. CountExact'
  BY <1>i, <1>g, <1>l, <1>f, <1>n, CountStays DEF Counting
<1>4. CollectorsAlone'
  BY <1>i, <1>g, <1>l, <1>f, AloneStays DEF Counting, WithAllocLock
<1>5. OneSweeper' /\ \A u \in Builder : building'[u] # NoBuilder => bpc'[u] \in SweepSteps
  BY <1>i, <1>g, <1>l, <1>f, BlocksStay DEF SweepSteps
<1>6. BytesCounted' /\ \A u \in Builder : my'[u] # 0 =>
                            \/ bpc'[u] = "merge" /\ my'[u] <= allocdTmp'
                            \/ bpc'[u] = "tally" /\ my'[u] = 1
  <2>n. /\ bytesAllocd \in Nat /\ allocdTmp \in Nat /\ handedOut \in Nat
        /\ Cardinality(Untallied) \in Nat /\ IsFiniteSet(Untallied)
        /\ my \in [Builder -> Nat]
    BY <1>i, FiniteParts DEF BuildersTypeOK
  <2>k. handedOut = bytesAllocd + allocdTmp + Cardinality(Untallied)
    BY <1>i DEF BytesCounted
  <2>1. CASE d = 0
    <3>1. Untallied' = Untallied
      BY <2>1, <1>b, <1>x, <1>g DEF Untallied
    <3>2. handedOut' = handedOut
      BY <2>1, <1>p, <1>z
    <3>3. BytesCounted'
      BY <3>1, <3>2, <2>k, <1>f DEF BytesCounted
    <3> QED
      BY <3>3, <2>1, <1>b, <1>x, <1>f, <1>i DEF OwnBlock
  <2>2. CASE d = 1
    <3>1. Untallied' = Untallied \cup {t} /\ t \notin Untallied
      BY <2>2, <1>b, <1>x, <1>g DEF Untallied
    <3>2. Cardinality(Untallied') = Cardinality(Untallied) + 1
      BY <3>1, <2>n, FS_AddElement
    <3>3. handedOut' = bytesAllocd + allocdTmp + (Cardinality(Untallied) + 1)
      BY <2>2, <2>k, <2>n, <1>p
    <3>4. BytesCounted'
      BY <3>2, <3>3, <1>f DEF BytesCounted
    <3> QED
      BY <3>4, <2>2, <1>b, <1>x, <1>f, <1>i DEF OwnBlock
  <2> QED
    BY <2>1, <2>2, <1>p
<1> QED
  BY <1>1, <1>2, <1>3, <1>4, <1>5, <1>6 DEF BInv, OwnBlock

\* They are counted.
LEMMA KeepTallyBytes ==
  ASSUME BInv, NEW t \in Builder, TallyBytes(t)
  PROVE  BInv'
<1>i. BuildersTypeOK /\ OneSweeper /\ BytesCounted /\ LocksHeld /\ CountExact
      /\ CollectorsAlone /\ OwnBlock
  BY DEF BInv
<1>g. bpc[t] = "tally" /\ GoOn(t, "uncount")
  BY DEF TallyBytes
<1>l. "uncount" \in BPcs
  BY DEF BPcs, SweepSteps
<1>h. allocdTmp' = allocdTmp + my[t] /\ my' = [my EXCEPT ![t] = 0]
      /\ building' = IF my[t] = 0 THEN building ELSE [building EXCEPT ![t] = NoBuilder]
  BY DEF TallyBytes
<1>f. UNCHANGED <<allocLock, markLock, builderCount, onCv, launched, reclaimable, fresh,
                   unmarked, bytesAllocd, stopped, gcs, handedOut>>
  BY DEF TallyBytes, locks, heapOf, counts
<1>n. NotReady = {} /\ bpc[Starter] \notin {"start", "join"}
  BY <1>g, Started
<1>b. /\ bpc' \in [Builder \cup Marker -> BPcs] /\ bpc'[t] = "uncount"
      /\ \A u \in Builder \cup Marker : u # t => bpc'[u] = bpc[u]
  BY <1>i, <1>g, <1>l, Moved
<1>z. my[t] \in 0..1 /\ my \in [Builder -> Nat] /\ building \in [Builder -> Page \cup {NoBuilder}]
      /\ allocdTmp \in Nat
  BY <1>g, <1>i DEF OwnBlock, BuildersTypeOK
<1>x. /\ my' \in [Builder -> Nat] /\ allocdTmp' \in Nat /\ building' \in [Builder -> Page \cup {NoBuilder}]
      /\ my'[t] = 0 /\ \A u \in Builder : u # t => my'[u] = my[u]
      /\ \A u \in Builder : building'[u] = building[u] \/ building'[u] = NoBuilder
  BY <1>h, <1>z
<1>1. BuildersTypeOK'
  BY <1>i, <1>b, <1>f, <1>h, <1>g, <1>x DEF BuildersTypeOK
<1>2. LocksHeld'
  BY <1>i, <1>g, <1>l, <1>f, <1>h, LocksStay DEF WithAllocLock, WithMarkLock
<1>3. CountExact'
  BY <1>i, <1>g, <1>l, <1>f, <1>n, <1>h, CountStays DEF Counting
<1>4. CollectorsAlone'
  BY <1>i, <1>g, <1>l, <1>f, <1>h, AloneStays DEF Counting, WithAllocLock
<1>5. OneSweeper' /\ \A u \in Builder : building'[u] # NoBuilder => bpc'[u] \in SweepSteps
  <2>1. \A u \in Builder : bpc'[u] \in SweepSteps <=> bpc[u] \in SweepSteps
    BY <1>b, <1>g DEF SweepSteps
  <2>2. OneSweeper'
    BY <2>1, <1>x, <1>f, <1>i DEF OneSweeper
  <2> QED
    BY <2>1, <2>2, <1>x, <1>i DEF OwnBlock
<1>6. BytesCounted' /\ \A u \in Builder : my'[u] # 0 =>
                            \/ bpc'[u] = "merge" /\ my'[u] <= allocdTmp'
                            \/ bpc'[u] = "tally" /\ my'[u] = 1
  <2>n. /\ bytesAllocd \in Nat /\ allocdTmp \in Nat /\ handedOut \in Nat
        /\ Cardinality(Untallied) \in Nat /\ IsFiniteSet(Untallied)
        /\ my \in [Builder -> Nat]
    BY <1>i, FiniteParts DEF BuildersTypeOK
  <2>k. handedOut = bytesAllocd + allocdTmp + Cardinality(Untallied)
    BY <1>i DEF BytesCounted
  <2>1. CASE my[t] = 0
    <3>1. Untallied' = Untallied
      BY <2>1, <1>b, <1>x, <1>g DEF Untallied
    <3>2. allocdTmp' = allocdTmp
      BY <2>1, <1>h, <1>z
    <3>3. BytesCounted'
      BY <3>1, <3>2, <2>k, <1>f DEF BytesCounted
    <3> QED
      BY <3>3, <3>2, <1>b, <1>x, <1>i DEF OwnBlock
  <2>2. CASE my[t] = 1
    <3>1. Untallied' = Untallied \ {t} /\ t \in Untallied
      BY <2>2, <1>b, <1>x, <1>g DEF Untallied
    <3>2. Cardinality(Untallied') = Cardinality(Untallied) - 1
      BY <3>1, <2>n, FS_RemoveElement
    <3>3. handedOut = bytesAllocd + (allocdTmp + 1) + (Cardinality(Untallied) - 1)
      BY <2>k, <2>n
    <3>4. BytesCounted'
      BY <3>2, <3>3, <2>2, <1>f, <1>h DEF BytesCounted
    <3>5. \A u \in Builder : my[u] <= allocdTmp => my[u] <= allocdTmp'
      BY <2>2, <2>n, <1>h
    <3> QED
      BY <3>4, <3>5, <1>b, <1>x, <1>i DEF OwnBlock
  <2> QED
    BY <2>1, <2>2, <1>z
<1> QED
  BY <1>1, <1>2, <1>3, <1>4, <1>5, <1>6 DEF BInv, OwnBlock

\* Counted, a builder begins to sweep.
LEMMA KeepReleaseCounted ==
  ASSUME BInv, NEW t \in Builder, ReleaseMarkLock(t), bpc[t] = "counted"
  PROVE  BInv'
<1>i. BuildersTypeOK /\ OneSweeper /\ BytesCounted /\ LocksHeld /\ CountExact
      /\ CollectorsAlone /\ OwnBlock
  BY DEF BInv
<1>g. bpc[t] = "counted" /\ GoOn(t, "sweep")
  BY DEF ReleaseMarkLock
<1>l. "sweep" \in BPcs
  BY DEF BPcs, SweepSteps
<1>h. markLock' = NoBuilder
  BY DEF ReleaseMarkLock
<1>f. UNCHANGED <<allocLock, builderCount, onCv, launched, reclaimable, fresh, unmarked, building,
                   bytesAllocd, allocdTmp, my, stopped, gcs, handedOut>>
  BY DEF ReleaseMarkLock, locks, heapOf, counts
<1>n. NotReady = {} /\ bpc[Starter] \notin {"start", "join"}
  BY <1>g, Started
<1>b. /\ bpc' \in [Builder \cup Marker -> BPcs] /\ bpc'[t] = "sweep"
      /\ \A u \in Builder \cup Marker : u # t => bpc'[u] = bpc[u]
  BY <1>i, <1>g, <1>l, Moved
<1>1. BuildersTypeOK'
  BY <1>i, <1>b, <1>f, <1>h, <1>g DEF BuildersTypeOK
<1>2. LocksHeld'
  BY <1>i, <1>g, <1>l, <1>f, <1>h, LocksStay DEF WithAllocLock, WithMarkLock
<1>3. CountExact'
  BY <1>i, <1>g, <1>l, <1>f, <1>n, <1>h, CountStays DEF Counting
<1>4. CollectorsAlone'
  BY <1>i, <1>g, <1>l, <1>f, <1>h, AloneStays DEF Counting, WithAllocLock
<1>5. OneSweeper' /\ \A u \in Builder : building'[u] # NoBuilder => bpc'[u] \in SweepSteps
  BY <1>i, <1>g, <1>l, <1>f, BlocksStay DEF SweepSteps
<1>6. BytesCounted' /\ \A u \in Builder : my'[u] # 0 =>
                            \/ bpc'[u] = "merge" /\ my'[u] <= allocdTmp'
                            \/ bpc'[u] = "tally" /\ my'[u] = 1
  <2>1. bytesAllocd' \in Nat /\ handedOut' \in Nat
    BY <1>1 DEF BuildersTypeOK
  <2>2. \E d \in Nat : handedOut' = handedOut + d /\ bytesAllocd' = bytesAllocd + d
    <3>1. handedOut' = handedOut + 0 /\ bytesAllocd' = bytesAllocd + 0
      BY <2>1, <1>f
    <3> QED
      BY <3>1
  <2> QED
    BY <1>i, <1>g, <1>l, <1>f, <2>1, <2>2, BytesStay
<1> QED
  BY <1>1, <1>2, <1>3, <1>4, <1>5, <1>6 DEF BInv, OwnBlock

\* No longer counted, a builder has its objects.
LEMMA KeepReleaseDone ==
  ASSUME BInv, NEW t \in Builder, ReleaseMarkLock(t), bpc[t] = "uncounted", building[t] = NoBuilder
  PROVE  BInv'
<1>i. BuildersTypeOK /\ OneSweeper /\ BytesCounted /\ LocksHeld /\ CountExact
      /\ CollectorsAlone /\ OwnBlock
  BY DEF BInv
<1>g. bpc[t] = "uncounted" /\ GoOn(t, "idle")
  BY DEF ReleaseMarkLock
<1>l. "idle" \in BPcs
  BY DEF BPcs, SweepSteps
<1>h. markLock' = NoBuilder /\ building' = [building EXCEPT ![t] = NoBuilder]
  BY DEF ReleaseMarkLock
<1>f. UNCHANGED <<allocLock, builderCount, onCv, launched, reclaimable, fresh, unmarked,
                   bytesAllocd, allocdTmp, my, stopped, gcs, handedOut>>
  BY DEF ReleaseMarkLock, locks, heapOf, counts
<1>n. NotReady = {} /\ bpc[Starter] \notin {"start", "join"}
  BY <1>g, Started
<1>b. /\ bpc' \in [Builder \cup Marker -> BPcs] /\ bpc'[t] = "idle"
      /\ \A u \in Builder \cup Marker : u # t => bpc'[u] = bpc[u]
  BY <1>i, <1>g, <1>l, Moved
<1>x. /\ building' \in [Builder -> Page \cup {NoBuilder}] /\ building'[t] = NoBuilder
      /\ \A u \in Builder : u # t => building'[u] = building[u]
  BY <1>h, <1>i DEF BuildersTypeOK
<1>1. BuildersTypeOK'
  BY <1>i, <1>b, <1>f, <1>h, <1>g, <1>x DEF BuildersTypeOK
<1>2. LocksHeld'
  BY <1>i, <1>g, <1>l, <1>f, <1>h, LocksStay DEF WithAllocLock, WithMarkLock
<1>3. CountExact'
  BY <1>i, <1>g, <1>l, <1>f, <1>n, <1>h, CountStays DEF Counting
<1>4. CollectorsAlone'
  BY <1>i, <1>g, <1>l, <1>f, <1>h, AloneStays DEF Counting, WithAllocLock
<1>5. OneSweeper' /\ \A u \in Builder : building'[u] # NoBuilder => bpc'[u] \in SweepSteps
  <2>1. \A u \in Builder : u # t => bpc'[u] = bpc[u] /\ building'[u] = building[u]
    BY <1>b, <1>x
  <2>2. OneSweeper'
    BY <2>1, <1>x, <1>f, <1>i DEF OneSweeper
  <2> QED
    BY <2>1, <2>2, <1>x, <1>i DEF OwnBlock
<1>6. BytesCounted' /\ \A u \in Builder : my'[u] # 0 =>
                            \/ bpc'[u] = "merge" /\ my'[u] <= allocdTmp'
                            \/ bpc'[u] = "tally" /\ my'[u] = 1
  <2>1. bytesAllocd' \in Nat /\ handedOut' \in Nat
    BY <1>1 DEF BuildersTypeOK
  <2>2. \E d \in Nat : handedOut' = handedOut + d /\ bytesAllocd' = bytesAllocd + d
    <3>1. handedOut' = handedOut + 0 /\ bytesAllocd' = bytesAllocd + 0
      BY <2>1, <1>f
    <3> QED
      BY <3>1
  <2> QED
    BY <1>i, <1>g, <1>l, <1>f, <2>1, <2>2, BytesStay
<1> QED
  BY <1>1, <1>2, <1>3, <1>4, <1>5, <1>6 DEF BInv, OwnBlock

\* No longer counted, a builder that found nothing tries the next block.
LEMMA KeepReleaseAgain ==
  ASSUME BInv, NEW t \in Builder, ReleaseMarkLock(t), bpc[t] = "uncounted", building[t] # NoBuilder
  PROVE  BInv'
<1>i. BuildersTypeOK /\ OneSweeper /\ BytesCounted /\ LocksHeld /\ CountExact
      /\ CollectorsAlone /\ OwnBlock
  BY DEF BInv
<1>g. bpc[t] = "uncounted" /\ GoOn(t, "again")
  BY DEF ReleaseMarkLock
<1>l. "again" \in BPcs
  BY DEF BPcs, SweepSteps
<1>h. markLock' = NoBuilder /\ building' = [building EXCEPT ![t] = NoBuilder]
  BY DEF ReleaseMarkLock
<1>f. UNCHANGED <<allocLock, builderCount, onCv, launched, reclaimable, fresh, unmarked,
                   bytesAllocd, allocdTmp, my, stopped, gcs, handedOut>>
  BY DEF ReleaseMarkLock, locks, heapOf, counts
<1>n. NotReady = {} /\ bpc[Starter] \notin {"start", "join"}
  BY <1>g, Started
<1>b. /\ bpc' \in [Builder \cup Marker -> BPcs] /\ bpc'[t] = "again"
      /\ \A u \in Builder \cup Marker : u # t => bpc'[u] = bpc[u]
  BY <1>i, <1>g, <1>l, Moved
<1>x. /\ building' \in [Builder -> Page \cup {NoBuilder}] /\ building'[t] = NoBuilder
      /\ \A u \in Builder : u # t => building'[u] = building[u]
  BY <1>h, <1>i DEF BuildersTypeOK
<1>1. BuildersTypeOK'
  BY <1>i, <1>b, <1>f, <1>h, <1>g, <1>x DEF BuildersTypeOK
<1>2. LocksHeld'
  BY <1>i, <1>g, <1>l, <1>f, <1>h, LocksStay DEF WithAllocLock, WithMarkLock
<1>3. CountExact'
  BY <1>i, <1>g, <1>l, <1>f, <1>n, <1>h, CountStays DEF Counting
<1>4. CollectorsAlone'
  BY <1>i, <1>g, <1>l, <1>f, <1>h, AloneStays DEF Counting, WithAllocLock
<1>5. OneSweeper' /\ \A u \in Builder : building'[u] # NoBuilder => bpc'[u] \in SweepSteps
  <2>1. \A u \in Builder : u # t => bpc'[u] = bpc[u] /\ building'[u] = building[u]
    BY <1>b, <1>x
  <2>2. OneSweeper'
    BY <2>1, <1>x, <1>f, <1>i DEF OneSweeper
  <2> QED
    BY <2>1, <2>2, <1>x, <1>i DEF OwnBlock
<1>6. BytesCounted' /\ \A u \in Builder : my'[u] # 0 =>
                            \/ bpc'[u] = "merge" /\ my'[u] <= allocdTmp'
                            \/ bpc'[u] = "tally" /\ my'[u] = 1
  <2>1. bytesAllocd' \in Nat /\ handedOut' \in Nat
    BY <1>1 DEF BuildersTypeOK
  <2>2. \E d \in Nat : handedOut' = handedOut + d /\ bytesAllocd' = bytesAllocd + d
    <3>1. handedOut' = handedOut + 0 /\ bytesAllocd' = bytesAllocd + 0
      BY <2>1, <1>f
    <3> QED
      BY <3>1
  <2> QED
    BY <1>i, <1>g, <1>l, <1>f, <2>1, <2>2, BytesStay
<1> QED
  BY <1>1, <1>2, <1>3, <1>4, <1>5, <1>6 DEF BInv, OwnBlock

\* Only who waits for builder_cv changes.
LEMMA OnlyWaiters ==
  ASSUME BInv, onCv' \subseteq Builder,
         UNCHANGED <<bpc, allocLock, markLock, builderCount, launched, reclaimable, fresh,
                     unmarked, building, bytesAllocd, allocdTmp, my, stopped, gcs, handedOut>>
  PROVE  BInv'
BY DEF BInv, BuildersTypeOK, OneSweeper, BytesCounted, LocksHeld, CountExact, CollectorsAlone,
       OwnBlock, Untallied, CountedIn, NotReady, Ready

\* If the counter says that there are no builders, there are none and all
\* markers are ready.
LEMMA NoneCounted ==
  ASSUME BInv, NEW t \in Builder, bpc[t] = "wait", builderCount <= 0
  PROVE  NotReady = {} /\ CountedIn = {} /\ bpc[Starter] \notin {"start", "join"}
<1>i. BuildersTypeOK /\ CountExact
  BY DEF BInv
<1>1. bpc[Starter] \notin {"start", "join"}
  BY <1>i DEF CountExact
<1>2. builderCount = Cardinality(CountedIn) + Cardinality(NotReady)
  BY <1>1, <1>i DEF CountExact
<1>3. /\ IsFiniteSet(CountedIn) /\ IsFiniteSet(NotReady)
      /\ Cardinality(CountedIn) \in Nat /\ Cardinality(NotReady) \in Nat
  BY <1>i, FiniteParts
<1>4. Cardinality(CountedIn) = 0 /\ Cardinality(NotReady) = 0
  BY <1>2, <1>3
<1> QED
  BY <1>1, <1>3, <1>4, FS_EmptySet

\* The wait for the markers is over.
LEMMA KeepWaitStarted ==
  ASSUME BInv, NEW t \in Builder, GC_wait_for_reclaim(t), builderCount <= 0, gcs = 0
  PROVE  BInv'
<1>i. BuildersTypeOK /\ OneSweeper /\ BytesCounted /\ LocksHeld /\ CountExact
      /\ CollectorsAlone /\ OwnBlock
  BY DEF BInv
<1>g. bpc[t] = "wait" /\ GoOn(t, "locked")
  BY DEF GC_wait_for_reclaim, BuildersDone
<1>l. "locked" \in BPcs
  BY DEF BPcs, SweepSteps
<1>f. UNCHANGED <<allocLock, markLock, builderCount, launched, reclaimable, fresh, unmarked, building,
                   bytesAllocd, allocdTmp, my, stopped, gcs, handedOut>> /\ onCv' \subseteq Builder
  BY <1>i DEF GC_wait_for_reclaim, BuildersDone, heapOf, counts, BuildersTypeOK
<1>n. NotReady = {} /\ bpc[Starter] \notin {"start", "join"}
  BY <1>g, NoneCounted
<1>b. /\ bpc' \in [Builder \cup Marker -> BPcs] /\ bpc'[t] = "locked"
      /\ \A u \in Builder \cup Marker : u # t => bpc'[u] = bpc[u]
  BY <1>i, <1>g, <1>l, Moved
<1>1. BuildersTypeOK'
  BY <1>i, <1>b, <1>f, <1>g DEF BuildersTypeOK
<1>2. LocksHeld'
  BY <1>i, <1>g, <1>l, <1>f, LocksStay DEF WithAllocLock, WithMarkLock
<1>3. CountExact'
  BY <1>i, <1>g, <1>l, <1>f, <1>n, CountStays DEF Counting
<1>4. CollectorsAlone'
  BY <1>i, <1>g, <1>l, <1>f, AloneStays DEF Counting, WithAllocLock
<1>5. OneSweeper' /\ \A u \in Builder : building'[u] # NoBuilder => bpc'[u] \in SweepSteps
  BY <1>i, <1>g, <1>l, <1>f, BlocksStay DEF SweepSteps
<1>6. BytesCounted' /\ \A u \in Builder : my'[u] # 0 =>
                            \/ bpc'[u] = "merge" /\ my'[u] <= allocdTmp'
                            \/ bpc'[u] = "tally" /\ my'[u] = 1
  <2>1. bytesAllocd' \in Nat /\ handedOut' \in Nat
    BY <1>1 DEF BuildersTypeOK
  <2>2. \E d \in Nat : handedOut' = handedOut + d /\ bytesAllocd' = bytesAllocd + d
    <3>1. handedOut' = handedOut + 0 /\ bytesAllocd' = bytesAllocd + 0
      BY <2>1, <1>f
    <3> QED
      BY <3>1
  <2> QED
    BY <1>i, <1>g, <1>l, <1>f, <2>1, <2>2, BytesStay
<1> QED
  BY <1>1, <1>2, <1>3, <1>4, <1>5, <1>6 DEF BInv, OwnBlock

\* The wait for the builders is over: none is left.
LEMMA KeepWaitOver ==
  ASSUME BInv, NEW t \in Builder, GC_wait_for_reclaim(t), builderCount <= 0, gcs # 0
  PROVE  BInv'
<1>i. BuildersTypeOK /\ OneSweeper /\ BytesCounted /\ LocksHeld /\ CountExact
      /\ CollectorsAlone /\ OwnBlock
  BY DEF BInv
<1>g. bpc[t] = "wait" /\ GoOn(t, "stop")
  BY DEF GC_wait_for_reclaim, BuildersDone
<1>l. "stop" \in BPcs
  BY DEF BPcs, SweepSteps
<1>f. UNCHANGED <<allocLock, markLock, builderCount, launched, reclaimable, fresh, unmarked, building,
                   bytesAllocd, allocdTmp, my, stopped, gcs, handedOut>> /\ onCv' \subseteq Builder
  BY <1>i DEF GC_wait_for_reclaim, BuildersDone, heapOf, counts, BuildersTypeOK
<1>n. NotReady = {} /\ bpc[Starter] \notin {"start", "join"}
  BY <1>g, NoneCounted
<1>b. /\ bpc' \in [Builder \cup Marker -> BPcs] /\ bpc'[t] = "stop"
      /\ \A u \in Builder \cup Marker : u # t => bpc'[u] = bpc[u]
  BY <1>i, <1>g, <1>l, Moved
<1>1. BuildersTypeOK'
  BY <1>i, <1>b, <1>f, <1>g DEF BuildersTypeOK
<1>2. LocksHeld'
  BY <1>i, <1>g, <1>l, <1>f, LocksStay DEF WithAllocLock, WithMarkLock
<1>3. CountExact'
  BY <1>i, <1>g, <1>l, <1>f, <1>n, CountStays DEF Counting
<1>4. CollectorsAlone'
  <2>1. CountedIn = {}
    BY <1>g, NoneCounted
  <2>2. CountedIn' = {}
    BY <2>1, <1>i, <1>g, <1>l, CountedStay DEF Counting
  <2> QED
    BY <2>2, <1>b, <1>f, <1>g, <1>i DEF CollectorsAlone
<1>5. OneSweeper' /\ \A u \in Builder : building'[u] # NoBuilder => bpc'[u] \in SweepSteps
  BY <1>i, <1>g, <1>l, <1>f, BlocksStay DEF SweepSteps
<1>6. BytesCounted' /\ \A u \in Builder : my'[u] # 0 =>
                            \/ bpc'[u] = "merge" /\ my'[u] <= allocdTmp'
                            \/ bpc'[u] = "tally" /\ my'[u] = 1
  <2>1. bytesAllocd' \in Nat /\ handedOut' \in Nat
    BY <1>1 DEF BuildersTypeOK
  <2>2. \E d \in Nat : handedOut' = handedOut + d /\ bytesAllocd' = bytesAllocd + d
    <3>1. handedOut' = handedOut + 0 /\ bytesAllocd' = bytesAllocd + 0
      BY <2>1, <1>f
    <3> QED
      BY <3>1
  <2> QED
    BY <1>i, <1>g, <1>l, <1>f, <2>1, <2>2, BytesStay
<1> QED
  BY <1>1, <1>2, <1>3, <1>4, <1>5, <1>6 DEF BInv, OwnBlock

\* The world is stopped, with the mark lock free.
LEMMA KeepStopWorldForGc ==
  ASSUME BInv, NEW t \in Builder, StopWorldForGc(t)
  PROVE  BInv'
<1>i. BuildersTypeOK /\ OneSweeper /\ BytesCounted /\ LocksHeld /\ CountExact
      /\ CollectorsAlone /\ OwnBlock
  BY DEF BInv
<1>g. bpc[t] = "stop" /\ GoOn(t, "resume")
  BY DEF StopWorldForGc
<1>l. "resume" \in BPcs
  BY DEF BPcs, SweepSteps
<1>h. stopped' = t /\ markLock = NoBuilder
  BY DEF StopWorldForGc
<1>f. UNCHANGED <<allocLock, markLock, builderCount, onCv, launched, reclaimable, fresh, unmarked,
                   building, bytesAllocd, allocdTmp, my, gcs, handedOut>>
  BY DEF StopWorldForGc, locks, heapOf, counts
<1>n. NotReady = {} /\ bpc[Starter] \notin {"start", "join"}
  BY <1>g, Started
<1>b. /\ bpc' \in [Builder \cup Marker -> BPcs] /\ bpc'[t] = "resume"
      /\ \A u \in Builder \cup Marker : u # t => bpc'[u] = bpc[u]
  BY <1>i, <1>g, <1>l, Moved
<1>1. BuildersTypeOK'
  BY <1>i, <1>b, <1>f, <1>h, <1>g DEF BuildersTypeOK
<1>2. LocksHeld'
  BY <1>i, <1>g, <1>l, <1>f, <1>h, LocksStay DEF WithAllocLock, WithMarkLock
<1>3. CountExact'
  BY <1>i, <1>g, <1>l, <1>f, <1>n, <1>h, CountStays DEF Counting
<1>4. CollectorsAlone'
  <2>1. CountedIn' = {}
    <3>1. CountedIn = {}
      BY <1>g, <1>i DEF CollectorsAlone
    <3> QED
      BY <3>1, <1>i, <1>g, <1>l, CountedStay DEF Counting
  <2>2. \A u \in Builder : u # t => bpc[u] # "resume"
    BY <1>g, <1>i DEF LocksHeld, WithAllocLock
  <2> QED
    BY <2>1, <2>2, <1>b, <1>f, <1>h, <1>g DEF CollectorsAlone
<1>5. OneSweeper' /\ \A u \in Builder : building'[u] # NoBuilder => bpc'[u] \in SweepSteps
  BY <1>i, <1>g, <1>l, <1>f, BlocksStay DEF SweepSteps
<1>6. BytesCounted' /\ \A u \in Builder : my'[u] # 0 =>
                            \/ bpc'[u] = "merge" /\ my'[u] <= allocdTmp'
                            \/ bpc'[u] = "tally" /\ my'[u] = 1
  <2>1. bytesAllocd' \in Nat /\ handedOut' \in Nat
    BY <1>1 DEF BuildersTypeOK
  <2>2. \E d \in Nat : handedOut' = handedOut + d /\ bytesAllocd' = bytesAllocd + d
    <3>1. handedOut' = handedOut + 0 /\ bytesAllocd' = bytesAllocd + 0
      BY <2>1, <1>f
    <3> QED
      BY <3>1
  <2> QED
    BY <1>i, <1>g, <1>l, <1>f, <2>1, <2>2, BytesStay
<1> QED
  BY <1>1, <1>2, <1>3, <1>4, <1>5, <1>6 DEF BInv, OwnBlock

\* The collection and the restart of the world.
LEMMA KeepMarkAndStartWorld ==
  ASSUME BInv, NEW t \in Builder, MarkAndStartWorld(t)
  PROVE  BInv'
<1>i. BuildersTypeOK /\ OneSweeper /\ BytesCounted /\ LocksHeld /\ CountExact
      /\ CollectorsAlone /\ OwnBlock
  BY DEF BInv
<1>g. bpc[t] = "resume" /\ GoOn(t, "locked")
  BY DEF MarkAndStartWorld
<1>l. "locked" \in BPcs
  BY DEF BPcs, SweepSteps
<1>h. markLock = NoBuilder /\ reclaimable' = Page \ fresh /\ stopped' = NoBuilder
      /\ handedOut' = handedOut - bytesAllocd /\ bytesAllocd' = 0
  BY DEF MarkAndStartWorld
<1>f. UNCHANGED <<allocLock, markLock, builderCount, onCv, launched, fresh,
                   building, allocdTmp, my, gcs>>
  BY DEF MarkAndStartWorld, locks, heapOf, counts
<1>n. NotReady = {} /\ bpc[Starter] \notin {"start", "join"}
  BY <1>g, Started
<1>b. /\ bpc' \in [Builder \cup Marker -> BPcs] /\ bpc'[t] = "locked"
      /\ \A u \in Builder \cup Marker : u # t => bpc'[u] = bpc[u]
  BY <1>i, <1>g, <1>l, Moved
<1>v. unmarked' \in [Page -> 0..1]
  BY DEF MarkAndStartWorld
<1>c. CountedIn = {}
  BY <1>g, <1>i DEF CollectorsAlone
<1>o. \A u \in Builder : building[u] = NoBuilder /\ my[u] = 0
  <2> SUFFICES ASSUME NEW u \in Builder PROVE bpc[u] \notin SweepSteps
    BY <1>i DEF OwnBlock, SweepSteps
  <2>1. bpc[u] \notin {"counted", "sweep", "tally", "uncount"}
    BY <1>c DEF CountedIn
  <2>2. bpc[u] # "uncounted"
    BY <1>h, <1>i, BuildersAssumption DEF LocksHeld, WithMarkLock
  <2>3. bpc[u] \notin {"merge", "count"}
    BY <1>g, <1>i DEF LocksHeld, WithAllocLock
  <2> QED
    BY <2>1, <2>2, <2>3 DEF SweepSteps
<1>w. Untallied = {} /\ Untallied' = {}
  BY <1>o, <1>f DEF Untallied
<1>k. handedOut - bytesAllocd \in Nat /\ handedOut - bytesAllocd = allocdTmp
  <2>1. Cardinality(Untallied) = 0
    BY <1>w, FS_EmptySet
  <2>2. handedOut = bytesAllocd + allocdTmp + 0
    BY <2>1, <1>i DEF BytesCounted
  <2>3. bytesAllocd \in Nat /\ allocdTmp \in Nat /\ handedOut \in Nat
    BY <1>i DEF BuildersTypeOK
  <2> QED
    BY <2>2, <2>3
<1>1. BuildersTypeOK'
  BY <1>i, <1>b, <1>f, <1>h, <1>g, <1>v, <1>k DEF BuildersTypeOK
<1>2. LocksHeld'
  BY <1>i, <1>g, <1>l, <1>f, <1>h, LocksStay DEF WithAllocLock, WithMarkLock
<1>3. CountExact'
  BY <1>i, <1>g, <1>l, <1>f, <1>n, <1>h, CountStays DEF Counting
<1>4. CollectorsAlone'
  <2>1. \A u \in Builder : u # t => bpc[u] \notin {"stop", "resume"}
    BY <1>g, <1>i DEF LocksHeld, WithAllocLock
  <2> QED
    BY <2>1, <1>b, <1>f, <1>h, BuildersAssumption DEF CollectorsAlone
<1>5. OneSweeper' /\ \A u \in Builder : building'[u] # NoBuilder => bpc'[u] \in SweepSteps
  BY <1>o, <1>f DEF OneSweeper
<1>6. BytesCounted' /\ \A u \in Builder : my'[u] # 0 =>
                            \/ bpc'[u] = "merge" /\ my'[u] <= allocdTmp'
                            \/ bpc'[u] = "tally" /\ my'[u] = 1
  <2>1. Cardinality(Untallied') = 0
    BY <1>w, FS_EmptySet
  <2>2. allocdTmp \in Nat
    BY <1>i DEF BuildersTypeOK
  <2>3. handedOut' = bytesAllocd' + allocdTmp' + 0
    BY <2>2, <1>h, <1>k, <1>f
  <2>4. BytesCounted'
    BY <2>1, <2>3 DEF BytesCounted
  <2> QED
    BY <2>4, <1>o, <1>f
<1> QED
  BY <1>1, <1>2, <1>3, <1>4, <1>5, <1>6 DEF BInv, OwnBlock

-----------------------------------------------------------------------------
\* Before the count of the markers is added nobody is counted, and those who are
\* ready are among those that were launched.
LEMMA BeforeJoin ==
  ASSUME BInv, bpc[Starter] \in {"start", "join"}
  PROVE  /\ CountedIn = {} /\ gcs = 0 /\ builderCount = -Cardinality(Ready)
         /\ \A u \in Builder \ {Starter} : bpc[u] = "idle"
         /\ Ready \subseteq launched /\ NotReady = launched \ Ready
         /\ bpc[Starter] = "start" => launched = {}
<1>i. BuildersTypeOK /\ LocksHeld /\ CountExact
  BY DEF BInv
<1>1. gcs = 0 /\ builderCount = -Cardinality(Ready)
  BY <1>i DEF CountExact
<1>2. \A u \in Builder \ {Starter} : bpc[u] = "idle"
  BY <1>i DEF CountExact
<1>3. CountedIn = {}
  BY <1>2, BuildersAssumption DEF CountedIn
<1>4. Ready \subseteq launched /\ NotReady = launched \ Ready
  BY <1>i DEF LocksHeld, Ready, NotReady, BuildersTypeOK
<1> QED
  BY <1>1, <1>2, <1>3, <1>4, <1>i DEF CountExact

\* The markers are created, or the first one could not be.
LEMMA KeepGC_start_mark_threads_inner ==
  ASSUME BInv, GC_start_mark_threads_inner
  PROVE  BInv'
<1>i. BuildersTypeOK /\ OneSweeper /\ BytesCounted /\ LocksHeld /\ CountExact
      /\ CollectorsAlone /\ OwnBlock
  BY DEF BInv
<1>s. Starter \in Builder /\ NoBuilder \notin Builder \cup Marker /\ Builder \cap Marker = {}
  BY BuildersAssumption
<1>p. PICK l \in {"locked", "join"} :
        GoOn(Starter, l) /\ (l = "locked" => launched' = {})
  BY DEF GC_start_mark_threads_inner
<1>l. l \in BPcs
  BY <1>p DEF BPcs
<1>h. /\ bpc[Starter] = "start" /\ allocLock = NoBuilder /\ allocLock' = Starter
      /\ launched' \subseteq Marker
  BY DEF GC_start_mark_threads_inner
<1>f. UNCHANGED <<markLock, builderCount, onCv, reclaimable, fresh, unmarked, building,
                  bytesAllocd, allocdTmp, my, stopped, gcs, handedOut>>
  BY DEF GC_start_mark_threads_inner, heapOf, counts
<1>b. /\ bpc' \in [Builder \cup Marker -> BPcs] /\ bpc'[Starter] = l
      /\ \A u \in Builder \cup Marker : u # Starter => bpc'[u] = bpc[u]
  BY <1>i, <1>p, <1>l, <1>s, Moved
<1>j. /\ CountedIn = {} /\ gcs = 0 /\ builderCount = -Cardinality(Ready)
      /\ \A u \in Builder \ {Starter} : bpc[u] = "idle"
      /\ Ready = {}
  BY <1>h, BeforeJoin
<1>m. \A m \in Marker : bpc'[m] = bpc[m] /\ bpc[m] = "init"
  BY <1>b, <1>s, <1>i, <1>j DEF LocksHeld, Ready
<1>1. BuildersTypeOK'
  BY <1>i, <1>b, <1>f, <1>h, <1>s DEF BuildersTypeOK
<1>2. LocksHeld'
  <2>1. ASSUME NEW u \in Builder
        PROVE  /\ bpc'[u] \in WithAllocLock <=> allocLock' = u
               /\ bpc'[u] \in WithMarkLock <=> markLock' = u
               /\ bpc'[u] \notin {"init", "ready"}
               /\ bpc'[u] \in {"start", "join"} => u = Starter
    <3>1. CASE u = Starter
      BY <3>1, <1>b, <1>p, <1>h, <1>f, <1>i DEF LocksHeld, WithAllocLock, WithMarkLock
    <3>2. CASE u # Starter
      BY <3>2, <1>b, <1>j, <1>h, <1>f, <1>i DEF LocksHeld, WithAllocLock, WithMarkLock
    <3> QED
      BY <3>1, <3>2
  <2>2. markLock' \notin Marker
    BY <1>f, <1>i DEF LocksHeld
  <2> QED
    BY <2>1, <2>2, <1>m DEF LocksHeld
<1>3. CountExact'
  <2>1. CountedIn' = {}
    BY <1>j, <1>b, <1>p DEF CountedIn
  <2>2. Ready' = {}
    BY <1>m DEF Ready
  <2>3. Cardinality({}) = 0
    BY FS_EmptySet
  <2>4. builderCount' = 0
    BY <1>j, <1>f, <2>3
  <2>5. l = "locked" => NotReady' = {}
    BY <1>p DEF NotReady
  <2>6. \A u \in Builder \ {Starter} : bpc'[u] = "idle"
    BY <1>b, <1>j
  <2>7. CASE l = "join"
    <3>1. builderCount' = -Cardinality(Ready')
      BY <2>2, <2>3, <2>4
    <3> QED
      BY <3>1, <2>6, <2>7, <1>b, <1>f, <1>j DEF CountExact
  <2>8. CASE l = "locked"
    <3>1. builderCount' = Cardinality(CountedIn') + Cardinality(NotReady')
      BY <2>1, <2>3, <2>4, <2>5, <2>8
    <3> QED
      BY <3>1, <2>5, <2>8, <1>b DEF CountExact
  <2> QED
    BY <2>7, <2>8, <1>p
<1>4. CollectorsAlone'
  <2>1. bpc[Starter] \notin {"resume", "stop"} /\ bpc'[Starter] \notin {"resume", "stop"}
    BY <1>h, <1>b, <1>p
  <2>2. \A u \in Builder : bpc'[u] \notin {"stop", "resume"}
    BY <2>1, <1>b, <1>j
  <2>3. \A u \in Builder : stopped # u
    BY <2>1, <1>j, <1>i DEF CollectorsAlone
  <2> QED
    BY <2>2, <2>3, <1>f DEF CollectorsAlone
<1>5. OneSweeper' /\ \A u \in Builder : building'[u] # NoBuilder => bpc'[u] \in SweepSteps
  BY <1>i, <1>p, <1>l, <1>f, <1>h, <1>s, BlocksStay DEF SweepSteps
<1>6. BytesCounted' /\ \A u \in Builder : my'[u] # 0 =>
                            \/ bpc'[u] = "merge" /\ my'[u] <= allocdTmp'
                            \/ bpc'[u] = "tally" /\ my'[u] = 1
  <2>1. Untallied = {} /\ Untallied' = {} /\ \A u \in Builder : my[u] = 0
    BY <1>j, <1>h, <1>b, <1>p, <1>i DEF Untallied, OwnBlock
  <2>2. BytesCounted'
    BY <2>1, <1>i, <1>f DEF BytesCounted
  <2> QED
    BY <2>1, <2>2, <1>f
<1> QED
  BY <1>1, <1>2, <1>3, <1>4, <1>5, <1>6 DEF BInv, OwnBlock

\* The thread that starts the markers adds their number to the count.
LEMMA KeepGC_wait_for_markers_init ==
  ASSUME BInv, GC_wait_for_markers_init
  PROVE  BInv'
<1>i. BuildersTypeOK /\ OneSweeper /\ BytesCounted /\ LocksHeld /\ CountExact
      /\ CollectorsAlone /\ OwnBlock
  BY DEF BInv
<1>s. Starter \in Builder /\ IsFiniteSet(Marker)
  BY BuildersAssumption
<1>p. PICK l \in {"locked", "wait"} :
        GoOn(Starter, l) /\ (l = "locked" => builderCount' = 0)
  BY DEF GC_wait_for_markers_init
<1>l. l \in BPcs
  BY <1>p DEF BPcs
<1>h. /\ bpc[Starter] = "join" /\ markLock = NoBuilder
      /\ builderCount' = builderCount + Cardinality(launched)
  BY DEF GC_wait_for_markers_init
<1>f. UNCHANGED <<allocLock, markLock, onCv, launched, reclaimable, fresh, unmarked, building,
                  bytesAllocd, allocdTmp, my, stopped, gcs, handedOut>>
  BY DEF GC_wait_for_markers_init, locks, heapOf, counts
<1>b. /\ bpc' \in [Builder \cup Marker -> BPcs] /\ bpc'[Starter] = l
      /\ \A u \in Builder \cup Marker : u # Starter => bpc'[u] = bpc[u]
  BY <1>i, <1>p, <1>l, <1>s, Moved
<1>j. /\ CountedIn = {} /\ gcs = 0 /\ builderCount = -Cardinality(Ready)
      /\ \A u \in Builder \ {Starter} : bpc[u] = "idle"
      /\ Ready \subseteq launched /\ NotReady = launched \ Ready
  BY <1>h, BeforeJoin
<1>c. /\ builderCount' = Cardinality(NotReady) /\ builderCount' \in Int
      /\ (builderCount' = 0 => NotReady = {})
  <2>1. IsFiniteSet(launched)
    BY <1>i, <1>s, FS_Subset DEF BuildersTypeOK
  <2>2. launched \cap Ready = Ready
    BY <1>j
  <2>3. Cardinality(launched \ Ready) = Cardinality(launched) - Cardinality(Ready)
    BY <2>1, <2>2, FS_Difference
  <2>4. /\ Cardinality(launched) \in Nat /\ Cardinality(Ready) \in Nat
        /\ IsFiniteSet(NotReady) /\ Cardinality(NotReady) \in Nat
    BY <2>1, <1>i, FiniteParts, FS_CardinalityType
  <2>5. builderCount' = Cardinality(NotReady)
    BY <2>3, <2>4, <1>h, <1>j
  <2> QED
    BY <2>4, <2>5, FS_EmptySet
<1>1. BuildersTypeOK'
  BY <1>i, <1>b, <1>f, <1>c DEF BuildersTypeOK
<1>2. LocksHeld'
  BY <1>i, <1>p, <1>l, <1>f, <1>h, <1>s, LocksStay DEF WithAllocLock, WithMarkLock
<1>3. CountExact'
  <2>1. CountedIn' = {}
    BY <1>j, <1>b, <1>p DEF CountedIn
  <2>2. NotReady' = NotReady
    BY <1>i, <1>p, <1>l, <1>f, <1>s, MarkersStay
  <2>3. Cardinality({}) = 0
    BY FS_EmptySet
  <2>4. Cardinality(NotReady) \in Nat
    BY <1>i, FiniteParts
  <2>5. builderCount' = Cardinality(CountedIn') + Cardinality(NotReady')
    BY <2>1, <2>2, <2>3, <2>4, <1>c
  <2>6. \A u \in Builder \ {Starter} : bpc'[u] = "idle"
    BY <1>b, <1>j
  <2>7. NotReady' # {} => l = "wait"
    BY <2>2, <1>c, <1>p
  <2>8. bpc'[Starter] \notin {"start", "join"}
    BY <1>b, <1>p
  <2> QED
    BY <2>5, <2>6, <2>7, <2>8, <1>b, <1>f, <1>j DEF CountExact
<1>4. CollectorsAlone'
  BY <1>i, <1>p, <1>l, <1>f, <1>h, <1>s, AloneStays DEF Counting, WithAllocLock
<1>5. OneSweeper' /\ \A u \in Builder : building'[u] # NoBuilder => bpc'[u] \in SweepSteps
  BY <1>i, <1>p, <1>l, <1>f, <1>h, <1>s, BlocksStay DEF SweepSteps
<1>6. BytesCounted' /\ \A u \in Builder : my'[u] # 0 =>
                            \/ bpc'[u] = "merge" /\ my'[u] <= allocdTmp'
                            \/ bpc'[u] = "tally" /\ my'[u] = 1
  <2>1. Untallied = {} /\ Untallied' = {} /\ \A u \in Builder : my[u] = 0
    BY <1>j, <1>h, <1>b, <1>p, <1>i DEF Untallied, OwnBlock
  <2>2. BytesCounted'
    BY <2>1, <1>i, <1>f DEF BytesCounted
  <2> QED
    BY <2>1, <2>2, <1>f
<1> QED
  BY <1>1, <1>2, <1>3, <1>4, <1>5, <1>6 DEF BInv, OwnBlock

\* A marker is ready.
LEMMA KeepGC_mark_thread ==
  ASSUME BInv, NEW m \in Marker, GC_mark_thread(m)
  PROVE  BInv'
<1>i. BuildersTypeOK /\ OneSweeper /\ BytesCounted /\ LocksHeld /\ CountExact
      /\ CollectorsAlone /\ OwnBlock
  BY DEF BInv
<1>s. Starter \in Builder /\ Builder \cap Marker = {}
  BY BuildersAssumption
<1>h. /\ m \in launched /\ bpc[m] = "init" /\ builderCount' = builderCount - 1
      /\ onCv' \subseteq onCv /\ GoOn(m, "ready")
  BY DEF GC_mark_thread, OneReady
<1>l. "ready" \in BPcs
  BY DEF BPcs
<1>f. UNCHANGED <<allocLock, markLock, launched, reclaimable, fresh, unmarked, building,
                  bytesAllocd, allocdTmp, my, stopped, gcs, handedOut>>
  BY DEF GC_mark_thread, heapOf, counts
<1>b. /\ bpc' \in [Builder \cup Marker -> BPcs] /\ bpc'[m] = "ready"
      /\ \A u \in Builder \cup Marker : u # m => bpc'[u] = bpc[u]
  BY <1>i, <1>h, <1>l, Moved
<1>u. \A u \in Builder : bpc'[u] = bpc[u]
  BY <1>b, <1>s
<1>1. BuildersTypeOK'
  BY <1>i, <1>b, <1>f, <1>h DEF BuildersTypeOK
<1>2. LocksHeld'
  BY <1>i, <1>b, <1>u, <1>f, <1>h DEF LocksHeld
<1>3. CountExact'
  <2>1. CountedIn' = CountedIn
    BY <1>u DEF CountedIn
  <2>2. NotReady' = NotReady \ {m} /\ m \in NotReady
    BY <1>b, <1>f, <1>h, <1>i DEF NotReady, BuildersTypeOK
  <2>3. Ready' = Ready \cup {m} /\ m \notin Ready
    BY <1>b, <1>h DEF Ready
  <2>4. /\ IsFiniteSet(NotReady) /\ IsFiniteSet(Ready)
        /\ Cardinality(CountedIn) \in Nat /\ Cardinality(NotReady) \in Nat
        /\ Cardinality(Ready) \in Nat
    BY <1>i, FiniteParts
  <2>5. Cardinality(NotReady') = Cardinality(NotReady) - 1
    BY <2>2, <2>4, FS_RemoveElement
  <2>6. Cardinality(Ready') = Cardinality(Ready) + 1
    BY <2>3, <2>4, FS_AddElement
  <2>7. bpc'[Starter] = bpc[Starter]
    BY <1>u, <1>s
  <2>8. CASE bpc[Starter] \in {"start", "join"}
    <3>1. builderCount' = -Cardinality(Ready')
      BY <2>4, <2>6, <2>8, <1>h, <1>i DEF CountExact
    <3> QED
      BY <3>1, <2>7, <2>8, <1>u, <1>f, <1>i DEF CountExact
  <2>9. CASE bpc[Starter] \notin {"start", "join"}
    <3>1. builderCount = Cardinality(CountedIn) + Cardinality(NotReady)
      BY <2>9, <1>i DEF CountExact
    <3>2. builderCount' = Cardinality(CountedIn') + Cardinality(NotReady')
      BY <3>1, <2>1, <2>4, <2>5, <1>h
    <3>3. NotReady' # {} => NotReady # {}
      BY <2>2
    <3> QED
      BY <3>2, <3>3, <2>7, <2>9, <1>u, <1>f, <1>i DEF CountExact
  <2> QED
    BY <2>8, <2>9
<1>4. CollectorsAlone'
  BY <1>i, <1>u, <1>f DEF CollectorsAlone, CountedIn
<1>5. OneSweeper'
  BY <1>i, <1>u, <1>f DEF OneSweeper
<1>6. BytesCounted'
  <2>1. Untallied' = Untallied
    BY <1>u, <1>f DEF Untallied
  <2> QED
    BY <2>1, <1>i, <1>f DEF BytesCounted
<1>7. OwnBlock'
  BY <1>i, <1>u, <1>f DEF OwnBlock
<1> QED
  BY <1>1, <1>2, <1>3, <1>4, <1>5, <1>6, <1>7 DEF BInv

-----------------------------------------------------------------------------
LEMMA InitInv ==
  BuildersInit => BInv
<1> SUFFICES ASSUME BuildersInit PROVE BInv
  OBVIOUS
<1>a. Starter \in Builder /\ Builder \cap Marker = {} /\ NoBuilder \notin Builder \cup Marker
      /\ NoBuilder \notin Page /\ MaxGcs \in Nat
  BY BuildersAssumption
<1>b. /\ bpc = [t \in Builder \cup Marker |->
                 IF t = Starter THEN "start" ELSE IF t \in Builder THEN "idle" ELSE "init"]
      /\ allocLock = NoBuilder /\ markLock = NoBuilder /\ builderCount = 0 /\ onCv = {}
      /\ launched = {} /\ reclaimable = {} /\ fresh = Page
      /\ unmarked = [b \in Page |-> 0] /\ building = [t \in Builder |-> NoBuilder]
      /\ bytesAllocd = 0 /\ allocdTmp = 0 /\ my = [t \in Builder |-> 0]
      /\ stopped = NoBuilder /\ gcs = 0 /\ handedOut = 0
  BY DEF BuildersInit
<1>c. /\ bpc[Starter] = "start" /\ \A u \in Builder \ {Starter} : bpc[u] = "idle"
      /\ \A m \in Marker : bpc[m] = "init"
  BY <1>a, <1>b
<1>1. BuildersTypeOK
  <2>1. bpc \in [Builder \cup Marker -> BPcs]
    BY <1>b DEF BPcs
  <2> QED
    BY <2>1, <1>a, <1>b DEF BuildersTypeOK
<1>2. LocksHeld
  BY <1>a, <1>b, <1>c DEF LocksHeld, WithAllocLock, WithMarkLock
<1>3. CountExact
  <2>1. Ready = {} /\ Cardinality({}) = 0
    BY <1>c, FS_EmptySet DEF Ready
  <2>2. builderCount = -Cardinality(Ready)
    BY <2>1, <1>b
  <2> QED
    BY <2>2, <1>b, <1>c DEF CountExact
<1>4. CollectorsAlone
  BY <1>a, <1>b, <1>c DEF CollectorsAlone
<1>5. OneSweeper /\ OwnBlock
  BY <1>b DEF OneSweeper, OwnBlock
<1>6. BytesCounted
  <2>1. Untallied = {} /\ Cardinality({}) = 0
    BY <1>b, FS_EmptySet DEF Untallied
  <2>2. 0 = 0 + 0 + Cardinality(Untallied)
    BY <2>1
  <2> QED
    BY <2>2, <1>b DEF BytesCounted
<1> QED
  BY <1>1, <1>2, <1>3, <1>4, <1>5, <1>6 DEF BInv

\* Waiting for builder_cv, and the end of the wait.
LEMMA KeepGC_wait_for_reclaim ==
  ASSUME BInv, NEW t \in Builder, GC_wait_for_reclaim(t)
  PROVE  BInv'
<1>1. CASE builderCount <= 0 /\ gcs = 0
  BY <1>1, KeepWaitStarted
<1>2. CASE builderCount <= 0 /\ gcs # 0
  BY <1>2, KeepWaitOver
<1>3. CASE ~(builderCount <= 0)
  <2>1. onCv' = onCv \cup {t} /\ onCv \subseteq Builder
    BY <1>3 DEF GC_wait_for_reclaim, BuildersDone, BInv, BuildersTypeOK
  <2>2. UNCHANGED <<bpc, allocLock, markLock, builderCount, launched, reclaimable, fresh,
                    unmarked, building, bytesAllocd, allocdTmp, my, stopped, gcs, handedOut>>
    BY <1>3 DEF GC_wait_for_reclaim, BuildersDone, heapOf, counts
  <2> QED
    BY <2>1, <2>2, OnlyWaiters
<1> QED
  BY <1>1, <1>2, <1>3

LEMMA KeepSpuriousWakeup ==
  ASSUME BInv, NEW t \in Builder, SpuriousWakeup(t)
  PROVE  BInv'
<1>1. onCv' \subseteq Builder
  BY DEF SpuriousWakeup, BInv, BuildersTypeOK
<1>2. UNCHANGED <<bpc, allocLock, markLock, builderCount, launched, reclaimable, fresh,
                  unmarked, building, bytesAllocd, allocdTmp, my, stopped, gcs, handedOut>>
  BY DEF SpuriousWakeup, heapOf, counts
<1> QED
  BY <1>1, <1>2, OnlyWaiters

LEMMA KeepReleaseMarkLock ==
  ASSUME BInv, NEW t \in Builder, ReleaseMarkLock(t)
  PROVE  BInv'
<1>1. bpc[t] = "counted" \/ bpc[t] = "uncounted"
  BY DEF ReleaseMarkLock
<1> QED
  BY <1>1, KeepReleaseCounted, KeepReleaseDone, KeepReleaseAgain

\* Every step keeps the invariant.
LEMMA NextInv ==
  BInv /\ [BuildersNext]_buildersVars => BInv'
<1> SUFFICES ASSUME BInv, [BuildersNext]_buildersVars PROVE BInv'
  OBVIOUS
<1>1. CASE UNCHANGED buildersVars
  <2>1. UNCHANGED <<bpc, allocLock, markLock, builderCount, launched, reclaimable, fresh,
                    unmarked, building, bytesAllocd, allocdTmp, my, stopped, gcs, handedOut>>
    BY <1>1 DEF buildersVars
  <2>2. onCv' \subseteq Builder
    BY <1>1 DEF buildersVars, BInv, BuildersTypeOK
  <2> QED
    BY <2>1, <2>2, OnlyWaiters
<1>2. CASE GC_start_mark_threads_inner
  BY <1>2, KeepGC_start_mark_threads_inner
<1>3. CASE \E m \in Marker : GC_mark_thread(m)
  BY <1>3, KeepGC_mark_thread
<1>4. CASE GC_wait_for_markers_init
  BY <1>4, KeepGC_wait_for_markers_init
<1>5. ASSUME NEW t \in Builder,
             \/ Lock(t) \/ TakeBlock(t) \/ MergeBytes(t) \/ NewBlock(t) \/ Unlock(t)
             \/ EnterBuilder(t) \/ ReleaseMarkLock(t) \/ SweepBlock(t) \/ TallyBytes(t)
             \/ LeaveBuilder(t) \/ CollectionBegins(t) \/ GC_wait_for_reclaim(t)
             \/ SpuriousWakeup(t) \/ StopWorldForGc(t) \/ MarkAndStartWorld(t)
      PROVE  BInv'
  BY <1>5, KeepLock, KeepTakeBlock, KeepMergeBytes, KeepNewBlock, KeepUnlock, KeepEnterBuilder,
     KeepReleaseMarkLock, KeepSweepBlock, KeepTallyBytes, KeepLeaveBuilder, KeepCollectionBegins,
     KeepGC_wait_for_reclaim, KeepSpuriousWakeup, KeepStopWorldForGc, KeepMarkAndStartWorld
<1> QED
  BY <1>1, <1>2, <1>3, <1>4, <1>5 DEF BuildersNext

\* Free lists are built without the allocation lock, by any number of threads,
\* and no collection runs into one (GC_wait_for_reclaim), no block has two
\* sweepers, no byte goes uncounted, GC_fl_builder_count is exact, and the
\* markers are ready when GC_start_mark_threads_inner returns.
THEOREM BuildersAreSafe ==
  BuildersSpec => []BuildersSound
<1>1. BuildersInit => BInv
  BY InitInv
<1>2. BInv /\ [BuildersNext]_buildersVars => BInv'
  BY NextInv
<1>3. BInv => BuildersSound
  BY InvIsSound
<1> QED
  BY <1>1, <1>2, <1>3, PTL DEF BuildersSpec

-----------------------------------------------------------------------------
(* The mark lock of win32_threads.c. *)

\* The inductive invariant.
Word == {"lock", "contend", "sleep", "wake", "work"} \union LockHeldAt \union FreeAt
SeatsTyped == at \in [Actor -> [pc : Word, ret : Word, after : Word]]
EventsTyped ==
  /\ GC_mark_mutex_state \in {-1, 0, 1} /\ mark_mutex_event \in BOOLEAN
  /\ builder_cv \in BOOLEAN /\ mark_cv \subseteq WinHelper \union {Leader}
  /\ allocator \in FlBuilder \union {Leader, NoOwner}
EventsInv ==
  /\ SeatsTyped /\ EventsTyped
  /\ EventsCounted /\ RolesKept /\ MarkLockExclusive /\ SleeperRemembered

-----------------------------------------------------------------------------
(* Places and numbers of threads.                                          *)
LEMMA ActorsFinite == IsFiniteSet(Actor) /\ Leader \in Actor
<1>1. IsFiniteSet(WinHelper \union FlBuilder)
  BY EventsAssumption, FS_Union
<1>2. IsFiniteSet((WinHelper \union FlBuilder) \union {Leader})
  BY <1>1, FS_AddElement
<1> QED
  BY <1>2 DEF Actor

\* By how much a thread that goes from one place to another changes a number.
Gain(P, w, w2) == (IF w2 \in P THEN 1 ELSE 0) - (IF w \in P THEN 1 ELSE 0)

\* One thread has moved.
EventMoved(wh, wh2, t) == t \in Actor /\ \A u \in Actor : u # t => wh2[u] = wh[u]

LEMMA NumbersChange ==
  ASSUME NEW wh, NEW wh2, NEW t, NEW P, EventMoved(wh, wh2, t)
  PROVE  /\ Cardinality(AtPlaces(wh, P)) \in Nat
         /\ Cardinality(AtPlaces(wh2, P)) = Cardinality(AtPlaces(wh, P)) + Gain(P, wh[t], wh2[t])
<1> DEFINE A == AtPlaces(wh, P)
           B == AtPlaces(wh2, P)
<1>1. A \subseteq Actor /\ B \subseteq Actor
  BY DEF AtPlaces
<1>2. IsFiniteSet(A) /\ IsFiniteSet(B) /\ Cardinality(A) \in Nat /\ Cardinality(B) \in Nat
  BY <1>1, ActorsFinite, FS_Subset, FS_CardinalityType
<1>3. CASE wh[t] \in P /\ wh2[t] \in P
  <2>1. A = B
    BY <1>3 DEF AtPlaces, EventMoved
  <2>2. Gain(P, wh[t], wh2[t]) = 0
    BY <1>3 DEF Gain
  <2> QED
    BY <2>1, <2>2, <1>2
<1>4. CASE wh[t] \notin P /\ wh2[t] \notin P
  <2>1. A = B
    BY <1>4 DEF AtPlaces, EventMoved
  <2>2. Gain(P, wh[t], wh2[t]) = 0
    BY <1>4 DEF Gain
  <2> QED
    BY <2>1, <2>2, <1>2
<1>5. CASE wh[t] \notin P /\ wh2[t] \in P
  <2>1. B = A \union {t} /\ t \notin A
    BY <1>5 DEF AtPlaces, EventMoved
  <2>2. Gain(P, wh[t], wh2[t]) = 1
    BY <1>5 DEF Gain
  <2>3. Cardinality(B) = Cardinality(A) + 1
    BY <2>1, <1>2, FS_AddElement
  <2> QED
    BY <2>2, <2>3, <1>2
<1>6. CASE wh[t] \in P /\ wh2[t] \notin P
  <2>1. B = A \ {t} /\ t \in A
    BY <1>6 DEF AtPlaces, EventMoved
  <2>2. Gain(P, wh[t], wh2[t]) = -1
    BY <1>6 DEF Gain
  <2>3. Cardinality(B) = Cardinality(A) - 1
    BY <2>1, <1>2, FS_RemoveElement
  <2> QED
    BY <2>2, <2>3, <1>2
<1> QED
  BY <1>2, <1>3, <1>4, <1>5, <1>6

\* A number of threads is zero if there are none.
LEMMA NoActorCounted ==
  ASSUME NEW wh, NEW P
  PROVE  /\ Cardinality(AtPlaces(wh, P)) \in Nat
         /\ Cardinality(AtPlaces(wh, P)) = 0 <=> AtPlaces(wh, P) = {}
<1>1. AtPlaces(wh, P) \subseteq Actor
  BY DEF AtPlaces
<1>2. IsFiniteSet(AtPlaces(wh, P))
  BY <1>1, ActorsFinite, FS_Subset
<1> QED
  BY <1>2, FS_CardinalityType, FS_EmptySet

-----------------------------------------------------------------------------
(* The seats of threads.                                                   *)
OthersStay(t) == \A u \in Actor : u # t => at'[u] = at[u]

LEMMA SeatMoves ==
  ASSUME SeatsTyped, NEW t \in Actor, NEW p \in Word
  PROVE  /\ To(t, p) => /\ SeatsTyped' /\ OthersStay(t) /\ at'[t].pc = p
                        /\ at'[t].ret = at[t].ret /\ at'[t].after = at[t].after
         /\ TakeLock(t, p) => SeatsTyped' /\ OthersStay(t) /\ at'[t].pc = "lock" /\ at'[t].ret = p
         /\ DropLock(t, p) => SeatsTyped' /\ OthersStay(t) /\ at'[t].pc = "unlock" /\ at'[t].ret = p
         /\ GC_wait_marker(t, p) => /\ SeatsTyped' /\ OthersStay(t) /\ at'[t].pc = "unlock"
                                    /\ at'[t].ret = "await" /\ at'[t].after = p
<1>w. "lock" \in Word /\ "unlock" \in Word /\ "await" \in Word
  BY Zenon DEF Word, LockHeldAt, FreeAt
<1>1. To(t, p) => /\ SeatsTyped' /\ OthersStay(t) /\ at'[t].pc = p
                  /\ at'[t].ret = at[t].ret /\ at'[t].after = at[t].after
  BY DEF SeatsTyped, To, OthersStay
<1>2. TakeLock(t, p) => SeatsTyped' /\ OthersStay(t) /\ at'[t].pc = "lock" /\ at'[t].ret = p
  <2>1. [at[t] EXCEPT !.pc = "lock", !.ret = p] \in [pc : Word, ret : Word, after : Word]
    BY <1>w DEF SeatsTyped
  <2>2. TakeLock(t, p) => at' = [at EXCEPT ![t] = [at[t] EXCEPT !.pc = "lock", !.ret = p]]
    BY DEF TakeLock, SeatsTyped
  <2> QED
    BY <2>1, <2>2 DEF SeatsTyped, OthersStay
<1>3. DropLock(t, p) => SeatsTyped' /\ OthersStay(t) /\ at'[t].pc = "unlock" /\ at'[t].ret = p
  <2>1. [at[t] EXCEPT !.pc = "unlock", !.ret = p] \in [pc : Word, ret : Word, after : Word]
    BY <1>w DEF SeatsTyped
  <2>2. DropLock(t, p) => at' = [at EXCEPT ![t] = [at[t] EXCEPT !.pc = "unlock", !.ret = p]]
    BY DEF DropLock, SeatsTyped
  <2> QED
    BY <2>1, <2>2 DEF SeatsTyped, OthersStay
<1>4. GC_wait_marker(t, p) => /\ SeatsTyped' /\ OthersStay(t) /\ at'[t].pc = "unlock"
                              /\ at'[t].ret = "await" /\ at'[t].after = p
  <2>1. [pc |-> "unlock", ret |-> "await", after |-> p] \in [pc : Word, ret : Word, after : Word]
    BY <1>w
  <2> QED
    BY <2>1 DEF SeatsTyped, GC_wait_marker, OthersStay
<1> QED
  BY <1>1, <1>2, <1>3, <1>4

\* The others are where they were.
LEMMA OthersWhere ==
  ASSUME NEW t \in Actor, OthersStay(t)
  PROVE  /\ EventMoved(Whereabouts, Whereabouts', t)
         /\ \A u \in Actor : u # t => /\ SeatOK(u)' <=> SeatOK(u)
                                      /\ HoldsMarkLock(u)' <=> HoldsMarkLock(u)
                                      /\ at'[u].pc = at[u].pc
BY DEF OthersStay, EventMoved, Whereabouts, SeatOK, HoldsMarkLock, Waits, In

\* Where a thread is, by its place and by what it does with the lock.
LEMMA WhereNow ==
  ASSUME NEW t \in Actor
  PROVE  /\ at[t].pc \notin {"lock", "contend", "sleep", "unlock", "wake", "await"} =>
              Whereabouts[t] = at[t].pc
         /\ at[t].pc \in {"lock", "contend", "sleep"} => Whereabouts[t] = at[t].ret
         /\ at[t].pc \in {"unlock", "wake"} =>
              Whereabouts[t] = IF at[t].ret = "await" THEN at[t].after ELSE at[t].ret
         /\ at[t].pc = "await" => Whereabouts[t] = at[t].after
BY DEF Whereabouts, Waits, In

-----------------------------------------------------------------------------
(* Steps of one thread.                                                    *)

\* The places that have nothing to do with the lock or with waiting.
Plain == {"work"} \union ComesTo \union (FreeAt \ {"await"})

LEMMA PlainWords ==
  /\ Plain \subseteq Word
  /\ \A p \in Plain : p \notin {"lock", "contend", "sleep", "unlock", "wake", "await"}
  /\ ComesTo \subseteq LockHeldAt
<1>1. \A p \in {"work"} \union LockHeldAt \union FreeAt : p \in Word
  BY DEF Word
<1>2. "unlock" \notin FreeAt /\ "lock" \notin FreeAt /\ "contend" \notin FreeAt
      /\ "sleep" \notin FreeAt /\ "wake" \notin FreeAt
  BY DEF FreeAt
<1>3. "lock" \notin LockHeldAt /\ "contend" \notin LockHeldAt /\ "await" \notin LockHeldAt
      /\ "sleep" \notin LockHeldAt /\ "wake" \notin LockHeldAt
  BY DEF LockHeldAt
<1> QED
  BY <1>1, <1>2, <1>3 DEF Plain, ComesTo

\* The thread is at pc, and its place is w.
Lands(t, pc, w) ==
  SeatsTyped' /\ OthersStay(t) /\ SeatOK(t)' /\ at'[t].pc = pc /\ Whereabouts'[t] = w

LEMMA Landing ==
  ASSUME SeatsTyped, NEW t \in Actor, NEW p \in Plain
  PROVE  /\ To(t, p) => Lands(t, p, p)
         /\ TakeLock(t, p) /\ p \in ComesTo => Lands(t, "lock", p)
         /\ DropLock(t, p) /\ p \in FreeAt => Lands(t, "unlock", p)
         /\ GC_wait_marker(t, p) /\ p \in {"helpers?", "help?", "idle"} => Lands(t, "unlock", p)
<1>1. p \in Word /\ p \notin {"lock", "contend", "sleep", "unlock", "wake", "await"}
  BY PlainWords
<1>w. "lock" \in Word /\ "unlock" \in Word /\ "await" \in Word /\ "await" \in FreeAt
  BY Zenon DEF Word, LockHeldAt, FreeAt
<1>2. ASSUME To(t, p)
      PROVE  Lands(t, p, p)
  <2>1. SeatsTyped' /\ OthersStay(t) /\ at'[t].pc = p
    BY <1>1, <1>2, SeatMoves
  <2>2. SeatOK(t)' /\ Whereabouts'[t] = p
    BY <2>1, <1>1 DEF SeatOK, Whereabouts, Waits, In, Word
  <2> QED
    BY <2>1, <2>2 DEF Lands
<1>3. ASSUME TakeLock(t, p), p \in ComesTo
      PROVE  Lands(t, "lock", p)
  <2>1. SeatsTyped' /\ OthersStay(t) /\ at'[t].pc = "lock" /\ at'[t].ret = p
    BY <1>1, <1>3, SeatMoves
  <2>2. SeatOK(t)' /\ Whereabouts'[t] = p
    BY <2>1, <1>1, <1>3 DEF SeatOK, Whereabouts, Waits, In
  <2> QED
    BY <2>1, <2>2 DEF Lands
<1>4. ASSUME DropLock(t, p), p \in FreeAt
      PROVE  Lands(t, "unlock", p)
  <2>1. SeatsTyped' /\ OthersStay(t) /\ at'[t].pc = "unlock" /\ at'[t].ret = p
    BY <1>1, <1>4, SeatMoves
  <2>2. Whereabouts'[t] = p /\ ~Waits(t)'
    BY <2>1, <1>1, <1>4 DEF Whereabouts, Waits, In
  <2>3. SeatOK(t)'
    BY <2>1, <2>2, <1>w, <1>4 DEF SeatOK, Word
  <2> QED
    BY <2>1, <2>2, <2>3 DEF Lands
<1>5. ASSUME GC_wait_marker(t, p), p \in {"helpers?", "help?", "idle"}
      PROVE  Lands(t, "unlock", p)
  <2>1. /\ SeatsTyped' /\ OthersStay(t) /\ at'[t].pc = "unlock" /\ at'[t].ret = "await"
        /\ at'[t].after = p
    BY <1>1, <1>5, SeatMoves
  <2>2. Whereabouts'[t] = p
    BY <2>1, <1>1 DEF Whereabouts, Waits, In
  <2>3. SeatOK(t)'
    BY <2>1, <1>w, <1>5 DEF SeatOK, Word
  <2> QED
    BY <2>1, <2>2, <2>3 DEF Lands
<1> QED
  BY <1>2, <1>3, <1>4, <1>5

\* A thread that does nothing to the lock word: holders and sleepers are as before.
LEMMA LockKept ==
  ASSUME EventsInv, NEW t \in Actor, NEW pc, NEW w, Lands(t, pc, w),
         GC_mark_mutex_state' = GC_mark_mutex_state, mark_mutex_event' = mark_mutex_event,
         at[t].pc \notin {"sleep", "wake", "contend"}, pc \notin {"sleep", "wake", "contend"},
         pc \in LockHeldAt <=> at[t].pc \in LockHeldAt
  PROVE  MarkLockExclusive' /\ SleeperRemembered'
<1>1. \A u \in Actor : HoldsMarkLock(u)' <=> HoldsMarkLock(u)
  BY OthersWhere DEF Lands, HoldsMarkLock
<1>2. MarkLockExclusive'
  BY <1>1 DEF EventsInv, MarkLockExclusive
<1>3. \A u \in Actor : u # t => at'[u] = at[u]
  BY DEF Lands, OthersStay
<1>4. SleeperRemembered'
  BY <1>3 DEF EventsInv, SleeperRemembered, Lands, In
<1> QED
  BY <1>2, <1>4

\* The counts follow the threads.
Tallied(w, w2) ==
  /\ GC_helper_count' = GC_helper_count + Gain(JoinedAt, w, w2)
  /\ GC_active_count' = GC_active_count + Gain(ActiveAt, w, w2)
  /\ GC_fl_builder_count' = GC_fl_builder_count + Gain(BuildingAt, w, w2)
  /\ onMarkStack' \in Nat
  /\ \/ onMarkStack' + Gain(WorkingAt, w, w2) <= onMarkStack
     \/ AtPlaces(Whereabouts, JoinedAt) = {} /\ onMarkStack' + Gain(WorkingAt, w, w2) <= Entries

LEMMA CountsKept ==
  ASSUME EventsInv, NEW t \in Actor, NEW pc, NEW w2, Lands(t, pc, w2),
         Tallied(Whereabouts[t], w2)
  PROVE  EventsCounted'
<1> DEFINE wh == Whereabouts
           wh2 == Whereabouts'
           w == Whereabouts[t]
<1>1. EventMoved(wh, wh2, t) /\ wh2[t] = w2
  BY OthersWhere DEF Lands
<1>2. ASSUME NEW P
      PROVE  /\ Cardinality(AtPlaces(wh, P)) \in Nat
             /\ Cardinality(AtPlaces(wh2, P)) = Cardinality(AtPlaces(wh, P)) + Gain(P, w, w2)
  BY <1>1, NumbersChange
<1> HIDE DEF wh, wh2
<1>3. /\ GC_helper_count = Cardinality(AtPlaces(wh, JoinedAt))
      /\ GC_active_count = Cardinality(AtPlaces(wh, ActiveAt))
      /\ GC_fl_builder_count = Cardinality(AtPlaces(wh, BuildingAt))
      /\ onMarkStack \in Nat
      /\ onMarkStack + Cardinality(AtPlaces(wh, WorkingAt)) <= Entries
  BY DEF EventsInv, EventsCounted, wh
<1>4. /\ GC_helper_count' = Cardinality(AtPlaces(wh2, JoinedAt))
      /\ GC_active_count' = Cardinality(AtPlaces(wh2, ActiveAt))
      /\ GC_fl_builder_count' = Cardinality(AtPlaces(wh2, BuildingAt))
  BY <1>2, <1>3 DEF Tallied
<1>5. /\ Cardinality(AtPlaces(wh, WorkingAt)) \in Nat
      /\ Cardinality(AtPlaces(wh2, WorkingAt)) =
           Cardinality(AtPlaces(wh, WorkingAt)) + Gain(WorkingAt, w, w2)
  BY <1>2
<1>6. Gain(WorkingAt, w, w2) \in Int
  BY DEF Gain
<1>7. onMarkStack' + Cardinality(AtPlaces(wh2, WorkingAt)) <= Entries
  <2>e. Entries \in Nat
    BY EventsAssumption
  <2>1. CASE onMarkStack' + Gain(WorkingAt, w, w2) <= onMarkStack
    <3>1. onMarkStack' \in Nat
      BY DEF Tallied
    <3> QED
      BY <2>1, <3>1, <2>e, <1>3, <1>5, <1>6
  <2>2. CASE AtPlaces(wh, JoinedAt) = {} /\ onMarkStack' + Gain(WorkingAt, w, w2) <= Entries
    <3>1. AtPlaces(wh, WorkingAt) = {}
      <4>1. WorkingAt \subseteq JoinedAt
        BY DEF JoinedAt, ActiveAt
      <4> QED
        BY <4>1, <2>2 DEF AtPlaces
    <3>2. Cardinality(AtPlaces(wh, WorkingAt)) = 0
      BY <3>1, NoActorCounted
    <3> QED
      BY <2>2, <3>2, <1>5, <1>6
  <2> QED
    BY <2>1, <2>2 DEF Tallied, wh
<1> QED
  BY <1>4, <1>7 DEF EventsCounted, Tallied, wh2

\* The new place fits the thread's protocol and the state of the others.
NotMarking == {"out", "reclaimed?", "await_builders"}
RolesFit(t, w2) ==
  /\ t \in WinHelper => w2 \in HelperAt
  /\ t \in FlBuilder => w2 \in BuilderAt /\ (w2 \in {"count", "build"} <=> allocator' = t)
  /\ t = Leader => w2 \in LeaderAt /\ (w2 # "out" <=> allocator' = Leader)
  /\ \A u \in FlBuilder \union {Leader} : u # t => (allocator' = u <=> allocator = u)
  /\ t = Leader =>
       /\ w2 \notin NotMarking => AtPlaces(Whereabouts, BuildingAt) = {}
       /\ w2 \notin {"helpers?"} \union JoinedAt =>
            ~GC_help_wanted' /\ AtPlaces(Whereabouts, JoinedAt) \subseteq {Leader}
  /\ t # Leader =>
       /\ w2 \in BuildingAt => Whereabouts[t] \in BuildingAt \/ Whereabouts[Leader] \in NotMarking
       /\ GC_help_wanted' = GC_help_wanted
       /\ w2 \in JoinedAt => Whereabouts[t] \in JoinedAt \/ GC_help_wanted

LEMMA PlacesApart ==
  /\ LeaderAt \intersect BuildingAt = {}
  /\ WorkingAt \subseteq ActiveAt /\ ActiveAt \subseteq JoinedAt
  /\ JoinedAt \subseteq HelperAt /\ JoinedAt \subseteq LeaderAt
  /\ JoinedAt \intersect BuilderAt = {} /\ JoinedAt \intersect NotMarking = {}
  /\ HelperAt \intersect BuildingAt = {} /\ "helpers?" \notin JoinedAt /\ "help?" \notin JoinedAt
  /\ BuildingAt \subseteq BuilderAt
  /\ {"helpers?"} \union JoinedAt \subseteq LeaderAt
<1>1. LeaderAt \intersect BuildingAt = {}
  BY DEF LeaderAt, BuildingAt, JoinedAt, ActiveAt, WorkingAt
<1>2. JoinedAt \intersect BuilderAt = {} /\ JoinedAt \intersect NotMarking = {}
  BY DEF BuilderAt, BuildingAt, JoinedAt, ActiveAt, WorkingAt, NotMarking
<1>3. HelperAt \intersect BuildingAt = {} /\ "helpers?" \notin JoinedAt /\ "help?" \notin JoinedAt
  BY DEF HelperAt, BuildingAt, JoinedAt, ActiveAt, WorkingAt
<1>4. /\ WorkingAt \subseteq ActiveAt /\ ActiveAt \subseteq JoinedAt
      /\ JoinedAt \subseteq HelperAt /\ JoinedAt \subseteq LeaderAt /\ BuildingAt \subseteq BuilderAt
      /\ "helpers?" \in LeaderAt
  BY DEF ActiveAt, JoinedAt, HelperAt, LeaderAt, BuilderAt
<1> QED
  BY <1>1, <1>2, <1>3, <1>4

LEMMA RolesStay ==
  ASSUME EventsInv, NEW t \in Actor, NEW pc, NEW w2, Lands(t, pc, w2), RolesFit(t, w2)
  PROVE  RolesKept'
<1>1. /\ Whereabouts'[t] = w2
      /\ \A u \in Actor : u # t => Whereabouts'[u] = Whereabouts[u] /\ (SeatOK(u)' <=> SeatOK(u))
      /\ SeatOK(t)'
  BY OthersWhere DEF Lands, EventMoved
<1>2. /\ Leader \in Actor /\ Leader \notin WinHelper /\ Leader \notin FlBuilder
      /\ \A u \in WinHelper : u \in Actor /\ u \notin FlBuilder
      /\ \A u \in FlBuilder : u \in Actor
  BY EventsAssumption DEF Actor
<1>r. RolesKept
  BY DEF EventsInv
<1>3. \A u \in Actor : SeatOK(u)'
  BY <1>1, <1>r DEF RolesKept
<1>4. \A u \in WinHelper : Whereabouts'[u] \in HelperAt
  BY <1>1, <1>2, <1>r DEF RolesKept, RolesFit
<1>5. \A u \in FlBuilder : /\ Whereabouts'[u] \in BuilderAt
                           /\ Whereabouts'[u] \in {"count", "build"} <=> allocator' = u
  <2>1. ASSUME NEW u \in FlBuilder
        PROVE  /\ Whereabouts'[u] \in BuilderAt
               /\ Whereabouts'[u] \in {"count", "build"} <=> allocator' = u
    <3>1. CASE u = t
      BY <3>1, <1>1 DEF RolesFit
    <3>2. CASE u # t
      <4>1. /\ Whereabouts[u] \in BuilderAt
            /\ Whereabouts[u] \in {"count", "build"} <=> allocator = u
        BY <1>r DEF RolesKept
      <4>2. allocator' = u <=> allocator = u
        BY <3>2 DEF RolesFit
      <4> QED
        BY <4>1, <4>2, <3>2, <1>1, <1>2
    <3> QED
      BY <3>1, <3>2
  <2> QED
    BY <2>1
<1>6. /\ Whereabouts'[Leader] \in LeaderAt
      /\ Whereabouts'[Leader] # "out" <=> allocator' = Leader
  <2>1. CASE t = Leader
    BY <2>1, <1>1 DEF RolesFit
  <2>2. CASE t # Leader
    <3>1. /\ Whereabouts[Leader] \in LeaderAt
          /\ Whereabouts[Leader] # "out" <=> allocator = Leader
      BY <1>r DEF RolesKept
    <3>2. allocator' = Leader <=> allocator = Leader
      BY <2>2 DEF RolesFit
    <3> QED
      BY <3>1, <3>2, <2>2, <1>1, <1>2
  <2> QED
    BY <2>1, <2>2
<1>7. Whereabouts'[Leader] \notin NotMarking => AtPlaces(Whereabouts', BuildingAt) = {}
  <2> SUFFICES ASSUME Whereabouts'[Leader] \notin NotMarking, NEW u \in Actor,
                      Whereabouts'[u] \in BuildingAt
               PROVE  FALSE
    BY DEF AtPlaces
  <2>1. CASE t = Leader
    <3>1. AtPlaces(Whereabouts, BuildingAt) = {} /\ w2 \in LeaderAt
      BY <2>1, <1>1 DEF RolesFit
    <3>2. u # t
      BY <3>1, <1>1, PlacesApart
    <3> QED
      BY <3>1, <3>2, <1>1 DEF AtPlaces
  <2>2. CASE t # Leader
    <3>1. Whereabouts[Leader] \notin NotMarking
      BY <2>2, <1>1, <1>2
    <3>2. AtPlaces(Whereabouts, BuildingAt) = {}
      BY <3>1, <1>r DEF RolesKept, NotMarking
    <3>3. u = t
      BY <3>2, <1>1 DEF AtPlaces
    <3>4. Whereabouts[t] \in BuildingAt
      BY <3>1, <3>3, <2>2, <1>1 DEF RolesFit
    <3> QED
      BY <3>2, <3>4 DEF AtPlaces
  <2> QED
    BY <2>1, <2>2
<1>8. Whereabouts'[Leader] \notin {"helpers?"} \union JoinedAt =>
        ~GC_help_wanted' /\ AtPlaces(Whereabouts', JoinedAt) = {}
  <2> SUFFICES ASSUME Whereabouts'[Leader] \notin {"helpers?"} \union JoinedAt
               PROVE  ~GC_help_wanted' /\ \A u \in Actor : Whereabouts'[u] \notin JoinedAt
    BY DEF AtPlaces
  <2>1. CASE t = Leader
    <3>1. ~GC_help_wanted' /\ AtPlaces(Whereabouts, JoinedAt) \subseteq {Leader}
      BY <2>1, <1>1 DEF RolesFit
    <3> QED
      BY <3>1, <2>1, <1>1 DEF AtPlaces
  <2>2. CASE t # Leader
    <3>1. ~GC_help_wanted /\ AtPlaces(Whereabouts, JoinedAt) = {}
      BY <2>2, <1>1, <1>2, <1>r DEF RolesKept
    <3>2. w2 \notin JoinedAt /\ ~GC_help_wanted'
      BY <3>1, <2>2 DEF RolesFit, AtPlaces
    <3> QED
      BY <3>1, <3>2, <1>1 DEF AtPlaces
  <2> QED
    BY <2>1, <2>2
<1> QED
  BY <1>3, <1>4, <1>5, <1>6, <1>7, <1>8 DEF RolesKept, NotMarking

\* A step that does all of this keeps the invariant.
LEMMA StepKept ==
  ASSUME EventsInv, EventsTyped', NEW t \in Actor, NEW pc, NEW w2, Lands(t, pc, w2),
         GC_mark_mutex_state' = GC_mark_mutex_state, mark_mutex_event' = mark_mutex_event,
         at[t].pc \notin {"sleep", "wake", "contend"}, pc \notin {"sleep", "wake", "contend"},
         pc \in LockHeldAt <=> at[t].pc \in LockHeldAt,
         Tallied(Whereabouts[t], w2), RolesFit(t, w2)
  PROVE  EventsInv'
<1>1. SeatsTyped'
  BY DEF Lands
<1>2. MarkLockExclusive' /\ SleeperRemembered'
  BY LockKept
<1>3. EventsCounted'
  BY CountsKept
<1>4. RolesKept'
  BY RolesStay
<1> QED
  BY <1>1, <1>2, <1>3, <1>4 DEF EventsInv

-----------------------------------------------------------------------------
(* The actions.                                                            *)

\* Counts are natural numbers.
LEMMA CountsAreNat ==
  ASSUME EventsInv
  PROVE  /\ GC_helper_count \in Nat /\ GC_active_count \in Nat /\ GC_fl_builder_count \in Nat
         /\ onMarkStack \in Nat
BY NoActorCounted DEF EventsInv, EventsCounted

\* A thread that stays at its place, or a marker that goes on marking.
LEMMA StayFits ==
  ASSUME EventsInv, NEW t \in Actor, allocator' = allocator, GC_help_wanted' = GC_help_wanted
  PROVE  RolesFit(t, Whereabouts[t])
<1>1. RolesKept /\ Leader \notin WinHelper /\ Leader \notin FlBuilder
  BY EventsAssumption DEF EventsInv
<1>2. /\ t \in WinHelper => Whereabouts[t] \in HelperAt
      /\ t \in FlBuilder => /\ Whereabouts[t] \in BuilderAt
                            /\ Whereabouts[t] \in {"count", "build"} <=> allocator' = t
      /\ t = Leader => Whereabouts[t] \in LeaderAt /\ (Whereabouts[t] # "out" <=> allocator' = Leader)
  BY <1>1 DEF RolesKept
<1>3. t = Leader =>
       /\ Whereabouts[t] \notin NotMarking => AtPlaces(Whereabouts, BuildingAt) = {}
       /\ Whereabouts[t] \notin {"helpers?"} \union JoinedAt =>
            ~GC_help_wanted' /\ AtPlaces(Whereabouts, JoinedAt) \subseteq {Leader}
  BY <1>1 DEF RolesKept, NotMarking
<1> QED
  BY <1>2, <1>3 DEF RolesFit

LEMMA MarkerFits ==
  ASSUME EventsInv, NEW t \in Actor, allocator' = allocator, GC_help_wanted' = GC_help_wanted,
         Whereabouts[t] \in JoinedAt, NEW w2 \in JoinedAt
  PROVE  RolesFit(t, w2)
<1>1. RolesKept /\ Leader \notin WinHelper /\ Leader \notin FlBuilder
  BY EventsAssumption DEF EventsInv
<1>2. t \notin FlBuilder
  BY <1>1, PlacesApart DEF RolesKept
<1>3. t \in WinHelper => w2 \in HelperAt
  BY PlacesApart
<1>4. w2 \in LeaderAt /\ w2 # "out" /\ Whereabouts[t] # "out" /\ w2 \notin BuildingAt
      /\ Whereabouts[t] \notin NotMarking
  BY PlacesApart DEF NotMarking
<1>5. t = Leader => allocator' = Leader /\ AtPlaces(Whereabouts, BuildingAt) = {}
  BY <1>1, <1>4 DEF RolesKept, NotMarking
<1> QED
  BY <1>2, <1>3, <1>4, <1>5 DEF RolesFit

LEMMA MarkLocalKeeps ==
  ASSUME EventsInv, NEW t \in Actor, GC_mark_local(t)
  PROVE  EventsInv'
<1>w. at[t].pc = "mark_local" /\ Whereabouts[t] = "mark_local"
  BY WhereNow DEF GC_mark_local, In
<1>n. GC_helper_count \in Nat /\ GC_active_count \in Nat /\ GC_fl_builder_count \in Nat /\ onMarkStack \in Nat
  BY CountsAreNat
<1>f. /\ GC_mark_mutex_state' = GC_mark_mutex_state /\ mark_mutex_event' = mark_mutex_event
      /\ builder_cv' = builder_cv
      /\ allocator' = allocator
      /\ GC_help_wanted' = GC_help_wanted
      /\ mark_cv' = mark_cv
      /\ GC_helper_count' = GC_helper_count
      /\ GC_fl_builder_count' = GC_fl_builder_count
      /\ onMarkStack' = onMarkStack
      /\ GC_active_count' = GC_active_count + 1
      /\ DropLock(t, "look")
  BY <1>w DEF GC_mark_local, lockVars, clientVars, markVars
<1>l. Lands(t, "unlock", "look")
  <2>1. "look" \in Plain /\ "look" \in FreeAt
    BY DEF Plain, ComesTo, LockHeldAt, FreeAt
  <2>2. SeatsTyped /\ DropLock(t, "look")
    BY <1>f DEF EventsInv
  <2> QED
    BY <2>1, <2>2, Landing
<1>g. /\ Gain(JoinedAt, "mark_local", "look") = 0 /\ Gain(ActiveAt, "mark_local", "look") = 1
      /\ Gain(BuildingAt, "mark_local", "look") = 0 /\ Gain(WorkingAt, "mark_local", "look") = 0
  BY DEF Gain, JoinedAt, ActiveAt, WorkingAt, BuildingAt
<1>c. Tallied("mark_local", "look")
  BY <1>f, <1>g, <1>n DEF Tallied
<1>r. RolesFit(t, "look")
  <2>1. Whereabouts[t] \in JoinedAt /\ "look" \in JoinedAt
    BY <1>w DEF JoinedAt, ActiveAt, WorkingAt
  <2> QED
    BY <2>1, <1>f, MarkerFits
<1>t. EventsTyped'
  BY <1>f DEF EventsInv, EventsTyped
<1>h. "unlock" \in LockHeldAt <=> at[t].pc \in LockHeldAt
  BY <1>w DEF LockHeldAt
<1> QED
  BY <1>l, <1>c, <1>r, <1>t, <1>h, <1>f, <1>w, StepKept

LEMMA LookKeeps ==
  ASSUME EventsInv, NEW t \in Actor, LookForWork(t)
  PROVE  EventsInv'
<1>w. at[t].pc = "look" /\ Whereabouts[t] = "look"
  BY WhereNow DEF LookForWork, In
<1>n. GC_helper_count \in Nat /\ GC_active_count \in Nat /\ GC_fl_builder_count \in Nat /\ onMarkStack \in Nat
  BY CountsAreNat
<1>a. CASE onMarkStack > 0
  <2>f. /\ GC_mark_mutex_state' = GC_mark_mutex_state /\ mark_mutex_event' = mark_mutex_event
        /\ builder_cv' = builder_cv
        /\ allocator' = allocator
        /\ GC_help_wanted' = GC_help_wanted
        /\ mark_cv' = mark_cv
        /\ GC_helper_count' = GC_helper_count
        /\ GC_active_count' = GC_active_count
        /\ GC_fl_builder_count' = GC_fl_builder_count
        /\ onMarkStack' = onMarkStack - 1
        /\ To(t, "work")
    BY <1>w, <1>a, <1>n DEF LookForWork, lockVars, clientVars, markVars
  <2>l. Lands(t, "work", "work")
    <3>1. "work" \in Plain
      BY DEF Plain, ComesTo, LockHeldAt, FreeAt
    <3>2. SeatsTyped /\ To(t, "work")
      BY <2>f DEF EventsInv
    <3> QED
      BY <3>1, <3>2, Landing
  <2>g. /\ Gain(JoinedAt, "look", "work") = 0 /\ Gain(ActiveAt, "look", "work") = 0
        /\ Gain(BuildingAt, "look", "work") = 0 /\ Gain(WorkingAt, "look", "work") = 1
    BY DEF Gain, JoinedAt, ActiveAt, WorkingAt, BuildingAt
  <2>c. Tallied("look", "work")
    BY <2>f, <2>g, <1>n, <1>a DEF Tallied
  <2>r. RolesFit(t, "work")
    <3>1. Whereabouts[t] \in JoinedAt /\ "work" \in JoinedAt
      BY <1>w DEF JoinedAt, ActiveAt, WorkingAt
    <3> QED
      BY <3>1, <2>f, MarkerFits
  <2>t. EventsTyped'
    BY <2>f DEF EventsInv, EventsTyped
  <2>h. "work" \in LockHeldAt <=> at[t].pc \in LockHeldAt
    BY <1>w DEF LockHeldAt
  <2> QED
    BY <2>l, <2>c, <2>r, <2>t, <2>h, <2>f, <1>w, StepKept
<1>b. CASE onMarkStack = 0
  <2>f. /\ GC_mark_mutex_state' = GC_mark_mutex_state /\ mark_mutex_event' = mark_mutex_event
        /\ builder_cv' = builder_cv
        /\ allocator' = allocator
        /\ GC_help_wanted' = GC_help_wanted
        /\ mark_cv' = mark_cv
        /\ GC_helper_count' = GC_helper_count
        /\ GC_active_count' = GC_active_count
        /\ GC_fl_builder_count' = GC_fl_builder_count
        /\ onMarkStack' = onMarkStack
        /\ TakeLock(t, "none?")
    BY <1>w, <1>b, <1>n DEF LookForWork, lockVars, clientVars, markVars
  <2>l. Lands(t, "lock", "none?")
    <3>1. "none?" \in Plain /\ "none?" \in ComesTo
      BY DEF Plain, ComesTo, LockHeldAt, FreeAt
    <3>2. SeatsTyped /\ TakeLock(t, "none?")
      BY <2>f DEF EventsInv
    <3> QED
      BY <3>1, <3>2, Landing
  <2>g. /\ Gain(JoinedAt, "look", "none?") = 0 /\ Gain(ActiveAt, "look", "none?") = 0
        /\ Gain(BuildingAt, "look", "none?") = 0 /\ Gain(WorkingAt, "look", "none?") = 0
    BY DEF Gain, JoinedAt, ActiveAt, WorkingAt, BuildingAt
  <2>c. Tallied("look", "none?")
    BY <2>f, <2>g, <1>n, <1>b DEF Tallied
  <2>r. RolesFit(t, "none?")
    <3>1. Whereabouts[t] \in JoinedAt /\ "none?" \in JoinedAt
      BY <1>w DEF JoinedAt, ActiveAt, WorkingAt
    <3> QED
      BY <3>1, <2>f, MarkerFits
  <2>t. EventsTyped'
    BY <2>f DEF EventsInv, EventsTyped
  <2>h. "lock" \in LockHeldAt <=> at[t].pc \in LockHeldAt
    BY <1>w DEF LockHeldAt
  <2> QED
    BY <2>l, <2>c, <2>r, <2>t, <2>h, <2>f, <1>w, StepKept
<1> QED
  BY <1>a, <1>b, <1>n

LEMMA WorkKeeps ==
  ASSUME EventsInv, NEW t \in Actor, Work(t)
  PROVE  EventsInv'
<1>w. at[t].pc = "work" /\ Whereabouts[t] = "work"
  BY WhereNow DEF Work, In
<1>n. GC_helper_count \in Nat /\ GC_active_count \in Nat /\ GC_fl_builder_count \in Nat /\ onMarkStack \in Nat
  BY CountsAreNat
<1>a. CASE To(t, "look")
  <2>f. /\ GC_mark_mutex_state' = GC_mark_mutex_state /\ mark_mutex_event' = mark_mutex_event
        /\ builder_cv' = builder_cv
        /\ allocator' = allocator
        /\ GC_help_wanted' = GC_help_wanted
        /\ mark_cv' = mark_cv
        /\ GC_helper_count' = GC_helper_count
        /\ GC_active_count' = GC_active_count
        /\ GC_fl_builder_count' = GC_fl_builder_count
        /\ onMarkStack' = onMarkStack
        /\ To(t, "look")
    BY <1>w, <1>a, <1>n DEF Work, lockVars, clientVars, markVars
  <2>l. Lands(t, "look", "look")
    <3>1. "look" \in Plain
      BY DEF Plain, ComesTo, LockHeldAt, FreeAt
    <3>2. SeatsTyped /\ To(t, "look")
      BY <2>f DEF EventsInv
    <3> QED
      BY <3>1, <3>2, Landing
  <2>g. /\ Gain(JoinedAt, "work", "look") = 0 /\ Gain(ActiveAt, "work", "look") = 0
        /\ Gain(BuildingAt, "work", "look") = 0 /\ Gain(WorkingAt, "work", "look") = -1
    BY DEF Gain, JoinedAt, ActiveAt, WorkingAt, BuildingAt
  <2>c. Tallied("work", "look")
    BY <2>f, <2>g, <1>n, <1>a DEF Tallied
  <2>r. RolesFit(t, "look")
    <3>1. Whereabouts[t] \in JoinedAt /\ "look" \in JoinedAt
      BY <1>w DEF JoinedAt, ActiveAt, WorkingAt
    <3> QED
      BY <3>1, <2>f, MarkerFits
  <2>t. EventsTyped'
    BY <2>f DEF EventsInv, EventsTyped
  <2>h. "look" \in LockHeldAt <=> at[t].pc \in LockHeldAt
    BY <1>w DEF LockHeldAt
  <2> QED
    BY <2>l, <2>c, <2>r, <2>t, <2>h, <2>f, <1>w, StepKept
<1>b. CASE TakeLock(t, "deposit")
  <2>f. /\ GC_mark_mutex_state' = GC_mark_mutex_state /\ mark_mutex_event' = mark_mutex_event
        /\ builder_cv' = builder_cv
        /\ allocator' = allocator
        /\ GC_help_wanted' = GC_help_wanted
        /\ mark_cv' = mark_cv
        /\ GC_helper_count' = GC_helper_count
        /\ GC_active_count' = GC_active_count
        /\ GC_fl_builder_count' = GC_fl_builder_count
        /\ onMarkStack' = onMarkStack
        /\ TakeLock(t, "deposit")
    BY <1>w, <1>b, <1>n DEF Work, lockVars, clientVars, markVars
  <2>l. Lands(t, "lock", "deposit")
    <3>1. "deposit" \in Plain /\ "deposit" \in ComesTo
      BY DEF Plain, ComesTo, LockHeldAt, FreeAt
    <3>2. SeatsTyped /\ TakeLock(t, "deposit")
      BY <2>f DEF EventsInv
    <3> QED
      BY <3>1, <3>2, Landing
  <2>g. /\ Gain(JoinedAt, "work", "deposit") = 0 /\ Gain(ActiveAt, "work", "deposit") = 0
        /\ Gain(BuildingAt, "work", "deposit") = 0 /\ Gain(WorkingAt, "work", "deposit") = 0
    BY DEF Gain, JoinedAt, ActiveAt, WorkingAt, BuildingAt
  <2>c. Tallied("work", "deposit")
    BY <2>f, <2>g, <1>n, <1>b DEF Tallied
  <2>r. RolesFit(t, "deposit")
    <3>1. Whereabouts[t] \in JoinedAt /\ "deposit" \in JoinedAt
      BY <1>w DEF JoinedAt, ActiveAt, WorkingAt
    <3> QED
      BY <3>1, <2>f, MarkerFits
  <2>t. EventsTyped'
    BY <2>f DEF EventsInv, EventsTyped
  <2>h. "lock" \in LockHeldAt <=> at[t].pc \in LockHeldAt
    BY <1>w DEF LockHeldAt
  <2> QED
    BY <2>l, <2>c, <2>r, <2>t, <2>h, <2>f, <1>w, StepKept
<1> QED
  BY <1>a, <1>b, <1>n DEF Work

LEMMA DepositKeeps ==
  ASSUME EventsInv, NEW t \in Actor, ReturnMarkStack(t)
  PROVE  EventsInv'
<1>w. at[t].pc = "deposit" /\ Whereabouts[t] = "deposit"
  BY WhereNow DEF ReturnMarkStack, In
<1>n. GC_helper_count \in Nat /\ GC_active_count \in Nat /\ GC_fl_builder_count \in Nat /\ onMarkStack \in Nat
  BY CountsAreNat
<1>f. /\ GC_mark_mutex_state' = GC_mark_mutex_state /\ mark_mutex_event' = mark_mutex_event
      /\ builder_cv' = builder_cv
      /\ allocator' = allocator
      /\ GC_help_wanted' = GC_help_wanted
      /\ mark_cv' = mark_cv
      /\ GC_helper_count' = GC_helper_count
      /\ GC_active_count' = GC_active_count
      /\ GC_fl_builder_count' = GC_fl_builder_count
      /\ onMarkStack' = onMarkStack + 1
      /\ DropLock(t, "tell_deposit")
  BY <1>w DEF ReturnMarkStack, lockVars, clientVars, markVars
<1>l. Lands(t, "unlock", "tell_deposit")
  <2>1. "tell_deposit" \in Plain /\ "tell_deposit" \in FreeAt
    BY DEF Plain, ComesTo, LockHeldAt, FreeAt
  <2>2. SeatsTyped /\ DropLock(t, "tell_deposit")
    BY <1>f DEF EventsInv
  <2> QED
    BY <2>1, <2>2, Landing
<1>g. /\ Gain(JoinedAt, "deposit", "tell_deposit") = 0 /\ Gain(ActiveAt, "deposit", "tell_deposit") = 0
      /\ Gain(BuildingAt, "deposit", "tell_deposit") = 0 /\ Gain(WorkingAt, "deposit", "tell_deposit") = -1
  BY DEF Gain, JoinedAt, ActiveAt, WorkingAt, BuildingAt
<1>c. Tallied("deposit", "tell_deposit")
  BY <1>f, <1>g, <1>n DEF Tallied
<1>r. RolesFit(t, "tell_deposit")
  <2>1. Whereabouts[t] \in JoinedAt /\ "tell_deposit" \in JoinedAt
    BY <1>w DEF JoinedAt, ActiveAt, WorkingAt
  <2> QED
    BY <2>1, <1>f, MarkerFits
<1>t. EventsTyped'
  BY <1>f DEF EventsInv, EventsTyped
<1>h. "unlock" \in LockHeldAt <=> at[t].pc \in LockHeldAt
  BY <1>w DEF LockHeldAt
<1> QED
  BY <1>l, <1>c, <1>r, <1>t, <1>h, <1>f, <1>w, StepKept

LEMMA TellKeeps ==
  ASSUME EventsInv, NEW t \in Actor, TellDeposit(t)
  PROVE  EventsInv'
<1>w. at[t].pc = "tell_deposit" /\ Whereabouts[t] = "tell_deposit"
  BY WhereNow DEF TellDeposit, In
<1>n. GC_helper_count \in Nat /\ GC_active_count \in Nat /\ GC_fl_builder_count \in Nat /\ onMarkStack \in Nat
  BY CountsAreNat
<1>f. /\ GC_mark_mutex_state' = GC_mark_mutex_state /\ mark_mutex_event' = mark_mutex_event
      /\ builder_cv' = builder_cv
      /\ allocator' = allocator
      /\ GC_help_wanted' = GC_help_wanted
      /\ GC_helper_count' = GC_helper_count
      /\ GC_active_count' = GC_active_count
      /\ GC_fl_builder_count' = GC_fl_builder_count
      /\ onMarkStack' = onMarkStack
      /\ GC_notify_all_marker(t)
      /\ To(t, "look")
  BY <1>w DEF TellDeposit, lockVars, clientVars, markVars
<1>l. Lands(t, "look", "look")
  <2>1. "look" \in Plain
    BY DEF Plain, ComesTo, LockHeldAt, FreeAt
  <2>2. SeatsTyped /\ To(t, "look")
    BY <1>f DEF EventsInv
  <2> QED
    BY <2>1, <2>2, Landing
<1>g. /\ Gain(JoinedAt, "tell_deposit", "look") = 0 /\ Gain(ActiveAt, "tell_deposit", "look") = 0
      /\ Gain(BuildingAt, "tell_deposit", "look") = 0 /\ Gain(WorkingAt, "tell_deposit", "look") = 0
  BY DEF Gain, JoinedAt, ActiveAt, WorkingAt, BuildingAt
<1>c. Tallied("tell_deposit", "look")
  BY <1>f, <1>g, <1>n DEF Tallied
<1>r. RolesFit(t, "look")
  <2>1. Whereabouts[t] \in JoinedAt /\ "look" \in JoinedAt
    BY <1>w DEF JoinedAt, ActiveAt, WorkingAt
  <2> QED
    BY <2>1, <1>f, MarkerFits
<1>t. EventsTyped'
  BY <1>f DEF EventsInv, EventsTyped, GC_notify_all_marker, Notified
<1>h. "look" \in LockHeldAt <=> at[t].pc \in LockHeldAt
  BY <1>w DEF LockHeldAt
<1> QED
  BY <1>l, <1>c, <1>r, <1>t, <1>h, <1>f, <1>w, StepKept

LEMMA NoWorkKeeps ==
  ASSUME EventsInv, NEW t \in Actor, NoWork(t)
  PROVE  EventsInv'
<1>w. at[t].pc = "none?" /\ Whereabouts[t] = "none?"
  BY WhereNow DEF NoWork, In
<1>n. GC_helper_count \in Nat /\ GC_active_count \in Nat /\ GC_fl_builder_count \in Nat /\ onMarkStack \in Nat
  BY CountsAreNat
<1>a. CASE onMarkStack > 0
  <2>f. /\ GC_mark_mutex_state' = GC_mark_mutex_state /\ mark_mutex_event' = mark_mutex_event
        /\ builder_cv' = builder_cv
        /\ allocator' = allocator
        /\ GC_help_wanted' = GC_help_wanted
        /\ mark_cv' = mark_cv
        /\ GC_helper_count' = GC_helper_count
        /\ GC_active_count' = GC_active_count
        /\ GC_fl_builder_count' = GC_fl_builder_count
        /\ onMarkStack' = onMarkStack
        /\ DropLock(t, "look")
    BY <1>w, <1>a, <1>n DEF NoWork, lockVars, clientVars, markVars
  <2>l. Lands(t, "unlock", "look")
    <3>1. "look" \in Plain /\ "look" \in FreeAt
      BY DEF Plain, ComesTo, LockHeldAt, FreeAt
    <3>2. SeatsTyped /\ DropLock(t, "look")
      BY <2>f DEF EventsInv
    <3> QED
      BY <3>1, <3>2, Landing
  <2>g. /\ Gain(JoinedAt, "none?", "look") = 0 /\ Gain(ActiveAt, "none?", "look") = 0
        /\ Gain(BuildingAt, "none?", "look") = 0 /\ Gain(WorkingAt, "none?", "look") = 0
    BY DEF Gain, JoinedAt, ActiveAt, WorkingAt, BuildingAt
  <2>c. Tallied("none?", "look")
    BY <2>f, <2>g, <1>n, <1>a DEF Tallied
  <2>r. RolesFit(t, "look")
    <3>1. Whereabouts[t] \in JoinedAt /\ "look" \in JoinedAt
      BY <1>w DEF JoinedAt, ActiveAt, WorkingAt
    <3> QED
      BY <3>1, <2>f, MarkerFits
  <2>t. EventsTyped'
    BY <2>f DEF EventsInv, EventsTyped
  <2>h. "unlock" \in LockHeldAt <=> at[t].pc \in LockHeldAt
    BY <1>w DEF LockHeldAt
  <2> QED
    BY <2>l, <2>c, <2>r, <2>t, <2>h, <2>f, <1>w, StepKept
<1>b. CASE onMarkStack = 0
  <2>f. /\ GC_mark_mutex_state' = GC_mark_mutex_state /\ mark_mutex_event' = mark_mutex_event
        /\ builder_cv' = builder_cv
        /\ allocator' = allocator
        /\ GC_help_wanted' = GC_help_wanted
        /\ GC_helper_count' = GC_helper_count
        /\ GC_fl_builder_count' = GC_fl_builder_count
        /\ onMarkStack' = onMarkStack
        /\ GC_active_count' = GC_active_count - 1
        /\ mark_cv' = mark_cv \/ GC_notify_all_marker(t)
        /\ To(t, "idle")
    BY <1>w, <1>b, <1>n DEF NoWork, lockVars, clientVars, markVars
  <2>l. Lands(t, "idle", "idle")
    <3>1. "idle" \in Plain
      BY DEF Plain, ComesTo, LockHeldAt, FreeAt
    <3>2. SeatsTyped /\ To(t, "idle")
      BY <2>f DEF EventsInv
    <3> QED
      BY <3>1, <3>2, Landing
  <2>g. /\ Gain(JoinedAt, "none?", "idle") = 0 /\ Gain(ActiveAt, "none?", "idle") = -1
        /\ Gain(BuildingAt, "none?", "idle") = 0 /\ Gain(WorkingAt, "none?", "idle") = 0
    BY DEF Gain, JoinedAt, ActiveAt, WorkingAt, BuildingAt
  <2>c. Tallied("none?", "idle")
    BY <2>f, <2>g, <1>n, <1>b DEF Tallied
  <2>r. RolesFit(t, "idle")
    <3>1. Whereabouts[t] \in JoinedAt /\ "idle" \in JoinedAt
      BY <1>w DEF JoinedAt, ActiveAt, WorkingAt
    <3> QED
      BY <3>1, <2>f, MarkerFits
  <2>t. EventsTyped'
    BY <2>f DEF EventsInv, EventsTyped, GC_notify_all_marker, Notified
  <2>h. "idle" \in LockHeldAt <=> at[t].pc \in LockHeldAt
    BY <1>w DEF LockHeldAt
  <2> QED
    BY <2>l, <2>c, <2>r, <2>t, <2>h, <2>f, <1>w, StepKept
<1> QED
  BY <1>a, <1>b, <1>n

LEMMA IdleKeeps ==
  ASSUME EventsInv, NEW t \in Actor, IdleMarker(t)
  PROVE  EventsInv'
<1>w. at[t].pc = "idle" /\ Whereabouts[t] = "idle"
  BY WhereNow DEF IdleMarker, In
<1>n. GC_helper_count \in Nat /\ GC_active_count \in Nat /\ GC_fl_builder_count \in Nat /\ onMarkStack \in Nat
  BY CountsAreNat
<1>a. CASE GC_active_count > 0 /\ onMarkStack = 0
  <2>f. /\ GC_mark_mutex_state' = GC_mark_mutex_state /\ mark_mutex_event' = mark_mutex_event
        /\ builder_cv' = builder_cv
        /\ allocator' = allocator
        /\ GC_help_wanted' = GC_help_wanted
        /\ GC_helper_count' = GC_helper_count
        /\ GC_active_count' = GC_active_count
        /\ GC_fl_builder_count' = GC_fl_builder_count
        /\ onMarkStack' = onMarkStack
        /\ GC_wait_marker(t, "idle")
    BY <1>w, <1>a, <1>n DEF IdleMarker, AfterMarking, lockVars, clientVars, markVars
  <2>l. Lands(t, "unlock", "idle")
    <3>1. "idle" \in Plain
      BY DEF Plain, ComesTo, LockHeldAt, FreeAt
    <3>2. SeatsTyped /\ GC_wait_marker(t, "idle")
      BY <2>f DEF EventsInv
    <3> QED
      BY <3>1, <3>2, Landing
  <2>g. /\ Gain(JoinedAt, "idle", "idle") = 0 /\ Gain(ActiveAt, "idle", "idle") = 0
        /\ Gain(BuildingAt, "idle", "idle") = 0 /\ Gain(WorkingAt, "idle", "idle") = 0
    BY DEF Gain, JoinedAt, ActiveAt, WorkingAt, BuildingAt
  <2>c. Tallied("idle", "idle")
    BY <2>f, <2>g, <1>n, <1>a DEF Tallied
  <2>r. RolesFit(t, "idle")
    <3>1. Whereabouts[t] \in JoinedAt /\ "idle" \in JoinedAt
      BY <1>w DEF JoinedAt, ActiveAt, WorkingAt
    <3> QED
      BY <3>1, <2>f, MarkerFits
  <2>t. EventsTyped'
    BY <2>f DEF EventsInv, EventsTyped, GC_wait_marker
  <2>h. "unlock" \in LockHeldAt <=> at[t].pc \in LockHeldAt
    BY <1>w DEF LockHeldAt
  <2> QED
    BY <2>l, <2>c, <2>r, <2>t, <2>h, <2>f, <1>w, StepKept
<1>b. CASE onMarkStack > 0
  <2>f. /\ GC_mark_mutex_state' = GC_mark_mutex_state /\ mark_mutex_event' = mark_mutex_event
        /\ builder_cv' = builder_cv
        /\ allocator' = allocator
        /\ GC_help_wanted' = GC_help_wanted
        /\ mark_cv' = mark_cv
        /\ GC_helper_count' = GC_helper_count
        /\ GC_fl_builder_count' = GC_fl_builder_count
        /\ onMarkStack' = onMarkStack
        /\ GC_active_count' = GC_active_count + 1
        /\ DropLock(t, "look")
    BY <1>w, <1>b, <1>n DEF IdleMarker, AfterMarking, lockVars, clientVars, markVars
  <2>l. Lands(t, "unlock", "look")
    <3>1. "look" \in Plain /\ "look" \in FreeAt
      BY DEF Plain, ComesTo, LockHeldAt, FreeAt
    <3>2. SeatsTyped /\ DropLock(t, "look")
      BY <2>f DEF EventsInv
    <3> QED
      BY <3>1, <3>2, Landing
  <2>g. /\ Gain(JoinedAt, "idle", "look") = 0 /\ Gain(ActiveAt, "idle", "look") = 1
        /\ Gain(BuildingAt, "idle", "look") = 0 /\ Gain(WorkingAt, "idle", "look") = 0
    BY DEF Gain, JoinedAt, ActiveAt, WorkingAt, BuildingAt
  <2>c. Tallied("idle", "look")
    BY <2>f, <2>g, <1>n, <1>b DEF Tallied
  <2>r. RolesFit(t, "look")
    <3>1. Whereabouts[t] \in JoinedAt /\ "look" \in JoinedAt
      BY <1>w DEF JoinedAt, ActiveAt, WorkingAt
    <3> QED
      BY <3>1, <2>f, MarkerFits
  <2>t. EventsTyped'
    BY <2>f DEF EventsInv, EventsTyped
  <2>h. "unlock" \in LockHeldAt <=> at[t].pc \in LockHeldAt
    BY <1>w DEF LockHeldAt
  <2> QED
    BY <2>l, <2>c, <2>r, <2>t, <2>h, <2>f, <1>w, StepKept
<1>c. CASE GC_active_count = 0 /\ onMarkStack = 0 /\ t = Leader
  <2>f. /\ GC_mark_mutex_state' = GC_mark_mutex_state /\ mark_mutex_event' = mark_mutex_event
        /\ builder_cv' = builder_cv
        /\ allocator' = allocator
        /\ GC_help_wanted' = GC_help_wanted
        /\ GC_active_count' = GC_active_count
        /\ GC_fl_builder_count' = GC_fl_builder_count
        /\ onMarkStack' = onMarkStack
        /\ GC_helper_count' = GC_helper_count - 1
        /\ mark_cv' = mark_cv \/ GC_notify_all_marker(t)
        /\ To(t, "helpers?")
    BY <1>w, <1>c, <1>n DEF IdleMarker, AfterMarking, lockVars, clientVars, markVars
  <2>l. Lands(t, "helpers?", "helpers?")
    <3>1. "helpers?" \in Plain
      BY DEF Plain, ComesTo, LockHeldAt, FreeAt
    <3>2. SeatsTyped /\ To(t, "helpers?")
      BY <2>f DEF EventsInv
    <3> QED
      BY <3>1, <3>2, Landing
  <2>g. /\ Gain(JoinedAt, "idle", "helpers?") = -1 /\ Gain(ActiveAt, "idle", "helpers?") = 0
        /\ Gain(BuildingAt, "idle", "helpers?") = 0 /\ Gain(WorkingAt, "idle", "helpers?") = 0
    BY DEF Gain, JoinedAt, ActiveAt, WorkingAt, BuildingAt
  <2>c. Tallied("idle", "helpers?")
    BY <2>f, <2>g, <1>n, <1>c DEF Tallied
  <2>r. RolesFit(t, "helpers?")
    <3>1. RolesKept /\ Leader \notin WinHelper /\ Leader \notin FlBuilder
      BY EventsAssumption DEF EventsInv
    <3>2. allocator = Leader /\ AtPlaces(Whereabouts, BuildingAt) = {}
      BY <3>1, <1>c, <1>w DEF RolesKept
    <3> QED
      BY <3>1, <3>2, <2>f, <1>c DEF RolesFit, LeaderAt
  <2>t. EventsTyped'
    BY <2>f DEF EventsInv, EventsTyped, GC_notify_all_marker, Notified
  <2>h. "helpers?" \in LockHeldAt <=> at[t].pc \in LockHeldAt
    BY <1>w DEF LockHeldAt
  <2> QED
    BY <2>l, <2>c, <2>r, <2>t, <2>h, <2>f, <1>w, StepKept
<1>d. CASE GC_active_count = 0 /\ onMarkStack = 0 /\ t # Leader
  <2>f. /\ GC_mark_mutex_state' = GC_mark_mutex_state /\ mark_mutex_event' = mark_mutex_event
        /\ builder_cv' = builder_cv
        /\ allocator' = allocator
        /\ GC_help_wanted' = GC_help_wanted
        /\ GC_active_count' = GC_active_count
        /\ GC_fl_builder_count' = GC_fl_builder_count
        /\ onMarkStack' = onMarkStack
        /\ GC_helper_count' = GC_helper_count - 1
        /\ mark_cv' = mark_cv \/ GC_notify_all_marker(t)
        /\ To(t, "help?")
    BY <1>w, <1>d, <1>n DEF IdleMarker, AfterMarking, lockVars, clientVars, markVars
  <2>l. Lands(t, "help?", "help?")
    <3>1. "help?" \in Plain
      BY DEF Plain, ComesTo, LockHeldAt, FreeAt
    <3>2. SeatsTyped /\ To(t, "help?")
      BY <2>f DEF EventsInv
    <3> QED
      BY <3>1, <3>2, Landing
  <2>g. /\ Gain(JoinedAt, "idle", "help?") = -1 /\ Gain(ActiveAt, "idle", "help?") = 0
        /\ Gain(BuildingAt, "idle", "help?") = 0 /\ Gain(WorkingAt, "idle", "help?") = 0
    BY DEF Gain, JoinedAt, ActiveAt, WorkingAt, BuildingAt
  <2>c. Tallied("idle", "help?")
    BY <2>f, <2>g, <1>n, <1>d DEF Tallied
  <2>r. RolesFit(t, "help?")
    <3>1. RolesKept
      BY DEF EventsInv
    <3>2. "idle" \notin BuilderAt
      BY DEF BuilderAt, BuildingAt
    <3>3. t \notin FlBuilder
      BY <3>1, <3>2, <1>w DEF RolesKept
    <3>4. "help?" \in HelperAt /\ "help?" \notin BuildingAt /\ "help?" \notin JoinedAt
      BY DEF HelperAt, BuildingAt, JoinedAt, ActiveAt, WorkingAt
    <3> QED
      BY <3>3, <3>4, <2>f, <1>d DEF RolesFit
  <2>t. EventsTyped'
    BY <2>f DEF EventsInv, EventsTyped, GC_notify_all_marker, Notified
  <2>h. "help?" \in LockHeldAt <=> at[t].pc \in LockHeldAt
    BY <1>w DEF LockHeldAt
  <2> QED
    BY <2>l, <2>c, <2>r, <2>t, <2>h, <2>f, <1>w, StepKept
<1> QED
  BY <1>a, <1>b, <1>c, <1>d, <1>n

LEMMA EnterKeeps ==
  ASSUME EventsInv, NEW t \in Actor, BuilderEnter(t)
  PROVE  EventsInv'
<1>w. at[t].pc = "out" /\ Whereabouts[t] = "out"
  BY WhereNow DEF BuilderEnter, In
<1>n. GC_helper_count \in Nat /\ GC_active_count \in Nat /\ GC_fl_builder_count \in Nat /\ onMarkStack \in Nat
  BY CountsAreNat
<1>b. t \in FlBuilder /\ t \notin WinHelper /\ t # Leader
  BY EventsAssumption DEF BuilderEnter
<1>f. /\ GC_mark_mutex_state' = GC_mark_mutex_state /\ mark_mutex_event' = mark_mutex_event
      /\ builder_cv' = builder_cv
      /\ GC_help_wanted' = GC_help_wanted
      /\ mark_cv' = mark_cv
      /\ GC_helper_count' = GC_helper_count
      /\ GC_active_count' = GC_active_count
      /\ GC_fl_builder_count' = GC_fl_builder_count
      /\ onMarkStack' = onMarkStack
      /\ allocator = NoOwner
      /\ allocator' = t
      /\ TakeLock(t, "count")
  BY <1>w DEF BuilderEnter, lockVars, clientVars, markVars
<1>l. Lands(t, "lock", "count")
  <2>1. "count" \in Plain /\ "count" \in ComesTo
    BY DEF Plain, ComesTo, LockHeldAt, FreeAt
  <2>2. SeatsTyped /\ TakeLock(t, "count")
    BY <1>f DEF EventsInv
  <2> QED
    BY <2>1, <2>2, Landing
<1>g. /\ Gain(JoinedAt, "out", "count") = 0 /\ Gain(ActiveAt, "out", "count") = 0
      /\ Gain(BuildingAt, "out", "count") = 0 /\ Gain(WorkingAt, "out", "count") = 0
  BY DEF Gain, JoinedAt, ActiveAt, WorkingAt, BuildingAt
<1>c. Tallied("out", "count")
  BY <1>f, <1>g, <1>n DEF Tallied
<1>r. RolesFit(t, "count")
  <2>1. RolesKept /\ Leader \notin WinHelper /\ Leader \notin FlBuilder /\ NoOwner \notin FlBuilder
         /\ WinHelper \intersect FlBuilder = {}
    BY EventsAssumption DEF EventsInv
  <2>2. /\ "count" \in BuilderAt /\ "count" \notin JoinedAt
    BY DEF BuilderAt, BuildingAt, JoinedAt, ActiveAt, WorkingAt
  <2>3. "count" \notin BuildingAt /\ NoOwner # Leader
    BY DEF BuildingAt, NoOwner, Leader
  <2> QED
    BY <2>1, <2>2, <2>3, <1>f, <1>b, <1>w DEF RolesFit
<1>t. EventsTyped'
  BY <1>f, <1>b DEF EventsInv, EventsTyped
<1>h. "lock" \in LockHeldAt <=> at[t].pc \in LockHeldAt
  BY <1>w DEF LockHeldAt
<1> QED
  BY <1>l, <1>c, <1>r, <1>t, <1>h, <1>f, <1>w, StepKept

LEMMA CountKeeps ==
  ASSUME EventsInv, NEW t \in Actor, BuilderCount(t)
  PROVE  EventsInv'
<1>w. at[t].pc = "count" /\ Whereabouts[t] = "count"
  BY WhereNow DEF BuilderCount, In
<1>n. GC_helper_count \in Nat /\ GC_active_count \in Nat /\ GC_fl_builder_count \in Nat /\ onMarkStack \in Nat
  BY CountsAreNat
<1>b. t \in FlBuilder /\ t \notin WinHelper /\ t # Leader
  <2>1. RolesKept /\ "count" \notin HelperAt /\ "count" \notin LeaderAt
    BY DEF EventsInv, HelperAt, LeaderAt, JoinedAt, ActiveAt, WorkingAt
  <2>2. t \notin WinHelper /\ t # Leader
    BY <2>1, <1>w DEF RolesKept
  <2> QED
    BY <2>2 DEF Actor
<1>f. /\ GC_mark_mutex_state' = GC_mark_mutex_state /\ mark_mutex_event' = mark_mutex_event
      /\ builder_cv' = builder_cv
      /\ allocator' = allocator
      /\ GC_help_wanted' = GC_help_wanted
      /\ mark_cv' = mark_cv
      /\ GC_helper_count' = GC_helper_count
      /\ GC_active_count' = GC_active_count
      /\ onMarkStack' = onMarkStack
      /\ GC_fl_builder_count' = GC_fl_builder_count + 1
      /\ DropLock(t, "build")
  BY <1>w DEF BuilderCount, lockVars, clientVars, markVars
<1>l. Lands(t, "unlock", "build")
  <2>1. "build" \in Plain /\ "build" \in FreeAt
    BY DEF Plain, ComesTo, LockHeldAt, FreeAt
  <2>2. SeatsTyped /\ DropLock(t, "build")
    BY <1>f DEF EventsInv
  <2> QED
    BY <2>1, <2>2, Landing
<1>g. /\ Gain(JoinedAt, "count", "build") = 0 /\ Gain(ActiveAt, "count", "build") = 0
      /\ Gain(BuildingAt, "count", "build") = 1 /\ Gain(WorkingAt, "count", "build") = 0
  BY DEF Gain, JoinedAt, ActiveAt, WorkingAt, BuildingAt
<1>c. Tallied("count", "build")
  BY <1>f, <1>g, <1>n DEF Tallied
<1>r. RolesFit(t, "build")
  <2>1. RolesKept /\ Leader \notin WinHelper /\ Leader \notin FlBuilder /\ NoOwner \notin FlBuilder
         /\ WinHelper \intersect FlBuilder = {}
    BY EventsAssumption DEF EventsInv
  <2>2. /\ "build" \in BuilderAt /\ "build" \notin JoinedAt
    BY DEF BuilderAt, BuildingAt, JoinedAt, ActiveAt, WorkingAt
  <2>3. allocator = t /\ Whereabouts[Leader] \in NotMarking
    <3>1. allocator = t
      BY <2>1, <1>b, <1>w DEF RolesKept
    <3>2. Whereabouts[Leader] = "out"
      BY <3>1, <2>1, <1>b DEF RolesKept
    <3> QED
      BY <3>1, <3>2 DEF NotMarking
  <2> QED
    BY <2>1, <2>2, <2>3, <1>f, <1>b, <1>w DEF RolesFit
<1>t. EventsTyped'
  BY <1>f DEF EventsInv, EventsTyped
<1>h. "unlock" \in LockHeldAt <=> at[t].pc \in LockHeldAt
  BY <1>w DEF LockHeldAt
<1> QED
  BY <1>l, <1>c, <1>r, <1>t, <1>h, <1>f, <1>w, StepKept

LEMMA BuildKeeps ==
  ASSUME EventsInv, NEW t \in Actor, BuilderBuild(t)
  PROVE  EventsInv'
<1>w. at[t].pc = "build" /\ Whereabouts[t] = "build"
  BY WhereNow DEF BuilderBuild, In
<1>n. GC_helper_count \in Nat /\ GC_active_count \in Nat /\ GC_fl_builder_count \in Nat /\ onMarkStack \in Nat
  BY CountsAreNat
<1>b. t \in FlBuilder /\ t \notin WinHelper /\ t # Leader
  <2>1. RolesKept /\ "build" \notin HelperAt /\ "build" \notin LeaderAt
    BY DEF EventsInv, HelperAt, LeaderAt, JoinedAt, ActiveAt, WorkingAt
  <2>2. t \notin WinHelper /\ t # Leader
    BY <2>1, <1>w DEF RolesKept
  <2> QED
    BY <2>2 DEF Actor
<1>f. /\ GC_mark_mutex_state' = GC_mark_mutex_state /\ mark_mutex_event' = mark_mutex_event
      /\ builder_cv' = builder_cv
      /\ GC_help_wanted' = GC_help_wanted
      /\ mark_cv' = mark_cv
      /\ GC_helper_count' = GC_helper_count
      /\ GC_active_count' = GC_active_count
      /\ GC_fl_builder_count' = GC_fl_builder_count
      /\ onMarkStack' = onMarkStack
      /\ allocator' = NoOwner
      /\ TakeLock(t, "uncount")
  BY <1>w DEF BuilderBuild, lockVars, clientVars, markVars
<1>l. Lands(t, "lock", "uncount")
  <2>1. "uncount" \in Plain /\ "uncount" \in ComesTo
    BY DEF Plain, ComesTo, LockHeldAt, FreeAt
  <2>2. SeatsTyped /\ TakeLock(t, "uncount")
    BY <1>f DEF EventsInv
  <2> QED
    BY <2>1, <2>2, Landing
<1>g. /\ Gain(JoinedAt, "build", "uncount") = 0 /\ Gain(ActiveAt, "build", "uncount") = 0
      /\ Gain(BuildingAt, "build", "uncount") = 0 /\ Gain(WorkingAt, "build", "uncount") = 0
  BY DEF Gain, JoinedAt, ActiveAt, WorkingAt, BuildingAt
<1>c. Tallied("build", "uncount")
  BY <1>f, <1>g, <1>n DEF Tallied
<1>r. RolesFit(t, "uncount")
  <2>1. RolesKept /\ Leader \notin WinHelper /\ Leader \notin FlBuilder /\ NoOwner \notin FlBuilder
         /\ WinHelper \intersect FlBuilder = {}
    BY EventsAssumption DEF EventsInv
  <2>2. /\ "uncount" \in BuilderAt /\ "uncount" \notin JoinedAt
    BY DEF BuilderAt, BuildingAt, JoinedAt, ActiveAt, WorkingAt
  <2>3. allocator = t /\ "build" \in BuildingAt /\ NoOwner # Leader
    <3>1. allocator = t
      BY <2>1, <1>b, <1>w DEF RolesKept
    <3> QED
      BY <3>1 DEF BuildingAt, NoOwner, Leader
  <2> QED
    BY <2>1, <2>2, <2>3, <1>f, <1>b, <1>w DEF RolesFit
<1>t. EventsTyped'
  BY <1>f DEF EventsInv, EventsTyped
<1>h. "lock" \in LockHeldAt <=> at[t].pc \in LockHeldAt
  BY <1>w DEF LockHeldAt
<1> QED
  BY <1>l, <1>c, <1>r, <1>t, <1>h, <1>f, <1>w, StepKept

LEMMA UncountKeeps ==
  ASSUME EventsInv, NEW t \in Actor, GC_notify_all_builder_win32(t)
  PROVE  EventsInv'
<1>w. at[t].pc = "uncount" /\ Whereabouts[t] = "uncount"
  BY WhereNow DEF GC_notify_all_builder_win32, In
<1>n. GC_helper_count \in Nat /\ GC_active_count \in Nat /\ GC_fl_builder_count \in Nat /\ onMarkStack \in Nat
  BY CountsAreNat
<1>b. t \in FlBuilder /\ t \notin WinHelper /\ t # Leader
  <2>1. RolesKept /\ "uncount" \notin HelperAt /\ "uncount" \notin LeaderAt
    BY DEF EventsInv, HelperAt, LeaderAt, JoinedAt, ActiveAt, WorkingAt
  <2>2. t \notin WinHelper /\ t # Leader
    BY <2>1, <1>w DEF RolesKept
  <2> QED
    BY <2>2 DEF Actor
<1>f. /\ GC_mark_mutex_state' = GC_mark_mutex_state /\ mark_mutex_event' = mark_mutex_event
      /\ allocator' = allocator
      /\ GC_help_wanted' = GC_help_wanted
      /\ mark_cv' = mark_cv
      /\ GC_helper_count' = GC_helper_count
      /\ GC_active_count' = GC_active_count
      /\ onMarkStack' = onMarkStack
      /\ GC_fl_builder_count' = GC_fl_builder_count - 1
      /\ builder_cv' \in BOOLEAN
      /\ DropLock(t, "out")
  BY <1>w DEF GC_notify_all_builder_win32, lockVars, clientVars, markVars
<1>l. Lands(t, "unlock", "out")
  <2>1. "out" \in Plain /\ "out" \in FreeAt
    BY DEF Plain, ComesTo, LockHeldAt, FreeAt
  <2>2. SeatsTyped /\ DropLock(t, "out")
    BY <1>f DEF EventsInv
  <2> QED
    BY <2>1, <2>2, Landing
<1>g. /\ Gain(JoinedAt, "uncount", "out") = 0 /\ Gain(ActiveAt, "uncount", "out") = 0
      /\ Gain(BuildingAt, "uncount", "out") = -1 /\ Gain(WorkingAt, "uncount", "out") = 0
  BY DEF Gain, JoinedAt, ActiveAt, WorkingAt, BuildingAt
<1>c. Tallied("uncount", "out")
  BY <1>f, <1>g, <1>n DEF Tallied
<1>r. RolesFit(t, "out")
  <2>1. RolesKept /\ Leader \notin WinHelper /\ Leader \notin FlBuilder /\ NoOwner \notin FlBuilder
         /\ WinHelper \intersect FlBuilder = {}
    BY EventsAssumption DEF EventsInv
  <2>2. /\ "out" \in BuilderAt /\ "out" \notin JoinedAt
    BY DEF BuilderAt, BuildingAt, JoinedAt, ActiveAt, WorkingAt
  <2>3. allocator # t /\ "out" \notin BuildingAt
    <3>1. allocator # t
      BY <2>1, <1>b, <1>w DEF RolesKept
    <3> QED
      BY <3>1 DEF BuildingAt
  <2> QED
    BY <2>1, <2>2, <2>3, <1>f, <1>b, <1>w DEF RolesFit
<1>t. EventsTyped'
  BY <1>f DEF EventsInv, EventsTyped
<1>h. "unlock" \in LockHeldAt <=> at[t].pc \in LockHeldAt
  BY <1>w DEF LockHeldAt
<1> QED
  BY <1>l, <1>c, <1>r, <1>t, <1>h, <1>f, <1>w, StepKept

LEMMA StartKeeps ==
  ASSUME EventsInv, StartGc
  PROVE  EventsInv'
<1> DEFINE t == Leader
<1>a. t \in Actor
  BY DEF Actor
<1>w. at[t].pc = "out" /\ Whereabouts[t] = "out"
  BY <1>a, WhereNow DEF StartGc, In
<1>n. GC_helper_count \in Nat /\ GC_active_count \in Nat /\ GC_fl_builder_count \in Nat /\ onMarkStack \in Nat
  BY CountsAreNat
<1>f. /\ GC_mark_mutex_state' = GC_mark_mutex_state /\ mark_mutex_event' = mark_mutex_event
      /\ builder_cv' = builder_cv
      /\ GC_help_wanted' = GC_help_wanted
      /\ mark_cv' = mark_cv
      /\ GC_helper_count' = GC_helper_count
      /\ GC_active_count' = GC_active_count
      /\ GC_fl_builder_count' = GC_fl_builder_count
      /\ onMarkStack' = onMarkStack
      /\ allocator = NoOwner
      /\ allocator' = t
      /\ TakeLock(t, "reclaimed?")
  BY <1>w DEF StartGc, lockVars, clientVars, markVars
<1>l. Lands(t, "lock", "reclaimed?")
  <2>1. "reclaimed?" \in Plain /\ "reclaimed?" \in ComesTo
    BY DEF Plain, ComesTo, LockHeldAt, FreeAt
  <2>2. SeatsTyped /\ TakeLock(t, "reclaimed?")
    BY <1>f DEF EventsInv
  <2> QED
    BY <2>1, <2>2, <1>a, Landing
<1>g. /\ Gain(JoinedAt, "out", "reclaimed?") = 0 /\ Gain(ActiveAt, "out", "reclaimed?") = 0
      /\ Gain(BuildingAt, "out", "reclaimed?") = 0 /\ Gain(WorkingAt, "out", "reclaimed?") = 0
  BY DEF Gain, JoinedAt, ActiveAt, WorkingAt, BuildingAt
<1>c. Tallied("out", "reclaimed?")
  BY <1>f, <1>g, <1>n DEF Tallied
<1>r. RolesFit(t, "reclaimed?")
  <2>1. RolesKept /\ Leader \notin WinHelper /\ Leader \notin FlBuilder /\ NoOwner \notin FlBuilder
         /\ WinHelper \intersect FlBuilder = {}
    BY EventsAssumption DEF EventsInv
  <2>2. "reclaimed?" \in LeaderAt
    BY DEF LeaderAt, JoinedAt, ActiveAt, WorkingAt
  <2>3. /\ ~GC_help_wanted /\ AtPlaces(Whereabouts, JoinedAt) = {}
        /\ "reclaimed?" \in NotMarking /\ "reclaimed?" # "out"
    <3>1. "out" \notin {"helpers?"} \union JoinedAt
      BY DEF JoinedAt, ActiveAt, WorkingAt
    <3>2. ~GC_help_wanted /\ AtPlaces(Whereabouts, JoinedAt) = {}
      BY <3>1, <2>1, <1>w DEF RolesKept
    <3> QED
      BY <3>2 DEF NotMarking
  <2> QED
    BY <2>1, <2>2, <2>3, <1>f, <1>w DEF RolesFit
<1>t. EventsTyped'
  BY <1>f DEF EventsInv, EventsTyped
<1>h. "lock" \in LockHeldAt <=> at[t].pc \in LockHeldAt
  BY <1>w DEF LockHeldAt
<1> QED
  BY <1>l, <1>c, <1>r, <1>t, <1>h, <1>f, <1>w, <1>a, StepKept

LEMMA ReclaimKeeps ==
  ASSUME EventsInv, GC_wait_for_reclaim_win32
  PROVE  EventsInv'
<1> DEFINE t == Leader
<1>a. t \in Actor
  BY DEF Actor
<1>w. at[t].pc = "reclaimed?" /\ Whereabouts[t] = "reclaimed?"
  BY <1>a, WhereNow DEF GC_wait_for_reclaim_win32, In
<1>n. GC_helper_count \in Nat /\ GC_active_count \in Nat /\ GC_fl_builder_count \in Nat /\ onMarkStack \in Nat
  BY CountsAreNat
<1>x. CASE BuildersGone
  <2>f. /\ GC_mark_mutex_state' = GC_mark_mutex_state /\ mark_mutex_event' = mark_mutex_event
        /\ builder_cv' = builder_cv
        /\ allocator' = allocator
        /\ GC_help_wanted' = GC_help_wanted
        /\ mark_cv' = mark_cv
        /\ GC_helper_count' = GC_helper_count
        /\ GC_active_count' = GC_active_count
        /\ GC_fl_builder_count' = GC_fl_builder_count
        /\ onMarkStack' = onMarkStack
        /\ DropLock(t, "mark")
    BY <1>w, <1>x, <1>n DEF GC_wait_for_reclaim_win32, lockVars, clientVars, markVars
  <2>l. Lands(t, "unlock", "mark")
    <3>1. "mark" \in Plain /\ "mark" \in FreeAt
      BY DEF Plain, ComesTo, LockHeldAt, FreeAt
    <3>2. SeatsTyped /\ DropLock(t, "mark")
      BY <2>f DEF EventsInv
    <3> QED
      BY <3>1, <3>2, <1>a, Landing
  <2>g. /\ Gain(JoinedAt, "reclaimed?", "mark") = 0 /\ Gain(ActiveAt, "reclaimed?", "mark") = 0
        /\ Gain(BuildingAt, "reclaimed?", "mark") = 0 /\ Gain(WorkingAt, "reclaimed?", "mark") = 0
    BY DEF Gain, JoinedAt, ActiveAt, WorkingAt, BuildingAt
  <2>c. Tallied("reclaimed?", "mark")
    BY <2>f, <2>g, <1>n, <1>x DEF Tallied
  <2>r. RolesFit(t, "mark")
    <3>1. RolesKept /\ Leader \notin WinHelper /\ Leader \notin FlBuilder /\ NoOwner \notin FlBuilder
           /\ WinHelper \intersect FlBuilder = {}
      BY EventsAssumption DEF EventsInv
    <3>2. "mark" \in LeaderAt
      BY DEF LeaderAt, JoinedAt, ActiveAt, WorkingAt
    <3>k. /\ allocator = Leader /\ ~GC_help_wanted /\ AtPlaces(Whereabouts, JoinedAt) = {}
      <4>1. "reclaimed?" \notin {"helpers?"} \union JoinedAt
        BY DEF JoinedAt, ActiveAt, WorkingAt
      <4> QED
        BY <4>1, <3>1, <1>w DEF RolesKept
    <3>3. allocator = Leader /\ ~GC_help_wanted /\ AtPlaces(Whereabouts, JoinedAt) = {} /\ AtPlaces(Whereabouts, BuildingAt) = {}
      BY <3>k, <1>x, NoActorCounted DEF EventsInv, EventsCounted, BuildersGone
    <3> QED
      BY <3>1, <3>2, <3>3, <2>f, <1>w, <1>x DEF RolesFit
  <2>t. EventsTyped'
    BY <2>f DEF EventsInv, EventsTyped
  <2>h. "unlock" \in LockHeldAt <=> at[t].pc \in LockHeldAt
    BY <1>w DEF LockHeldAt
  <2> QED
    BY <2>l, <2>c, <2>r, <2>t, <2>h, <2>f, <1>w, <1>a, StepKept
<1>y. CASE ~BuildersGone
  <2>f. /\ GC_mark_mutex_state' = GC_mark_mutex_state /\ mark_mutex_event' = mark_mutex_event
        /\ allocator' = allocator
        /\ GC_help_wanted' = GC_help_wanted
        /\ mark_cv' = mark_cv
        /\ GC_helper_count' = GC_helper_count
        /\ GC_active_count' = GC_active_count
        /\ GC_fl_builder_count' = GC_fl_builder_count
        /\ onMarkStack' = onMarkStack
        /\ builder_cv' = FALSE
        /\ DropLock(t, "await_builders")
    BY <1>w, <1>y, <1>n DEF GC_wait_for_reclaim_win32, lockVars, clientVars, markVars
  <2>l. Lands(t, "unlock", "await_builders")
    <3>1. "await_builders" \in Plain /\ "await_builders" \in FreeAt
      BY DEF Plain, ComesTo, LockHeldAt, FreeAt
    <3>2. SeatsTyped /\ DropLock(t, "await_builders")
      BY <2>f DEF EventsInv
    <3> QED
      BY <3>1, <3>2, <1>a, Landing
  <2>g. /\ Gain(JoinedAt, "reclaimed?", "await_builders") = 0 /\ Gain(ActiveAt, "reclaimed?", "await_builders") = 0
        /\ Gain(BuildingAt, "reclaimed?", "await_builders") = 0 /\ Gain(WorkingAt, "reclaimed?", "await_builders") = 0
    BY DEF Gain, JoinedAt, ActiveAt, WorkingAt, BuildingAt
  <2>c. Tallied("reclaimed?", "await_builders")
    BY <2>f, <2>g, <1>n, <1>y DEF Tallied
  <2>r. RolesFit(t, "await_builders")
    <3>1. RolesKept /\ Leader \notin WinHelper /\ Leader \notin FlBuilder /\ NoOwner \notin FlBuilder
           /\ WinHelper \intersect FlBuilder = {}
      BY EventsAssumption DEF EventsInv
    <3>2. "await_builders" \in LeaderAt
      BY DEF LeaderAt, JoinedAt, ActiveAt, WorkingAt
    <3>k. /\ allocator = Leader /\ ~GC_help_wanted /\ AtPlaces(Whereabouts, JoinedAt) = {}
      <4>1. "reclaimed?" \notin {"helpers?"} \union JoinedAt
        BY DEF JoinedAt, ActiveAt, WorkingAt
      <4> QED
        BY <4>1, <3>1, <1>w DEF RolesKept
    <3>3. allocator = Leader /\ ~GC_help_wanted /\ AtPlaces(Whereabouts, JoinedAt) = {} /\ "await_builders" \in NotMarking
      BY <3>k DEF NotMarking
    <3> QED
      BY <3>1, <3>2, <3>3, <2>f, <1>w, <1>y DEF RolesFit
  <2>t. EventsTyped'
    BY <2>f DEF EventsInv, EventsTyped
  <2>h. "unlock" \in LockHeldAt <=> at[t].pc \in LockHeldAt
    BY <1>w DEF LockHeldAt
  <2> QED
    BY <2>l, <2>c, <2>r, <2>t, <2>h, <2>f, <1>w, <1>a, StepKept
<1> QED
  BY <1>x, <1>y, <1>n

LEMMA AwaitBuildersKeeps ==
  ASSUME EventsInv, AwaitBuilders
  PROVE  EventsInv'
<1> DEFINE t == Leader
<1>a. t \in Actor
  BY DEF Actor
<1>w. at[t].pc = "await_builders" /\ Whereabouts[t] = "await_builders"
  BY <1>a, WhereNow DEF AwaitBuilders, In
<1>n. GC_helper_count \in Nat /\ GC_active_count \in Nat /\ GC_fl_builder_count \in Nat /\ onMarkStack \in Nat
  BY CountsAreNat
<1>f. /\ GC_mark_mutex_state' = GC_mark_mutex_state /\ mark_mutex_event' = mark_mutex_event
      /\ builder_cv' = builder_cv
      /\ allocator' = allocator
      /\ GC_help_wanted' = GC_help_wanted
      /\ mark_cv' = mark_cv
      /\ GC_helper_count' = GC_helper_count
      /\ GC_active_count' = GC_active_count
      /\ GC_fl_builder_count' = GC_fl_builder_count
      /\ onMarkStack' = onMarkStack
      /\ TakeLock(t, "reclaimed?")
  BY <1>w DEF AwaitBuilders, lockVars, clientVars, markVars
<1>l. Lands(t, "lock", "reclaimed?")
  <2>1. "reclaimed?" \in Plain /\ "reclaimed?" \in ComesTo
    BY DEF Plain, ComesTo, LockHeldAt, FreeAt
  <2>2. SeatsTyped /\ TakeLock(t, "reclaimed?")
    BY <1>f DEF EventsInv
  <2> QED
    BY <2>1, <2>2, <1>a, Landing
<1>g. /\ Gain(JoinedAt, "await_builders", "reclaimed?") = 0 /\ Gain(ActiveAt, "await_builders", "reclaimed?") = 0
      /\ Gain(BuildingAt, "await_builders", "reclaimed?") = 0 /\ Gain(WorkingAt, "await_builders", "reclaimed?") = 0
  BY DEF Gain, JoinedAt, ActiveAt, WorkingAt, BuildingAt
<1>c. Tallied("await_builders", "reclaimed?")
  BY <1>f, <1>g, <1>n DEF Tallied
<1>r. RolesFit(t, "reclaimed?")
  <2>1. RolesKept /\ Leader \notin WinHelper /\ Leader \notin FlBuilder /\ NoOwner \notin FlBuilder
         /\ WinHelper \intersect FlBuilder = {}
    BY EventsAssumption DEF EventsInv
  <2>2. "reclaimed?" \in LeaderAt
    BY DEF LeaderAt, JoinedAt, ActiveAt, WorkingAt
  <2>k. /\ allocator = Leader /\ ~GC_help_wanted /\ AtPlaces(Whereabouts, JoinedAt) = {}
    <3>1. "await_builders" \notin {"helpers?"} \union JoinedAt
      BY DEF JoinedAt, ActiveAt, WorkingAt
    <3> QED
      BY <3>1, <2>1, <1>w DEF RolesKept
  <2>3. allocator = Leader /\ ~GC_help_wanted /\ AtPlaces(Whereabouts, JoinedAt) = {} /\ "reclaimed?" \in NotMarking
    BY <2>k DEF NotMarking
  <2> QED
    BY <2>1, <2>2, <2>3, <1>f, <1>w DEF RolesFit
<1>t. EventsTyped'
  BY <1>f DEF EventsInv, EventsTyped
<1>h. "lock" \in LockHeldAt <=> at[t].pc \in LockHeldAt
  BY <1>w DEF LockHeldAt
<1> QED
  BY <1>l, <1>c, <1>r, <1>t, <1>h, <1>f, <1>w, <1>a, StepKept

LEMMA BeginKeeps ==
  ASSUME EventsInv, BeginMark
  PROVE  EventsInv'
<1> DEFINE t == Leader
<1>a. t \in Actor
  BY DEF Actor
<1>w. at[t].pc = "mark" /\ Whereabouts[t] = "mark"
  BY <1>a, WhereNow DEF BeginMark, In
<1>n. GC_helper_count \in Nat /\ GC_active_count \in Nat /\ GC_fl_builder_count \in Nat /\ onMarkStack \in Nat
  BY CountsAreNat
<1>f. /\ GC_mark_mutex_state' = GC_mark_mutex_state /\ mark_mutex_event' = mark_mutex_event
      /\ builder_cv' = builder_cv
      /\ allocator' = allocator
      /\ GC_help_wanted' = GC_help_wanted
      /\ mark_cv' = mark_cv
      /\ GC_helper_count' = GC_helper_count
      /\ GC_active_count' = GC_active_count
      /\ GC_fl_builder_count' = GC_fl_builder_count
      /\ onMarkStack' = onMarkStack
      /\ TakeLock(t, "ask_help")
  BY <1>w DEF BeginMark, lockVars, clientVars, markVars
<1>l. Lands(t, "lock", "ask_help")
  <2>1. "ask_help" \in Plain /\ "ask_help" \in ComesTo
    BY DEF Plain, ComesTo, LockHeldAt, FreeAt
  <2>2. SeatsTyped /\ TakeLock(t, "ask_help")
    BY <1>f DEF EventsInv
  <2> QED
    BY <2>1, <2>2, <1>a, Landing
<1>g. /\ Gain(JoinedAt, "mark", "ask_help") = 0 /\ Gain(ActiveAt, "mark", "ask_help") = 0
      /\ Gain(BuildingAt, "mark", "ask_help") = 0 /\ Gain(WorkingAt, "mark", "ask_help") = 0
  BY DEF Gain, JoinedAt, ActiveAt, WorkingAt, BuildingAt
<1>c. Tallied("mark", "ask_help")
  BY <1>f, <1>g, <1>n DEF Tallied
<1>r. RolesFit(t, "ask_help")
  <2>1. RolesKept /\ Leader \notin WinHelper /\ Leader \notin FlBuilder /\ NoOwner \notin FlBuilder
         /\ WinHelper \intersect FlBuilder = {}
    BY EventsAssumption DEF EventsInv
  <2>2. "ask_help" \in LeaderAt
    BY DEF LeaderAt, JoinedAt, ActiveAt, WorkingAt
  <2>k. /\ allocator = Leader /\ ~GC_help_wanted /\ AtPlaces(Whereabouts, JoinedAt) = {}
    <3>1. "mark" \notin {"helpers?"} \union JoinedAt
      BY DEF JoinedAt, ActiveAt, WorkingAt
    <3> QED
      BY <3>1, <2>1, <1>w DEF RolesKept
  <2>3. allocator = Leader /\ ~GC_help_wanted /\ AtPlaces(Whereabouts, JoinedAt) = {} /\ AtPlaces(Whereabouts, BuildingAt) = {}
    BY <2>k, <2>1, <1>w DEF RolesKept
  <2> QED
    BY <2>1, <2>2, <2>3, <1>f, <1>w DEF RolesFit
<1>t. EventsTyped'
  BY <1>f DEF EventsInv, EventsTyped
<1>h. "lock" \in LockHeldAt <=> at[t].pc \in LockHeldAt
  BY <1>w DEF LockHeldAt
<1> QED
  BY <1>l, <1>c, <1>r, <1>t, <1>h, <1>f, <1>w, <1>a, StepKept

LEMMA AskKeeps ==
  ASSUME EventsInv, AskHelp
  PROVE  EventsInv'
<1> DEFINE t == Leader
<1>a. t \in Actor
  BY DEF Actor
<1>w. at[t].pc = "ask_help" /\ Whereabouts[t] = "ask_help"
  BY <1>a, WhereNow DEF AskHelp, In
<1>n. GC_helper_count \in Nat /\ GC_active_count \in Nat /\ GC_fl_builder_count \in Nat /\ onMarkStack \in Nat
  BY CountsAreNat
<1>j. AtPlaces(Whereabouts, JoinedAt) = {} /\ GC_helper_count = 0 /\ Entries \in Nat
  <2>1. "ask_help" \notin {"helpers?"} \union JoinedAt
    BY DEF JoinedAt, ActiveAt, WorkingAt
  <2>2. AtPlaces(Whereabouts, JoinedAt) = {}
    BY <2>1, <1>w DEF EventsInv, RolesKept
  <2>3. GC_helper_count = 0
    BY <2>2, NoActorCounted DEF EventsInv, EventsCounted
  <2> QED
    BY <2>2, <2>3, EventsAssumption
<1>f. /\ GC_mark_mutex_state' = GC_mark_mutex_state /\ mark_mutex_event' = mark_mutex_event
      /\ builder_cv' = builder_cv
      /\ allocator' = allocator
      /\ GC_active_count' = GC_active_count
      /\ GC_fl_builder_count' = GC_fl_builder_count
      /\ GC_helper_count' = 1
      /\ GC_help_wanted' = TRUE
      /\ onMarkStack' = Entries
      /\ GC_notify_all_marker(t)
      /\ To(t, "mark_local")
  BY <1>w DEF AskHelp, lockVars, clientVars, markVars
<1>l. Lands(t, "mark_local", "mark_local")
  <2>1. "mark_local" \in Plain
    BY DEF Plain, ComesTo, LockHeldAt, FreeAt
  <2>2. SeatsTyped /\ To(t, "mark_local")
    BY <1>f DEF EventsInv
  <2> QED
    BY <2>1, <2>2, <1>a, Landing
<1>g. /\ Gain(JoinedAt, "ask_help", "mark_local") = 1 /\ Gain(ActiveAt, "ask_help", "mark_local") = 0
      /\ Gain(BuildingAt, "ask_help", "mark_local") = 0 /\ Gain(WorkingAt, "ask_help", "mark_local") = 0
  BY DEF Gain, JoinedAt, ActiveAt, WorkingAt, BuildingAt
<1>c. Tallied("ask_help", "mark_local")
  BY <1>f, <1>g, <1>n, <1>j DEF Tallied
<1>r. RolesFit(t, "mark_local")
  <2>1. RolesKept /\ Leader \notin WinHelper /\ Leader \notin FlBuilder /\ NoOwner \notin FlBuilder
         /\ WinHelper \intersect FlBuilder = {}
    BY EventsAssumption DEF EventsInv
  <2>2. "mark_local" \in LeaderAt
    BY DEF LeaderAt, JoinedAt, ActiveAt, WorkingAt
  <2>k. /\ allocator = Leader /\ ~GC_help_wanted /\ AtPlaces(Whereabouts, JoinedAt) = {}
    <3>1. "ask_help" \notin {"helpers?"} \union JoinedAt
      BY DEF JoinedAt, ActiveAt, WorkingAt
    <3> QED
      BY <3>1, <2>1, <1>w DEF RolesKept
  <2>j. "mark_local" \in JoinedAt
    BY DEF JoinedAt
  <2>3. "mark_local" \in JoinedAt /\ allocator = Leader /\ ~GC_help_wanted /\ AtPlaces(Whereabouts, JoinedAt) = {} /\ AtPlaces(Whereabouts, BuildingAt) = {}
    BY <2>j, <2>k, <2>1, <1>w DEF RolesKept
  <2> QED
    BY <2>1, <2>2, <2>3, <1>f, <1>w DEF RolesFit
<1>t. EventsTyped'
  BY <1>f DEF EventsInv, EventsTyped, GC_notify_all_marker, Notified
<1>h. "mark_local" \in LockHeldAt <=> at[t].pc \in LockHeldAt
  BY <1>w DEF LockHeldAt
<1> QED
  BY <1>l, <1>c, <1>r, <1>t, <1>h, <1>f, <1>w, <1>a, StepKept

LEMMA HelpersDoneKeeps ==
  ASSUME EventsInv, HelpersDone
  PROVE  EventsInv'
<1> DEFINE t == Leader
<1>a. t \in Actor
  BY DEF Actor
<1>w. at[t].pc = "helpers?" /\ Whereabouts[t] = "helpers?"
  BY <1>a, WhereNow DEF HelpersDone, In
<1>n. GC_helper_count \in Nat /\ GC_active_count \in Nat /\ GC_fl_builder_count \in Nat /\ onMarkStack \in Nat
  BY CountsAreNat
<1>x. CASE GC_helper_count > 0
  <2>f. /\ GC_mark_mutex_state' = GC_mark_mutex_state /\ mark_mutex_event' = mark_mutex_event
        /\ builder_cv' = builder_cv
        /\ allocator' = allocator
        /\ GC_helper_count' = GC_helper_count
        /\ GC_active_count' = GC_active_count
        /\ GC_fl_builder_count' = GC_fl_builder_count
        /\ onMarkStack' = onMarkStack
        /\ GC_wait_marker(t, "helpers?")
    BY <1>w, <1>x, <1>n DEF HelpersDone, lockVars, clientVars, markVars
  <2>l. Lands(t, "unlock", "helpers?")
    <3>1. "helpers?" \in Plain
      BY DEF Plain, ComesTo, LockHeldAt, FreeAt
    <3>2. SeatsTyped /\ GC_wait_marker(t, "helpers?")
      BY <2>f DEF EventsInv
    <3> QED
      BY <3>1, <3>2, <1>a, Landing
  <2>g. /\ Gain(JoinedAt, "helpers?", "helpers?") = 0 /\ Gain(ActiveAt, "helpers?", "helpers?") = 0
        /\ Gain(BuildingAt, "helpers?", "helpers?") = 0 /\ Gain(WorkingAt, "helpers?", "helpers?") = 0
    BY DEF Gain, JoinedAt, ActiveAt, WorkingAt, BuildingAt
  <2>c. Tallied("helpers?", "helpers?")
    BY <2>f, <2>g, <1>n, <1>x DEF Tallied
  <2>r. RolesFit(t, "helpers?")
    <3>1. RolesKept /\ Leader \notin WinHelper /\ Leader \notin FlBuilder /\ NoOwner \notin FlBuilder
           /\ WinHelper \intersect FlBuilder = {}
      BY EventsAssumption DEF EventsInv
    <3>2. "helpers?" \in LeaderAt
      BY DEF LeaderAt, JoinedAt, ActiveAt, WorkingAt
    <3>3. allocator = Leader /\ AtPlaces(Whereabouts, BuildingAt) = {}
      BY <3>1, <1>w DEF RolesKept
    <3> QED
      BY <3>1, <3>2, <3>3, <2>f, <1>w, <1>x DEF RolesFit
  <2>t. EventsTyped'
    BY <2>f DEF EventsInv, EventsTyped, GC_wait_marker
  <2>h. "unlock" \in LockHeldAt <=> at[t].pc \in LockHeldAt
    BY <1>w DEF LockHeldAt
  <2> QED
    BY <2>l, <2>c, <2>r, <2>t, <2>h, <2>f, <1>w, <1>a, StepKept
<1>y. CASE GC_helper_count = 0
  <2>f. /\ GC_mark_mutex_state' = GC_mark_mutex_state /\ mark_mutex_event' = mark_mutex_event
        /\ builder_cv' = builder_cv
        /\ allocator' = allocator
        /\ mark_cv' = mark_cv
        /\ GC_helper_count' = GC_helper_count
        /\ GC_active_count' = GC_active_count
        /\ GC_fl_builder_count' = GC_fl_builder_count
        /\ onMarkStack' = onMarkStack
        /\ GC_help_wanted' = FALSE
        /\ DropLock(t, "tell")
    BY <1>w, <1>y, <1>n DEF HelpersDone, lockVars, clientVars, markVars
  <2>l. Lands(t, "unlock", "tell")
    <3>1. "tell" \in Plain /\ "tell" \in FreeAt
      BY DEF Plain, ComesTo, LockHeldAt, FreeAt
    <3>2. SeatsTyped /\ DropLock(t, "tell")
      BY <2>f DEF EventsInv
    <3> QED
      BY <3>1, <3>2, <1>a, Landing
  <2>g. /\ Gain(JoinedAt, "helpers?", "tell") = 0 /\ Gain(ActiveAt, "helpers?", "tell") = 0
        /\ Gain(BuildingAt, "helpers?", "tell") = 0 /\ Gain(WorkingAt, "helpers?", "tell") = 0
    BY DEF Gain, JoinedAt, ActiveAt, WorkingAt, BuildingAt
  <2>c. Tallied("helpers?", "tell")
    BY <2>f, <2>g, <1>n, <1>y DEF Tallied
  <2>r. RolesFit(t, "tell")
    <3>1. RolesKept /\ Leader \notin WinHelper /\ Leader \notin FlBuilder /\ NoOwner \notin FlBuilder
           /\ WinHelper \intersect FlBuilder = {}
      BY EventsAssumption DEF EventsInv
    <3>2. "tell" \in LeaderAt
      BY DEF LeaderAt, JoinedAt, ActiveAt, WorkingAt
    <3>3. allocator = Leader /\ AtPlaces(Whereabouts, BuildingAt) = {} /\ AtPlaces(Whereabouts, JoinedAt) = {}
      <4>1. AtPlaces(Whereabouts, JoinedAt) = {}
        BY <1>y, NoActorCounted DEF EventsInv, EventsCounted
      <4> QED
        BY <4>1, <3>1, <1>w DEF RolesKept
    <3> QED
      BY <3>1, <3>2, <3>3, <2>f, <1>w, <1>y DEF RolesFit
  <2>t. EventsTyped'
    BY <2>f DEF EventsInv, EventsTyped
  <2>h. "unlock" \in LockHeldAt <=> at[t].pc \in LockHeldAt
    BY <1>w DEF LockHeldAt
  <2> QED
    BY <2>l, <2>c, <2>r, <2>t, <2>h, <2>f, <1>w, <1>a, StepKept
<1> QED
  BY <1>x, <1>y, <1>n

LEMMA OverKeeps ==
  ASSUME EventsInv, TellMarkersOver
  PROVE  EventsInv'
<1> DEFINE t == Leader
<1>a. t \in Actor
  BY DEF Actor
<1>w. at[t].pc = "tell" /\ Whereabouts[t] = "tell"
  BY <1>a, WhereNow DEF TellMarkersOver, In
<1>n. GC_helper_count \in Nat /\ GC_active_count \in Nat /\ GC_fl_builder_count \in Nat /\ onMarkStack \in Nat
  BY CountsAreNat
<1>f. /\ GC_mark_mutex_state' = GC_mark_mutex_state /\ mark_mutex_event' = mark_mutex_event
      /\ builder_cv' = builder_cv
      /\ GC_help_wanted' = GC_help_wanted
      /\ GC_helper_count' = GC_helper_count
      /\ GC_active_count' = GC_active_count
      /\ GC_fl_builder_count' = GC_fl_builder_count
      /\ onMarkStack' = onMarkStack
      /\ allocator' = NoOwner
      /\ GC_notify_all_marker(t)
      /\ To(t, "out")
  BY <1>w DEF TellMarkersOver, lockVars, clientVars, markVars
<1>l. Lands(t, "out", "out")
  <2>1. "out" \in Plain
    BY DEF Plain, ComesTo, LockHeldAt, FreeAt
  <2>2. SeatsTyped /\ To(t, "out")
    BY <1>f DEF EventsInv
  <2> QED
    BY <2>1, <2>2, <1>a, Landing
<1>g. /\ Gain(JoinedAt, "tell", "out") = 0 /\ Gain(ActiveAt, "tell", "out") = 0
      /\ Gain(BuildingAt, "tell", "out") = 0 /\ Gain(WorkingAt, "tell", "out") = 0
  BY DEF Gain, JoinedAt, ActiveAt, WorkingAt, BuildingAt
<1>c. Tallied("tell", "out")
  BY <1>f, <1>g, <1>n DEF Tallied
<1>r. RolesFit(t, "out")
  <2>1. RolesKept /\ Leader \notin WinHelper /\ Leader \notin FlBuilder /\ NoOwner \notin FlBuilder
         /\ WinHelper \intersect FlBuilder = {}
    BY EventsAssumption DEF EventsInv
  <2>2. "out" \in LeaderAt
    BY DEF LeaderAt, JoinedAt, ActiveAt, WorkingAt
  <2>k. /\ allocator = Leader /\ ~GC_help_wanted /\ AtPlaces(Whereabouts, JoinedAt) = {}
    <3>1. "tell" \notin {"helpers?"} \union JoinedAt
      BY DEF JoinedAt, ActiveAt, WorkingAt
    <3> QED
      BY <3>1, <2>1, <1>w DEF RolesKept
  <2>3. allocator = Leader /\ ~GC_help_wanted /\ AtPlaces(Whereabouts, JoinedAt) = {} /\ "out" \in NotMarking /\ NoOwner # Leader
    BY <2>k DEF NotMarking, NoOwner, Leader
  <2> QED
    BY <2>1, <2>2, <2>3, <1>f, <1>w DEF RolesFit
<1>t. EventsTyped'
  BY <1>f DEF EventsInv, EventsTyped, GC_notify_all_marker, Notified
<1>h. "out" \in LockHeldAt <=> at[t].pc \in LockHeldAt
  BY <1>w DEF LockHeldAt
<1> QED
  BY <1>l, <1>c, <1>r, <1>t, <1>h, <1>f, <1>w, <1>a, StepKept

LEMMA AwaitKeeps ==
  ASSUME EventsInv, NEW t \in Actor, AwaitMarker(t)
  PROVE  EventsInv'
<1> DEFINE a == at[t].after
<1>w. at[t].pc = "await" /\ Whereabouts[t] = a /\ a \in {"helpers?", "help?", "idle"}
  <2>1. at[t].pc = "await" /\ SeatOK(t)
    BY DEF AwaitMarker, In, EventsInv, RolesKept
  <2>2. a \in {"helpers?", "help?", "idle"}
    BY <2>1 DEF SeatOK, Waits, In
  <2> QED
    BY <2>1, <2>2, WhereNow
<1>n. GC_helper_count \in Nat /\ GC_active_count \in Nat /\ GC_fl_builder_count \in Nat /\ onMarkStack \in Nat
  BY CountsAreNat
<1>f. /\ GC_mark_mutex_state' = GC_mark_mutex_state /\ mark_mutex_event' = mark_mutex_event
      /\ builder_cv' = builder_cv
      /\ allocator' = allocator
      /\ GC_help_wanted' = GC_help_wanted
      /\ mark_cv' = mark_cv
      /\ GC_helper_count' = GC_helper_count
      /\ GC_active_count' = GC_active_count
      /\ GC_fl_builder_count' = GC_fl_builder_count
      /\ onMarkStack' = onMarkStack
      /\ TakeLock(t, a)
  BY <1>w DEF AwaitMarker, lockVars, clientVars, markVars
<1>l. Lands(t, "lock", a)
  <2>1. a \in Plain /\ a \in ComesTo
    BY <1>w DEF Plain, ComesTo, LockHeldAt
  <2>2. SeatsTyped /\ TakeLock(t, a)
    BY <1>f DEF EventsInv
  <2> QED
    BY <2>1, <2>2, Landing
<1>g. \A P : Gain(P, a, a) = 0
  BY DEF Gain
<1>c. Tallied(Whereabouts[t], a)
  <2>1. Tallied(a, a)
    BY <1>f, <1>g, <1>n DEF Tallied
  <2> QED
    BY <2>1, <1>w
<1>r. RolesFit(t, a)
  <2>1. RolesFit(t, Whereabouts[t])
    BY <1>f, StayFits
  <2> QED
    BY <2>1, <1>w
<1>t. EventsTyped'
  BY <1>f DEF EventsInv, EventsTyped
<1>h. "lock" \in LockHeldAt <=> at[t].pc \in LockHeldAt
  BY <1>w DEF LockHeldAt
<1> QED
  BY <1>l, <1>c, <1>r, <1>t, <1>h, <1>f, <1>w, StepKept

\* Nothing of the invariant changes.
LEMMA NothingMoves ==
  ASSUME EventsInv, at' = at,
         GC_mark_mutex_state' = GC_mark_mutex_state, mark_mutex_event' = mark_mutex_event,
         builder_cv' = builder_cv, allocator' = allocator, GC_help_wanted' = GC_help_wanted,
         mark_cv' = mark_cv, GC_helper_count' = GC_helper_count, GC_active_count' = GC_active_count,
         GC_fl_builder_count' = GC_fl_builder_count, onMarkStack' = onMarkStack
  PROVE  EventsInv'
<1>1. Whereabouts' = Whereabouts
  BY DEF Whereabouts, Waits, In
<1>2. SeatsTyped' /\ EventsTyped'
  BY DEF EventsInv, SeatsTyped, EventsTyped
<1>3. EventsCounted'
  BY <1>1 DEF EventsInv, EventsCounted
<1>4. RolesKept'
  <2>1. \A t \in Actor : SeatOK(t)'
    BY DEF EventsInv, RolesKept, SeatOK, Waits, In
  <2> QED
    BY <2>1, <1>1 DEF EventsInv, RolesKept
<1>5. MarkLockExclusive' /\ SleeperRemembered'
  BY DEF EventsInv, MarkLockExclusive, SleeperRemembered, HoldsMarkLock, In
<1> QED
  BY <1>2, <1>3, <1>4, <1>5 DEF EventsInv

LEMMA HelpKeeps ==
  ASSUME EventsInv, NEW t \in Actor, HelpMarker(t)
  PROVE  EventsInv'
<1>w. at[t].pc = "help?" /\ Whereabouts[t] = "help?"
  BY WhereNow DEF HelpMarker, In
<1>n. GC_helper_count \in Nat /\ GC_active_count \in Nat /\ GC_fl_builder_count \in Nat /\ onMarkStack \in Nat
  BY CountsAreNat
<1>a. CASE GC_wait_marker(t, "help?") /\ GC_helper_count' = GC_helper_count
  <2>f. /\ GC_mark_mutex_state' = GC_mark_mutex_state /\ mark_mutex_event' = mark_mutex_event
        /\ builder_cv' = builder_cv
        /\ allocator' = allocator
        /\ GC_help_wanted' = GC_help_wanted
        /\ GC_helper_count' = GC_helper_count
        /\ GC_active_count' = GC_active_count
        /\ GC_fl_builder_count' = GC_fl_builder_count
        /\ onMarkStack' = onMarkStack
        /\ GC_wait_marker(t, "help?")
    BY <1>w, <1>a, <1>n DEF HelpMarker, HelperJoins, lockVars, clientVars, markVars
  <2>l. Lands(t, "unlock", "help?")
    <3>1. "help?" \in Plain
      BY DEF Plain, ComesTo, LockHeldAt, FreeAt
    <3>2. SeatsTyped /\ GC_wait_marker(t, "help?")
      BY <2>f DEF EventsInv
    <3> QED
      BY <3>1, <3>2, Landing
  <2>g. /\ Gain(JoinedAt, "help?", "help?") = 0 /\ Gain(ActiveAt, "help?", "help?") = 0
        /\ Gain(BuildingAt, "help?", "help?") = 0 /\ Gain(WorkingAt, "help?", "help?") = 0
    BY DEF Gain, JoinedAt, ActiveAt, WorkingAt, BuildingAt
  <2>c. Tallied("help?", "help?")
    BY <2>f, <2>g, <1>n, <1>a DEF Tallied
  <2>r. RolesFit(t, "help?")
    <3>1. RolesFit(t, Whereabouts[t])
      BY <2>f, StayFits
    <3> QED
      BY <3>1, <1>w
  <2>t. EventsTyped'
    BY <2>f DEF EventsInv, EventsTyped, GC_wait_marker
  <2>h. "unlock" \in LockHeldAt <=> at[t].pc \in LockHeldAt
    BY <1>w DEF LockHeldAt
  <2> QED
    BY <2>l, <2>c, <2>r, <2>t, <2>h, <2>f, <1>w, StepKept
<1>b. CASE GC_help_wanted /\ GC_helper_count' = HelperJoins /\ To(t, "mark_local") /\ mark_cv' = mark_cv
  <2>f. /\ GC_mark_mutex_state' = GC_mark_mutex_state /\ mark_mutex_event' = mark_mutex_event
        /\ builder_cv' = builder_cv
        /\ allocator' = allocator
        /\ GC_help_wanted' = GC_help_wanted
        /\ mark_cv' = mark_cv
        /\ GC_active_count' = GC_active_count
        /\ GC_fl_builder_count' = GC_fl_builder_count
        /\ onMarkStack' = onMarkStack
        /\ GC_helper_count' = GC_helper_count + 1
        /\ To(t, "mark_local")
    BY <1>w, <1>b, <1>n DEF HelpMarker, HelperJoins, lockVars, clientVars, markVars
  <2>l. Lands(t, "mark_local", "mark_local")
    <3>1. "mark_local" \in Plain
      BY DEF Plain, ComesTo, LockHeldAt, FreeAt
    <3>2. SeatsTyped /\ To(t, "mark_local")
      BY <2>f DEF EventsInv
    <3> QED
      BY <3>1, <3>2, Landing
  <2>g. /\ Gain(JoinedAt, "help?", "mark_local") = 1 /\ Gain(ActiveAt, "help?", "mark_local") = 0
        /\ Gain(BuildingAt, "help?", "mark_local") = 0 /\ Gain(WorkingAt, "help?", "mark_local") = 0
    BY DEF Gain, JoinedAt, ActiveAt, WorkingAt, BuildingAt
  <2>c. Tallied("help?", "mark_local")
    BY <2>f, <2>g, <1>n, <1>b DEF Tallied
  <2>r. RolesFit(t, "mark_local")
    <3>1. t \in WinHelper /\ t \notin FlBuilder /\ t # Leader
      BY EventsAssumption DEF HelpMarker
    <3>2. "mark_local" \in HelperAt /\ "mark_local" \notin BuildingAt
      BY DEF HelperAt, BuildingAt, JoinedAt, ActiveAt, WorkingAt
    <3> QED
      BY <3>1, <3>2, <2>f, <1>b DEF RolesFit
  <2>t. EventsTyped'
    BY <2>f DEF EventsInv, EventsTyped
  <2>h. "mark_local" \in LockHeldAt <=> at[t].pc \in LockHeldAt
    BY <1>w DEF LockHeldAt
  <2> QED
    BY <2>l, <2>c, <2>r, <2>t, <2>h, <2>f, <1>w, StepKept
<1>c. CASE at' = at /\ mark_cv' = mark_cv /\ GC_helper_count' = GC_helper_count
  <2>f. /\ GC_mark_mutex_state' = GC_mark_mutex_state /\ mark_mutex_event' = mark_mutex_event
        /\ builder_cv' = builder_cv
        /\ allocator' = allocator
        /\ GC_help_wanted' = GC_help_wanted
        /\ mark_cv' = mark_cv
        /\ GC_helper_count' = GC_helper_count
        /\ GC_active_count' = GC_active_count
        /\ GC_fl_builder_count' = GC_fl_builder_count
        /\ onMarkStack' = onMarkStack
        /\ at' = at
    BY <1>c DEF HelpMarker, lockVars
  <2> QED
    BY <2>f, NothingMoves
<1> QED
  BY <1>a, <1>b, <1>c DEF HelpMarker

-----------------------------------------------------------------------------
(* The lock itself: no thread changes its place.                           *)

LEMMA PlacesStay ==
  ASSUME EventsInv, NEW t \in Actor, SeatsTyped', OthersStay(t), SeatOK(t)',
         Whereabouts'[t] = Whereabouts[t], UNCHANGED clientVars,
         GC_mark_mutex_state' \in {-1, 0, 1}, mark_mutex_event' \in BOOLEAN,
         MarkLockExclusive', SleeperRemembered'
  PROVE  EventsInv'
<1>1. Whereabouts' = Whereabouts
  <2>1. \A u \in Actor : Whereabouts'[u] = Whereabouts[u]
    BY OthersWhere DEF EventMoved
  <2> QED
    BY <2>1 DEF Whereabouts
<1>f. /\ builder_cv' = builder_cv
      /\ allocator' = allocator
      /\ GC_help_wanted' = GC_help_wanted
      /\ mark_cv' = mark_cv
      /\ GC_helper_count' = GC_helper_count
      /\ GC_active_count' = GC_active_count
      /\ GC_fl_builder_count' = GC_fl_builder_count
      /\ onMarkStack' = onMarkStack
  BY DEF clientVars, markVars
<1>2. EventsTyped'
  BY <1>f DEF EventsInv, EventsTyped
<1>3. EventsCounted'
  BY <1>1, <1>f DEF EventsInv, EventsCounted
<1>4. RolesKept'
  <2>1. \A u \in Actor : SeatOK(u)'
    BY OthersWhere DEF EventsInv, RolesKept
  <2> QED
    BY <2>1, <1>1, <1>f DEF EventsInv, RolesKept
<1> QED
  BY <1>2, <1>3, <1>4 DEF EventsInv

\* The seats around the lock.
LEMMA LockSeats ==
  ASSUME EventsInv, NEW t \in Actor
  PROVE  /\ SeatsTyped /\ SeatOK(t)
         /\ at[t].pc \in {"lock", "contend", "sleep"} =>
              /\ at[t].ret \in Plain /\ at[t].ret \in LockHeldAt /\ Whereabouts[t] = at[t].ret
              /\ at[t].ret \notin {"sleep", "wake", "contend"}
         /\ at[t].pc \in {"unlock", "wake"} =>
              /\ at[t].ret \in FreeAt /\ at[t].ret \notin LockHeldAt /\ at[t].ret \in Word
              /\ at[t].ret \notin {"sleep", "wake", "contend"}
         /\ GC_mark_mutex_state \in {-1, 0, 1} /\ mark_mutex_event \in BOOLEAN
         /\ "contend" \in Word /\ "sleep" \in Word /\ "wake" \in Word
         /\ "contend" \notin LockHeldAt /\ "sleep" \notin LockHeldAt /\ "wake" \notin LockHeldAt
<1>1. /\ SeatsTyped /\ SeatOK(t) /\ GC_mark_mutex_state \in {-1, 0, 1} /\ mark_mutex_event \in BOOLEAN
  BY DEF EventsInv, RolesKept, EventsTyped
<1>2. \A p \in ComesTo : p \in Plain /\ p \in LockHeldAt /\ p \notin {"sleep", "wake", "contend"}
  BY DEF Plain, ComesTo, LockHeldAt
<1>3. \A p \in FreeAt : p \notin LockHeldAt /\ p \notin {"sleep", "wake", "contend"} /\ p \in Word
  BY DEF FreeAt, LockHeldAt, Word
<1>4. /\ "contend" \in Word /\ "sleep" \in Word /\ "wake" \in Word
      /\ "contend" \notin LockHeldAt /\ "sleep" \notin LockHeldAt /\ "wake" \notin LockHeldAt
  BY DEF Word, LockHeldAt
<1>5. at[t].pc \in {"lock", "contend", "sleep"} => at[t].ret \in ComesTo /\ Whereabouts[t] = at[t].ret
  BY <1>1, WhereNow DEF SeatOK
<1>6. at[t].pc \in {"unlock", "wake"} => at[t].ret \in FreeAt
  BY <1>1 DEF SeatOK
<1> QED
  BY <1>1, <1>2, <1>3, <1>4, <1>5, <1>6

\* A thread that comes for the lock: the exchange finds it free, or the thread
\* goes on to contend for it or to sleep.
LEMMA LockingKeeps ==
  ASSUME EventsInv, NEW t \in Actor, UNCHANGED clientVars, mark_mutex_event' = mark_mutex_event,
         NEW next \in {"contend", "sleep"}, NEW word \in {-1, 1},
         GC_mark_mutex_state' = word, at[t].pc \in {"lock", "contend"},
         next = "contend" \/ word = -1, at[t].pc = "lock" \/ word = -1,
         To(t, IF GC_mark_mutex_state = 0 THEN at[t].ret ELSE next)
  PROVE  EventsInv'
<1>l. /\ SeatsTyped /\ SeatOK(t)
      /\ at[t].ret \in Plain /\ at[t].ret \in LockHeldAt /\ Whereabouts[t] = at[t].ret
      /\ at[t].ret \notin {"sleep", "wake", "contend"} /\ at[t].pc \notin LockHeldAt
      /\ next \in Word /\ next \notin LockHeldAt /\ mark_mutex_event \in BOOLEAN
      /\ at[t].ret \in ComesTo
  <2>1. "lock" \notin LockHeldAt
    BY DEF LockHeldAt
  <2>2. at[t].ret \in ComesTo
    BY LockSeats DEF SeatOK
  <2> QED
    BY <2>1, <2>2, LockSeats
<1>e. /\ \A u, v \in Actor : HoldsMarkLock(u) /\ HoldsMarkLock(v) => u = v
      /\ GC_mark_mutex_state = 0 <=> \A u \in Actor : ~HoldsMarkLock(u)
  BY DEF EventsInv, MarkLockExclusive
<1>s. (\E u \in Actor : at[u].pc = "sleep") =>
        \/ GC_mark_mutex_state = -1 \/ mark_mutex_event
        \/ \E u \in Actor : at[u].pc \in {"wake", "contend"}
  BY DEF EventsInv, SleeperRemembered, In
<1>x. CASE GC_mark_mutex_state = 0
  <2>1. Lands(t, at[t].ret, at[t].ret)
    BY <1>x, <1>l, Landing
  <2>2. \A u \in Actor : u # t => (HoldsMarkLock(u)' <=> HoldsMarkLock(u)) /\ at'[u].pc = at[u].pc
    BY <2>1, OthersWhere DEF Lands
  <2>3. HoldsMarkLock(t)' /\ at'[t].pc = at[t].ret
    BY <2>1, <1>l DEF Lands, HoldsMarkLock
  <2>4. MarkLockExclusive'
    BY <2>2, <2>3, <1>e, <1>x DEF MarkLockExclusive
  <2>5. SleeperRemembered'
    <3> SUFFICES ASSUME NEW u \in Actor, at'[u].pc = "sleep"
                 PROVE  \/ GC_mark_mutex_state' = -1 \/ mark_mutex_event'
                        \/ \E v \in Actor : at'[v].pc \in {"wake", "contend"}
      BY DEF SleeperRemembered, In
    <3>1. at[u].pc = "sleep"
      BY <2>2, <2>3, <1>l
    <3>2. CASE at[t].pc = "lock"
      BY <3>1, <3>2, <2>2, <1>s, <1>x
    <3>3. CASE word = -1
      BY <3>3
    <3> QED
      BY <3>2, <3>3
  <2> QED
    BY <2>1, <2>4, <2>5, <1>l, PlacesStay DEF Lands
<1>y. CASE GC_mark_mutex_state # 0
  <2>1. SeatsTyped' /\ OthersStay(t) /\ at'[t].pc = next /\ at'[t].ret = at[t].ret
    BY <1>y, <1>l, SeatMoves
  <2>2. \A u \in Actor : u # t => (HoldsMarkLock(u)' <=> HoldsMarkLock(u)) /\ at'[u].pc = at[u].pc
    BY <2>1, OthersWhere
  <2>3. Whereabouts'[t] = Whereabouts[t] /\ SeatOK(t)'
    BY <2>1, <1>l DEF Whereabouts, SeatOK, Waits, In
  <2>4. ~HoldsMarkLock(t)' /\ ~HoldsMarkLock(t)
    BY <2>1, <1>l DEF HoldsMarkLock
  <2>5. MarkLockExclusive'
    BY <2>2, <2>4, <1>e, <1>y DEF MarkLockExclusive
  <2>6. SleeperRemembered'
    BY <2>1 DEF SleeperRemembered, In
  <2> QED
    BY <2>1, <2>3, <2>5, <2>6, <1>l, PlacesStay
<1> QED
  BY <1>x, <1>y

LEMMA SleepKeeps ==
  ASSUME EventsInv, NEW t \in Actor, LockSleep(t)
  PROVE  EventsInv'
<1>f. /\ at[t].pc = "sleep" /\ mark_mutex_event' = FALSE /\ To(t, "contend")
      /\ GC_mark_mutex_state' = GC_mark_mutex_state /\ UNCHANGED clientVars
  BY DEF LockSleep, In
<1>l. /\ SeatsTyped /\ SeatOK(t) /\ "contend" \in Word /\ GC_mark_mutex_state \in {-1, 0, 1}
      /\ Whereabouts[t] = at[t].ret /\ "contend" \notin LockHeldAt /\ "sleep" \notin LockHeldAt
  BY <1>f, LockSeats
<1>1. SeatsTyped' /\ OthersStay(t) /\ at'[t].pc = "contend" /\ at'[t].ret = at[t].ret
  BY <1>f, <1>l, SeatMoves
<1>2. \A u \in Actor : HoldsMarkLock(u)' <=> HoldsMarkLock(u)
  BY <1>1, <1>l, <1>f, OthersWhere DEF HoldsMarkLock
<1>3. Whereabouts'[t] = Whereabouts[t] /\ SeatOK(t)'
  BY <1>1, <1>l, <1>f DEF Whereabouts, SeatOK, Waits, In
<1>4. MarkLockExclusive'
  BY <1>2, <1>f DEF EventsInv, MarkLockExclusive
<1>5. SleeperRemembered'
  BY <1>1 DEF SleeperRemembered, In
<1> QED
  BY <1>1, <1>3, <1>4, <1>5, <1>f, <1>l, PlacesStay

\* A thread that lets the lock go, or that has, and wakes a sleeper.
LEMMA SwapKeeps ==
  ASSUME EventsInv, NEW t \in Actor, UnlockSwap(t)
  PROVE  EventsInv'
<1>f. /\ at[t].pc = "unlock" /\ mark_mutex_event' = mark_mutex_event
      /\ To(t, IF GC_mark_mutex_state < 0 THEN "wake" ELSE at[t].ret)
      /\ GC_mark_mutex_state' = 0 /\ UNCHANGED clientVars
  BY DEF UnlockSwap, In
<1>l. /\ SeatsTyped /\ SeatOK(t) /\ "wake" \in Word /\ "wake" \notin LockHeldAt
      /\ at[t].ret \in FreeAt /\ at[t].ret \notin LockHeldAt /\ at[t].ret \in Word
      /\ at[t].ret \notin {"sleep", "wake", "contend"}
      /\ GC_mark_mutex_state \in {-1, 0, 1} /\ mark_mutex_event \in BOOLEAN
  BY <1>f, LockSeats
<1>p. PICK p \in {"wake", at[t].ret} : /\ To(t, p)
                                       /\ GC_mark_mutex_state = -1 => p = "wake"
  BY <1>f, <1>l
<1>1. /\ SeatsTyped' /\ OthersStay(t) /\ at'[t].pc = p /\ at'[t].ret = at[t].ret
      /\ at'[t].after = at[t].after /\ p \in Word /\ p \notin LockHeldAt
      /\ p = "wake" \/ (p = at[t].ret /\ p \in FreeAt)
  BY <1>p, <1>l, SeatMoves
<1>2. \A u \in Actor : u # t => (HoldsMarkLock(u)' <=> HoldsMarkLock(u)) /\ at'[u].pc = at[u].pc
  BY <1>1, OthersWhere
<1>3. HoldsMarkLock(t) /\ ~HoldsMarkLock(t)'
  BY <1>1, <1>f DEF HoldsMarkLock, LockHeldAt
<1>4. MarkLockExclusive'
  BY <1>2, <1>3, <1>f DEF EventsInv, MarkLockExclusive
<1>5. SleeperRemembered'
  <2> SUFFICES ASSUME NEW u \in Actor, at'[u].pc = "sleep"
               PROVE  \/ mark_mutex_event' \/ \E v \in Actor : at'[v].pc \in {"wake", "contend"}
    BY DEF SleeperRemembered, In
  <2>1. at[u].pc = "sleep"
    BY <1>1, <1>2, <1>l
  <2>2. \/ GC_mark_mutex_state = -1 \/ mark_mutex_event
        \/ \E v \in Actor : at[v].pc \in {"wake", "contend"}
    BY <2>1 DEF EventsInv, SleeperRemembered, In
  <2>3. CASE GC_mark_mutex_state = -1
    BY <2>3, <1>p, <1>1
  <2>4. CASE mark_mutex_event
    BY <2>4, <1>f
  <2>5. CASE \E v \in Actor : at[v].pc \in {"wake", "contend"}
    BY <2>5, <1>2, <1>f
  <2> QED
    BY <2>2, <2>3, <2>4, <2>5
<1>6. Whereabouts'[t] = Whereabouts[t] /\ SeatOK(t)'
  <2>1. p \notin {"lock", "contend", "sleep", "unlock"}
    <3>1. \A x \in FreeAt : x \notin {"lock", "contend", "sleep", "unlock"}
      BY DEF FreeAt
    <3> QED
      BY <3>1, <1>1
  <2>2. Waits(t)' <=> Waits(t)
    BY <2>1, <1>1, <1>f, <1>l DEF Waits, In
  <2>3. Whereabouts'[t] = Whereabouts[t]
    BY <2>1, <2>2, <1>1, <1>f DEF Whereabouts
  <2>4. SeatOK(t)'
    BY <2>1, <2>2, <1>1, <1>l DEF SeatOK, Word
  <2> QED
    BY <2>3, <2>4
<1> QED
  BY <1>1, <1>4, <1>5, <1>6, <1>f, <1>l, PlacesStay

LEMMA WakeKeeps ==
  ASSUME EventsInv, NEW t \in Actor, UnlockWake(t)
  PROVE  EventsInv'
<1>f. /\ at[t].pc = "wake" /\ mark_mutex_event' = TRUE /\ To(t, at[t].ret)
      /\ GC_mark_mutex_state' = GC_mark_mutex_state /\ UNCHANGED clientVars
  BY DEF UnlockWake, In
<1>l. /\ SeatsTyped /\ SeatOK(t) /\ "wake" \notin LockHeldAt
      /\ at[t].ret \in FreeAt /\ at[t].ret \notin LockHeldAt /\ at[t].ret \in Word
      /\ at[t].ret \notin {"sleep", "wake", "contend"} /\ GC_mark_mutex_state \in {-1, 0, 1}
  BY <1>f, LockSeats
<1>1. /\ SeatsTyped' /\ OthersStay(t) /\ at'[t].pc = at[t].ret /\ at'[t].ret = at[t].ret
      /\ at'[t].after = at[t].after
  BY <1>f, <1>l, SeatMoves
<1>2. \A u \in Actor : HoldsMarkLock(u)' <=> HoldsMarkLock(u)
  BY <1>1, <1>l, <1>f, OthersWhere DEF HoldsMarkLock
<1>4. MarkLockExclusive'
  BY <1>2, <1>f DEF EventsInv, MarkLockExclusive
<1>5. SleeperRemembered'
  BY <1>f DEF SleeperRemembered
<1>6. Whereabouts'[t] = Whereabouts[t] /\ SeatOK(t)'
  <2>1. at[t].ret \notin {"lock", "contend", "sleep", "unlock", "wake"}
    <3>1. \A x \in FreeAt : x \notin {"lock", "contend", "sleep", "unlock", "wake"}
      BY DEF FreeAt
    <3> QED
      BY <3>1, <1>l
  <2>2. Waits(t)' <=> Waits(t)
    BY <2>1, <1>1, <1>f, <1>l DEF Waits, In
  <2>3. Whereabouts'[t] = Whereabouts[t]
    BY <2>1, <2>2, <1>1, <1>f DEF Whereabouts
  <2>4. SeatOK(t)'
    BY <2>1, <2>2, <1>1, <1>l DEF SeatOK, Word
  <2> QED
    BY <2>3, <2>4
<1> QED
  BY <1>1, <1>4, <1>5, <1>6, <1>f, <1>l, PlacesStay

LEMMA LockStepKeeps ==
  ASSUME EventsInv, NEW t \in Actor, LockStep(t)
  PROVE  EventsInv'
<1>1. CASE LockTry(t)
  <2>1. /\ at[t].pc = "lock" /\ GC_mark_mutex_state' = 1 /\ mark_mutex_event' = mark_mutex_event
        /\ UNCHANGED clientVars
        /\ To(t, IF GC_mark_mutex_state = 0 THEN at[t].ret ELSE "contend")
    BY <1>1 DEF LockTry, In, WasUnlocked
  <2> QED
    BY <2>1, LockingKeeps
<1>2. CASE LockContend(t)
  <2>1. /\ at[t].pc = "contend" /\ GC_mark_mutex_state' = -1 /\ mark_mutex_event' = mark_mutex_event
        /\ UNCHANGED clientVars
        /\ To(t, IF GC_mark_mutex_state = 0 THEN at[t].ret ELSE "sleep")
    BY <1>2 DEF LockContend, In, WasUnlocked, Contended
  <2> QED
    BY <2>1, LockingKeeps
<1> QED
  BY <1>1, <1>2, SleepKeeps, SwapKeeps, WakeKeeps DEF LockStep

-----------------------------------------------------------------------------
(* Theorems.                                                               *)
LEMMA EventsStart ==
  ASSUME EventsInit
  PROVE  EventsInv
<1>1. /\ \A t \in Actor : at[t].pc \in {"lock", "out"}
      /\ \A t \in WinHelper : at[t] = [pc |-> "lock", ret |-> "help?", after |-> "lock"]
      /\ \A t \in Actor : t \notin WinHelper => at[t] = [pc |-> "out", ret |-> "out", after |-> "out"]
      /\ WinHelper \subseteq Actor /\ FlBuilder \subseteq Actor /\ Leader \in Actor
      /\ Leader \notin WinHelper /\ WinHelper \intersect FlBuilder = {} /\ NoOwner \notin FlBuilder
      /\ Leader \notin FlBuilder /\ Leader # NoOwner
  BY EventsAssumption DEF EventsInit, Seat, Actor, NoOwner, Leader
<1>2. /\ \A t \in WinHelper : Whereabouts[t] = "help?"
      /\ \A t \in Actor : t \notin WinHelper => Whereabouts[t] = "out"
  BY <1>1 DEF Whereabouts, Waits, In
<1>3. SeatsTyped
  <2>1. {"lock", "out", "help?"} \subseteq Word
    BY DEF Word, LockHeldAt, FreeAt
  <2>2. \A t \in Actor : at[t] \in [pc : Word, ret : Word, after : Word]
    BY <2>1, <1>1
  <2>3. at = [t \in Actor |-> at[t]]
    BY DEF EventsInit
  <2> QED
    BY <2>2, <2>3 DEF SeatsTyped
<1>4. EventsTyped
  BY DEF EventsInit, EventsTyped
<1>5. /\ AtPlaces(Whereabouts, JoinedAt) = {} /\ AtPlaces(Whereabouts, ActiveAt) = {}
      /\ AtPlaces(Whereabouts, BuildingAt) = {} /\ AtPlaces(Whereabouts, WorkingAt) = {}
  <2>1. \A t \in Actor : Whereabouts[t] \in {"help?", "out"}
    BY <1>2
  <2>2. \A w \in {"help?", "out"} : w \notin JoinedAt /\ w \notin BuildingAt
    BY DEF JoinedAt, BuildingAt, ActiveAt, WorkingAt
  <2>3. \A w \in {"help?", "out"} : w \notin ActiveAt /\ w \notin WorkingAt
    BY DEF ActiveAt, WorkingAt
  <2> QED
    BY <2>1, <2>2, <2>3 DEF AtPlaces
<1>6. EventsCounted
  <2>1. /\ GC_helper_count = 0 /\ GC_active_count = 0 /\ GC_fl_builder_count = 0 /\ onMarkStack = 0
    BY DEF EventsInit
  <2> QED
    BY <2>1, <1>5, FS_EmptySet, EventsAssumption DEF EventsCounted
<1>7. RolesKept
  <2>1. \A t \in Actor : SeatOK(t)
    <3>1. "lock" \notin LockHeldAt /\ "help?" \in ComesTo /\ "out" \in FreeAt
      BY DEF LockHeldAt, ComesTo, FreeAt
    <3> QED
      BY <3>1, <1>1 DEF SeatOK, Waits, In
  <2>2. "help?" \in HelperAt /\ "out" \in BuilderAt /\ "out" \in LeaderAt
    BY DEF HelperAt, BuilderAt, LeaderAt
  <2>3. ~GC_help_wanted /\ allocator = NoOwner
    BY DEF EventsInit
  <2>4. \A t \in FlBuilder : Whereabouts[t] = "out"
    BY <1>1, <1>2
  <2> QED
    BY <2>1, <2>2, <2>3, <2>4, <1>1, <1>2, <1>5 DEF RolesKept
<1>8. MarkLockExclusive /\ SleeperRemembered
  <2>1. \A t \in Actor : ~HoldsMarkLock(t)
    <3>1. "lock" \notin LockHeldAt /\ "out" \notin LockHeldAt
      BY DEF LockHeldAt
    <3> QED
      BY <3>1, <1>1 DEF HoldsMarkLock
  <2>2. GC_mark_mutex_state = 0
    BY DEF EventsInit
  <2> QED
    BY <2>1, <2>2, <1>1 DEF MarkLockExclusive, SleeperRemembered, In
<1> QED
  BY <1>3, <1>4, <1>6, <1>7, <1>8 DEF EventsInv

\* The bounds of the counts and the rule about builders follow.
LEMMA EventsSafe ==
  ASSUME EventsInv
  PROVE  MarkLockSound
<1> DEFINE wh == Whereabouts
<1>r. RolesKept /\ Leader \in Actor /\ Leader \notin WinHelper /\ Leader \notin FlBuilder
      /\ IsFiniteSet(WinHelper) /\ IsFiniteSet(FlBuilder)
  BY EventsAssumption DEF EventsInv, Actor
<1>1. AtPlaces(wh, BuildingAt) \subseteq FlBuilder
  BY <1>r, PlacesApart DEF RolesKept, AtPlaces, Actor
<1>2. AtPlaces(wh, JoinedAt) \subseteq WinHelper \union {Leader}
  BY <1>r, PlacesApart DEF RolesKept, AtPlaces, Actor
<1>3. AtPlaces(wh, ActiveAt) \subseteq AtPlaces(wh, JoinedAt)
  BY PlacesApart DEF AtPlaces
<1>4. /\ Cardinality(AtPlaces(wh, BuildingAt)) <= Cardinality(FlBuilder)
      /\ Cardinality(FlBuilder) \in Nat /\ Cardinality(WinHelper) \in Nat
  BY <1>1, <1>r, FS_Subset, FS_CardinalityType
<1>5. /\ IsFiniteSet(WinHelper \union {Leader})
      /\ Cardinality(WinHelper \union {Leader}) = Cardinality(WinHelper) + 1
  BY <1>r, FS_AddElement
<1>6. /\ Cardinality(AtPlaces(wh, JoinedAt)) <= Cardinality(WinHelper) + 1
      /\ IsFiniteSet(AtPlaces(wh, JoinedAt))
  <2>1. /\ Cardinality(AtPlaces(wh, JoinedAt)) <= Cardinality(WinHelper \union {Leader})
        /\ IsFiniteSet(AtPlaces(wh, JoinedAt))
    BY <1>2, <1>5, FS_Subset
  <2> QED
    BY <2>1, <1>5
<1>7. Cardinality(AtPlaces(wh, ActiveAt)) <= Cardinality(AtPlaces(wh, JoinedAt))
  BY <1>3, <1>6, FS_Subset
<1>n. \A P : Cardinality(AtPlaces(wh, P)) \in Nat
  BY NoActorCounted
<1>c. /\ GC_helper_count = Cardinality(AtPlaces(wh, JoinedAt))
      /\ GC_active_count = Cardinality(AtPlaces(wh, ActiveAt))
      /\ GC_fl_builder_count = Cardinality(AtPlaces(wh, BuildingAt))
      /\ onMarkStack \in Nat
      /\ onMarkStack + Cardinality(AtPlaces(wh, WorkingAt)) <= Entries
  BY DEF EventsInv, EventsCounted
<1>8. /\ GC_fl_builder_count \in 0 .. Cardinality(FlBuilder)
      /\ GC_helper_count \in 0 .. Cardinality(WinHelper) + 1
      /\ GC_active_count \in 0 .. GC_helper_count
  BY <1>4, <1>6, <1>7, <1>n, <1>c
<1>9. onMarkStack \in 0 .. Entries + Deposits
  <2>1. Entries \in Nat /\ Deposits \in Nat /\ Cardinality(AtPlaces(wh, WorkingAt)) \in Nat
    BY <1>n, EventsAssumption
  <2> QED
    BY <2>1, <1>c
<1>10. EventsTypeOK
  BY <1>8, <1>9 DEF EventsInv, EventsTyped, EventsTypeOK
<1>11. NoBuilderWhileMarking
  <2>1. ASSUME at[Leader].pc \notin {"out", "lock", "contend", "sleep", "unlock", "wake",
                                     "reclaimed?", "await_builders"}
        PROVE  GC_fl_builder_count = 0
    <3>1. Whereabouts[Leader] \notin {"out", "reclaimed?", "await_builders"}
      <4>1. CASE at[Leader].pc = "await"
        <5>1. SeatOK(Leader)
          BY <1>r DEF RolesKept
        <5>2. at[Leader].after \in {"helpers?", "help?", "idle"}
          BY <4>1, <5>1 DEF SeatOK, Waits, In
        <5> QED
          BY <4>1, <5>2, <1>r, WhereNow
      <4>2. CASE at[Leader].pc # "await"
        BY <4>2, <2>1, <1>r, WhereNow
      <4> QED
        BY <4>1, <4>2
    <3>2. AtPlaces(wh, BuildingAt) = {}
      BY <3>1, <1>r DEF RolesKept
    <3> QED
      BY <3>2, <1>c, NoActorCounted
  <2>2. ASSUME at[Leader].pc = "out"
        PROVE  GC_active_count = 0 /\ \A h \in WinHelper : at[h].pc \notin {"look", "work", "deposit"}
    <3>1. Whereabouts[Leader] = "out"
      BY <2>2, <1>r, WhereNow
    <3>2. "out" \notin {"helpers?"} \union JoinedAt
      BY DEF JoinedAt, ActiveAt, WorkingAt
    <3>3. AtPlaces(wh, JoinedAt) = {}
      BY <3>1, <3>2, <1>r DEF RolesKept
    <3>4. GC_active_count = 0
      <4>1. AtPlaces(wh, ActiveAt) = {}
        BY <3>3, <1>3
      <4> QED
        BY <4>1, <1>c, NoActorCounted
    <3>5. ASSUME NEW h \in WinHelper, at[h].pc \in {"look", "work", "deposit"}
          PROVE  FALSE
      <4>1. h \in Actor /\ Whereabouts[h] = at[h].pc
        BY <3>5, WhereNow DEF Actor
      <4>2. at[h].pc \in JoinedAt
        BY <3>5 DEF JoinedAt, ActiveAt, WorkingAt
      <4> QED
        BY <4>1, <4>2, <3>3 DEF AtPlaces
    <3> QED
      BY <3>4, <3>5
  <2> QED
    BY <2>1, <2>2 DEF NoBuilderWhileMarking, In
<1> QED
  BY <1>10, <1>11, <1>r DEF MarkLockSound, EventsInv

\* The lock word and the event that win32_threads.c makes the mark lock of have
\* one holder at a time and forget no sleeper; what is counted under the lock is
\* right, and no free list is built while the heap is marked.
THEOREM EventsMakeALock ==
  EventsSpec => []MarkLockSound
<1>1. EventsInit => EventsInv
  BY EventsStart
<1>2. EventsInv /\ [EventsNext]_eventVars => EventsInv'
  <2> SUFFICES ASSUME EventsInv, [EventsNext]_eventVars
               PROVE  EventsInv'
    OBVIOUS
  <2>1. CASE StartGc \/ LeaderStep
    BY <2>1, StartKeeps, ReclaimKeeps, AwaitBuildersKeeps, BeginKeeps, AskKeeps,
       HelpersDoneKeeps, OverKeeps DEF LeaderStep
  <2>2. CASE \E t \in Actor : LockStep(t) \/ BuilderEnter(t) \/ BuilderProceeds(t) \/ MarkerStep(t)
    <3>1. PICK t \in Actor : LockStep(t) \/ BuilderEnter(t) \/ BuilderProceeds(t) \/ MarkerStep(t)
      BY <2>2
    <3>2. CASE LockStep(t)
      BY <3>2, LockStepKeeps
    <3>3. CASE BuilderEnter(t) \/ BuilderProceeds(t)
      BY <3>3, EnterKeeps, CountKeeps, BuildKeeps, UncountKeeps DEF BuilderProceeds
    <3>4. CASE MarkerStep(t)
      BY <3>4, AwaitKeeps, HelpKeeps, MarkLocalKeeps, LookKeeps, WorkKeeps, DepositKeeps,
         TellKeeps, NoWorkKeeps, IdleKeeps DEF MarkerStep
    <3> QED
      BY <3>1, <3>2, <3>3, <3>4
  <2>3. CASE UNCHANGED eventVars
    BY <2>3, NothingMoves DEF eventVars
  <2> QED
    BY <2>1, <2>2, <2>3 DEF EventsNext
<1>3. EventsInv => MarkLockSound
  BY EventsSafe
<1> QED
  BY <1>1, <1>2, <1>3, PTL DEF EventsSpec

-----------------------------------------------------------------------------
(***************************************************************************)
(* WinThreads: the table of threads that DllMain keeps without a lock.     *)
(***************************************************************************)

\* What the variables of WinThreads range over.
WinPc == {"idle", "reset", "stop_max", "stop", "suspend", "suspended", "push_max", "push", "check",
          "resume_max", "resume", "unstop", "ended", "aborted"}
WinSlots == [in_use : BOOLEAN, handle : WThread \cup {WNone}, stack_end : BOOLEAN,
             id : WThread \cup {WNone}, flags : SUBSET {"IS_SUSPENDED", "DO_BLOCKING"}]
WinStates == [pc : WPc, at : WSlot, suspended : BOOLEAN]
WinTyped ==
  /\ dll_table \in [WSlot -> WinSlots] /\ wt \in [WThread -> WinStates]
  /\ wg \in [pc : WinPc, i : WSlot, max : WSlot]
  /\ GC_max_thread_index \in Nat /\ GC_please_stop \in BOOLEAN /\ GC_attached_thread \in BOOLEAN
  /\ pushedStacks \subseteq WThread /\ lateThreads \subseteq WThread

\* Where a thread's handle is in its slot, and where its identifier is.
HandlePc == {"id", "test_stop", "tell", "run", "dead"}
IdPc == {"test_stop", "tell", "run", "dead", "unstack", "unid"}

\* A slot belongs to the thread that claimed it, and still does when that thread
\* was terminated, until a collection notices.
Holder(t) == Reserved(t) \/ (wt[t].pc = "dead" /\ dll_table[wt[t].at].handle = t)

\* What is in the slot of a thread.
Fits(t) ==
  Holder(t) =>
    /\ dll_table[wt[t].at].in_use
    /\ wt[t].pc \in HandlePc => dll_table[wt[t].at].handle = t /\ dll_table[wt[t].at].stack_end
    /\ wt[t].pc \in IdPc => dll_table[wt[t].at].id = t
OneHolder(t, u) == Holder(t) /\ Holder(u) /\ t # u => wt[t].at # wt[u].at

\* What a slot says of a thread is true.
SaysTrue(i) ==
  /\ dll_table[i].handle # WNone =>
       wt[dll_table[i].handle].at = i /\ wt[dll_table[i].handle].pc \in HandlePc
  /\ dll_table[i].id # WNone =>
       /\ wt[dll_table[i].id].at = i /\ wt[dll_table[i].id].pc \in IdPc
       /\ wt[dll_table[i].id].pc = "dead" => dll_table[i].handle = dll_table[i].id
  /\ "IS_SUSPENDED" \in dll_table[i].flags =>
       dll_table[i].handle # WNone /\ wt[dll_table[i].handle].suspended

\* A suspended thread is found again.
FoundAgain(t) ==
  wt[t].suspended =>
    /\ t # WMain /\ wt[t].pc \in {"id", "test_stop", "tell", "run"}
    /\ "IS_SUSPENDED" \in dll_table[wt[t].at].flags

Reached(t) == SlotCovered(t) => wt[t].at <= GC_max_thread_index

\* The table and the threads.
TableInv ==
  /\ wt[WMain].pc = "run"
  /\ \A t \in WThread : Fits(t) /\ FoundAgain(t) /\ Reached(t)
  /\ \A t, u \in WThread : OneHolder(t, u)
  /\ \A i \in WSlot : SaysTrue(i)

\* A thread that ran when the stop began; one that does not run now.
RanBefore(t) == t # WMain /\ wt[t].pc \in {"tell", "run"} /\ t \notin lateThreads
Quiet(t) == wt[t].suspended \/ "DO_BLOCKING" \in dll_table[wt[t].at].flags

\* How far the collector is with a thread.
StopReaches(t) ==
  wg.pc \in {"stop", "suspend", "suspended"} /\ RanBefore(t) =>
    /\ wt[t].at <= wg.max
    /\ wt[t].at < wg.i \/ (wt[t].at = wg.i /\ wg.pc = "suspended") => Quiet(t)
StoppedFor(t) == wg.pc \in {"push_max", "push", "check"} /\ RanBefore(t) => Quiet(t)
PushReaches(t) ==
  wt[t].pc = "run" /\ ~GC_attached_thread =>
    /\ wg.pc = "push" => wt[t].at <= wg.max /\ (wt[t].at < wg.i => t \in pushedStacks)
    /\ wg.pc = "check" => t \in pushedStacks
ResumeReaches(t) ==
  wt[t].suspended =>
    /\ wg.pc \notin {"idle", "reset", "stop_max", "unstop"}
    /\ wg.pc = "resume" => wg.i <= wt[t].at /\ wt[t].at <= wg.max
LoopInv ==
  /\ wg.pc \notin {"idle", "ended", "aborted"} => GC_please_stop
  /\ wg.pc = "suspend" => wg.i # wt[WMain].at
  /\ \A t \in WThread : StopReaches(t) /\ StoppedFor(t) /\ PushReaches(t) /\ ResumeReaches(t)

\* The inductive invariant.  Nothing happens after DLL_PROCESS_DETACH, which
\* clears the table.
WinInv ==
  /\ WinTyped
  /\ wg.pc # "ended" => TableInv /\ LoopInv
  /\ wg.pc = "ended" => \A t \in WThread : ~wt[t].suspended

(***************************************************************************)
(* Steps of a thread.                                                      *)
(***************************************************************************)

\* Only thread t moves; only slot j is written.
OnlyThread(t) == \A u \in WThread \ {t} : wt'[u] = wt[u]
OnlySlot(j) == \A i \in WSlot \ {j} : dll_table'[i] = dll_table[i]

\* The index only grows, or is the last one.
MaxGrows ==
  /\ GC_max_thread_index' \in Nat
  /\ GC_max_thread_index <= GC_max_thread_index' \/ GC_max_thread_index' = MAX_THREADS - 1

\* A thread other than the main one, that is not suspended, is at pc q afterwards,
\* with the same slot.
MovesTo(t, q) ==
  /\ t \in WThread \ {WMain} /\ ~wt[t].suspended /\ q \in WPc
  /\ wt' \in [WThread -> WinStates] /\ OnlyThread(t)
  /\ wt'[t].pc = q /\ wt'[t].at = wt[t].at /\ wt'[t].suspended = FALSE

\* Its slot is one that it may leave so.
LeavesSlot(t, j) ==
  /\ dll_table'[j].handle # WNone => dll_table'[j].handle = t /\ wt'[t].pc \in HandlePc
  /\ dll_table'[j].id # WNone =>
       dll_table'[j].id = t /\ wt'[t].pc \in IdPc /\ (wt'[t].pc = "dead" => dll_table'[j].handle = t)
  /\ "IS_SUSPENDED" \notin dll_table'[j].flags

\* Slots are numbers.
LEMMA WinSlotsAre == WSlot \subseteq Nat /\ 0 \in WSlot /\ MAX_THREADS - 1 \in WSlot
                       /\ \A i \in WSlot : i <= MAX_THREADS - 1
BY WinAssumption DEF WSlot

\* The fields of a thread's record and of a slot.
LEMMA WinFields ==
  ASSUME WinTyped
  PROVE  /\ \A t \in WThread : wt[t].pc \in WPc /\ wt[t].at \in WSlot /\ wt[t].suspended \in BOOLEAN
         /\ \A i \in WSlot : /\ dll_table[i].in_use \in BOOLEAN /\ dll_table[i].stack_end \in BOOLEAN
                             /\ dll_table[i].handle \in WThread \cup {WNone}
                             /\ dll_table[i].id \in WThread \cup {WNone}
                             /\ dll_table[i].flags \in SUBSET {"IS_SUSPENDED", "DO_BLOCKING"}
         /\ wg.pc \in WinPc /\ wg.i \in WSlot /\ wg.max \in WSlot
BY DEF WinTyped, WinStates, WinSlots

\* WGoto.
LEMMA WGotoIs ==
  ASSUME WinTyped, NEW t \in WThread \ {WMain}, NEW q \in WPc, WGoto(t, q), ~wt[t].suspended
  PROVE  MovesTo(t, q)
<1>1. wt' = [wt EXCEPT ![t].pc = q]
  BY DEF WGoto
<1>2. wt \in [WThread -> WinStates]
  BY DEF WinTyped
<1>3. wt' \in [WThread -> WinStates]
  BY <1>1, <1>2 DEF WinStates
<1>4. OnlyThread(t)
  BY <1>1, <1>2 DEF OnlyThread
<1>5. wt'[t].pc = q /\ wt'[t].at = wt[t].at /\ wt'[t].suspended = wt[t].suspended
  BY <1>1, <1>2 DEF WinStates
<1>6. wt'[t].suspended = FALSE
  BY <1>5, <1>3 DEF WinStates
<1> QED BY <1>3, <1>4, <1>5, <1>6 DEF MovesTo

\* A thread that holds its slot moves, and writes at most to its own slot.
LEMMA HolderMoves ==
  ASSUME WinTyped, TableInv, NEW t, NEW q, MovesTo(t, q), Holder(t),
         dll_table' \in [WSlot -> WinSlots], OnlySlot(wt[t].at), MaxGrows,
         LeavesSlot(t, wt[t].at), Fits(t)', Reached(t)'
  PROVE  TableInv'
<1>0. PICK j \in WSlot : j = wt[t].at
  BY WinFields DEF MovesTo
<1>1. /\ t \in WThread \ {WMain} /\ wt'[t].at = j /\ wt'[t].suspended = FALSE
      /\ \A u \in WThread \ {t} : wt'[u] = wt[u]
  BY <1>0 DEF MovesTo, OnlyThread
<1>2. j \in WSlot /\ \A u \in WThread : wt[u].at \in WSlot
  BY <1>1, WinFields
<1>3. \A i \in WSlot \ {j} : dll_table'[i] = dll_table[i]
  BY <1>0 DEF OnlySlot
<1>4. \A u \in WThread \ {t} : Holder(u) => wt[u].at # j
  BY <1>0, <1>1 DEF TableInv, OneHolder
<1>5. /\ dll_table'[j].handle # WNone => dll_table'[j].handle = t
      /\ dll_table'[j].id # WNone => dll_table'[j].id = t
  BY <1>0 DEF LeavesSlot
<1>6. \A u \in WThread : u # WNone
  BY WinAssumption
<1>7. ASSUME NEW u \in WThread \ {t}
      PROVE  Holder(u)' => Holder(u) /\ dll_table'[wt[u].at] = dll_table[wt[u].at]
  <2>1. wt'[u] = wt[u] /\ wt[u].at \in WSlot
    BY <1>1, <1>2
  <2>2. CASE Reserved(u)
    <3>1. Holder(u)
      BY <2>2 DEF Holder
    <3> QED BY <3>1, <1>3, <1>4, <2>1
  <2>3. CASE ~Reserved(u) /\ Holder(u)'
    <3>1. ~Reserved(u)'
      BY <2>1, <2>3 DEF Reserved
    <3>2. wt[u].pc = "dead" /\ dll_table'[wt[u].at].handle = u
      BY <2>1, <2>3, <3>1 DEF Holder
    <3>3. wt[u].at # j
      BY <3>2, <1>5, <1>6
    <3> QED BY <2>1, <3>2, <3>3, <1>3 DEF Holder
  <2> QED BY <2>2, <2>3
<1>8. \A u \in WThread : Fits(u)'
  <2>1. ASSUME NEW u \in WThread \ {t} PROVE Fits(u)'
    <3>1. Fits(u) /\ wt'[u] = wt[u]
      BY <1>1 DEF TableInv
    <3> QED BY <3>1, <1>7 DEF Fits
  <2> QED BY <2>1
<1>9. \A u, v \in WThread : OneHolder(u, v)'
  <2>1. ASSUME NEW u \in WThread \ {t}, NEW v \in WThread \ {t} PROVE OneHolder(u, v)'
    <3>1. OneHolder(u, v) /\ wt'[u] = wt[u] /\ wt'[v] = wt[v]
      BY <1>1 DEF TableInv
    <3> QED BY <3>1, <1>7 DEF OneHolder
  <2>2. ASSUME NEW u \in WThread \ {t} PROVE OneHolder(u, t)' /\ OneHolder(t, u)'
    <3>1. wt'[u] = wt[u]
      BY <1>1
    <3> QED BY <3>1, <1>1, <1>4, <1>7 DEF OneHolder
  <2>3. OneHolder(t, t)'
    BY DEF OneHolder
  <2> QED BY <2>1, <2>2, <2>3
<1>10. \A i \in WSlot : SaysTrue(i)'
  <2>1. SaysTrue(j)'
    BY <1>0, <1>1, <1>5, <1>6 DEF LeavesSlot, SaysTrue
  <2>2. ASSUME NEW i \in WSlot \ {j} PROVE SaysTrue(i)'
    <3>1. /\ SaysTrue(i) /\ dll_table'[i].handle = dll_table[i].handle
          /\ dll_table'[i].id = dll_table[i].id /\ dll_table'[i].flags = dll_table[i].flags
      BY <1>3 DEF TableInv
    <3>2. dll_table[i].handle \in (WThread \ {t}) \cup {WNone} /\ dll_table[i].id \in (WThread \ {t}) \cup {WNone}
      <4>1. dll_table[i].handle # t /\ dll_table[i].id # t
        BY <3>1, <1>0, <1>1, <1>6 DEF SaysTrue
      <4> QED BY <4>1, WinFields
    <3>3. /\ dll_table[i].handle # WNone => wt'[dll_table[i].handle] = wt[dll_table[i].handle]
          /\ dll_table[i].id # WNone => wt'[dll_table[i].id] = wt[dll_table[i].id]
      BY <3>2, <1>1
    <3> DEFINE h == dll_table[i].handle
               d == dll_table[i].id
    <3>4. /\ h # WNone => wt[h].at = i /\ wt[h].pc \in HandlePc
          /\ d # WNone => wt[d].at = i /\ wt[d].pc \in IdPc /\ (wt[d].pc = "dead" => h = d)
          /\ "IS_SUSPENDED" \in dll_table[i].flags => h # WNone /\ wt[h].suspended
      BY <3>1 DEF SaysTrue
    <3>5. dll_table'[i].handle = h /\ dll_table'[i].id = d
            /\ (h # WNone => wt'[h] = wt[h]) /\ (d # WNone => wt'[d] = wt[d])
      BY <3>1, <3>3
    <3> HIDE DEF h, d
    <3> QED BY <3>1, <3>4, <3>5 DEF SaysTrue
  <2> QED BY <2>1, <2>2
<1>11. \A u \in WThread : FoundAgain(u)' /\ Reached(u)'
  <2>1. FoundAgain(t)'
    BY <1>1 DEF FoundAgain
  <2>2. ASSUME NEW u \in WThread \ {t} PROVE FoundAgain(u)' /\ Reached(u)'
    <3>1. FoundAgain(u) /\ Reached(u) /\ wt'[u] = wt[u] /\ wt[u].at \in WSlot
      BY <1>1, <1>2 DEF TableInv
    <3>2. FoundAgain(u)'
      <4>1. CASE wt[u].suspended
        <5>1. Holder(u)
          BY <3>1, <4>1 DEF FoundAgain, Holder, Reserved, WPc
        <5> QED BY <3>1, <5>1, <1>3, <1>4 DEF FoundAgain
      <4>2. CASE ~wt[u].suspended
        BY <3>1, <4>2 DEF FoundAgain
      <4> QED BY <4>1, <4>2
    <3>3. Reached(u)'
      <4>1. wt[u].at \in Nat /\ wt[u].at <= MAX_THREADS - 1 /\ MAX_THREADS \in Nat /\ GC_max_thread_index \in Nat
        BY <3>1, WinSlotsAre, WinAssumption DEF WinTyped
      <4>2. SlotCovered(u)' <=> SlotCovered(u)
        BY <3>1 DEF SlotCovered, Reserved
      <4> QED BY <3>1, <4>1, <4>2 DEF Reached, MaxGrows
    <3> QED BY <3>2, <3>3
  <2> QED BY <2>1, <2>2
<1>12. wt'[WMain].pc = "run"
  BY <1>1, WinAssumption DEF TableInv
<1> QED BY <1>8, <1>9, <1>10, <1>11, <1>12 DEF TableInv

\* A thread without a slot moves and gets none.
LEMMA OutsiderMoves ==
  ASSUME WinTyped, TableInv, NEW t \in WThread \ {WMain}, wt[t].pc \in {"new", "claim"},
         ~wt[t].suspended, OnlyThread(t), wt'[t].pc = "claim", wt'[t].suspended = FALSE,
         dll_table' = dll_table, GC_max_thread_index' = GC_max_thread_index
  PROVE  TableInv'
<1>1. \A u \in WThread \ {t} : wt'[u] = wt[u]
  BY DEF OnlyThread
<1>2. \A u \in WThread : u # WNone
  BY WinAssumption
<1>3. ~Holder(t) /\ ~Holder(t)'
  BY DEF Holder, Reserved
<1>4. \A u \in WThread \ {t} : Holder(u)' <=> Holder(u)
  BY <1>1 DEF Holder, Reserved
<1>5. \A u \in WThread : Fits(u)'
  <2>1. ASSUME NEW u \in WThread \ {t} PROVE Fits(u)'
    <3>1. Fits(u) /\ wt'[u] = wt[u]
      BY <1>1 DEF TableInv
    <3> QED BY <3>1, <1>4 DEF Fits
  <2> QED BY <2>1, <1>3 DEF Fits
<1>6. \A u, v \in WThread : OneHolder(u, v)'
  <2>1. ASSUME NEW u \in WThread \ {t}, NEW v \in WThread \ {t} PROVE OneHolder(u, v)'
    <3>1. OneHolder(u, v) /\ wt'[u] = wt[u] /\ wt'[v] = wt[v]
      BY <1>1 DEF TableInv
    <3> QED BY <3>1, <1>4 DEF OneHolder
  <2>2. ASSUME NEW u \in WThread PROVE OneHolder(u, t)' /\ OneHolder(t, u)'
    BY <1>3 DEF OneHolder
  <2> QED BY <2>1, <2>2
<1>7. ASSUME NEW i \in WSlot PROVE SaysTrue(i)'
  <2>1. SaysTrue(i) /\ dll_table'[i] = dll_table[i]
    BY DEF TableInv
  <2>2. dll_table[i].handle \in (WThread \ {t}) \cup {WNone} /\ dll_table[i].id \in (WThread \ {t}) \cup {WNone}
    <3>1. dll_table[i].handle # t /\ dll_table[i].id # t
      BY <2>1, <1>2 DEF SaysTrue, HandlePc, IdPc
    <3> QED BY <3>1, WinFields
  <2>3. /\ dll_table[i].handle # WNone => wt'[dll_table[i].handle] = wt[dll_table[i].handle]
        /\ dll_table[i].id # WNone => wt'[dll_table[i].id] = wt[dll_table[i].id]
    BY <2>2, <1>1
  <2> QED BY <2>1, <2>3 DEF SaysTrue
<1>8. \A u \in WThread : FoundAgain(u)' /\ Reached(u)'
  <2>1. FoundAgain(t)' /\ Reached(t)'
    BY DEF FoundAgain, Reached, SlotCovered, Reserved
  <2>2. ASSUME NEW u \in WThread \ {t} PROVE FoundAgain(u)' /\ Reached(u)'
    <3>1. FoundAgain(u) /\ Reached(u) /\ wt'[u] = wt[u]
      BY <1>1 DEF TableInv
    <3> QED BY <3>1 DEF FoundAgain, Reached, SlotCovered, Reserved
  <2> QED BY <2>1, <2>2
<1>9. wt'[WMain].pc = "run"
  BY <1>1, WinAssumption DEF TableInv
<1> QED BY <1>5, <1>6, <1>7, <1>8, <1>9 DEF TableInv

\* A thread claims a slot that nobody holds.
LEMMA OutsiderClaims ==
  ASSUME WinTyped, TableInv, NEW t, MovesTo(t, "max"), wt[t].pc = "claim",
         ~dll_table[wt[t].at].in_use, OnlySlot(wt[t].at), dll_table'[wt[t].at].in_use,
         dll_table'[wt[t].at].handle = dll_table[wt[t].at].handle,
         dll_table'[wt[t].at].id = dll_table[wt[t].at].id,
         dll_table'[wt[t].at].flags = dll_table[wt[t].at].flags,
         GC_max_thread_index' = GC_max_thread_index
  PROVE  TableInv'
<1> DEFINE j == wt[t].at
<1>1. /\ t \in WThread \ {WMain} /\ wt'[t].at = j /\ wt'[t].pc = "max" /\ wt'[t].suspended = FALSE
      /\ \A u \in WThread \ {t} : wt'[u] = wt[u]
  BY DEF MovesTo, OnlyThread
<1>2. j \in WSlot /\ \A u \in WThread : wt[u].at \in WSlot /\ u # WNone
  BY <1>1, WinFields, WinAssumption
<1>3. \A i \in WSlot \ {j} : dll_table'[i] = dll_table[i]
  BY DEF OnlySlot
<1>4. \A u \in WThread : Holder(u) => wt[u].at # j
  BY DEF TableInv, Fits
<1>5. \A i \in WSlot : /\ dll_table'[i].handle = dll_table[i].handle
                       /\ dll_table'[i].id = dll_table[i].id
                       /\ dll_table'[i].flags = dll_table[i].flags
  BY <1>3
<1>6. ASSUME NEW u \in WThread \ {t}
      PROVE  /\ wt'[u] = wt[u] /\ wt[u].at \in WSlot
             /\ Holder(u)' <=> Holder(u)
  <2>1. wt'[u] = wt[u] /\ wt[u].at \in WSlot
    BY <1>1, <1>2
  <2> QED BY <2>1, <1>5 DEF Holder, Reserved
<1>7. \A u \in WThread : Fits(u)'
  <2>1. ASSUME NEW u \in WThread \ {t} PROVE Fits(u)'
    <3>1. Fits(u)
      BY <1>1 DEF TableInv
    <3>2. Holder(u) => dll_table'[wt[u].at] = dll_table[wt[u].at]
      BY <1>2, <1>3, <1>4
    <3> QED BY <3>1, <3>2, <1>6 DEF Fits
  <2>2. Fits(t)'
    BY <1>1 DEF Fits, HandlePc, IdPc
  <2> QED BY <2>1, <2>2
<1>8. \A u, v \in WThread : OneHolder(u, v)'
  <2>1. ASSUME NEW u \in WThread \ {t}, NEW v \in WThread \ {t} PROVE OneHolder(u, v)'
    <3>1. OneHolder(u, v)
      BY DEF TableInv
    <3> QED BY <3>1, <1>6 DEF OneHolder
  <2>2. ASSUME NEW u \in WThread \ {t} PROVE OneHolder(u, t)' /\ OneHolder(t, u)'
    BY <1>1, <1>4, <1>6 DEF OneHolder
  <2>3. OneHolder(t, t)'
    BY DEF OneHolder
  <2> QED BY <2>1, <2>2, <2>3
<1>9. ASSUME NEW i \in WSlot PROVE SaysTrue(i)'
  <2>1. SaysTrue(i)
    BY DEF TableInv
  <2>2. dll_table[i].handle \in (WThread \ {t}) \cup {WNone} /\ dll_table[i].id \in (WThread \ {t}) \cup {WNone}
    <3>1. dll_table[i].handle # t /\ dll_table[i].id # t
      BY <2>1, <1>1, <1>2 DEF SaysTrue, HandlePc, IdPc
    <3> QED BY <3>1, WinFields
  <2>3. /\ dll_table[i].handle # WNone => wt'[dll_table[i].handle] = wt[dll_table[i].handle]
        /\ dll_table[i].id # WNone => wt'[dll_table[i].id] = wt[dll_table[i].id]
    BY <2>2, <1>1
  <2> QED BY <2>1, <2>3, <1>5 DEF SaysTrue
<1>10. \A u \in WThread : FoundAgain(u)' /\ Reached(u)'
  <2>1. FoundAgain(t)' /\ Reached(t)'
    BY <1>1 DEF FoundAgain, Reached, SlotCovered, Reserved
  <2>2. ASSUME NEW u \in WThread \ {t} PROVE FoundAgain(u)' /\ Reached(u)'
    <3>1. FoundAgain(u) /\ Reached(u)
      BY DEF TableInv
    <3> QED BY <3>1, <1>5, <1>6 DEF FoundAgain, Reached, SlotCovered, Reserved
  <2> QED BY <2>1, <2>2
<1>11. wt'[WMain].pc = "run"
  BY <1>1, WinAssumption DEF TableInv
<1> QED BY <1>7, <1>8, <1>9, <1>10, <1>11 DEF TableInv

\* The collector does not notice a thread that moves, unless it had not run
\* before and GC_please_stop is not set, or says that it has attached.
Unnoticed(t) ==
  /\ wg' = wg /\ GC_please_stop' = GC_please_stop /\ pushedStacks' = pushedStacks
  /\ lateThreads \subseteq lateThreads' /\ (GC_attached_thread => GC_attached_thread')
  /\ wt'[t].suspended = FALSE
  /\ wg.pc # "idle" /\ RanBefore(t)' => RanBefore(t) /\ wt'[t].at = wt[t].at
  /\ wg.pc # "idle" /\ wt'[t].pc = "run" /\ ~GC_attached_thread' =>
       wt[t].pc = "run" /\ wt'[t].at = wt[t].at
  /\ wg.pc # "idle" /\ wt'[t].pc \in {"tell", "run"} =>
       ("DO_BLOCKING" \in dll_table[wt[t].at].flags => "DO_BLOCKING" \in dll_table'[wt'[t].at].flags)
  /\ \A u \in WThread \ {t} :
       RanBefore(u) /\ "DO_BLOCKING" \in dll_table[wt[u].at].flags =>
         "DO_BLOCKING" \in dll_table'[wt[u].at].flags

\* Then the collector's part of the invariant holds still.
LEMMA NotNoticed ==
  ASSUME WinTyped, LoopInv, NEW t \in WThread \ {WMain}, ~wt[t].suspended, OnlyThread(t), Unnoticed(t)
  PROVE  LoopInv'
<1>1. \A u \in WThread \ {t} : wt'[u] = wt[u]
  BY DEF OnlyThread
<1>2. wg' = wg /\ pushedStacks' = pushedStacks /\ GC_please_stop' = GC_please_stop
        /\ lateThreads \subseteq lateThreads' /\ (GC_attached_thread => GC_attached_thread')
        /\ wt'[t].suspended = FALSE
  BY DEF Unnoticed
<1>3. ASSUME NEW u \in WThread \ {t}
      PROVE  StopReaches(u)' /\ StoppedFor(u)' /\ PushReaches(u)' /\ ResumeReaches(u)'
  <2>1. wt'[u] = wt[u] /\ StopReaches(u) /\ StoppedFor(u) /\ PushReaches(u) /\ ResumeReaches(u)
    BY <1>1 DEF LoopInv
  <2>2. RanBefore(u)' => RanBefore(u)
    BY <1>2, <2>1 DEF RanBefore
  <2>3. RanBefore(u) /\ Quiet(u) => Quiet(u)'
    BY <2>1 DEF Quiet, Unnoticed
  <2>4. StopReaches(u)' /\ StoppedFor(u)'
    BY <1>2, <2>1, <2>2, <2>3 DEF StopReaches, StoppedFor
  <2>5. PushReaches(u)' /\ ResumeReaches(u)'
    BY <1>2, <2>1 DEF PushReaches, ResumeReaches
  <2> QED BY <2>4, <2>5
<1>4. StopReaches(t)' /\ StoppedFor(t)' /\ PushReaches(t)' /\ ResumeReaches(t)'
  <2>1. StopReaches(t) /\ StoppedFor(t) /\ PushReaches(t)
    BY DEF LoopInv
  <2>2. wg.pc # "idle" /\ RanBefore(t)' => RanBefore(t) /\ wt'[t].at = wt[t].at
    BY DEF Unnoticed
  <2>3. wg.pc # "idle" /\ RanBefore(t)' /\ Quiet(t) => Quiet(t)'
    <3>1. Quiet(t) => "DO_BLOCKING" \in dll_table[wt[t].at].flags
      BY DEF Quiet
    <3> QED BY <3>1 DEF Quiet, RanBefore, Unnoticed
  <2>4. StopReaches(t)' /\ StoppedFor(t)'
    BY <1>2, <2>1, <2>2, <2>3 DEF StopReaches, StoppedFor
  <2>5. wg.pc # "idle" /\ wt'[t].pc = "run" /\ ~GC_attached_thread' => wt[t].pc = "run" /\ wt'[t].at = wt[t].at
    BY DEF Unnoticed
  <2>6. PushReaches(t)'
    BY <1>2, <2>1, <2>5 DEF PushReaches
  <2>7. ResumeReaches(t)'
    BY <1>2 DEF ResumeReaches
  <2> QED BY <2>4, <2>6, <2>7
<1>5. wt'[WMain] = wt[WMain]
  BY <1>1, WinAssumption
<1> QED BY <1>2, <1>3, <1>4, <1>5 DEF LoopInv

(***************************************************************************)
(* One lemma per action: the threads.                                      *)
(***************************************************************************)

\* A step of a thread is made when the process has not ended.
LEMMA WAtIs ==
  ASSUME WinInv, NEW t \in WThread, NEW p, WAt(t, p)
  PROVE  /\ WinTyped /\ TableInv /\ LoopInv /\ wg.pc \notin {"ended", "aborted"}
         /\ t \in WThread \ {WMain} /\ wt[t].pc = p /\ ~wt[t].suspended /\ wt[t].at \in WSlot
         /\ wg.pc # "idle" => GC_please_stop
<1>1. WinTyped /\ wg.pc \notin {"ended", "aborted"} /\ t # WMain /\ wt[t].pc = p /\ ~wt[t].suspended
  BY DEF WinInv, WAt
<1>2. TableInv /\ LoopInv
  BY <1>1 DEF WinInv
<1> QED BY <1>1, <1>2, WinFields DEF LoopInv

\* The parts of the invariant after such a step.
LEMMA WinKept ==
  ASSUME WinTyped', TableInv', LoopInv', wg'.pc # "ended"
  PROVE  WinInv'
BY DEF WinInv

\* The types after a step that leaves the collector alone.
LEMMA WinTypedKept ==
  ASSUME WinTyped, dll_table' \in [WSlot -> WinSlots], wt' \in [WThread -> WinStates], wg' = wg,
         GC_max_thread_index' \in Nat, GC_please_stop' = GC_please_stop,
         GC_attached_thread' \in BOOLEAN, pushedStacks' = pushedStacks, lateThreads' \subseteq WThread
  PROVE  WinTyped'
BY DEF WinTyped

\* What is in the slot of a thread that runs.
LEMMA OwnSlot ==
  ASSUME WinTyped, TableInv, NEW t \in WThread, Reserved(t), ~wt[t].suspended
  PROVE  /\ dll_table[wt[t].at].handle # WNone => dll_table[wt[t].at].handle = t /\ wt[t].pc \in HandlePc
         /\ dll_table[wt[t].at].id # WNone => dll_table[wt[t].at].id = t /\ wt[t].pc \in IdPc
         /\ "IS_SUSPENDED" \notin dll_table[wt[t].at].flags
<1>1. wt[t].at \in WSlot
  BY WinFields
<1>2. Holder(t)
  BY DEF Holder
<1>3. SaysTrue(wt[t].at)
  BY <1>1 DEF TableInv
<1>4. dll_table[wt[t].at].handle # WNone => dll_table[wt[t].at].handle = t /\ wt[t].pc \in HandlePc
  <2> SUFFICES ASSUME dll_table[wt[t].at].handle # WNone
               PROVE  dll_table[wt[t].at].handle = t /\ wt[t].pc \in HandlePc
    OBVIOUS
  <2> DEFINE h == dll_table[wt[t].at].handle
  <2>1. h \in WThread /\ wt[h].at = wt[t].at /\ wt[h].pc \in HandlePc
    BY <1>1, <1>3, WinFields DEF SaysTrue
  <2>2. Holder(h)
    BY <2>1 DEF Holder, Reserved, HandlePc, WPc
  <2>3. h = t
    BY <1>2, <2>1, <2>2 DEF TableInv, OneHolder
  <2> QED BY <2>1, <2>3
<1>5. dll_table[wt[t].at].id # WNone => dll_table[wt[t].at].id = t /\ wt[t].pc \in IdPc
  <2> SUFFICES ASSUME dll_table[wt[t].at].id # WNone
               PROVE  dll_table[wt[t].at].id = t /\ wt[t].pc \in IdPc
    OBVIOUS
  <2> DEFINE h == dll_table[wt[t].at].id
  <2>1. h \in WThread /\ wt[h].at = wt[t].at /\ wt[h].pc \in IdPc
    BY <1>1, <1>3, WinFields DEF SaysTrue
  <2>2. Holder(h)
    BY <2>1, <1>3 DEF Holder, Reserved, IdPc, WPc, SaysTrue
  <2>3. h = t
    BY <1>2, <2>1, <2>2 DEF TableInv, OneHolder
  <2> QED BY <2>1, <2>3
<1>6. "IS_SUSPENDED" \notin dll_table[wt[t].at].flags
  BY <1>3, <1>4 DEF SaysTrue
<1> QED BY <1>4, <1>5, <1>6

\* A step that changes nothing but where the thread is, among the places where
\* it holds its slot.
LEMMA PcStep ==
  ASSUME WinInv, NEW t \in WThread, NEW p, NEW q \in WPc, WAt(t, p), WGoto(t, q),
         dll_table' = dll_table, MaxGrows, Reached(t)',
         p \in WPc \ {"new", "claim", "gone", "dead"},
         q \in WPc \ {"new", "claim", "gone"},
         p \in HandlePc <=> q \in HandlePc, p \in IdPc <=> q \in IdPc,
         wg' = wg, GC_please_stop' = GC_please_stop, pushedStacks' = pushedStacks,
         lateThreads' \subseteq WThread, lateThreads \subseteq lateThreads',
         GC_attached_thread' \in BOOLEAN, GC_attached_thread => GC_attached_thread',
         wg.pc # "idle" /\ q \in {"tell", "run"} /\ t \notin lateThreads' => p \in {"tell", "run"},
         wg.pc # "idle" /\ q = "run" /\ ~GC_attached_thread' => p = "run"
  PROVE  WinInv'
<1>1. /\ WinTyped /\ TableInv /\ LoopInv /\ wg.pc \notin {"ended", "aborted"}
      /\ t \in WThread \ {WMain} /\ wt[t].pc = p /\ ~wt[t].suspended /\ wt[t].at \in WSlot
  BY WAtIs
<1>2. MovesTo(t, q)
  BY <1>1, WGotoIs
<1>3. /\ wt'[t].pc = q /\ wt'[t].at = wt[t].at /\ wt'[t].suspended = FALSE /\ OnlyThread(t)
      /\ wt' \in [WThread -> WinStates]
  BY <1>2 DEF MovesTo
<1>4. Holder(t)
  BY <1>1 DEF Holder, Reserved
<1>5. Fits(t) /\ SaysTrue(wt[t].at) /\ Fits(t)'
  <2>1. Fits(t) /\ SaysTrue(wt[t].at)
    BY <1>1 DEF TableInv
  <2> QED BY <2>1, <1>1, <1>3, <1>4 DEF Fits
<1>6. LeavesSlot(t, wt[t].at)
  <2>1. /\ dll_table[wt[t].at].handle # WNone => dll_table[wt[t].at].handle = t /\ p \in HandlePc
        /\ dll_table[wt[t].at].id # WNone => dll_table[wt[t].at].id = t /\ p \in IdPc
        /\ "IS_SUSPENDED" \notin dll_table[wt[t].at].flags
    BY <1>1, OwnSlot DEF Reserved
  <2>4. q = "dead" => dll_table[wt[t].at].handle = t
    BY <1>1, <1>4, <1>5 DEF Fits, HandlePc
  <2> QED BY <2>1, <2>4, <1>3 DEF LeavesSlot
<1>7. OnlySlot(wt[t].at) /\ dll_table' \in [WSlot -> WinSlots]
  BY <1>1 DEF OnlySlot, WinTyped
<1>8. TableInv'
  BY <1>1, <1>2, <1>4, <1>5, <1>6, <1>7, HolderMoves
<1>9. Unnoticed(t)
  BY <1>1, <1>3 DEF Unnoticed, RanBefore
<1>10. LoopInv'
  BY <1>1, <1>3, <1>9, NotNoticed
<1>11. WinTyped'
  BY <1>1, <1>3, <1>7, WinTypedKept DEF MaxGrows
<1> QED BY <1>1, <1>8, <1>10, <1>11, WinKept

\* The process is aborted.
LEMMA WinAborts ==
  ASSUME WinTyped, TableInv, LoopInv, wg' = [wg EXCEPT !.pc = "aborted"], dll_table' = dll_table, wt' = wt,
         GC_max_thread_index' = GC_max_thread_index, GC_please_stop' = GC_please_stop,
         GC_attached_thread' = GC_attached_thread, pushedStacks' = pushedStacks, lateThreads' = lateThreads
  PROVE  WinInv'
<1>1. wg \in [pc : WinPc, i : WSlot, max : WSlot]
  BY DEF WinTyped
<1>2. wg' \in [pc : WinPc, i : WSlot, max : WSlot] /\ wg'.pc = "aborted"
  BY <1>1 DEF WinPc
<1>3. WinTyped'
  BY <1>2 DEF WinTyped
<1>4. TableInv'
  BY DEF TableInv, Fits, FoundAgain, Reached, OneHolder, SaysTrue, Holder, Reserved, SlotCovered
<1>5. \A t \in WThread : StopReaches(t)' /\ StoppedFor(t)' /\ PushReaches(t)' /\ ResumeReaches(t)'
  BY <1>2 DEF StopReaches, StoppedFor, PushReaches, ResumeReaches
<1>6. LoopInv'
  BY <1>2, <1>5 DEF LoopInv
<1> QED BY <1>2, <1>3, <1>4, <1>6, WinKept

\* A new thread starts to look for a slot.
LEMMA StartThreadStep ==
  ASSUME WinInv, NEW t \in WThread, StartThread(t)
  PROVE  WinInv'
<1>1. /\ WAt(t, "new") /\ WGoto(t, "claim") /\ dll_table' = dll_table
      /\ GC_max_thread_index' = GC_max_thread_index /\ GC_please_stop' = GC_please_stop
      /\ GC_attached_thread' = GC_attached_thread /\ wg' = wg /\ pushedStacks' = pushedStacks
      /\ lateThreads' = lateThreads
  BY DEF StartThread, stopFlags, gcSide
<1>2. /\ WinTyped /\ TableInv /\ LoopInv /\ wg.pc \notin {"ended", "aborted"}
      /\ t \in WThread \ {WMain} /\ wt[t].pc = "new" /\ ~wt[t].suspended /\ wt[t].at \in WSlot
  BY <1>1, WAtIs
<1>3. MovesTo(t, "claim")
  BY <1>1, <1>2, WGotoIs DEF WPc
<1>4. /\ wt'[t].pc = "claim" /\ wt'[t].at = wt[t].at /\ wt'[t].suspended = FALSE /\ OnlyThread(t)
      /\ wt' \in [WThread -> WinStates]
  BY <1>3 DEF MovesTo
<1>5. TableInv'
  BY <1>1, <1>2, <1>4, OutsiderMoves
<1>6. Unnoticed(t)
  BY <1>1, <1>2, <1>4 DEF Unnoticed, RanBefore
<1>7. LoopInv'
  BY <1>2, <1>4, <1>6, NotNoticed
<1>8. WinTyped'
  BY <1>1, <1>2, <1>4, WinTypedKept DEF WinTyped
<1> QED BY <1>1, <1>2, <1>5, <1>7, <1>8, WinKept

\* What InterlockedExchange does to the table.
LEMMA ExchangeIs ==
  ASSUME WinTyped, NEW j \in WSlot, dll_table' = [dll_table EXCEPT ![j] = Exchanged(@)]
  PROVE  /\ dll_table' \in [WSlot -> WinSlots] /\ OnlySlot(j) /\ dll_table'[j].in_use
         /\ dll_table'[j].handle = dll_table[j].handle /\ dll_table'[j].id = dll_table[j].id
         /\ dll_table'[j].flags = dll_table[j].flags
         /\ dll_table[j].in_use => dll_table' = dll_table
<1>1. dll_table \in [WSlot -> WinSlots] /\ dll_table[j] \in WinSlots
  BY DEF WinTyped
<1>2. PICK s \in WinSlots : s = [dll_table[j] EXCEPT !.in_use = TRUE]
  BY <1>1 DEF WinSlots
<1>3. dll_table' = [dll_table EXCEPT ![j] = s]
  BY <1>2 DEF Exchanged
<1>4. /\ s.in_use /\ s.handle = dll_table[j].handle /\ s.id = dll_table[j].id
      /\ s.flags = dll_table[j].flags /\ s.stack_end = dll_table[j].stack_end
  BY <1>1, <1>2 DEF WinSlots
<1>5. dll_table[j].in_use => s = dll_table[j]
  BY <1>1, <1>4 DEF WinSlots
<1>6. dll_table' \in [WSlot -> WinSlots] /\ OnlySlot(j) /\ dll_table'[j] = s
  BY <1>1, <1>3 DEF OnlySlot
<1>7. s = dll_table[j] => dll_table' = dll_table
  BY <1>1, <1>3
<1> QED BY <1>4, <1>5, <1>6, <1>7

\* A thread takes a slot, or goes to the next one, or there is none.
LEMMA ClaimSlotStep ==
  ASSUME WinInv, NEW t \in WThread, ClaimSlot(t)
  PROVE  WinInv'
<1>1. /\ WAt(t, "claim") /\ dll_table' = [dll_table EXCEPT ![wt[t].at] = Exchanged(@)]
      /\ GC_max_thread_index' = GC_max_thread_index /\ GC_please_stop' = GC_please_stop
      /\ GC_attached_thread' = GC_attached_thread /\ pushedStacks' = pushedStacks
      /\ lateThreads' = lateThreads
  BY DEF ClaimSlot, stopFlags
<1>2. /\ WinTyped /\ TableInv /\ LoopInv /\ wg.pc \notin {"ended", "aborted"}
      /\ t \in WThread \ {WMain} /\ wt[t].pc = "claim" /\ ~wt[t].suspended /\ wt[t].at \in WSlot
  BY <1>1, WAtIs
<1>3. PICK j \in WSlot : j = wt[t].at
  BY <1>2
<1>4. /\ dll_table' \in [WSlot -> WinSlots] /\ OnlySlot(j) /\ dll_table'[j].in_use
      /\ dll_table'[j].handle = dll_table[j].handle /\ dll_table'[j].id = dll_table[j].id
      /\ dll_table'[j].flags = dll_table[j].flags
      /\ dll_table[j].in_use => dll_table' = dll_table
  BY <1>1, <1>2, <1>3, ExchangeIs
<1>5. CASE ~dll_table[j].in_use /\ WGoto(t, "max") /\ wg' = wg
  <2>1. MovesTo(t, "max")
    BY <1>2, <1>5, WGotoIs DEF WPc
  <2>2. /\ wt'[t].pc = "max" /\ wt'[t].at = j /\ wt'[t].suspended = FALSE /\ OnlyThread(t)
        /\ wt' \in [WThread -> WinStates]
    BY <2>1, <1>3 DEF MovesTo
  <2>3. TableInv'
    BY <1>1, <1>2, <1>3, <1>4, <1>5, <2>1, OutsiderClaims
  <2>4. \A i \in WSlot : dll_table'[i].flags = dll_table[i].flags
    BY <1>4 DEF OnlySlot
  <2>5. \A u \in WThread : wt[u].at \in WSlot
    BY <1>2, WinFields
  <2>6. Unnoticed(t)
    BY <1>1, <1>2, <1>5, <2>2, <2>4, <2>5 DEF Unnoticed, RanBefore
  <2>7. LoopInv'
    BY <1>2, <2>2, <2>6, NotNoticed
  <2>8. WinTyped'
    BY <1>1, <1>2, <1>4, <1>5, <2>2, WinTypedKept DEF WinTyped
  <2> QED BY <1>2, <1>5, <2>3, <2>7, <2>8, WinKept
<1>6. CASE dll_table[j].in_use /\ j < MAX_THREADS - 1 /\ wt' = [wt EXCEPT ![t].at = @ + 1] /\ wg' = wg
  <2>1. PICK k \in WSlot : k = j + 1
    BY <1>6, WinAssumption DEF WSlot
  <2>2. wt \in [WThread -> WinStates]
    BY <1>2 DEF WinTyped
  <2>3. wt' = [wt EXCEPT ![t].at = k]
    BY <1>6, <1>3, <2>1
  <2>4. wt' \in [WThread -> WinStates]
    BY <2>2, <2>3 DEF WinStates
  <2>5. OnlyThread(t)
    BY <2>2, <2>3 DEF OnlyThread
  <2>6. wt'[t].pc = wt[t].pc /\ wt'[t].suspended = wt[t].suspended
    BY <1>2, <2>2, <2>3 DEF WinStates
  <2>7. wt'[t].pc = "claim" /\ wt'[t].suspended = FALSE
    BY <1>2, <2>4, <2>6 DEF WinStates
  <2>8. dll_table' = dll_table
    BY <1>4, <1>6
  <2>9. TableInv'
    BY <1>1, <1>2, <2>5, <2>7, <2>8, OutsiderMoves
  <2>10. Unnoticed(t)
    BY <1>1, <1>6, <2>7, <2>8 DEF Unnoticed, RanBefore
  <2>11. LoopInv'
    BY <1>2, <2>5, <2>10, NotNoticed
  <2>12. WinTyped'
    BY <1>1, <1>2, <1>4, <1>6, <2>4, WinTypedKept DEF WinTyped
  <2> QED BY <1>2, <1>6, <2>9, <2>11, <2>12, WinKept
<1>7. CASE dll_table[j].in_use /\ WAborts /\ wt' = wt
  <2>1. dll_table' = dll_table
    BY <1>4, <1>7
  <2>2. wg' = [wg EXCEPT !.pc = "aborted"]
    BY <1>7 DEF WAborts
  <2> QED BY <1>1, <1>2, <1>7, <2>1, <2>2, WinAborts
<1>8. \/ ~dll_table[j].in_use /\ WGoto(t, "max") /\ wg' = wg
      \/ dll_table[j].in_use /\ j < MAX_THREADS - 1 /\ wt' = [wt EXCEPT ![t].at = @ + 1] /\ wg' = wg
      \/ dll_table[j].in_use /\ WAborts /\ wt' = wt
  BY <1>3 DEF ClaimSlot, MySlot
<1> QED BY <1>5, <1>6, <1>7, <1>8

\* Where the index has to be after a step.
LEMMA ReachedAfter ==
  ASSUME WinInv, NEW t \in WThread, NEW p, NEW q \in WPc, WAt(t, p), WGoto(t, q),
         q \in {"max", "increment"} \/ wt[t].at <= GC_max_thread_index'
  PROVE  Reached(t)'
<1>1. MovesTo(t, q)
  BY WAtIs, WGotoIs
<1> QED BY <1>1 DEF MovesTo, Reached, SlotCovered

\* The index is left alone by a thread whose slot it reaches.
LEMMA MaxKept ==
  ASSUME WinInv, NEW t \in WThread, NEW p \in WPc \ {"new", "claim", "gone", "dead", "max", "increment"},
         WAt(t, p), GC_max_thread_index' = GC_max_thread_index
  PROVE  MaxGrows /\ wt[t].at <= GC_max_thread_index'
<1>1. WinTyped /\ TableInv /\ wt[t].pc = p
  BY WAtIs
<1>2. SlotCovered(t) /\ Reached(t)
  BY <1>1 DEF SlotCovered, Reserved, TableInv
<1> QED BY <1>1, <1>2 DEF Reached, MaxGrows, WinTyped

\* The index is compared with the slot.
LEMMA TestMaxStep ==
  ASSUME WinInv, NEW t \in WThread, TestMax(t)
  PROVE  WinInv'
<1>1. /\ WAt(t, "max") /\ dll_table' = dll_table
      /\ GC_max_thread_index' = GC_max_thread_index /\ GC_please_stop' = GC_please_stop
      /\ GC_attached_thread' = GC_attached_thread /\ wg' = wg /\ pushedStacks' = pushedStacks
      /\ lateThreads' = lateThreads
      /\ WGoto(t, IF wt[t].at > GC_max_thread_index THEN "increment" ELSE "overshot")
  BY DEF TestMax, stopFlags, gcSide
<1>2. PICK q : q = IF wt[t].at > GC_max_thread_index THEN "increment" ELSE "overshot"
  OBVIOUS
<1>3. WinTyped /\ wt[t].at \in WSlot
  BY <1>1, WAtIs
<1>4. /\ GC_max_thread_index \in Nat /\ wt[t].at \in Nat /\ lateThreads \subseteq WThread
      /\ GC_attached_thread \in BOOLEAN
  BY <1>3, WinSlotsAre DEF WinTyped
<1>5. q \in {"increment", "overshot"} /\ q \in WPc /\ (q = "overshot" => wt[t].at <= GC_max_thread_index)
  BY <1>2, <1>4 DEF WPc
<1>6. WGoto(t, q)
  BY <1>1, <1>2
<1>7. Reached(t)'
  BY <1>1, <1>5, <1>6, ReachedAfter
<1>8. MaxGrows
  BY <1>1, <1>4 DEF MaxGrows
<1>9. /\ "max" \in WPc \ {"new", "claim", "gone", "dead"} /\ q \in WPc \ {"new", "claim", "gone"}
      /\ "max" \in HandlePc <=> q \in HandlePc
      /\ "max" \in IdPc <=> q \in IdPc
  BY <1>5 DEF WPc, HandlePc, IdPc
<1> QED BY <1>1, <1>4, <1>5, <1>6, <1>7, <1>8, <1>9, PcStep

\* The index is incremented.
LEMMA IncrementMaxStep ==
  ASSUME WinInv, NEW t \in WThread, IncrementMax(t)
  PROVE  WinInv'
<1>1. /\ WAt(t, "increment") /\ WGoto(t, "max") /\ dll_table' = dll_table
      /\ GC_max_thread_index' = GC_max_thread_index + 1 /\ GC_please_stop' = GC_please_stop
      /\ GC_attached_thread' = GC_attached_thread /\ wg' = wg /\ pushedStacks' = pushedStacks
      /\ lateThreads' = lateThreads
  BY DEF IncrementMax, stopFlags, gcSide
<1>2. GC_max_thread_index \in Nat /\ lateThreads \subseteq WThread /\ GC_attached_thread \in BOOLEAN
  BY <1>1, WAtIs DEF WinTyped
<1>3. /\ "increment" \in WPc \ {"new", "claim", "gone", "dead"} /\ "max" \in WPc \ {"new", "claim", "gone"}
      /\ "increment" \in HandlePc <=> "max" \in HandlePc
      /\ "increment" \in IdPc <=> "max" \in IdPc
  BY DEF WPc, HandlePc, IdPc
<1>4. Reached(t)'
  BY <1>1, <1>3, ReachedAfter
<1>5. MaxGrows
  BY <1>1, <1>2 DEF MaxGrows
<1> QED BY <1>1, <1>2, <1>3, <1>4, <1>5, PcStep

\* The index is compared with the size of the table.
LEMMA TestOvershotStep ==
  ASSUME WinInv, NEW t \in WThread, TestOvershot(t)
  PROVE  WinInv'
<1>1. /\ WAt(t, "overshot") /\ dll_table' = dll_table
      /\ GC_max_thread_index' = GC_max_thread_index /\ GC_please_stop' = GC_please_stop
      /\ GC_attached_thread' = GC_attached_thread /\ wg' = wg /\ pushedStacks' = pushedStacks
      /\ lateThreads' = lateThreads
      /\ WGoto(t, IF GC_max_thread_index >= MAX_THREADS THEN "clamp" ELSE "fill")
  BY DEF TestOvershot, stopFlags, gcSide
<1>2. PICK q : q = IF GC_max_thread_index >= MAX_THREADS THEN "clamp" ELSE "fill"
  OBVIOUS
<1>3. lateThreads \subseteq WThread /\ GC_attached_thread \in BOOLEAN
  BY <1>1, WAtIs DEF WinTyped
<1>4. /\ q \in {"clamp", "fill"} /\ q \in WPc \ {"new", "claim", "gone"}
      /\ "overshot" \in WPc \ {"new", "claim", "gone", "dead", "max", "increment"}
      /\ "overshot" \in HandlePc <=> q \in HandlePc
      /\ "overshot" \in IdPc <=> q \in IdPc
  BY <1>2 DEF WPc, HandlePc, IdPc
<1>5. WGoto(t, q)
  BY <1>1, <1>2
<1>6. MaxGrows /\ wt[t].at <= GC_max_thread_index'
  BY <1>1, <1>4, MaxKept
<1>7. Reached(t)'
  BY <1>1, <1>4, <1>5, <1>6, ReachedAfter
<1> QED BY <1>1, <1>3, <1>4, <1>5, <1>6, <1>7, PcStep

\* The index is set back to the last slot.
LEMMA ClampMaxStep ==
  ASSUME WinInv, NEW t \in WThread, ClampMax(t)
  PROVE  WinInv'
<1>1. /\ WAt(t, "clamp") /\ WGoto(t, "fill") /\ dll_table' = dll_table
      /\ GC_max_thread_index' = MAX_THREADS - 1 /\ GC_please_stop' = GC_please_stop
      /\ GC_attached_thread' = GC_attached_thread /\ wg' = wg /\ pushedStacks' = pushedStacks
      /\ lateThreads' = lateThreads
  BY DEF ClampMax, Clamped, stopFlags, gcSide
<1>2. /\ lateThreads \subseteq WThread /\ GC_attached_thread \in BOOLEAN /\ wt[t].at \in WSlot
  BY <1>1, WAtIs DEF WinTyped
<1>3. /\ "clamp" \in WPc \ {"new", "claim", "gone", "dead"} /\ "fill" \in WPc \ {"new", "claim", "gone"}
      /\ "clamp" \in HandlePc <=> "fill" \in HandlePc
      /\ "clamp" \in IdPc <=> "fill" \in IdPc
  BY DEF WPc, HandlePc, IdPc
<1>4. Reached(t)'
  BY <1>1, <1>2, <1>3, WinSlotsAre, ReachedAfter
<1>5. MaxGrows
  BY <1>1, WinSlotsAre DEF MaxGrows
<1> QED BY <1>1, <1>2, <1>3, <1>4, <1>5, PcStep

\* The thread looks whether the world is being stopped.
LEMMA TestPleaseStopStep ==
  ASSUME WinInv, NEW t \in WThread, TestPleaseStop(t)
  PROVE  WinInv'
<1>1. /\ WAt(t, "test_stop") /\ dll_table' = dll_table
      /\ GC_max_thread_index' = GC_max_thread_index /\ GC_please_stop' = GC_please_stop
      /\ GC_attached_thread' = GC_attached_thread /\ wg' = wg /\ pushedStacks' = pushedStacks
      /\ lateThreads' = IF GC_please_stop THEN lateThreads \union {t} ELSE lateThreads
      /\ WGoto(t, IF GC_please_stop THEN "tell" ELSE "run")
  BY DEF TestPleaseStop, SeesStop, stopFlags, gcSide
<1>2. PICK q : q = IF GC_please_stop THEN "tell" ELSE "run"
  OBVIOUS
<1>3. /\ lateThreads \subseteq WThread /\ GC_attached_thread \in BOOLEAN
      /\ wg.pc # "idle" => GC_please_stop
  BY <1>1, WAtIs DEF WinTyped
<1>4. /\ q \in {"tell", "run"} /\ q \in WPc \ {"new", "claim", "gone"}
      /\ "test_stop" \in WPc \ {"new", "claim", "gone", "dead", "max", "increment"}
      /\ "test_stop" \in HandlePc <=> q \in HandlePc
      /\ "test_stop" \in IdPc <=> q \in IdPc
  BY <1>2 DEF WPc, HandlePc, IdPc
<1>5. WGoto(t, q)
  BY <1>1, <1>2
<1>6. MaxGrows /\ wt[t].at <= GC_max_thread_index'
  BY <1>1, <1>4, MaxKept
<1>7. Reached(t)'
  BY <1>1, <1>4, <1>5, <1>6, ReachedAfter
<1>8. /\ lateThreads' \subseteq WThread /\ lateThreads \subseteq lateThreads'
      /\ wg.pc # "idle" => t \in lateThreads' /\ q = "tell"
  BY <1>1, <1>2, <1>3
<1> QED BY <1>1, <1>3, <1>4, <1>5, <1>6, <1>7, <1>8, PcStep

\* The thread says that it attached while the world is stopped.
LEMMA TellAttachedStep ==
  ASSUME WinInv, NEW t \in WThread, TellAttached(t)
  PROVE  WinInv'
<1>1. /\ WAt(t, "tell") /\ WGoto(t, "run") /\ dll_table' = dll_table
      /\ GC_max_thread_index' = GC_max_thread_index /\ GC_please_stop' = GC_please_stop
      /\ GC_attached_thread' = TRUE /\ wg' = wg /\ pushedStacks' = pushedStacks
      /\ lateThreads' = lateThreads
  BY DEF TellAttached, gcSide
<1>2. lateThreads \subseteq WThread
  BY <1>1, WAtIs DEF WinTyped
<1>3. /\ "tell" \in WPc \ {"new", "claim", "gone", "dead", "max", "increment"}
      /\ "run" \in WPc \ {"new", "claim", "gone"}
      /\ "tell" \in HandlePc <=> "run" \in HandlePc
      /\ "tell" \in IdPc <=> "run" \in IdPc
  BY DEF WPc, HandlePc, IdPc
<1>4. MaxGrows /\ wt[t].at <= GC_max_thread_index'
  BY <1>1, <1>3, MaxKept
<1>5. Reached(t)'
  BY <1>1, <1>3, <1>4, ReachedAfter
<1> QED BY <1>1, <1>2, <1>3, <1>4, <1>5, PcStep

\* A thread is terminated.
LEMMA TerminateThreadStep ==
  ASSUME WinInv, NEW t \in WThread, TerminateThread(t)
  PROVE  WinInv'
<1>1. /\ WAt(t, "run") /\ WGoto(t, "dead") /\ dll_table' = dll_table
      /\ GC_max_thread_index' = GC_max_thread_index /\ GC_please_stop' = GC_please_stop
      /\ GC_attached_thread' = GC_attached_thread /\ wg' = wg /\ pushedStacks' = pushedStacks
      /\ lateThreads' = lateThreads
  BY DEF TerminateThread, stopFlags, gcSide
<1>2. lateThreads \subseteq WThread /\ GC_attached_thread \in BOOLEAN
  BY <1>1, WAtIs DEF WinTyped
<1>3. /\ "run" \in WPc \ {"new", "claim", "gone", "dead", "max", "increment"}
      /\ "dead" \in WPc \ {"new", "claim", "gone"}
      /\ "run" \in HandlePc <=> "dead" \in HandlePc
      /\ "run" \in IdPc <=> "dead" \in IdPc
  BY DEF WPc, HandlePc, IdPc
<1>4. MaxGrows /\ wt[t].at <= GC_max_thread_index'
  BY <1>1, <1>3, MaxKept
<1>5. Reached(t)'
  BY <1>1, <1>3, <1>4, ReachedAfter
<1> QED BY <1>1, <1>2, <1>3, <1>4, <1>5, PcStep

\* A slot that a thread at q may have.
SlotFor(t, q, c) ==
  /\ c.handle # WNone => c.handle = t /\ q \in HandlePc
  /\ c.id # WNone => c.id = t /\ q \in IdPc
  /\ "IS_SUSPENDED" \notin c.flags
  /\ q # "gone" => c.in_use
  /\ q \in HandlePc => c.handle = t /\ c.stack_end
  /\ q \in IdPc => c.id = t

\* The rest of the state is left alone.
RestKept ==
  /\ GC_max_thread_index' = GC_max_thread_index /\ wg' = wg /\ GC_please_stop' = GC_please_stop
  /\ pushedStacks' = pushedStacks /\ lateThreads' = lateThreads /\ GC_attached_thread' = GC_attached_thread

\* A step that writes to the thread's own slot.
LEMMA SlotStep ==
  ASSUME WinInv, NEW t \in WThread, NEW p \in WPc \ {"new", "claim", "gone", "dead"},
         NEW q \in WPc \ {"new", "claim", "dead"}, WAt(t, p), MovesTo(t, q),
         NEW j \in WSlot, j = wt[t].at, NEW s \in WinSlots, dll_table' = [dll_table EXCEPT ![j] = s],
         SlotFor(t, q, s), RestKept,
         p \notin {"max", "increment"},
         wg.pc # "idle" => q \notin {"tell", "run"}
  PROVE  WinInv'
<1>1. /\ WinTyped /\ TableInv /\ LoopInv /\ wg.pc \notin {"ended", "aborted"}
      /\ t \in WThread \ {WMain} /\ wt[t].pc = p /\ ~wt[t].suspended
  BY WAtIs
<1>2. /\ wt'[t].pc = q /\ wt'[t].at = j /\ wt'[t].suspended = FALSE /\ OnlyThread(t)
      /\ wt' \in [WThread -> WinStates]
  BY DEF MovesTo
<1>3. dll_table' \in [WSlot -> WinSlots] /\ OnlySlot(j) /\ dll_table'[j] = s
  BY <1>1 DEF OnlySlot, WinTyped
<1>4. Holder(t)
  BY <1>1 DEF Holder, Reserved
<1>5. Fits(t)'
  BY <1>2, <1>3 DEF Fits, Holder, Reserved, SlotFor
<1>6. LeavesSlot(t, j)
  BY <1>2, <1>3 DEF LeavesSlot, SlotFor
<1>7. MaxGrows /\ wt[t].at <= GC_max_thread_index'
  BY MaxKept DEF RestKept
<1>8. Reached(t)'
  BY <1>2, <1>7 DEF Reached
<1>9. TableInv'
  BY <1>1, <1>3, <1>4, <1>5, <1>6, <1>7, <1>8, HolderMoves
<1>10. ASSUME NEW u \in WThread \ {t}, RanBefore(u) PROVE dll_table'[wt[u].at] = dll_table[wt[u].at]
  <2>1. Holder(u)
    BY <1>10 DEF RanBefore, Holder, Reserved, WPc
  <2>2. wt[u].at # j /\ wt[u].at \in WSlot
    BY <2>1, <1>1, <1>4, WinFields DEF TableInv, OneHolder
  <2> QED BY <2>2, <1>3 DEF OnlySlot
<1>11. Unnoticed(t)
  BY <1>1, <1>2, <1>10 DEF Unnoticed, RanBefore, RestKept
<1>12. LoopInv'
  BY <1>1, <1>2, <1>11, NotNoticed
<1>13. WinTyped'
  BY <1>1, <1>2, <1>3, WinTypedKept DEF WinTyped, RestKept
<1> QED BY <1>1, <1>9, <1>12, <1>13, WinKept DEF RestKept

\* The handle and the stack are recorded.
LEMMA FillSlotStep ==
  ASSUME WinInv, NEW t \in WThread, FillSlot(t)
  PROVE  WinInv'
<1>0. dll_table' = [dll_table EXCEPT ![wt[t].at].handle = t, ![wt[t].at].stack_end = TRUE]
  BY DEF FillSlot
<1>1. /\ WAt(t, "fill") /\ WGoto(t, "id")
      /\ RestKept
  BY DEF FillSlot, stopFlags, gcSide, RestKept
<1>2. WinTyped /\ TableInv /\ wt[t].pc = "fill" /\ ~wt[t].suspended /\ t \in WThread \ {WMain}
  BY <1>1, WAtIs
<1>3. PICK j \in WSlot : j = wt[t].at
  BY <1>2, WinFields
<1>4. dll_table[j] \in WinSlots /\ dll_table \in [WSlot -> WinSlots]
  BY <1>2 DEF WinTyped
<1>5. PICK s \in WinSlots : s = [dll_table[j] EXCEPT !.handle = t, !.stack_end = TRUE]
  BY <1>4 DEF WinSlots
<1>6. dll_table' = [dll_table EXCEPT ![j] = s]
  BY <1>0, <1>3, <1>4, <1>5
<1>7. Reserved(t) /\ Fits(t)
  BY <1>2 DEF Reserved, WPc, TableInv
<1>8. dll_table[j].in_use /\ dll_table[j].id = WNone /\ "IS_SUSPENDED" \notin dll_table[j].flags
  <2>1. dll_table[j].in_use
    BY <1>3, <1>7 DEF Fits, Holder
  <2> QED BY <1>2, <1>3, <1>7, <2>1, OwnSlot DEF IdPc
<1>9. s.in_use /\ s.handle = t /\ s.stack_end /\ s.id = WNone /\ "IS_SUSPENDED" \notin s.flags
  BY <1>4, <1>5, <1>8 DEF WinSlots
<1>10. MovesTo(t, "id")
  BY <1>1, <1>2, WGotoIs DEF WPc
<1>11. /\ "fill" \in WPc \ {"new", "claim", "gone", "dead"} /\ "id" \in WPc \ {"new", "claim", "dead"}
       /\ "id" \in HandlePc /\ "id" \notin IdPc
  BY DEF WPc, HandlePc, IdPc
<1>12. SlotFor(t, "id", s)
  BY <1>9, <1>11 DEF SlotFor
<1> QED BY <1>1, <1>3, <1>6, <1>10, <1>11, <1>12, SlotStep

\* The identifier is recorded.
LEMMA StoreIdStep ==
  ASSUME WinInv, NEW t \in WThread, StoreId(t)
  PROVE  WinInv'
<1>0. dll_table' = [dll_table EXCEPT ![wt[t].at].id = t]
  BY DEF StoreId
<1>1. /\ WAt(t, "id") /\ WGoto(t, "test_stop")
      /\ RestKept
  BY DEF StoreId, stopFlags, gcSide, RestKept
<1>2. WinTyped /\ TableInv /\ wt[t].pc = "id" /\ ~wt[t].suspended /\ t \in WThread \ {WMain}
  BY <1>1, WAtIs
<1>3. PICK j \in WSlot : j = wt[t].at
  BY <1>2, WinFields
<1>4. dll_table[j] \in WinSlots /\ dll_table \in [WSlot -> WinSlots]
  BY <1>2 DEF WinTyped
<1>5. PICK s \in WinSlots : s = [dll_table[j] EXCEPT !.id = t]
  BY <1>4 DEF WinSlots
<1>6. dll_table' = [dll_table EXCEPT ![j] = s]
  BY <1>0, <1>3, <1>4, <1>5
<1>7. Reserved(t) /\ Fits(t)
  BY <1>2 DEF Reserved, WPc, TableInv
<1>8. /\ dll_table[j].in_use /\ dll_table[j].handle = t /\ dll_table[j].stack_end
      /\ "IS_SUSPENDED" \notin dll_table[j].flags
  <2>1. dll_table[j].in_use /\ dll_table[j].handle = t /\ dll_table[j].stack_end
    BY <1>2, <1>3, <1>7 DEF Fits, Holder, HandlePc
  <2> QED BY <1>2, <1>3, <1>7, <2>1, OwnSlot
<1>9. s.in_use /\ s.handle = t /\ s.stack_end /\ s.id = t /\ "IS_SUSPENDED" \notin s.flags
  BY <1>4, <1>5, <1>8 DEF WinSlots
<1>10. MovesTo(t, "test_stop")
  BY <1>1, <1>2, WGotoIs DEF WPc
<1>11. /\ "id" \in WPc \ {"new", "claim", "gone", "dead"} /\ "test_stop" \in WPc \ {"new", "claim", "dead"}
       /\ "test_stop" \in HandlePc /\ "test_stop" \in IdPc
  BY DEF WPc, HandlePc, IdPc
<1>12. SlotFor(t, "test_stop", s)
  BY <1>9, <1>11 DEF SlotFor
<1> QED BY <1>1, <1>3, <1>6, <1>10, <1>11, <1>12, SlotStep

\* GC_lookup_thread finds the slot of a thread that runs, and no other.
LEMMA LookupIs ==
  ASSUME WinTyped, TableInv, NEW t \in WThread, wt[t].pc = "run"
  PROVE  GC_lookup_thread(t) = {wt[t].at}
<1>1. PICK j \in WSlot : j = wt[t].at
  BY WinFields
<1>2. Reserved(t) /\ SlotCovered(t) /\ Fits(t) /\ Reached(t)
  BY DEF Reserved, SlotCovered, WPc, TableInv
<1>3. dll_table[j].in_use /\ dll_table[j].id = t /\ j <= GC_max_thread_index
  BY <1>1, <1>2 DEF Fits, Holder, IdPc, Reached
<1>4. GC_max_thread_index \in Nat /\ MAX_THREADS \in Nat \ {0}
  BY WinAssumption DEF WinTyped
<1>5. j \in 0 .. GC_get_max_thread_index /\ \A i \in 0 .. GC_get_max_thread_index : i \in WSlot
  BY <1>1, <1>3, <1>4 DEF GC_get_max_thread_index, WSlot
<1>6. \A i \in WSlot : dll_table[i].id = t => i = j
  <2>1. t # WNone
    BY WinAssumption
  <2> QED BY <1>1, <2>1 DEF TableInv, SaysTrue
<1> QED BY <1>1, <1>3, <1>5, <1>6 DEF GC_lookup_thread

\* The handle is closed.
LEMMA CloseSlotHandleStep ==
  ASSUME WinInv, NEW t \in WThread, CloseSlotHandle(t)
  PROVE  WinInv'
<1>1. /\ WAt(t, "run")
      /\ RestKept
  BY DEF CloseSlotHandle, stopFlags, gcSide, RestKept
<1>2. WinTyped /\ TableInv /\ wt[t].pc = "run" /\ ~wt[t].suspended /\ t \in WThread \ {WMain}
  BY <1>1, WAtIs
<1>3. PICK j \in WSlot : j = wt[t].at
  BY <1>2, WinFields
<1>4. GC_lookup_thread(t) = {j}
  BY <1>2, <1>3, LookupIs
<1>5. /\ WGoto(t, "unstack")
      /\ dll_table' = [i \in WSlot |-> IF i \in {j} THEN [dll_table[i] EXCEPT !.handle = WNone] ELSE dll_table[i]]
  BY <1>4 DEF CloseSlotHandle
<1>6. dll_table[j] \in WinSlots /\ dll_table \in [WSlot -> WinSlots]
  BY <1>2 DEF WinTyped
<1>7. PICK s \in WinSlots : s = [dll_table[j] EXCEPT !.handle = WNone]
  BY <1>6 DEF WinSlots
<1>8. dll_table' = [dll_table EXCEPT ![j] = s]
  BY <1>5, <1>6, <1>7
<1>9. Reserved(t) /\ Fits(t)
  BY <1>2 DEF Reserved, WPc, TableInv
<1>10. dll_table[j].in_use /\ dll_table[j].id = t /\ "IS_SUSPENDED" \notin dll_table[j].flags
  <2>1. dll_table[j].in_use /\ dll_table[j].id = t
    BY <1>2, <1>3, <1>9 DEF Fits, Holder, IdPc
  <2> QED BY <1>2, <1>3, <1>9, <2>1, OwnSlot
<1>11. s.in_use /\ s.handle = WNone /\ s.id = t /\ "IS_SUSPENDED" \notin s.flags
  BY <1>6, <1>7, <1>10 DEF WinSlots
<1>12. MovesTo(t, "unstack")
  BY <1>5, <1>2, WGotoIs DEF WPc
<1>13. /\ "run" \in WPc \ {"new", "claim", "gone", "dead"} /\ "unstack" \in WPc \ {"new", "claim", "dead"}
       /\ "unstack" \notin HandlePc /\ "unstack" \in IdPc
  BY DEF WPc, HandlePc, IdPc
<1>14. SlotFor(t, "unstack", s)
  BY <1>11, <1>13 DEF SlotFor
<1> QED BY <1>1, <1>3, <1>8, <1>12, <1>13, <1>14, SlotStep

\* The stack is forgotten.
LEMMA ClearStackEndStep ==
  ASSUME WinInv, NEW t \in WThread, ClearStackEnd(t)
  PROVE  WinInv'
<1>0. dll_table' = [dll_table EXCEPT ![wt[t].at].stack_end = FALSE]
  BY DEF ClearStackEnd
<1>1. /\ WAt(t, "unstack") /\ WGoto(t, "unid")
      /\ RestKept
  BY DEF ClearStackEnd, stopFlags, gcSide, RestKept
<1>2. WinTyped /\ TableInv /\ wt[t].pc = "unstack" /\ ~wt[t].suspended /\ t \in WThread \ {WMain}
  BY <1>1, WAtIs
<1>3. PICK j \in WSlot : j = wt[t].at
  BY <1>2, WinFields
<1>4. dll_table[j] \in WinSlots /\ dll_table \in [WSlot -> WinSlots]
  BY <1>2 DEF WinTyped
<1>5. PICK s \in WinSlots : s = [dll_table[j] EXCEPT !.stack_end = FALSE]
  BY <1>4 DEF WinSlots
<1>6. dll_table' = [dll_table EXCEPT ![j] = s]
  BY <1>0, <1>3, <1>4, <1>5
<1>7. Reserved(t) /\ Fits(t)
  BY <1>2 DEF Reserved, WPc, TableInv
<1>8. /\ dll_table[j].in_use /\ dll_table[j].id = t /\ dll_table[j].handle = WNone
      /\ "IS_SUSPENDED" \notin dll_table[j].flags
  <2>1. dll_table[j].in_use /\ dll_table[j].id = t
    BY <1>2, <1>3, <1>7 DEF Fits, Holder, IdPc
  <2> QED BY <1>2, <1>3, <1>7, <2>1, OwnSlot DEF HandlePc
<1>9. s.in_use /\ s.handle = WNone /\ s.id = t /\ "IS_SUSPENDED" \notin s.flags
  BY <1>4, <1>5, <1>8 DEF WinSlots
<1>10. MovesTo(t, "unid")
  BY <1>1, <1>2, WGotoIs DEF WPc
<1>11. /\ "unstack" \in WPc \ {"new", "claim", "gone", "dead"} /\ "unid" \in WPc \ {"new", "claim", "dead"}
       /\ "unid" \notin HandlePc /\ "unid" \in IdPc
  BY DEF WPc, HandlePc, IdPc
<1>12. SlotFor(t, "unid", s)
  BY <1>9, <1>11 DEF SlotFor
<1> QED BY <1>1, <1>3, <1>6, <1>10, <1>11, <1>12, SlotStep

\* The identifier and the flags are cleared.
LEMMA ClearIdAndFlagsStep ==
  ASSUME WinInv, NEW t \in WThread, ClearIdAndFlags(t)
  PROVE  WinInv'
<1>0. dll_table' = [dll_table EXCEPT ![wt[t].at].id = WNone, ![wt[t].at].flags = {}]
  BY DEF ClearIdAndFlags
<1>1. /\ WAt(t, "unid") /\ WGoto(t, "unuse")
      /\ RestKept
  BY DEF ClearIdAndFlags, stopFlags, gcSide, RestKept
<1>2. WinTyped /\ TableInv /\ wt[t].pc = "unid" /\ ~wt[t].suspended /\ t \in WThread \ {WMain}
  BY <1>1, WAtIs
<1>3. PICK j \in WSlot : j = wt[t].at
  BY <1>2, WinFields
<1>4. dll_table[j] \in WinSlots /\ dll_table \in [WSlot -> WinSlots]
  BY <1>2 DEF WinTyped
<1>5. PICK s \in WinSlots : s = [dll_table[j] EXCEPT !.id = WNone, !.flags = {}]
  BY <1>4 DEF WinSlots
<1>6. dll_table' = [dll_table EXCEPT ![j] = s]
  BY <1>0, <1>3, <1>4, <1>5
<1>7. Reserved(t) /\ Fits(t)
  BY <1>2 DEF Reserved, WPc, TableInv
<1>8. dll_table[j].in_use /\ dll_table[j].handle = WNone
  <2>1. dll_table[j].in_use
    BY <1>3, <1>7 DEF Fits, Holder
  <2> QED BY <1>2, <1>3, <1>7, <2>1, OwnSlot DEF HandlePc
<1>9. s.in_use /\ s.handle = WNone /\ s.id = WNone /\ "IS_SUSPENDED" \notin s.flags
  BY <1>4, <1>5, <1>8 DEF WinSlots
<1>10. MovesTo(t, "unuse")
  BY <1>1, <1>2, WGotoIs DEF WPc
<1>11. /\ "unid" \in WPc \ {"new", "claim", "gone", "dead"} /\ "unuse" \in WPc \ {"new", "claim", "dead"}
       /\ "unuse" \notin HandlePc /\ "unuse" \notin IdPc
  BY DEF WPc, HandlePc, IdPc
<1>12. SlotFor(t, "unuse", s)
  BY <1>9, <1>11 DEF SlotFor
<1> QED BY <1>1, <1>3, <1>6, <1>10, <1>11, <1>12, SlotStep

\* The slot is given back.
LEMMA ReleaseSlotStep ==
  ASSUME WinInv, NEW t \in WThread, ReleaseSlot(t)
  PROVE  WinInv'
<1>0. dll_table' = [dll_table EXCEPT ![wt[t].at].in_use = FALSE]
  BY DEF ReleaseSlot
<1>1. /\ WAt(t, "unuse") /\ WGoto(t, "gone")
      /\ RestKept
  BY DEF ReleaseSlot, stopFlags, gcSide, RestKept
<1>2. WinTyped /\ TableInv /\ wt[t].pc = "unuse" /\ ~wt[t].suspended /\ t \in WThread \ {WMain}
  BY <1>1, WAtIs
<1>3. PICK j \in WSlot : j = wt[t].at
  BY <1>2, WinFields
<1>4. dll_table[j] \in WinSlots /\ dll_table \in [WSlot -> WinSlots]
  BY <1>2 DEF WinTyped
<1>5. PICK s \in WinSlots : s = [dll_table[j] EXCEPT !.in_use = FALSE]
  BY <1>4 DEF WinSlots
<1>6. dll_table' = [dll_table EXCEPT ![j] = s]
  BY <1>0, <1>3, <1>4, <1>5
<1>7. Reserved(t)
  BY <1>2 DEF Reserved, WPc
<1>8. dll_table[j].handle = WNone /\ dll_table[j].id = WNone /\ "IS_SUSPENDED" \notin dll_table[j].flags
  BY <1>2, <1>3, <1>7, OwnSlot DEF HandlePc, IdPc
<1>9. s.handle = WNone /\ s.id = WNone /\ "IS_SUSPENDED" \notin s.flags
  BY <1>4, <1>5, <1>8 DEF WinSlots
<1>10. MovesTo(t, "gone")
  BY <1>1, <1>2, WGotoIs DEF WPc
<1>11. /\ "unuse" \in WPc \ {"new", "claim", "gone", "dead"} /\ "gone" \in WPc \ {"new", "claim", "dead"}
       /\ "gone" \notin HandlePc /\ "gone" \notin IdPc
  BY DEF WPc, HandlePc, IdPc
<1>12. SlotFor(t, "gone", s)
  BY <1>9, <1>11 DEF SlotFor
<1> QED BY <1>1, <1>3, <1>6, <1>10, <1>11, <1>12, SlotStep

\* A thread enters GC_do_blocking, or leaves it.
LEMMA DoBlockingStep ==
  ASSUME WinInv, NEW t \in WThread, DoBlocking(t)
  PROVE  WinInv'
<1>0. wt' = wt
  BY DEF DoBlocking
<1>1. /\ WAt(t, "run") /\ wg.pc = "idle"
      /\ RestKept
  BY DEF DoBlocking, stopFlags, gcSide, RestKept
<1>2. WinTyped /\ TableInv /\ wt[t].pc = "run" /\ ~wt[t].suspended /\ t \in WThread \ {WMain}
  BY <1>1, WAtIs
<1>3. PICK j \in WSlot : j = wt[t].at
  BY <1>2, WinFields
<1>4. dll_table[j] \in WinSlots /\ dll_table \in [WSlot -> WinSlots]
  BY <1>2 DEF WinTyped
<1>5. Reserved(t) /\ Fits(t)
  BY <1>2 DEF Reserved, WPc, TableInv
<1>6. /\ dll_table[j].in_use /\ dll_table[j].handle = t /\ dll_table[j].stack_end /\ dll_table[j].id = t
      /\ "IS_SUSPENDED" \notin dll_table[j].flags
  <2>1. dll_table[j].in_use /\ dll_table[j].handle = t /\ dll_table[j].stack_end /\ dll_table[j].id = t
    BY <1>2, <1>3, <1>5 DEF Fits, Holder, HandlePc, IdPc
  <2> QED BY <1>2, <1>3, <1>5, <2>1, OwnSlot
<1>7. PICK f : f = IF "DO_BLOCKING" \in dll_table[j].flags THEN dll_table[j].flags \ {"DO_BLOCKING"}
                   ELSE dll_table[j].flags \union {"DO_BLOCKING"}
  OBVIOUS
<1>8. f \in SUBSET {"IS_SUSPENDED", "DO_BLOCKING"} /\ "IS_SUSPENDED" \notin f
  <2>1. dll_table[j].flags \in SUBSET {"IS_SUSPENDED", "DO_BLOCKING"}
    BY <1>2, WinFields
  <2> QED BY <2>1, <1>6, <1>7
<1>9. dll_table' = [dll_table EXCEPT ![j].flags = f]
  BY <1>3, <1>4, <1>7 DEF DoBlocking
<1>10. PICK s \in WinSlots : s = [dll_table[j] EXCEPT !.flags = f]
  BY <1>4, <1>8 DEF WinSlots
<1>11. dll_table' = [dll_table EXCEPT ![j] = s]
  BY <1>4, <1>9, <1>10
<1>12. s.in_use /\ s.handle = t /\ s.stack_end /\ s.id = t /\ "IS_SUSPENDED" \notin s.flags
  BY <1>4, <1>6, <1>8, <1>10 DEF WinSlots
<1>13. MovesTo(t, "run")
  <2>1. wt[t].suspended = FALSE
    BY <1>2, WinFields
  <2> QED BY <1>0, <1>2, <2>1 DEF MovesTo, OnlyThread, WPc, WinTyped
<1>14. "run" \in WPc \ {"new", "claim", "gone", "dead"} /\ "run" \in HandlePc /\ "run" \in IdPc
  BY DEF WPc, HandlePc, IdPc
<1>15. SlotFor(t, "run", s)
  BY <1>12, <1>14 DEF SlotFor
<1> QED BY <1>1, <1>3, <1>11, <1>13, <1>14, <1>15, SlotStep

(***************************************************************************)
(* One lemma per action: the collector.                                    *)
(***************************************************************************)

\* The last slot that a loop looks at.
LEMMA GetMaxIs ==
  ASSUME WinTyped, TableInv
  PROVE  /\ GC_get_max_thread_index \in WSlot
         /\ \A t \in WThread : SlotCovered(t) => wt[t].at <= GC_get_max_thread_index
<1>1. GC_max_thread_index \in Nat /\ MAX_THREADS \in Nat \ {0}
  BY WinAssumption DEF WinTyped
<1>2. \A t \in WThread : wt[t].at \in WSlot /\ Reached(t)
  BY WinFields DEF TableInv
<1> QED BY <1>1, <1>2 DEF GC_get_max_thread_index, WSlot, Reached

\* A thread that ran when the stop began, or that is suspended, has its slot.
LEMMA RunnersCovered ==
  ASSUME TableInv, NEW t \in WThread, RanBefore(t) \/ wt[t].suspended \/ wt[t].pc = "run"
  PROVE  SlotCovered(t) /\ Holder(t) /\ Fits(t) /\ wt[t].pc \in HandlePc
<1>1. wt[t].pc \in {"id", "test_stop", "tell", "run"} /\ Fits(t)
  BY DEF TableInv, FoundAgain, RanBefore
<1> QED BY <1>1 DEF SlotCovered, Holder, Reserved, WPc, HandlePc

\* The table and the threads are left alone.
TableKept == dll_table' = dll_table /\ wt' = wt /\ GC_max_thread_index' = GC_max_thread_index
LEMMA TableStays == TableInv /\ TableKept => TableInv'
BY DEF TableInv, TableKept, Fits, FoundAgain, Reached, OneHolder, SaysTrue, Holder, Reserved, SlotCovered

\* The loop goes on to the next slot, or ends.
WinLoop == [pc : WinPc, i : WSlot, max : WSlot]
LEMMA PassedIs ==
  ASSUME WinTyped, NEW nx \in WinPc, Passed(nx)
  PROVE  /\ wg' \in WinLoop /\ wg'.max = wg.max /\ wg.i \in Nat /\ wg.max \in Nat
         /\ \/ wg.i < wg.max /\ wg'.pc = wg.pc /\ wg'.i = wg.i + 1
            \/ wg.i >= wg.max /\ wg'.pc = nx /\ wg'.i = wg.i
<1>1. wg \in WinLoop /\ wg.i \in WSlot /\ wg.max \in WSlot /\ wg.i \in Nat /\ wg.max \in Nat
  BY WinFields, WinSlotsAre DEF WinTyped, WinLoop
<1>2. CASE wg.i < wg.max
  <2>1. PICK k \in WSlot : k = wg.i + 1
    BY <1>1, <1>2, WinAssumption DEF WSlot
  <2>2. wg' = [wg EXCEPT !.i = k]
    BY <1>2, <2>1 DEF Passed
  <2> QED BY <1>1, <1>2, <2>1, <2>2 DEF WinLoop
<1>3. CASE wg.i >= wg.max
  <2>1. wg' = [wg EXCEPT !.pc = nx]
    BY <1>1, <1>3 DEF Passed
  <2> QED BY <1>1, <1>3, <2>1 DEF WinLoop
<1> QED BY <1>1, <1>2, <1>3

\* The types after a step of the collector.
LEMMA WinTypedGc ==
  ASSUME WinTyped, dll_table' \in [WSlot -> WinSlots], wt' \in [WThread -> WinStates], wg' \in WinLoop,
         GC_max_thread_index' = GC_max_thread_index, GC_please_stop' \in BOOLEAN,
         GC_attached_thread' \in BOOLEAN, pushedStacks' \subseteq WThread, lateThreads' \subseteq WThread
  PROVE  WinTyped'
BY DEF WinTyped, WinLoop

\* A step of the collector that leaves the table alone.
LEMMA GcStepKept ==
  ASSUME WinInv, wg.pc # "ended", TableKept, wg' \in WinLoop, wg'.pc # "ended",
         GC_please_stop' \in BOOLEAN, GC_attached_thread' \in BOOLEAN,
         pushedStacks' \subseteq WThread, lateThreads' \subseteq WThread, LoopInv'
  PROVE  WinInv'
<1>1. WinTyped /\ TableInv
  BY DEF WinInv
<1>2. TableInv'
  BY <1>1, TableStays
<1>3. WinTyped'
  BY <1>1, WinTypedGc DEF TableKept, WinTyped
<1> QED BY <1>2, <1>3, WinKept

\* The collector is somewhere before the end.
LEMMA GcAt ==
  ASSUME WinInv, wg.pc # "ended"
  PROVE  /\ WinTyped /\ TableInv /\ LoopInv /\ wg \in WinLoop /\ wg.pc \in WinPc
         /\ wg.i \in WSlot /\ wg.max \in WSlot /\ wg.i \in Nat /\ wg.max \in Nat
         /\ GC_please_stop \in BOOLEAN /\ GC_attached_thread \in BOOLEAN
         /\ pushedStacks \subseteq WThread /\ lateThreads \subseteq WThread
<1>1. WinTyped /\ TableInv /\ LoopInv
  BY DEF WinInv
<1> QED BY <1>1, WinFields, WinSlotsAre DEF WinTyped, WinLoop

\* The only change to wg is its pc.
LEMMA WgGoes ==
  ASSUME wg \in WinLoop, NEW nx \in WinPc, wg' = [wg EXCEPT !.pc = nx]
  PROVE  wg' \in WinLoop /\ wg'.pc = nx /\ wg'.i = wg.i /\ wg'.max = wg.max
BY DEF WinLoop

\* GC_please_stop is set.
LEMMA StopWorldStep ==
  ASSUME WinInv, GC_stop_world
  PROVE  WinInv'
<1>1. /\ wg.pc = "idle" /\ GC_please_stop' = TRUE /\ TableKept
      /\ GC_attached_thread' = GC_attached_thread /\ pushedStacks' = pushedStacks /\ lateThreads' = lateThreads
  BY DEF GC_stop_world, threadSide, TableKept
<1>2. wg' \in WinLoop /\ wg'.pc = "reset"
  BY <1>1, GcAt, WgGoes DEF GC_stop_world, WinPc
<1>3. \A t \in WThread : ~wt[t].suspended
  BY <1>1, GcAt DEF LoopInv, ResumeReaches
<1>4. \A t \in WThread : StopReaches(t)' /\ StoppedFor(t)' /\ PushReaches(t)' /\ ResumeReaches(t)'
  BY <1>1, <1>2, <1>3 DEF TableKept, StopReaches, StoppedFor, PushReaches, ResumeReaches
<1>5. LoopInv'
  BY <1>1, <1>2, <1>4 DEF LoopInv
<1> QED BY <1>1, <1>2, <1>5, GcAt, GcStepKept

\* GC_attached_thread is reset.
LEMMA ResetAttachedStep ==
  ASSUME WinInv, ResetAttached
  PROVE  WinInv'
<1>1. /\ wg.pc = "reset" /\ GC_attached_thread' = FALSE /\ TableKept
      /\ GC_please_stop' = GC_please_stop /\ pushedStacks' = pushedStacks /\ lateThreads' = lateThreads
  BY DEF ResetAttached, threadSide, TableKept
<1>2. wg' \in WinLoop /\ wg'.pc = "stop_max"
  BY <1>1, GcAt, WgGoes DEF ResetAttached, WinPc
<1>3. GC_please_stop /\ \A t \in WThread : ~wt[t].suspended
  BY <1>1, GcAt DEF LoopInv, ResumeReaches
<1>4. \A t \in WThread : StopReaches(t)' /\ StoppedFor(t)' /\ PushReaches(t)' /\ ResumeReaches(t)'
  BY <1>1, <1>2, <1>3 DEF TableKept, StopReaches, StoppedFor, PushReaches, ResumeReaches
<1>5. LoopInv'
  BY <1>1, <1>2, <1>3, <1>4 DEF LoopInv
<1> QED BY <1>1, <1>2, <1>5, GcAt, GcStepKept

\* A loop over the table begins.
LEMMA BeginLoopIs ==
  ASSUME WinInv, NEW from \in WinPc \ {"idle", "ended", "aborted"}, NEW to \in WinPc, BeginLoop(from, to)
  PROVE  /\ wg.pc = from /\ TableKept /\ wg' \in WinLoop /\ wg'.pc = to /\ wg'.i = 0
         /\ wg'.max = GC_get_max_thread_index /\ GC_please_stop' = GC_please_stop /\ GC_please_stop
         /\ GC_attached_thread' = GC_attached_thread /\ lateThreads' = lateThreads
         /\ WinTyped /\ TableInv /\ LoopInv
<1>1. /\ wg.pc = from /\ TableKept /\ wg' = [pc |-> to, i |-> 0, max |-> GC_get_max_thread_index]
      /\ GC_please_stop' = GC_please_stop /\ GC_attached_thread' = GC_attached_thread
      /\ lateThreads' = lateThreads
  BY DEF BeginLoop, threadSide, stopFlags, TableKept
<1>2. WinTyped /\ TableInv /\ LoopInv
  BY <1>1, GcAt
<1>3. GC_get_max_thread_index \in WSlot /\ 0 \in WSlot
  BY <1>2, GetMaxIs, WinSlotsAre
<1>4. wg' \in WinLoop /\ wg'.pc = to /\ wg'.i = 0 /\ wg'.max = GC_get_max_thread_index
  BY <1>1, <1>3 DEF WinLoop
<1>5. GC_please_stop
  BY <1>1, <1>2 DEF LoopInv
<1> QED BY <1>1, <1>2, <1>4, <1>5

\* The loop that suspends begins.
LEMMA StopLoopStep ==
  ASSUME WinInv, StopLoop
  PROVE  WinInv'
<1>1. BeginLoop("stop_max", "stop") /\ pushedStacks' = pushedStacks
  BY DEF StopLoop
<1>2. /\ wg.pc = "stop_max" /\ TableKept /\ wg' \in WinLoop /\ wg'.pc = "stop" /\ wg'.i = 0
      /\ wg'.max = GC_get_max_thread_index /\ GC_please_stop' = GC_please_stop /\ GC_please_stop
      /\ GC_attached_thread' = GC_attached_thread /\ lateThreads' = lateThreads
      /\ WinTyped /\ TableInv /\ LoopInv
  BY <1>1, BeginLoopIs DEF WinPc
<1>3. \A t \in WThread : ~wt[t].suspended
  BY <1>2 DEF LoopInv, ResumeReaches
<1>4. ASSUME NEW t \in WThread PROVE StopReaches(t)'
  <2>1. RanBefore(t)' => RanBefore(t) /\ wt'[t].at = wt[t].at
    BY <1>2 DEF TableKept, RanBefore
  <2>2. RanBefore(t) => wt[t].at <= GC_get_max_thread_index
    BY <1>2, RunnersCovered, GetMaxIs
  <2>3. wt[t].at \in Nat
    BY <1>2, WinFields, WinSlotsAre
  <2> QED BY <1>2, <2>1, <2>2, <2>3 DEF StopReaches
<1>5. \A t \in WThread : StoppedFor(t)' /\ PushReaches(t)' /\ ResumeReaches(t)'
  BY <1>2, <1>3 DEF TableKept, StoppedFor, PushReaches, ResumeReaches
<1>6. LoopInv'
  BY <1>2, <1>4, <1>5 DEF LoopInv
<1> QED BY <1>1, <1>2, <1>6, GcAt, GcStepKept

\* The loop that pushes begins.
LEMMA PushLoopStep ==
  ASSUME WinInv, PushLoop
  PROVE  WinInv'
<1>1. BeginLoop("push_max", "push") /\ pushedStacks' = {}
  BY DEF PushLoop
<1>2. /\ wg.pc = "push_max" /\ TableKept /\ wg' \in WinLoop /\ wg'.pc = "push" /\ wg'.i = 0
      /\ wg'.max = GC_get_max_thread_index /\ GC_please_stop' = GC_please_stop /\ GC_please_stop
      /\ GC_attached_thread' = GC_attached_thread /\ lateThreads' = lateThreads
      /\ WinTyped /\ TableInv /\ LoopInv
  BY <1>1, BeginLoopIs DEF WinPc
<1>3. ASSUME NEW t \in WThread PROVE PushReaches(t)'
  <2>1. wt[t].pc = "run" => wt[t].at <= GC_get_max_thread_index
    BY <1>2, RunnersCovered, GetMaxIs
  <2>2. wt[t].at \in Nat /\ wt' = wt
    BY <1>2, WinFields, WinSlotsAre DEF TableKept
  <2> QED BY <1>2, <2>1, <2>2 DEF PushReaches
<1>4. \A t \in WThread : StopReaches(t)' /\ ResumeReaches(t)'
  BY <1>2 DEF TableKept, StopReaches, ResumeReaches
<1>5. \A t \in WThread : StoppedFor(t)'
  BY <1>2 DEF TableKept, StoppedFor, RanBefore, Quiet, LoopInv
<1>6. LoopInv'
  BY <1>2, <1>3, <1>4, <1>5 DEF LoopInv
<1> QED BY <1>1, <1>2, <1>6, GcAt, GcStepKept

\* The loop that resumes begins.
LEMMA ResumeLoopStep ==
  ASSUME WinInv, ResumeLoop
  PROVE  WinInv'
<1>1. BeginLoop("resume_max", "resume") /\ pushedStacks' = pushedStacks
  BY DEF ResumeLoop
<1>2. /\ wg.pc = "resume_max" /\ TableKept /\ wg' \in WinLoop /\ wg'.pc = "resume" /\ wg'.i = 0
      /\ wg'.max = GC_get_max_thread_index /\ GC_please_stop' = GC_please_stop /\ GC_please_stop
      /\ GC_attached_thread' = GC_attached_thread /\ lateThreads' = lateThreads
      /\ WinTyped /\ TableInv /\ LoopInv
  BY <1>1, BeginLoopIs DEF WinPc
<1>3. ASSUME NEW t \in WThread PROVE ResumeReaches(t)'
  <2>1. wt[t].suspended => wt[t].at <= GC_get_max_thread_index
    BY <1>2, RunnersCovered, GetMaxIs
  <2>2. wt[t].at \in Nat /\ wt' = wt
    BY <1>2, WinFields, WinSlotsAre DEF TableKept
  <2> QED BY <1>2, <2>1, <2>2 DEF ResumeReaches
<1>4. \A t \in WThread : StopReaches(t)' /\ StoppedFor(t)' /\ PushReaches(t)'
  BY <1>2 DEF TableKept, StopReaches, StoppedFor, PushReaches
<1>5. LoopInv'
  BY <1>2, <1>3, <1>4 DEF LoopInv
<1> QED BY <1>1, <1>2, <1>5, GcAt, GcStepKept

\* A slot is looked at before its thread is suspended.
LEMMA StopTestStep ==
  ASSUME WinInv, StopTest
  PROVE  WinInv'
<1>1. /\ wg.pc = "stop" /\ TableKept /\ GC_please_stop' = GC_please_stop
      /\ GC_attached_thread' = GC_attached_thread /\ pushedStacks' = pushedStacks /\ lateThreads' = lateThreads
  BY DEF StopTest, threadSide, stopFlags, TableKept
<1>2. /\ WinTyped /\ TableInv /\ LoopInv /\ wg \in WinLoop /\ wg.i \in WSlot /\ wg.max \in WSlot
      /\ wg.i \in Nat /\ wg.max \in Nat /\ GC_please_stop
  BY <1>1, GcAt DEF LoopInv
<1>3. /\ wt' = wt /\ \A t \in WThread : wt[t].at \in Nat
      /\ \A t \in WThread : RanBefore(t)' <=> RanBefore(t)
      /\ \A t \in WThread : Quiet(t)' <=> Quiet(t)
  BY <1>1, <1>2, WinFields, WinSlotsAre DEF TableKept, RanBefore, Quiet
<1>4. \A t \in WThread : StopReaches(t) /\ ResumeReaches(t)
  BY <1>2 DEF LoopInv
<1>5. CASE ToSuspend(dll_table[wg.i])
  <2>1. wg' = [wg EXCEPT !.pc = "suspend"]
    BY <1>5 DEF StopTest
  <2>2. wg' \in WinLoop /\ wg'.pc = "suspend" /\ wg'.i = wg.i /\ wg'.max = wg.max
    BY <1>2, <2>1, WgGoes DEF WinPc
  <2>3. wg.i # wt[WMain].at
    <3>1. wt[WMain].pc = "run" /\ Fits(WMain) /\ Holder(WMain)
      BY <1>2, WinAssumption, RunnersCovered DEF TableInv
    <3>2. dll_table[wt[WMain].at].id = WMain
      BY <3>1 DEF Fits, IdPc
    <3> QED BY <1>5, <3>2 DEF ToSuspend
  <2>4. \A t \in WThread : StopReaches(t)'
    BY <1>1, <1>3, <1>4, <2>2 DEF StopReaches
  <2>5. \A t \in WThread : StoppedFor(t)' /\ PushReaches(t)' /\ ResumeReaches(t)'
    BY <1>1, <1>3, <1>4, <2>2 DEF StoppedFor, PushReaches, ResumeReaches
  <2>6. LoopInv'
    BY <1>1, <1>2, <1>3, <2>2, <2>3, <2>4, <2>5 DEF LoopInv
  <2> QED BY <1>1, <2>2, <2>6, GcAt, GcStepKept
<1>6. CASE ~ToSuspend(dll_table[wg.i])
  <2>1. Passed("push_max")
    BY <1>6 DEF StopTest
  <2>2. /\ wg' \in WinLoop /\ wg'.max = wg.max
        /\ \/ wg.i < wg.max /\ wg'.pc = wg.pc /\ wg'.i = wg.i + 1
           \/ wg.i >= wg.max /\ wg'.pc = "push_max" /\ wg'.i = wg.i
    BY <1>2, <2>1, PassedIs DEF WinPc
  <2>3. ASSUME NEW t \in WThread, RanBefore(t), wt[t].at = wg.i PROVE Quiet(t)
    <3>1. Holder(t) /\ Fits(t) /\ wt[t].pc \in HandlePc /\ t # WMain /\ wt[t].pc \in IdPc
      BY <1>2, <2>3, RunnersCovered DEF RanBefore, IdPc
    <3>2. dll_table[wg.i].stack_end /\ dll_table[wg.i].id # WMain
      BY <2>3, <3>1 DEF Fits
    <3> QED BY <1>6, <2>3, <3>2 DEF ToSuspend, Quiet
  <2>4. ASSUME NEW t \in WThread, RanBefore(t) PROVE wt[t].at <= wg.max /\ (wt[t].at <= wg.i => Quiet(t))
    BY <1>1, <1>2, <1>3, <1>4, <2>3, <2>4 DEF StopReaches
  <2>5. \A t \in WThread : StopReaches(t)' /\ StoppedFor(t)'
    BY <1>1, <1>2, <1>3, <2>2, <2>4 DEF StopReaches, StoppedFor
  <2>6. \A t \in WThread : PushReaches(t)' /\ ResumeReaches(t)'
    BY <1>1, <1>3, <1>4, <2>2 DEF PushReaches, ResumeReaches
  <2>7. LoopInv'
    BY <1>1, <1>2, <2>2, <2>5, <2>6 DEF LoopInv
  <2> QED BY <1>1, <2>2, <2>7, GcAt, GcStepKept
<1> QED BY <1>5, <1>6

\* The next slot after one whose thread was suspended.
LEMMA NextToStopStep ==
  ASSUME WinInv, NextToStop
  PROVE  WinInv'
<1>1. /\ wg.pc = "suspended" /\ TableKept /\ GC_please_stop' = GC_please_stop
      /\ GC_attached_thread' = GC_attached_thread /\ pushedStacks' = pushedStacks /\ lateThreads' = lateThreads
  BY DEF NextToStop, threadSide, stopFlags, TableKept
<1>2. /\ WinTyped /\ TableInv /\ LoopInv /\ wg \in WinLoop /\ wg.i \in WSlot /\ wg.max \in WSlot
      /\ wg.i \in Nat /\ wg.max \in Nat /\ GC_please_stop
  BY <1>1, GcAt DEF LoopInv
<1>3. /\ wt' = wt /\ \A t \in WThread : wt[t].at \in Nat
      /\ \A t \in WThread : RanBefore(t)' <=> RanBefore(t)
      /\ \A t \in WThread : Quiet(t)' <=> Quiet(t)
  BY <1>1, <1>2, WinFields, WinSlotsAre DEF TableKept, RanBefore, Quiet
<1>4. \A t \in WThread : StopReaches(t) /\ ResumeReaches(t)
  BY <1>2 DEF LoopInv
<1>5. /\ wg' \in WinLoop /\ wg'.max = wg.max
      /\ \/ wg.i < wg.max /\ wg'.pc = "stop" /\ wg'.i = wg.i + 1
         \/ wg.i >= wg.max /\ wg'.pc = "push_max" /\ wg'.i = wg.i
  <2>1. CASE wg.i < wg.max
    <3>1. PICK k \in WSlot : k = wg.i + 1
      BY <1>2, <2>1, WinAssumption DEF WSlot
    <3>2. wg' = [wg EXCEPT !.pc = "stop", !.i = k]
      BY <2>1, <3>1 DEF NextToStop
    <3>3. "stop" \in WinPc
      BY DEF WinPc
    <3> QED BY <1>2, <2>1, <3>1, <3>2, <3>3 DEF WinLoop
  <2>2. CASE wg.i >= wg.max
    <3>1. wg' = [wg EXCEPT !.pc = "push_max"]
      BY <1>2, <2>2 DEF NextToStop
    <3> QED BY <1>2, <2>2, <3>1, WgGoes DEF WinPc
  <2> QED BY <1>2, <2>1, <2>2
<1>6. ASSUME NEW t \in WThread, RanBefore(t) PROVE wt[t].at <= wg.max /\ (wt[t].at <= wg.i => Quiet(t))
  BY <1>1, <1>2, <1>3, <1>4, <1>6 DEF StopReaches
<1>7. \A t \in WThread : StopReaches(t)' /\ StoppedFor(t)'
  BY <1>1, <1>2, <1>3, <1>5, <1>6 DEF StopReaches, StoppedFor
<1>8. \A t \in WThread : PushReaches(t)' /\ ResumeReaches(t)'
  BY <1>1, <1>3, <1>4, <1>5 DEF PushReaches, ResumeReaches
<1>9. LoopInv'
  BY <1>1, <1>2, <1>5, <1>7, <1>8 DEF LoopInv
<1> QED BY <1>1, <1>5, <1>9, GcAt, GcStepKept

\* A stack is pushed.
LEMMA PushAllStacksStep ==
  ASSUME WinInv, GC_push_all_stacks
  PROVE  WinInv'
<1>1. /\ wg.pc = "push" /\ TableKept /\ GC_please_stop' = GC_please_stop
      /\ GC_attached_thread' = GC_attached_thread /\ lateThreads' = lateThreads
  BY DEF GC_push_all_stacks, threadSide, stopFlags, TableKept
<1>2. /\ WinTyped /\ TableInv /\ LoopInv /\ wg \in WinLoop /\ wg.i \in WSlot /\ wg.max \in WSlot
      /\ wg.i \in Nat /\ wg.max \in Nat /\ GC_please_stop /\ pushedStacks \subseteq WThread
  BY <1>1, GcAt DEF LoopInv
<1>3. /\ wt' = wt /\ \A t \in WThread : wt[t].at \in Nat
      /\ \A t \in WThread : RanBefore(t)' <=> RanBefore(t)
      /\ \A t \in WThread : Quiet(t)' <=> Quiet(t)
  BY <1>1, <1>2, WinFields, WinSlotsAre DEF TableKept, RanBefore, Quiet
<1>4. \A t \in WThread : StoppedFor(t) /\ PushReaches(t) /\ ResumeReaches(t)
  BY <1>2 DEF LoopInv
<1>5. PICK s \in WinSlots : s = dll_table[wg.i]
  BY <1>2 DEF WinTyped
<1>6. \/ ~(s.in_use /\ s.stack_end) /\ Passed("check") /\ pushedStacks' = pushedStacks
      \/ WAborts /\ pushedStacks' = pushedStacks
      \/ /\ s.in_use /\ s.stack_end /\ s.handle # WNone /\ pushedStacks' = pushedStacks \union {s.handle}
         /\ Passed("check")
  BY <1>5 DEF GC_push_all_stacks
<1>7. CASE WAborts /\ pushedStacks' = pushedStacks
  BY <1>1, <1>2, <1>7, WinAborts DEF WAborts, TableKept
<1>8. CASE \/ ~(s.in_use /\ s.stack_end) /\ Passed("check") /\ pushedStacks' = pushedStacks
           \/ /\ s.in_use /\ s.stack_end /\ s.handle # WNone
              /\ pushedStacks' = pushedStacks \union {s.handle} /\ Passed("check")
  <2>1. /\ wg' \in WinLoop /\ wg'.max = wg.max
        /\ \/ wg.i < wg.max /\ wg'.pc = wg.pc /\ wg'.i = wg.i + 1
           \/ wg.i >= wg.max /\ wg'.pc = "check" /\ wg'.i = wg.i
    BY <1>2, <1>8, PassedIs DEF WinPc
  <2>2. pushedStacks \subseteq pushedStacks' /\ pushedStacks' \subseteq WThread
    <3>1. s.handle \in WThread \cup {WNone}
      BY <1>5 DEF WinSlots
    <3> QED BY <1>2, <1>8, <3>1
  <2>3. ASSUME NEW t \in WThread, wt[t].pc = "run", wt[t].at = wg.i PROVE t \in pushedStacks'
    <3>1. Holder(t) /\ Fits(t) /\ wt[t].pc \in HandlePc
      BY <1>2, <2>3, RunnersCovered
    <3>2. s.in_use /\ s.stack_end /\ s.handle = t
      BY <1>5, <2>3, <3>1 DEF Fits
    <3> QED BY <1>8, <3>2
  <2>4. ASSUME NEW t \in WThread, wt[t].pc = "run", ~GC_attached_thread
        PROVE  wt[t].at <= wg.max /\ (wt[t].at <= wg.i => t \in pushedStacks')
    <3>1. wt[t].at <= wg.max /\ (wt[t].at < wg.i => t \in pushedStacks)
      BY <1>1, <1>4, <2>4 DEF PushReaches
    <3> QED BY <1>2, <1>3, <2>2, <2>3, <2>4, <3>1
  <2>5. \A t \in WThread : PushReaches(t)'
    BY <1>1, <1>2, <1>3, <2>1, <2>4 DEF PushReaches
  <2>6. \A t \in WThread : StopReaches(t)' /\ StoppedFor(t)' /\ ResumeReaches(t)'
    BY <1>1, <1>3, <1>4, <2>1 DEF StopReaches, StoppedFor, ResumeReaches
  <2>7. LoopInv'
    BY <1>1, <1>2, <2>1, <2>5, <2>6 DEF LoopInv
  <2> QED BY <1>1, <2>1, <2>2, <2>7, GcAt, GcStepKept
<1> QED BY <1>6, <1>7, <1>8

\* Marking starts over, or is done.
LEMMA StartedThreadStep ==
  ASSUME WinInv, GC_started_thread_while_stopped
  PROVE  WinInv'
<1>1. /\ wg.pc = "check" /\ TableKept /\ GC_please_stop' = GC_please_stop
      /\ GC_attached_thread' \in BOOLEAN /\ pushedStacks' = pushedStacks /\ lateThreads' = lateThreads
  BY GcAt DEF GC_started_thread_while_stopped, threadSide, TableKept
<1>2. WinTyped /\ TableInv /\ LoopInv /\ wg \in WinLoop /\ GC_please_stop
  BY <1>1, GcAt DEF LoopInv
<1>3. wg' \in WinLoop /\ wg'.pc \in {"push_max", "resume_max"}
  BY <1>2, WgGoes DEF GC_started_thread_while_stopped, WinPc
<1>4. /\ wt' = wt /\ \A t \in WThread : RanBefore(t)' <=> RanBefore(t)
      /\ \A t \in WThread : Quiet(t)' <=> Quiet(t)
  BY <1>1 DEF TableKept, RanBefore, Quiet
<1>5. \A t \in WThread : StoppedFor(t)
  BY <1>2 DEF LoopInv
<1>6. \A t \in WThread : StopReaches(t)' /\ StoppedFor(t)' /\ PushReaches(t)' /\ ResumeReaches(t)'
  BY <1>1, <1>3, <1>4, <1>5 DEF StopReaches, StoppedFor, PushReaches, ResumeReaches
<1>7. LoopInv'
  BY <1>1, <1>2, <1>3, <1>6 DEF LoopInv
<1> QED BY <1>1, <1>3, <1>7, GcAt, GcStepKept

\* GC_please_stop is cleared.
LEMMA ClearPleaseStopStep ==
  ASSUME WinInv, ClearPleaseStop
  PROVE  WinInv'
<1>1. /\ wg.pc = "unstop" /\ TableKept /\ GC_please_stop' = FALSE
      /\ GC_attached_thread' = GC_attached_thread /\ pushedStacks' = pushedStacks /\ lateThreads' = {}
  BY DEF ClearPleaseStop, TableKept
<1>2. wg' \in WinLoop /\ wg'.pc = "idle"
  BY <1>1, GcAt, WgGoes DEF ClearPleaseStop, WinPc
<1>3. \A t \in WThread : ~wt[t].suspended
  BY <1>1, GcAt DEF LoopInv, ResumeReaches
<1>4. \A t \in WThread : StopReaches(t)' /\ StoppedFor(t)' /\ PushReaches(t)' /\ ResumeReaches(t)'
  BY <1>1, <1>2, <1>3 DEF TableKept, StopReaches, StoppedFor, PushReaches, ResumeReaches
<1>5. LoopInv'
  BY <1>1, <1>2, <1>4 DEF LoopInv
<1> QED BY <1>1, <1>2, <1>5, GcAt, GcStepKept

\* DLL_PROCESS_DETACH clears the table.
LEMMA ProcessDetachStep ==
  ASSUME WinInv, ProcessDetach
  PROVE  WinInv'
<1>1. /\ wg.pc = "idle" /\ wt' = wt /\ GC_please_stop' = GC_please_stop
      /\ GC_attached_thread' = GC_attached_thread /\ pushedStacks' = pushedStacks
      /\ lateThreads' = lateThreads /\ GC_max_thread_index' = GC_max_thread_index
  BY DEF ProcessDetach, threadSide, stopFlags
<1>2. /\ WinTyped /\ LoopInv /\ wg \in WinLoop /\ GC_please_stop \in BOOLEAN
      /\ GC_attached_thread \in BOOLEAN /\ pushedStacks \subseteq WThread /\ lateThreads \subseteq WThread
  BY <1>1, GcAt
<1>3. wg' \in WinLoop /\ wg'.pc = "ended"
  BY <1>2, WgGoes DEF ProcessDetach, WinPc
<1>4. dll_table \in [WSlot -> WinSlots] /\ EmptySlot \in WinSlots /\ wt \in [WThread -> WinStates]
  BY <1>2 DEF WinTyped, EmptySlot, WinSlots
<1>5. dll_table' \in [WSlot -> WinSlots]
  BY <1>4 DEF ProcessDetach
<1>6. WinTyped'
  BY <1>1, <1>2, <1>3, <1>4, <1>5, WinTypedGc
<1>7. \A t \in WThread : ~wt[t].suspended
  BY <1>1, <1>2 DEF LoopInv, ResumeReaches
<1> QED BY <1>1, <1>3, <1>6, <1>7 DEF WinInv

\* Only flags of slots, and whether threads are suspended, change.
OnlyFlags ==
  /\ \A i \in WSlot : /\ dll_table'[i].in_use = dll_table[i].in_use /\ dll_table'[i].id = dll_table[i].id
                      /\ dll_table'[i].handle = dll_table[i].handle
                      /\ dll_table'[i].stack_end = dll_table[i].stack_end
  /\ \A t \in WThread : wt'[t].pc = wt[t].pc /\ wt'[t].at = wt[t].at
  /\ GC_max_thread_index' = GC_max_thread_index

\* After such a step, it is enough that the suspended threads are the ones the
\* flags name.
LEMMA FlagsStep ==
  ASSUME WinTyped, TableInv, OnlyFlags, \A t \in WThread : FoundAgain(t)',
         \A i \in WSlot : "IS_SUSPENDED" \in dll_table'[i].flags =>
                            dll_table[i].handle # WNone /\ wt'[dll_table[i].handle].suspended
  PROVE  TableInv'
<1>1. \A i \in WSlot : /\ dll_table'[i].in_use = dll_table[i].in_use /\ dll_table'[i].id = dll_table[i].id
                       /\ dll_table'[i].handle = dll_table[i].handle
                       /\ dll_table'[i].stack_end = dll_table[i].stack_end
  BY DEF OnlyFlags
<1>2. \A t \in WThread : wt'[t].pc = wt[t].pc /\ wt'[t].at = wt[t].at /\ wt[t].at \in WSlot
  BY WinFields DEF OnlyFlags
<1>3. \A t \in WThread : Holder(t)' <=> Holder(t)
  BY <1>1, <1>2 DEF Holder, Reserved
<1>4. ASSUME NEW t \in WThread PROVE Fits(t)' /\ Reached(t)'
  <2>1. Fits(t) /\ Reached(t)
    BY DEF TableInv
  <2>2. Fits(t)'
    BY <2>1, <1>1, <1>2, <1>3 DEF Fits
  <2>3. Reached(t)'
    BY <2>1, <1>2 DEF Reached, SlotCovered, Reserved, OnlyFlags
  <2> QED BY <2>2, <2>3
<1>5. ASSUME NEW t \in WThread, NEW u \in WThread PROVE OneHolder(t, u)'
  <2>1. OneHolder(t, u)
    BY DEF TableInv
  <2> QED BY <2>1, <1>2, <1>3 DEF OneHolder
<1>6. ASSUME NEW i \in WSlot PROVE SaysTrue(i)'
  <2>1. SaysTrue(i) /\ dll_table'[i].id = dll_table[i].id /\ dll_table'[i].handle = dll_table[i].handle
    BY <1>1 DEF TableInv
  <2>2. dll_table[i].handle \in WThread \cup {WNone} /\ dll_table[i].id \in WThread \cup {WNone}
    BY WinFields
  <2> QED BY <2>1, <2>2, <1>2 DEF SaysTrue
<1>7. wt'[WMain].pc = "run"
  BY <1>2, WinAssumption DEF TableInv
<1> QED BY <1>4, <1>5, <1>6, <1>7 DEF TableInv

\* A thread whose handle is in a slot holds it, and nobody else does.
LEMMA SlotsThread ==
  ASSUME WinTyped, TableInv, NEW i \in WSlot, dll_table[i].handle # WNone
  PROVE  /\ dll_table[i].handle \in WThread /\ Holder(dll_table[i].handle)
         /\ wt[dll_table[i].handle].at = i /\ wt[dll_table[i].handle].pc \in HandlePc
         /\ \A u \in WThread : Holder(u) /\ wt[u].at = i => u = dll_table[i].handle
<1>1. PICK h \in WThread : h = dll_table[i].handle
  BY WinFields
<1>2. wt[h].at = i /\ wt[h].pc \in HandlePc
  BY <1>1 DEF TableInv, SaysTrue
<1>3. Holder(h)
  BY <1>1, <1>2 DEF Holder, Reserved, HandlePc, WPc
<1>4. \A u \in WThread : Holder(u) /\ wt[u].at = i => u = h
  BY <1>2, <1>3 DEF TableInv, OneHolder
<1> QED BY <1>1, <1>2, <1>3, <1>4

\* A slot whose thread was terminated is cleared.
LEMMA DeadCleared ==
  ASSUME WinInv, wg.pc = "suspend", NEW h \in WThread, h = dll_table[wg.i].handle, wt[h].pc \in {"dead", "gone"},
         dll_table' = [dll_table EXCEPT ![wg.i] = EmptySlot], wg' = [wg EXCEPT !.pc = "suspended"], wt' = wt,
         GC_please_stop' = GC_please_stop, GC_attached_thread' = GC_attached_thread,
         pushedStacks' = pushedStacks, GC_max_thread_index' = GC_max_thread_index, lateThreads' = lateThreads
  PROVE  WinInv'
<1>1. /\ WinTyped /\ TableInv /\ LoopInv /\ wg \in WinLoop /\ wg.i \in WSlot /\ wg.max \in WSlot
      /\ wg.i \in Nat /\ wg.max \in Nat /\ GC_please_stop
      /\ GC_please_stop \in BOOLEAN /\ GC_attached_thread \in BOOLEAN
      /\ pushedStacks \subseteq WThread /\ lateThreads \subseteq WThread
  BY GcAt DEF LoopInv
<1>2. PICK j \in WSlot : j = wg.i
  BY <1>1
<1>3. wg' \in WinLoop /\ wg'.pc = "suspended" /\ wg'.i = wg.i /\ wg'.max = wg.max
  BY <1>1, WgGoes DEF WinPc
<1>4. h # WNone
  BY WinAssumption
<1>5. Holder(h) /\ wt[h].at = j /\ wt[h].pc = "dead" /\ \A u \in WThread : Holder(u) /\ wt[u].at = j => u = h
  BY <1>1, <1>2, <1>4, SlotsThread DEF HandlePc
<1>6. h \in WThread \ {WMain} /\ wt[h].suspended = FALSE
  <2>1. wt[WMain].pc = "run" /\ FoundAgain(h) /\ wt[h].suspended \in BOOLEAN
    BY <1>1, WinFields DEF TableInv
  <2> QED BY <1>5, <2>1 DEF FoundAgain
<1>7. dll_table \in [WSlot -> WinSlots] /\ wt \in [WThread -> WinStates] /\ EmptySlot \in WinSlots
  BY <1>1 DEF WinTyped, EmptySlot, WinSlots
<1>8. dll_table' \in [WSlot -> WinSlots] /\ OnlySlot(j) /\ dll_table'[j] = EmptySlot
  BY <1>2, <1>7 DEF OnlySlot
<1>9. MovesTo(h, "dead")
  BY <1>5, <1>6, <1>7 DEF MovesTo, OnlyThread, WPc
<1>10. LeavesSlot(h, j) /\ dll_table'[j].handle = WNone
  BY <1>8 DEF LeavesSlot, EmptySlot
<1>11. Fits(h)' /\ Reached(h)'
  <2>1. ~Reserved(h)'
    BY <1>5 DEF Reserved
  <2>2. ~Holder(h)'
    BY <1>4, <1>5, <1>10, <2>1 DEF Holder
  <2> QED BY <2>1, <2>2 DEF Fits, Reached, SlotCovered
<1>12. MaxGrows
  BY <1>1 DEF MaxGrows, WinTyped
<1>13. TableInv'
  BY <1>1, <1>5, <1>8, <1>9, <1>10, <1>11, <1>12, HolderMoves
<1>14. ASSUME NEW t \in WThread PROVE StopReaches(t)'
  <2>1. RanBefore(t)' => RanBefore(t)
    BY DEF RanBefore
  <2>2. RanBefore(t) => wt[t].at # j /\ wt[t].at \in WSlot /\ wt[t].at \in Nat
    <3>1. RanBefore(t) => Holder(t) /\ t # h
      BY <1>1, <1>5, RunnersCovered DEF RanBefore
    <3> QED BY <1>1, <1>5, <3>1, WinFields, WinSlotsAre
  <2>3. RanBefore(t) => (Quiet(t) => Quiet(t)')
    BY <1>8, <2>2 DEF Quiet, OnlySlot
  <2>4. RanBefore(t) => wt[t].at <= wg.max /\ (wt[t].at < wg.i => Quiet(t))
    BY <1>1 DEF LoopInv, StopReaches
  <2> QED BY <1>2, <1>3, <2>1, <2>2, <2>3, <2>4 DEF StopReaches
<1>15. \A t \in WThread : StoppedFor(t)' /\ PushReaches(t)' /\ ResumeReaches(t)'
  BY <1>3 DEF StoppedFor, PushReaches, ResumeReaches
<1>16. LoopInv'
  BY <1>1, <1>3, <1>14, <1>15 DEF LoopInv
<1>17. WinTyped'
  BY <1>1, <1>3, <1>7, <1>8, WinTypedGc
<1> QED BY <1>3, <1>13, <1>16, <1>17, WinKept

\* A thread is suspended.
LEMMA ThreadSuspended ==
  ASSUME WinInv, wg.pc = "suspend", NEW h \in WThread, h = dll_table[wg.i].handle, wt[h].pc \notin {"dead", "gone"},
         dll_table' = [dll_table EXCEPT ![wg.i].flags = @ \union {"IS_SUSPENDED"}],
         wt' = [wt EXCEPT ![h].suspended = TRUE], wg' = [wg EXCEPT !.pc = "suspended"],
         GC_please_stop' = GC_please_stop, GC_attached_thread' = GC_attached_thread,
         pushedStacks' = pushedStacks, GC_max_thread_index' = GC_max_thread_index, lateThreads' = lateThreads
  PROVE  WinInv'
<1>1. /\ WinTyped /\ TableInv /\ LoopInv /\ wg \in WinLoop /\ wg.i \in WSlot /\ wg.max \in WSlot
      /\ wg.i \in Nat /\ wg.max \in Nat /\ GC_please_stop /\ wg.i # wt[WMain].at
      /\ GC_please_stop \in BOOLEAN /\ GC_attached_thread \in BOOLEAN
      /\ pushedStacks \subseteq WThread /\ lateThreads \subseteq WThread
  BY GcAt DEF LoopInv
<1>2. PICK j \in WSlot : j = wg.i
  BY <1>1
<1>3. wg' \in WinLoop /\ wg'.pc = "suspended" /\ wg'.i = wg.i /\ wg'.max = wg.max
  BY <1>1, WgGoes DEF WinPc
<1>4. h # WNone
  BY WinAssumption
<1>5. /\ Holder(h) /\ wt[h].at = j /\ wt[h].pc \in HandlePc /\ h # WMain
      /\ \A u \in WThread : Holder(u) /\ wt[u].at = j => u = h
  BY <1>1, <1>2, <1>4, SlotsThread
<1>6. dll_table \in [WSlot -> WinSlots] /\ wt \in [WThread -> WinStates]
  BY <1>1 DEF WinTyped
<1>7. PICK s \in WinSlots : s = [dll_table[j] EXCEPT !.flags = @ \union {"IS_SUSPENDED"}]
  BY <1>6 DEF WinSlots
<1>8. /\ s.in_use = dll_table[j].in_use /\ s.id = dll_table[j].id /\ s.handle = dll_table[j].handle
      /\ s.stack_end = dll_table[j].stack_end /\ s.flags = dll_table[j].flags \union {"IS_SUSPENDED"}
  BY <1>6, <1>7 DEF WinSlots
<1>9. dll_table' = [dll_table EXCEPT ![j] = s]
  BY <1>2, <1>6, <1>7
<1>10. dll_table' \in [WSlot -> WinSlots] /\ dll_table'[j] = s /\ OnlySlot(j)
  BY <1>6, <1>9 DEF OnlySlot
<1>11. PICK r \in WinStates : r = [wt[h] EXCEPT !.suspended = TRUE]
  BY <1>6 DEF WinStates
<1>12. r.suspended /\ r.pc = wt[h].pc /\ r.at = wt[h].at
  BY <1>6, <1>11 DEF WinStates
<1>13. wt' = [wt EXCEPT ![h] = r]
  BY <1>6, <1>11
<1>14. wt' \in [WThread -> WinStates] /\ wt'[h] = r /\ OnlyThread(h)
  BY <1>6, <1>13 DEF OnlyThread
<1>15. /\ \A t \in WThread : wt'[t].pc = wt[t].pc /\ wt'[t].at = wt[t].at /\ (wt[t].suspended => wt'[t].suspended)
       /\ \A t \in WThread : wt'[t].suspended => t = h \/ wt[t].suspended
       /\ \A t \in WThread : wt[t].at \in WSlot
       /\ \A i \in WSlot : dll_table[i].flags \subseteq dll_table'[i].flags
  BY <1>1, <1>8, <1>10, <1>12, <1>14, WinFields DEF OnlySlot, OnlyThread
<1>16. OnlyFlags
  BY <1>8, <1>10, <1>15 DEF OnlyFlags, OnlySlot
<1>17. ASSUME NEW t \in WThread PROVE FoundAgain(t)'
  <2>1. CASE t = h
    <3>1. "IS_SUSPENDED" \in dll_table'[j].flags /\ wt'[h].at = j /\ wt'[h].pc = wt[h].pc
      BY <1>5, <1>8, <1>10, <1>15
    <3> QED BY <2>1, <3>1, <1>5 DEF FoundAgain, HandlePc
  <2>2. CASE t # h
    <3>1. FoundAgain(t)
      BY <1>1 DEF TableInv
    <3> QED BY <2>2, <3>1, <1>15 DEF FoundAgain
  <2> QED BY <2>1, <2>2
<1>18. ASSUME NEW i \in WSlot, "IS_SUSPENDED" \in dll_table'[i].flags
       PROVE  dll_table[i].handle # WNone /\ wt'[dll_table[i].handle].suspended
  <2>1. CASE i = j
    BY <1>2, <1>4, <1>12, <1>14, <2>1
  <2>2. CASE i # j
    <3>1. "IS_SUSPENDED" \in dll_table[i].flags
      BY <1>10, <1>18, <2>2 DEF OnlySlot
    <3>2. dll_table[i].handle # WNone /\ wt[dll_table[i].handle].suspended
      BY <1>1, <3>1 DEF TableInv, SaysTrue
    <3>3. dll_table[i].handle \in WThread
      BY <1>1, <3>2, WinFields
    <3> QED BY <3>2, <3>3, <1>15
  <2> QED BY <2>1, <2>2
<1>19. TableInv'
  BY <1>1, <1>16, <1>17, <1>18, FlagsStep
<1>20. ASSUME NEW t \in WThread PROVE StopReaches(t)'
  <2>1. (RanBefore(t)' => RanBefore(t)) /\ wt'[t].at = wt[t].at /\ wt[t].at \in Nat
    BY <1>15, WinSlotsAre DEF RanBefore
  <2>2. Quiet(t) => Quiet(t)'
    BY <1>15 DEF Quiet
  <2>3. RanBefore(t) => wt[t].at <= wg.max /\ (wt[t].at < wg.i => Quiet(t))
    BY <1>1 DEF LoopInv, StopReaches
  <2>4. RanBefore(t) /\ wt[t].at = wg.i => Quiet(t)'
    <3>1. RanBefore(t) /\ wt[t].at = wg.i => t = h
      BY <1>1, <1>2, <1>5, RunnersCovered
    <3> QED BY <1>12, <1>14, <3>1 DEF Quiet
  <2> QED BY <1>3, <2>1, <2>2, <2>3, <2>4 DEF StopReaches
<1>21. \A t \in WThread : StoppedFor(t)' /\ PushReaches(t)' /\ ResumeReaches(t)'
  BY <1>3 DEF StoppedFor, PushReaches, ResumeReaches
<1>22. LoopInv'
  BY <1>1, <1>3, <1>20, <1>21 DEF LoopInv
<1>23. WinTyped'
  BY <1>1, <1>3, <1>10, <1>14, WinTypedGc
<1> QED BY <1>3, <1>19, <1>22, <1>23, WinKept

\* GC_suspend.
LEMMA SuspendStep ==
  ASSUME WinInv, GC_suspend
  PROVE  WinInv'
<1>1. /\ wg.pc = "suspend" /\ GC_please_stop' = GC_please_stop /\ GC_attached_thread' = GC_attached_thread
      /\ pushedStacks' = pushedStacks /\ GC_max_thread_index' = GC_max_thread_index
      /\ lateThreads' = lateThreads
  BY DEF GC_suspend, threadSide, stopFlags
<1>2. WinTyped /\ TableInv /\ LoopInv /\ wg.i \in WSlot
  BY <1>1, GcAt
<1>3. PICK h \in WThread \cup {WNone} : h = dll_table[wg.i].handle
  BY <1>2, WinFields
<1>4. \/ WAborts /\ dll_table' = dll_table /\ wt' = wt
      \/ /\ h # WNone /\ wt[h].pc \in {"dead", "gone"} /\ dll_table' = [dll_table EXCEPT ![wg.i] = EmptySlot]
         /\ wg' = [wg EXCEPT !.pc = "suspended"] /\ wt' = wt
      \/ /\ h # WNone /\ wt[h].pc \notin {"dead", "gone"}
         /\ dll_table' = [dll_table EXCEPT ![wg.i].flags = @ \union {"IS_SUSPENDED"}]
         /\ wt' = [wt EXCEPT ![h].suspended = TRUE] /\ wg' = [wg EXCEPT !.pc = "suspended"]
  BY <1>3 DEF GC_suspend
<1>5. CASE WAborts /\ dll_table' = dll_table /\ wt' = wt
  BY <1>1, <1>2, <1>5, WinAborts DEF WAborts
<1>6. CASE /\ h # WNone /\ wt[h].pc \in {"dead", "gone"} /\ dll_table' = [dll_table EXCEPT ![wg.i] = EmptySlot]
           /\ wg' = [wg EXCEPT !.pc = "suspended"] /\ wt' = wt
  BY <1>1, <1>3, <1>6, DeadCleared
<1>7. CASE /\ h # WNone /\ wt[h].pc \notin {"dead", "gone"}
           /\ dll_table' = [dll_table EXCEPT ![wg.i].flags = @ \union {"IS_SUSPENDED"}]
           /\ wt' = [wt EXCEPT ![h].suspended = TRUE] /\ wg' = [wg EXCEPT !.pc = "suspended"]
  BY <1>1, <1>3, <1>7, ThreadSuspended
<1> QED BY <1>4, <1>5, <1>6, <1>7

\* A thread is resumed.
LEMMA ThreadResumed ==
  ASSUME WinTyped, TableInv, NEW j \in WSlot, "IS_SUSPENDED" \in dll_table[j].flags,
         dll_table' = [dll_table EXCEPT ![j].flags = @ \ {"IS_SUSPENDED"}],
         wt' = [wt EXCEPT ![dll_table[j].handle].suspended = FALSE],
         GC_max_thread_index' = GC_max_thread_index
  PROVE  /\ TableInv' /\ dll_table' \in [WSlot -> WinSlots] /\ wt' \in [WThread -> WinStates]
         /\ \A t \in WThread : /\ wt'[t].pc = wt[t].pc /\ wt'[t].at = wt[t].at
                               /\ wt'[t].suspended => wt[t].suspended /\ wt[t].at # j
<1>1. dll_table[j].handle # WNone
  BY DEF TableInv, SaysTrue
<1>2. PICK h \in WThread : h = dll_table[j].handle
  BY <1>1, WinFields
<1>3. Holder(h) /\ wt[h].at = j /\ \A u \in WThread : Holder(u) /\ wt[u].at = j => u = h
  BY <1>1, <1>2, SlotsThread
<1>4. dll_table \in [WSlot -> WinSlots] /\ wt \in [WThread -> WinStates]
  BY DEF WinTyped
<1>5. PICK s \in WinSlots : s = [dll_table[j] EXCEPT !.flags = @ \ {"IS_SUSPENDED"}]
  BY <1>4 DEF WinSlots
<1>6. /\ s.in_use = dll_table[j].in_use /\ s.id = dll_table[j].id /\ s.handle = dll_table[j].handle
      /\ s.stack_end = dll_table[j].stack_end /\ s.flags = dll_table[j].flags \ {"IS_SUSPENDED"}
  BY <1>4, <1>5 DEF WinSlots
<1>7. dll_table' = [dll_table EXCEPT ![j] = s]
  BY <1>4, <1>5
<1>8. dll_table' \in [WSlot -> WinSlots] /\ dll_table'[j] = s /\ OnlySlot(j)
  BY <1>4, <1>7 DEF OnlySlot
<1>9. PICK r \in WinStates : r = [wt[h] EXCEPT !.suspended = FALSE]
  BY <1>4 DEF WinStates
<1>10. ~r.suspended /\ r.pc = wt[h].pc /\ r.at = wt[h].at
  BY <1>4, <1>9 DEF WinStates
<1>11. wt' = [wt EXCEPT ![h] = r]
  BY <1>2, <1>4, <1>9
<1>12. wt' \in [WThread -> WinStates] /\ wt'[h] = r /\ OnlyThread(h)
  BY <1>4, <1>11 DEF OnlyThread
<1>13. ASSUME NEW t \in WThread
       PROVE  /\ wt'[t].pc = wt[t].pc /\ wt'[t].at = wt[t].at /\ wt[t].at \in WSlot
              /\ wt'[t].suspended => wt[t].suspended /\ wt[t].at # j
              /\ t # h => wt'[t].suspended = wt[t].suspended
  <2>1. CASE t = h
    BY <2>1, <1>10, <1>12, WinFields
  <2>2. CASE t # h
    <3>1. wt'[t] = wt[t] /\ wt[t].at \in WSlot
      BY <2>2, <1>12, WinFields DEF OnlyThread
    <3>2. wt[t].suspended => Holder(t)
      BY RunnersCovered
    <3> QED BY <2>2, <3>1, <3>2, <1>3
  <2> QED BY <2>1, <2>2
<1>14. OnlyFlags
  BY <1>6, <1>8, <1>13 DEF OnlyFlags, OnlySlot
<1>15. ASSUME NEW t \in WThread PROVE FoundAgain(t)'
  <2>1. FoundAgain(t)
    BY DEF TableInv
  <2>2. wt'[t].suspended => dll_table'[wt[t].at] = dll_table[wt[t].at]
    BY <1>8, <1>13 DEF OnlySlot
  <2> QED BY <2>1, <2>2, <1>13 DEF FoundAgain
<1>16. ASSUME NEW i \in WSlot, "IS_SUSPENDED" \in dll_table'[i].flags
       PROVE  dll_table[i].handle # WNone /\ wt'[dll_table[i].handle].suspended
  <2>1. i # j
    BY <1>6, <1>8, <1>16
  <2>2. "IS_SUSPENDED" \in dll_table[i].flags
    BY <1>8, <1>16, <2>1 DEF OnlySlot
  <2>3. dll_table[i].handle # WNone /\ wt[dll_table[i].handle].suspended /\ wt[dll_table[i].handle].at = i
    BY <2>2 DEF TableInv, SaysTrue
  <2>4. dll_table[i].handle \in WThread /\ dll_table[i].handle # h
    BY <1>3, <2>1, <2>3, WinFields
  <2> QED BY <2>3, <2>4, <1>13
<1>17. TableInv'
  BY <1>14, <1>15, <1>16, FlagsStep
<1> QED BY <1>8, <1>12, <1>13, <1>17

\* GC_start_world.
LEMMA StartWorldStep ==
  ASSUME WinInv, GC_start_world
  PROVE  WinInv'
<1>1. /\ wg.pc = "resume" /\ Passed("unstop") /\ GC_please_stop' = GC_please_stop
      /\ GC_attached_thread' = GC_attached_thread /\ pushedStacks' = pushedStacks
      /\ GC_max_thread_index' = GC_max_thread_index /\ lateThreads' = lateThreads
  BY DEF GC_start_world, threadSide, stopFlags
<1>2. /\ WinTyped /\ TableInv /\ LoopInv /\ wg \in WinLoop /\ wg.i \in WSlot /\ wg.max \in WSlot
      /\ wg.i \in Nat /\ wg.max \in Nat /\ GC_please_stop
      /\ GC_please_stop \in BOOLEAN /\ GC_attached_thread \in BOOLEAN
      /\ pushedStacks \subseteq WThread /\ lateThreads \subseteq WThread
  BY <1>1, GcAt DEF LoopInv
<1>3. /\ wg' \in WinLoop /\ wg'.max = wg.max
      /\ \/ wg.i < wg.max /\ wg'.pc = "resume" /\ wg'.i = wg.i + 1
         \/ wg.i >= wg.max /\ wg'.pc = "unstop" /\ wg'.i = wg.i
  BY <1>1, <1>2, PassedIs DEF WinPc
<1>4. /\ TableInv' /\ dll_table' \in [WSlot -> WinSlots] /\ wt' \in [WThread -> WinStates]
      /\ \A t \in WThread : /\ wt'[t].pc = wt[t].pc /\ wt'[t].at = wt[t].at
                            /\ wt'[t].suspended => wt[t].suspended /\ wt[t].at # wg.i
  <2>1. PICK j \in WSlot : j = wg.i
    BY <1>2
  <2>2. CASE "IS_SUSPENDED" \in dll_table[j].flags
    <3>1. /\ dll_table' = [dll_table EXCEPT ![j].flags = @ \ {"IS_SUSPENDED"}]
          /\ wt' = [wt EXCEPT ![dll_table[j].handle].suspended = FALSE]
      BY <2>1, <2>2 DEF GC_start_world, ToResume
    <3> QED BY <1>1, <1>2, <2>1, <2>2, <3>1, ThreadResumed
  <2>3. CASE "IS_SUSPENDED" \notin dll_table[j].flags
    <3>1. TableKept
      BY <1>1, <2>1, <2>3 DEF GC_start_world, ToResume, TableKept
    <3>2. \A t \in WThread : wt[t].suspended => wt[t].at # j
      BY <1>2, <2>3 DEF TableInv, FoundAgain
    <3> QED BY <1>2, <2>1, <3>1, <3>2, TableStays DEF TableKept, WinTyped
  <2> QED BY <2>2, <2>3
<1>5. ASSUME NEW t \in WThread PROVE ResumeReaches(t)'
  <2>1. wt[t].suspended => wg.i <= wt[t].at /\ wt[t].at <= wg.max
    BY <1>1, <1>2 DEF LoopInv, ResumeReaches
  <2>2. wt[t].at \in Nat
    BY <1>2, WinFields, WinSlotsAre
  <2>3. wt'[t].suspended => wg.i + 1 <= wt[t].at /\ wt[t].at <= wg.max /\ wg.i < wg.max
    BY <1>2, <1>4, <2>1, <2>2
  <2> QED BY <1>2, <1>3, <1>4, <2>3 DEF ResumeReaches
<1>6. \A t \in WThread : StopReaches(t)' /\ StoppedFor(t)' /\ PushReaches(t)'
  BY <1>3 DEF StopReaches, StoppedFor, PushReaches
<1>7. LoopInv'
  BY <1>1, <1>2, <1>3, <1>5, <1>6 DEF LoopInv
<1>8. WinTyped'
  BY <1>1, <1>2, <1>3, <1>4, WinTypedGc
<1> QED BY <1>3, <1>4, <1>7, <1>8, WinKept

(***************************************************************************)
(* The theorems.                                                           *)
(***************************************************************************)

\* The initial state: only the main thread has a slot.
LEMMA WinInitial == WinInit => WinInv
<1> SUFFICES ASSUME WinInit PROVE WinInv
  OBVIOUS
<1>1. 0 \in WSlot /\ WMain \in WThread /\ WNone \notin WThread
  BY WinSlotsAre, WinAssumption
<1>2. SlotOf(WMain) \in WinSlots /\ EmptySlot \in WinSlots
  BY <1>1 DEF SlotOf, EmptySlot, WinSlots
<1>3. dll_table \in [WSlot -> WinSlots]
  BY <1>2 DEF WinInit
<1>4. wt \in [WThread -> WinStates]
  BY <1>1 DEF WinInit, WinStates, WPc
<1>5. wg \in [pc : WinPc, i : WSlot, max : WSlot] /\ wg.pc = "idle"
  BY <1>1 DEF WinInit, WinPc
<1>6. WinTyped
  BY <1>3, <1>4, <1>5 DEF WinTyped, WinInit
<1>7. \A t \in WThread : wt[t].at = 0 /\ wt[t].suspended = FALSE /\ (t # WMain => wt[t].pc = "new")
  BY DEF WinInit
<1>8. wt[WMain].pc = "run" /\ GC_max_thread_index = 0
  BY <1>1 DEF WinInit
<1>9. dll_table[0] = SlotOf(WMain) /\ \A i \in WSlot \ {0} : dll_table[i] = EmptySlot
  BY <1>1 DEF WinInit
<1>10. /\ dll_table[0].in_use /\ dll_table[0].handle = WMain /\ dll_table[0].id = WMain
       /\ dll_table[0].stack_end /\ dll_table[0].flags = {}
       /\ \A i \in WSlot \ {0} : dll_table[i].handle = WNone /\ dll_table[i].id = WNone /\ dll_table[i].flags = {}
  BY <1>9 DEF SlotOf, EmptySlot
<1>11. \A t \in WThread : Holder(t) => t = WMain
  BY <1>7 DEF Holder, Reserved
<1>12. \A t \in WThread : Fits(t) /\ FoundAgain(t) /\ Reached(t)
  BY <1>7, <1>8, <1>10, <1>11 DEF Fits, FoundAgain, Reached
<1>13. \A t, u \in WThread : OneHolder(t, u)
  BY <1>11 DEF OneHolder
<1>14. \A i \in WSlot : SaysTrue(i)
  <2>1. SaysTrue(0)
    BY <1>1, <1>7, <1>8, <1>10 DEF SaysTrue, HandlePc, IdPc
  <2>2. \A i \in WSlot \ {0} : SaysTrue(i)
    BY <1>10 DEF SaysTrue
  <2> QED BY <2>1, <2>2
<1>15. TableInv
  BY <1>8, <1>12, <1>13, <1>14 DEF TableInv
<1>16. LoopInv
  BY <1>5, <1>7 DEF LoopInv, StopReaches, StoppedFor, PushReaches, ResumeReaches
<1> QED BY <1>5, <1>6, <1>15, <1>16 DEF WinInv

\* Every step.
LEMMA WinStep == WinInv /\ [WinNext]_winVars => WinInv'
<1> SUFFICES ASSUME WinInv, [WinNext]_winVars PROVE WinInv'
  OBVIOUS
<1>1. ASSUME NEW t \in WThread, AttachStep(t) PROVE WinInv'
  BY <1>1, StartThreadStep, ClaimSlotStep, TestMaxStep, IncrementMaxStep, TestOvershotStep, ClampMaxStep,
     FillSlotStep, StoreIdStep, TestPleaseStopStep, TellAttachedStep DEF AttachStep
<1>2. ASSUME NEW t \in WThread, DetachStep(t) PROVE WinInv'
  BY <1>2, CloseSlotHandleStep, ClearStackEndStep, ClearIdAndFlagsStep, ReleaseSlotStep DEF DetachStep
<1>3. ASSUME NEW t \in WThread, TerminateThread(t) \/ DoBlocking(t) PROVE WinInv'
  BY <1>3, TerminateThreadStep, DoBlockingStep
<1>4. CASE WinGcStep
  BY <1>4, StopWorldStep, ResetAttachedStep, StopLoopStep, StopTestStep, SuspendStep, NextToStopStep,
     PushLoopStep, PushAllStacksStep, StartedThreadStep, ResumeLoopStep, StartWorldStep,
     ClearPleaseStopStep, ProcessDetachStep DEF WinGcStep
<1>5. CASE UNCHANGED winVars
  BY <1>5 DEF winVars, WinInv, WinTyped, TableInv, LoopInv, Fits, FoundAgain, Reached, OneHolder, SaysTrue,
     Holder, Reserved, SlotCovered, StopReaches, StoppedFor, PushReaches, ResumeReaches, RanBefore, Quiet
<1> QED BY <1>1, <1>2, <1>3, <1>4, <1>5 DEF WinNext

\* The invariant implies the one that the run checks.
LEMMA WinInvSound == WinInv => WinThreadsSound
<1> SUFFICES ASSUME WinInv PROVE WinThreadsSound
  OBVIOUS
<1>1. WinTyped
  BY DEF WinInv
<1>2. WinTypeOK
  <2>1. pushedStacks \subseteq WThread /\ lateThreads \subseteq WThread
    BY <1>1 DEF WinTyped
  <2> QED BY <1>1, <2>1, WinFields DEF WinTypeOK
<1>3. SlotsReached
  <2> SUFFICES ASSUME NEW t \in WThread, wg.pc # "ended"
               PROVE  /\ SlotCovered(t) => wt[t].at <= GC_get_max_thread_index
                      /\ Reserved(t) => /\ dll_table[wt[t].at].in_use
                                        /\ \A u \in WThread \ {t} : Reserved(u) => wt[u].at # wt[t].at
    BY DEF SlotsReached
  <2>1. TableInv
    BY DEF WinInv
  <2>2. Reserved(t) => dll_table[wt[t].at].in_use
    BY <2>1 DEF TableInv, Fits, Holder
  <2>3. \A u \in WThread \ {t} : Reserved(t) /\ Reserved(u) => wt[u].at # wt[t].at
    BY <2>1 DEF TableInv, OneHolder, Holder
  <2> QED BY <1>1, <2>1, <2>2, <2>3, GetMaxIs
<1>4. RunnersAttachedLate
  BY DEF WinInv, LoopInv, StoppedFor, RanBefore, Quiet, RunnersAttachedLate
<1>5. AllResumedAfterGc
  BY DEF WinInv, LoopInv, ResumeReaches, AllResumedAfterGc
<1> QED BY <1>2, <1>3, <1>4, <1>5 DEF WinThreadsSound

(***************************************************************************)
(* A thread that finds the world running when it attaches is in a slot     *)
(* that the next stop reaches, is suspended by it, and is resumed; for any *)
(* number of threads and of slots, although the table has no lock.         *)
(***************************************************************************)
THEOREM WinThreadsAreStopped == WinSpec => []WinThreadsSound
<1>1. WinInit => WinInv
  BY WinInitial
<1>2. WinInv /\ [WinNext]_winVars => WinInv'
  BY WinStep
<1>3. WinInv => WinThreadsSound
  BY WinInvSound
<1> QED BY <1>1, <1>2, <1>3, PTL DEF WinSpec

(***************************************************************************)
(* Marking is not finished while the stack of a thread that has attached   *)
(* has not been pushed: the end of GC_mark_some starts over.               *)
(***************************************************************************)
THEOREM AttachedAreScanned == WinSpec => AttachedScanned
<1>1. WinInit => WinInv
  BY WinInitial
<1>2. WinInv /\ [WinNext]_winVars => WinInv'
  BY WinStep
<1>3. ASSUME WinInv, [WinNext]_winVars
      PROVE  [wg.pc = "check" /\ wg'.pc = "resume_max" =>
                \A t \in WThread : wt[t].pc = "run" => t \in pushedStacks]_winVars
  <2> SUFFICES ASSUME wg.pc = "check", wg'.pc = "resume_max", WinNext, NEW t \in WThread, wt[t].pc = "run"
               PROVE  t \in pushedStacks
    BY <1>3
  <2>1. wg \in WinLoop /\ LoopInv
    BY <1>3, GcAt
  <2>2. ASSUME NEW u \in WThread, AttachStep(u) \/ DetachStep(u) \/ TerminateThread(u) \/ DoBlocking(u)
        PROVE  FALSE
    <3>1. wg' = wg \/ WAborts
      BY <2>2 DEF AttachStep, DetachStep, TerminateThread, DoBlocking, StartThread, ClaimSlot, TestMax,
         IncrementMax, TestOvershot, ClampMax, FillSlot, StoreId, TestPleaseStop, TellAttached,
         CloseSlotHandle, ClearStackEnd, ClearIdAndFlags, ReleaseSlot, gcSide
    <3> QED BY <2>1, <3>1 DEF WAborts, WinLoop
  <2>3. GC_started_thread_while_stopped
    BY <2>2 DEF WinNext, WinGcStep, GC_stop_world, ResetAttached, StopLoop, StopTest, GC_suspend, NextToStop,
       PushLoop, GC_push_all_stacks, ResumeLoop, GC_start_world, ClearPleaseStop, ProcessDetach, BeginLoop
  <2>4. ~GC_attached_thread
    <3>1. ~(wg' = [wg EXCEPT !.pc = "push_max"])
      BY <2>1, WgGoes DEF WinPc
    <3> QED BY <2>3, <3>1 DEF GC_started_thread_while_stopped
  <2> QED BY <2>1, <2>4 DEF LoopInv, PushReaches
<1> QED BY <1>1, <1>2, <1>3, PTL DEF WinSpec, AttachedScanned
=============================================================================
