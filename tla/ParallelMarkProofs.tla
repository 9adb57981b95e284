------------------------- MODULE ParallelMarkProofs -------------------------
(***************************************************************************)
(* Machine-checked proofs about ParallelMark, for any heap, any number of  *)
(* helpers and any sizes of the stacks: the counters are exact, the        *)
(* assertions of mark.c hold, GC_first_nonempty only advances, and at the  *)
(* end of a mark phase exactly the reachable objects are marked.  At the   *)
(* end, proofs about DirtyPages and Pagemap, which tell an incremental     *)
(* collection the pages to mark from: no store is missed.                  *)
(***************************************************************************)
EXTENDS ParallelMark, Pagemap, FiniteSetTheorems, TLAPS

(***************************************************************************)
(* Constants, reachability and counting.                                   *)
(***************************************************************************)
\* The places where a marker may be.
Labels == Joined \cup {"idle", "cleanup", "help"}

\* The types of the configuration in force.
LEMMA ConfTyped ==
  ASSUME mconf \in MarkConfigs
  PROVE  /\ Succ \in [Obj -> SUBSET Obj] /\ MarkersM1 \in Nat /\ MarkersM1 <= MaxHelpers
         /\ StackSize \in Nat /\ LocalSize \in Nat \ {0} /\ MaxMarkNo \in Nat
         /\ 0 \in Marker /\ Helper = Marker \ {0} /\ IsFiniteSet(Marker)
         /\ Cardinality(Marker) = MarkersM1 + 1 /\ NoLock \notin Marker
<1>1. /\ Succ \in [Obj -> SUBSET Obj] /\ MarkersM1 \in 0..MaxHelpers
      /\ StackSize \in Nat /\ LocalSize \in Nat \ {0} /\ MaxMarkNo \in Nat
  BY MarkConfigsAssumption DEF Succ, MarkersM1, StackSize, LocalSize, MaxMarkNo
<1>2. MarkersM1 \in Nat /\ MarkersM1 <= MaxHelpers
  BY <1>1, MarkConfigsAssumption
<1>3. 0 \in Marker /\ Helper = Marker \ {0} /\ NoLock \notin Marker
  BY <1>2, NoLockNotMarker, MarkConfigsAssumption DEF Marker, Helper
<1>4. IsFiniteSet(Marker) /\ Cardinality(Marker) = MarkersM1 + 1
  BY <1>2, FS_Interval DEF Marker
<1> QED BY <1>1, <1>2, <1>3, <1>4

\* Reachable is closed, and holds the roots; it depends on the heap only.
LEMMA ReachableFacts ==
  ASSUME mconf \in MarkConfigs
  PROVE  /\ Reachable \subseteq Obj /\ Root \subseteq Reachable
         /\ \A o \in Reachable : Succ[o] \subseteq Reachable
<1>1. Reachable \subseteq Obj /\ Root \subseteq Reachable
  BY RootsAssumption DEF Reachable
<1>2. ASSUME NEW o \in Reachable, NEW x \in Succ[o] PROVE x \in Reachable
  <2>1. x \in Obj
    BY <1>1, <1>2, ConfTyped
  <2>2. ASSUME NEW S \in SUBSET Obj, Root \subseteq S, \A y \in S : Succ[y] \subseteq S
        PROVE  x \in S
    BY <1>2, <2>2 DEF Reachable
  <2> QED BY <2>1, <2>2 DEF Reachable
<1> QED BY <1>1, <1>2

\* A closed set with the roots has all that is reachable.
LEMMA ReachableLeast ==
  ASSUME NEW S \in SUBSET Obj, Root \subseteq S, \A y \in S : Succ[y] \subseteq S
  PROVE  Reachable \subseteq S
BY DEF Reachable

\* The markers in a set of places.
InPlace(S) == {k \in Marker : pc[k] \in S}

\* How their number changes when one marker moves.
LEMMA CountStep ==
  ASSUME mconf \in MarkConfigs, mconf' = mconf, pc \in [Marker -> Labels],
         NEW m \in Marker, NEW l \in Labels, pc' = [pc EXCEPT ![m] = l], NEW S
  PROVE  /\ Cardinality(InPlace(S)) \in Nat
         /\ Cardinality(InPlace(S)') = Cardinality(InPlace(S))
              + (IF l \in S THEN 1 ELSE 0) - (IF pc[m] \in S THEN 1 ELSE 0)
         /\ pc[m] \in S => Cardinality(InPlace(S)) > 0
<1>1. IsFiniteSet(InPlace(S)) /\ Marker' = Marker
  BY ConfTyped, FS_Subset DEF InPlace, Marker, MarkersM1
<1>2. Cardinality(InPlace(S)) \in Nat
  BY <1>1, FS_CardinalityType
<1>3. InPlace(S)' = IF l \in S THEN InPlace(S) \cup {m} ELSE InPlace(S) \ {m}
  BY <1>1 DEF InPlace
<1>4. m \in InPlace(S) <=> pc[m] \in S
  BY DEF InPlace
<1>5. pc[m] \in S => Cardinality(InPlace(S)) > 0
  BY <1>1, <1>2, <1>4, FS_EmptySet
<1>6. Cardinality(InPlace(S) \cup {m}) =
        IF m \in InPlace(S) THEN Cardinality(InPlace(S)) ELSE Cardinality(InPlace(S)) + 1
  BY <1>1, FS_AddElement
<1>7. Cardinality(InPlace(S) \ {m}) =
        IF m \in InPlace(S) THEN Cardinality(InPlace(S)) - 1 ELSE Cardinality(InPlace(S))
  BY <1>1, FS_RemoveElement
<1>8. CASE l \in S
  <2>1. Cardinality(InPlace(S)') = Cardinality(InPlace(S) \cup {m})
    BY <1>3, <1>8
  <2> QED BY <1>2, <1>4, <1>5, <1>6, <1>8, <2>1
<1>9. CASE l \notin S
  <2>1. Cardinality(InPlace(S)') = Cardinality(InPlace(S) \ {m})
    BY <1>3, <1>9
  <2> QED BY <1>2, <1>4, <1>5, <1>7, <1>9, <2>1
<1> QED BY <1>8, <1>9

\* The counts are bounded, and 0 only if there is nobody.
LEMMA CountFacts ==
  ASSUME mconf \in MarkConfigs, CountsExact
  PROVE  /\ helperCount \in 0..(MarkersM1 + 1) /\ activeCount \in 0..(MarkersM1 + 1)
         /\ activeCount <= helperCount
         /\ helperCount = 0 => \A m \in Marker : pc[m] \notin Joined
         /\ activeCount = 0 => \A m \in Marker : pc[m] \notin Working
<1>1. /\ InPlace(Working) \subseteq InPlace(Joined) /\ InPlace(Joined) \subseteq Marker
      /\ helperCount = Cardinality(InPlace(Joined)) /\ activeCount = Cardinality(InPlace(Working))
  BY DEF InPlace, Joined, CountsExact
<1>2. IsFiniteSet(Marker) /\ Cardinality(Marker) = MarkersM1 + 1 /\ MarkersM1 \in Nat
  BY ConfTyped
<1>3. IsFiniteSet(InPlace(Joined)) /\ Cardinality(InPlace(Joined)) <= MarkersM1 + 1
  BY <1>1, <1>2, FS_Subset
<1>4. IsFiniteSet(InPlace(Working)) /\ Cardinality(InPlace(Working)) <= Cardinality(InPlace(Joined))
  BY <1>1, <1>3, FS_Subset
<1>5. Cardinality(InPlace(Working)) \in Nat /\ Cardinality(InPlace(Joined)) \in Nat
  BY <1>3, <1>4, FS_CardinalityType
<1>6. /\ helperCount = 0 => InPlace(Joined) = {}
      /\ activeCount = 0 => InPlace(Working) = {}
  BY <1>1, <1>3, <1>4, FS_EmptySet
<1> QED BY <1>1, <1>2, <1>3, <1>4, <1>5, <1>6 DEF InPlace

\* The code's assertions follow from the rest of the invariant.
LEMMA AssertsFollow ==
  ASSUME mconf \in MarkConfigs, CountsExact, PhaseConsistent, MarkersPlaced, QuietAtCleanup, top \in Nat,
         firstNonempty \in Nat
  PROVE  MarkerAsserts
<1>1. pc[0] = "idle" => helperCount = 0 /\ activeCount = 0
  <2> SUFFICES ASSUME pc[0] = "idle" PROVE helperCount = 0 /\ activeCount = 0
    OBVIOUS
  <2>1. {m \in Marker : pc[m] \in Joined} = {} /\ {m \in Marker : pc[m] \in Working} = {}
    BY DEF PhaseConsistent, Joined
  <2> QED BY <2>1, FS_EmptySet DEF CountsExact
<1>2. \A m \in Marker : pc[m] \in Working => myFirst[m] <= top + 1
  BY DEF MarkersPlaced, Placed, Emptied, Joined
<1> QED BY <1>1, <1>2, CountFacts DEF MarkerAsserts, PhaseConsistent, QuietAtCleanup

(***************************************************************************)
(* What most steps leave alone.                                            *)
(***************************************************************************)

\* A step keeps the configuration, and all that is defined from it.
LEMMA SameConf ==
  ASSUME mconf' = mconf
  PROVE  /\ Marker' = Marker /\ Helper' = Helper /\ Slot' = Slot /\ Succ' = Succ
         /\ MarkersM1' = MarkersM1 /\ StackSize' = StackSize /\ LocalSize' = LocalSize
         /\ Reachable' = Reachable
BY DEF Marker, Helper, Slot, Succ, MarkersM1, StackSize, LocalSize, Reachable

\* The counts stay exact when a marker moves and they follow it.
LEMMA CountsFollow ==
  ASSUME MarkersConsistent, mconf' = mconf, NEW m \in Marker, NEW l \in Labels,
         pc' = [pc EXCEPT ![m] = l],
         helperCount' = helperCount + (IF l \in Joined THEN 1 ELSE 0)
                                    - (IF pc[m] \in Joined THEN 1 ELSE 0),
         activeCount' = activeCount + (IF l \in Working THEN 1 ELSE 0)
                                    - (IF pc[m] \in Working THEN 1 ELSE 0)
  PROVE  CountsExact'
<1>1. mconf \in MarkConfigs /\ pc \in [Marker -> Labels]
  BY DEF MarkersConsistent, TypeOK, Labels
<1>2. /\ helperCount = Cardinality(InPlace(Joined)) /\ activeCount = Cardinality(InPlace(Working))
  BY DEF MarkersConsistent, CountsExact, InPlace
<1>3. Cardinality(InPlace(Joined)') = Cardinality(InPlace(Joined))
        + (IF l \in Joined THEN 1 ELSE 0) - (IF pc[m] \in Joined THEN 1 ELSE 0)
  BY <1>1, CountStep
<1>4. Cardinality(InPlace(Working)') = Cardinality(InPlace(Working))
        + (IF l \in Working THEN 1 ELSE 0) - (IF pc[m] \in Working THEN 1 ELSE 0)
  BY <1>1, CountStep
<1>5. helperCount' = Cardinality(InPlace(Joined)') /\ activeCount' = Cardinality(InPlace(Working)')
  BY <1>2, <1>3, <1>4
<1> QED BY <1>5 DEF CountsExact, InPlace

\* A marker that neither has an entry in hand nor objects to mark moves, and
\* leaves the stacks and the mark bits alone.
LEMMA WorkKept ==
  ASSUME MarkersConsistent, mconf' = mconf, NEW m \in Marker, NEW l \in Labels,
         pc' = [pc EXCEPT ![m] = l], {l, pc[m]} \cap {"take", "push"} = {},
         UNCHANGED <<top, gstack, marked, markState, hand, local>>
  PROVE  WorkCovered' /\ (Quiet => Quiet')
<1>1. /\ Marker' = Marker /\ Slot' = Slot /\ Succ' = Succ /\ Reachable' = Reachable
      /\ pc \in [Marker -> Labels] /\ WorkCovered
  BY SameConf DEF MarkersConsistent, TypeOK, Labels
<1>2. \A k \in Marker : pc'[k] \in {"take", "push"} \/ pc[k] \in {"take", "push"} => pc'[k] = pc[k]
  BY <1>1
<1>3. \A o : Pending(o)' <=> Pending(o)
  BY <1>1, <1>2 DEF Pending
<1>4. Quiet => Quiet'
  BY <1>1 DEF Quiet
<1>5. WorkCovered'
  BY <1>1, <1>2, <1>3 DEF WorkCovered
<1> QED BY <1>4, <1>5

\* If a marker has joined, marker 0 is in GC_do_parallel_mark.
LEMMA InPhase ==
  ASSUME MarkersConsistent, NEW m \in Marker, pc[m] \in Joined
  PROVE  pc[0] # "idle" /\ markState # "NONE"
BY DEF MarkersConsistent, PhaseConsistent

\* The parts of the invariant that are proved of each step; the assertions of
\* the code follow from them in the next state as they do in any state.
Parts == /\ TypeOK /\ NoWorkLost /\ CountsExact /\ PhaseConsistent /\ MarkersPlaced
         /\ QuietAtCleanup /\ WorkCovered

\* The invariant from its parts.
LEMMA Assemble == Parts' => MarkersConsistent'
<1>1. Parts => MarkersConsistent
  <2> SUFFICES ASSUME Parts PROVE MarkersConsistent
    OBVIOUS
  <2>1. mconf \in MarkConfigs /\ top \in Nat /\ firstNonempty \in Nat
    BY ConfTyped DEF Parts, TypeOK
  <2> QED BY <2>1, AssertsFollow DEF Parts, MarkersConsistent
<1> QED BY <1>1, PTL

\* The types, in a form in which steps can use them.
LEMMA Typed ==
  ASSUME MarkersConsistent, mconf' = mconf
  PROVE  /\ TypeOK /\ PhaseConsistent /\ MarkersPlaced /\ QuietAtCleanup /\ WorkCovered /\ NoWorkLost
         /\ MarkersM1 \in Nat /\ StackSize \in Nat /\ LocalSize \in Nat \ {0}
         /\ 0 \in Marker /\ Helper = Marker \ {0} /\ NoLock \notin Marker /\ mconf \in MarkConfigs
         /\ pc \in [Marker -> Labels] /\ Slot = 1..StackSize
         /\ top \in Nat /\ top <= StackSize /\ firstNonempty \in Nat
         /\ Succ \in [Obj -> SUBSET Obj]
         /\ Marker' = Marker /\ Helper' = Helper /\ Slot' = Slot /\ Succ' = Succ
         /\ MarkersM1' = MarkersM1 /\ StackSize' = StackSize /\ LocalSize' = LocalSize
         /\ Reachable' = Reachable
<1>1. mconf \in MarkConfigs
  BY DEF MarkersConsistent, TypeOK
<1>2. /\ TypeOK /\ PhaseConsistent /\ MarkersPlaced /\ QuietAtCleanup /\ WorkCovered /\ NoWorkLost
  BY DEF MarkersConsistent
<1>3. /\ MarkersM1 \in Nat /\ StackSize \in Nat /\ LocalSize \in Nat \ {0}
      /\ 0 \in Marker /\ Helper = Marker \ {0} /\ NoLock \notin Marker
      /\ Succ \in [Obj -> SUBSET Obj]
  BY <1>1, ConfTyped
<1>4. pc \in [Marker -> Labels] /\ top \in 0..StackSize /\ firstNonempty \in 1..(StackSize + 1)
  BY <1>2 DEF TypeOK, Labels
<1>5. Slot = 1..StackSize /\ top \in Nat /\ top <= StackSize /\ firstNonempty \in Nat
  BY <1>3, <1>4 DEF Slot
<1>6. /\ Marker' = Marker /\ Helper' = Helper /\ Slot' = Slot /\ Succ' = Succ
      /\ MarkersM1' = MarkersM1 /\ StackSize' = StackSize /\ LocalSize' = LocalSize
      /\ Reachable' = Reachable
  BY SameConf
<1> QED BY <1>1, <1>2, <1>3, <1>4, <1>5, <1>6

\* A marker moves inside GC_mark_local and the counts stay.
LEMMA WorkerMoves ==
  ASSUME MarkersConsistent, mconf' = mconf, NEW m \in Marker, NEW l \in Working,
         pc[m] \in Working, pc' = [pc EXCEPT ![m] = l], markState' \in {markState, "INVALID"},
         UNCHANGED <<lock, helpWanted, helperCount, activeCount, markNo>>
  PROVE  CountsExact' /\ PhaseConsistent' /\ NoWorkLost' /\ pc'[0] # "idle"
<1>1. /\ Marker' = Marker /\ Helper' = Helper /\ 0 \in Marker /\ Helper \subseteq Marker
      /\ pc \in [Marker -> Labels] /\ PhaseConsistent /\ TypeOK
  BY Typed
<1>2. l \in Joined /\ pc[m] \in Joined /\ l \in Labels
  BY DEF Joined, Labels
<1>3. pc[0] # "idle" /\ markState # "NONE"
  BY <1>2, InPhase
<1>4. helperCount \in Int /\ activeCount \in Int
  BY <1>1 DEF TypeOK
<1>5. CountsExact'
  <2>1. /\ helperCount' = helperCount + (IF l \in Joined THEN 1 ELSE 0)
                                     - (IF pc[m] \in Joined THEN 1 ELSE 0)
        /\ activeCount' = activeCount + (IF l \in Working THEN 1 ELSE 0)
                                     - (IF pc[m] \in Working THEN 1 ELSE 0)
    BY <1>2, <1>4
  <2> QED BY <1>2, <2>1, CountsFollow, Zenon
<1>6. l \notin {"idle", "cleanup", "help"} /\ pc[m] \notin {"idle", "cleanup", "help"}
  BY DEF Working
<1>7. PhaseConsistent' /\ pc'[0] # "idle"
  BY <1>1, <1>2, <1>3, <1>6 DEF PhaseConsistent
<1> QED BY <1>3, <1>5, <1>7 DEF NoWorkLost

\* Entries of the stack are only taken from it or added above.
StackGrows == /\ top' \in Nat /\ top' >= top
              /\ \A s \in Slot : s <= top => gstack'[s] \in {gstack[s], NoEntry}

\* A fact of arithmetic.
LEMMA OnePast ==
  ASSUME NEW n \in Nat, NEW a \in Nat, NEW b \in Nat, n <= a + 1, a <= b
  PROVE  n <= b + 1
OBVIOUS

\* What has been emptied stays so.
LEMMA EmptiedKept ==
  ASSUME MarkersConsistent, mconf' = mconf, StackGrows, NEW n \in Nat,
         n <= top + 1, \A s \in Slot : s < n => gstack[s] = NoEntry
  PROVE  n <= top' + 1 /\ \A s \in Slot' : s < n => gstack'[s] = NoEntry
<1>1. Slot' = Slot /\ top \in Nat /\ Slot = 1..StackSize /\ StackSize \in Nat
  BY Typed
<1>2. n <= top' + 1
  <2>1. top' \in Nat /\ top <= top'
    BY <1>1 DEF StackGrows
  <2> QED BY <1>1, <2>1, OnePast
<1>3. ASSUME NEW s \in Slot, s < n PROVE gstack'[s] = NoEntry
  <2>1. s <= top /\ gstack[s] = NoEntry
    BY <1>1, <1>3
  <2> QED BY <2>1 DEF StackGrows
<1> QED BY <1>1, <1>2, <1>3

\* A marker does not notice what the others do to the stack.
LEMMA OthersPlaced ==
  ASSUME MarkersConsistent, mconf' = mconf, StackGrows, NEW k \in Marker,
         pc'[k] = pc[k], myFirst'[k] = myFirst[k], seen'[k] = seen[k], myTop'[k] = myTop[k],
         toGet'[k] = toGet[k], hand'[k] = hand[k], local'[k] = local[k]
  PROVE  Placed(k)'
<1>1. /\ Slot' = Slot /\ top \in Nat /\ Slot = 1..StackSize /\ StackSize \in Nat /\ top <= StackSize
      /\ Placed(k) /\ TypeOK
  BY Typed DEF MarkersPlaced
<1>2. myFirst[k] \in Nat /\ myFirst[k] >= 1 /\ myTop[k] \in Nat
  BY <1>1 DEF TypeOK
<1>3. pc[k] \in Joined => Emptied(myFirst[k])'
  <2> SUFFICES ASSUME pc[k] \in Joined PROVE Emptied(myFirst[k])'
    OBVIOUS
  <2>1. myFirst[k] <= top + 1 /\ \A s \in Slot : s < myFirst[k] => gstack[s] = NoEntry
    BY <1>1 DEF Placed, Emptied
  <2> QED BY <1>2, <2>1, EmptiedKept DEF Emptied
<1>4. pc[k] \in {"steal", "take"} => myTop[k] <= top'
  <2>1. pc[k] \in {"steal", "take"} => myTop[k] <= top
    BY <1>1 DEF Placed
  <2> QED BY <1>1, <1>2, <2>1 DEF StackGrows
<1>5. pc[k] = "take" => /\ myFirst[k] <= myTop[k] /\ toGet[k] > 0
                        /\ \E o \in Obj : /\ hand[k] = {o}
                                          /\ gstack'[myFirst[k]] \in {o, NoEntry}
  <2> SUFFICES ASSUME pc[k] = "take"
               PROVE  \E o \in Obj : hand[k] = {o} /\ gstack'[myFirst[k]] \in {o, NoEntry}
    BY <1>1 DEF Placed
  <2>1. myFirst[k] \in Slot /\ myFirst[k] <= top
    BY <1>1, <1>2 DEF Placed
  <2> QED BY <1>1, <2>1 DEF Placed, StackGrows
<1>6. /\ pc[k] = "cas" => seen[k] < myFirst[k]
      /\ pc[k] \notin {"steal", "take", "local", "push", "credit", "share"} => local[k] = {}
      /\ pc[k] = "share" => local[k] # {}
      /\ pc[k] \notin {"take", "push"} => hand[k] = {}
  BY <1>1 DEF Placed
<1>7. pc'[k] \in Joined => Emptied(myFirst[k])'
  BY <1>3
<1> QED BY <1>4, <1>5, <1>6, <1>7 DEF Placed

\* A marker outside GC_mark_local remembers nothing.
LEMMA OutsidePlaced ==
  ASSUME NEW k, pc'[k] \in {"idle", "cleanup", "help"}, local'[k] = {}, hand'[k] = {}
  PROVE  Placed(k)'
BY DEF Placed, Joined, Working

\* At least one entry is wanted.
LEMMA ToGetNat == \A n : ToGet(n) \in Nat
<1>1. EntriesToGet \in Nat
  BY MarkConfigsAssumption
<1>2. SUFFICES ASSUME NEW n PROVE 1 + (IF n < 2 * EntriesToGet THEN 1 ELSE EntriesToGet) \in Nat
  BY DEF ToGet
<1>3. (IF n < 2 * EntriesToGet THEN 1 ELSE EntriesToGet) \in Nat
  BY <1>1
<1> QED BY <1>3

\* The bounds of the counts, in the next state.
LEMMA CountBounds ==
  (mconf \in MarkConfigs /\ CountsExact)' =>
    (helperCount \in 0..(MarkersM1 + 1) /\ activeCount \in 0..(MarkersM1 + 1))'
<1>1. mconf \in MarkConfigs /\ CountsExact =>
        helperCount \in 0..(MarkersM1 + 1) /\ activeCount \in 0..(MarkersM1 + 1)
  BY CountFacts
<1> QED BY <1>1, PTL

(***************************************************************************)
(* One lemma per step of GC_mark_local.                                    *)
(***************************************************************************)

\* GC_first_nonempty is read ...
LEMMA ReadFirstStep ==
  ASSUME MarkersConsistent, mconf' = mconf, NEW m \in Marker, ReadFirst(m)
  PROVE  MarkersConsistent'
<1>a. /\ MarkersM1 \in Nat /\ StackSize \in Nat /\ 0 \in Marker /\ Slot = 1..StackSize
      /\ top \in Nat /\ top <= StackSize /\ firstNonempty \in Nat /\ pc \in [Marker -> Labels]
      /\ Marker' = Marker /\ Slot' = Slot /\ MarkersM1' = MarkersM1 /\ StackSize' = StackSize
      /\ TypeOK /\ MarkersPlaced /\ QuietAtCleanup
  BY Typed
<1>b. /\ UNCHANGED <<lock, helpWanted, helperCount, activeCount, markNo, top, firstNonempty, gstack>>
      /\ UNCHANGED <<marked, markState, sleeping, myMarkNo, myTop, toGet, hand, local>>
  BY DEF ReadFirst, counts, global
<1>1. PICK l \in {"top", "cas"} :
        /\ pc' = [pc EXCEPT ![m] = l] /\ seen' = [seen EXCEPT ![m] = firstNonempty]
        /\ \/ myFirst' = [myFirst EXCEPT ![m] = firstNonempty] /\ l = "top"
           \/ myFirst' = myFirst /\ (l = "cas" => firstNonempty < myFirst[m])
  BY DEF ReadFirst, Goto
<1>2. pc[m] = "loop" /\ pc[m] \in Working /\ pc[m] \in Joined /\ l \in Working /\ l \in Joined /\ l \in Labels
  BY DEF ReadFirst, Working, Joined, Labels
<1>3. TypeOK'
  BY <1>a, <1>b, <1>1, <1>2 DEF TypeOK, Labels
<1>4. CountsExact' /\ PhaseConsistent' /\ NoWorkLost' /\ pc[0] # "idle"
  BY <1>b, <1>1, <1>2, WorkerMoves, InPhase
<1>5. WorkCovered' /\ QuietAtCleanup'
  BY <1>a, <1>b, <1>1, <1>2, WorkKept DEF QuietAtCleanup
<1>6. StackGrows
  BY <1>a, <1>b DEF StackGrows
<1>7. ASSUME NEW k \in Marker, k # m PROVE Placed(k)'
  BY <1>a, <1>b, <1>1, <1>6, <1>7, OthersPlaced DEF TypeOK
<1>8. Placed(m)'
  BY <1>a, <1>b, <1>1, <1>2, <1>4 DEF Placed, MarkersPlaced, Emptied, TypeOK
<1>9. MarkersPlaced'
  BY <1>a, <1>b, <1>4, <1>7, <1>8 DEF MarkersPlaced, Emptied
<1> QED BY <1>3, <1>4, <1>5, <1>9, Assemble DEF Parts

\* ... and advanced, past slots that the marker has seen empty.
LEMMA CasFirstStep ==
  ASSUME MarkersConsistent, mconf' = mconf, NEW m \in Marker, CasFirst(m)
  PROVE  MarkersConsistent'
<1>a. /\ MarkersM1 \in Nat /\ StackSize \in Nat /\ 0 \in Marker /\ Slot = 1..StackSize
      /\ top \in Nat /\ top <= StackSize /\ firstNonempty \in Nat /\ pc \in [Marker -> Labels]
      /\ Marker' = Marker /\ Slot' = Slot /\ MarkersM1' = MarkersM1 /\ StackSize' = StackSize
      /\ TypeOK /\ MarkersPlaced /\ QuietAtCleanup
  BY Typed
<1>b. /\ UNCHANGED <<lock, helpWanted, helperCount, activeCount, markNo, top, gstack>>
      /\ UNCHANGED <<marked, markState, sleeping, myMarkNo, myFirst, myTop, seen, toGet, hand, local>>
  BY DEF CasFirst, counts, steal
<1>1. pc[m] = "cas" /\ pc' = [pc EXCEPT ![m] = "top"]
      /\ firstNonempty' = IF firstNonempty = seen[m] THEN myFirst[m] ELSE firstNonempty
  BY DEF CasFirst, Goto, AdvancedFirst
<1>2. pc[m] \in Working /\ pc[m] \in Joined /\ "top" \in Working /\ "top" \in Joined /\ "top" \in Labels
  BY <1>1 DEF Working, Joined, Labels
<1>3. TypeOK'
  BY <1>a, <1>b, <1>1, <1>2 DEF TypeOK, Labels
<1>4. CountsExact' /\ PhaseConsistent' /\ NoWorkLost' /\ pc[0] # "idle"
  BY <1>b, <1>1, <1>2, WorkerMoves, InPhase
<1>5. Emptied(myFirst[m]) /\ Emptied(firstNonempty) /\ Placed(m)
  BY <1>a, <1>2, <1>4 DEF MarkersPlaced, Placed
<1>6. firstNonempty' >= firstNonempty
  BY <1>a, <1>1, <1>5 DEF Placed, TypeOK
<1>7. WorkCovered' /\ (Quiet => Quiet')
  BY <1>b, <1>1, <1>2, WorkKept
<1>8. QuietAtCleanup'
  <2> SUFFICES ASSUME pc'[0] = "cleanup" PROVE Quiet' /\ firstNonempty' > top'
    BY DEF QuietAtCleanup
  <2>1. Quiet /\ firstNonempty > top
    BY <1>a, <1>1 DEF QuietAtCleanup
  <2>2. firstNonempty' \in Nat
    BY <1>3, <1>a DEF TypeOK
  <2> QED BY <1>a, <1>b, <1>6, <1>7, <2>1, <2>2
<1>9. StackGrows
  BY <1>a, <1>b DEF StackGrows
<1>10. ASSUME NEW k \in Marker, k # m PROVE Placed(k)'
  BY <1>a, <1>b, <1>1, <1>9, <1>10, OthersPlaced DEF TypeOK
<1>11. Placed(m)'
  BY <1>a, <1>b, <1>1, <1>2, <1>5 DEF Placed, Emptied
<1>12. MarkersPlaced'
  BY <1>a, <1>b, <1>1, <1>5, <1>10, <1>11 DEF MarkersPlaced, Emptied
<1> QED BY <1>3, <1>4, <1>7, <1>8, <1>12, Assemble DEF Parts

\* GC_mark_stack_top is read.
LEMMA ReadTopStep ==
  ASSUME MarkersConsistent, mconf' = mconf, NEW m \in Marker, ReadTop(m)
  PROVE  MarkersConsistent'
<1>a. /\ MarkersM1 \in Nat /\ StackSize \in Nat /\ 0 \in Marker /\ Slot = 1..StackSize
      /\ top \in Nat /\ top <= StackSize /\ firstNonempty \in Nat /\ pc \in [Marker -> Labels]
      /\ Marker' = Marker /\ Slot' = Slot /\ MarkersM1' = MarkersM1 /\ StackSize' = StackSize
      /\ TypeOK /\ MarkersPlaced /\ QuietAtCleanup
  BY Typed
<1>b. /\ UNCHANGED <<lock, helpWanted, helperCount, activeCount, markNo, top, firstNonempty, gstack>>
      /\ UNCHANGED <<marked, markState, sleeping, myMarkNo, myFirst, seen, hand, local>>
  BY DEF ReadTop, counts, global
<1>1. PICK l \in {"empty", "steal"} :
        pc[m] = "top" /\ pc' = [pc EXCEPT ![m] = l] /\ myTop' = [myTop EXCEPT ![m] = top]
  BY DEF ReadTop, Goto
<1>2. PICK n \in Nat : toGet' = [toGet EXCEPT ![m] = n]
  BY MarkConfigsAssumption, ToGetNat DEF ReadTop
<1>3. pc[m] \in Working /\ pc[m] \in Joined /\ l \in Working /\ l \in Joined /\ l \in Labels
  BY <1>1 DEF Working, Joined, Labels
<1>4. TypeOK'
  BY <1>a, <1>b, <1>1, <1>2, <1>3 DEF TypeOK, Labels
<1>5. CountsExact' /\ PhaseConsistent' /\ NoWorkLost' /\ pc[0] # "idle"
  BY <1>b, <1>1, <1>3, WorkerMoves, InPhase
<1>6. WorkCovered' /\ QuietAtCleanup'
  BY <1>a, <1>b, <1>1, <1>3, WorkKept DEF QuietAtCleanup
<1>7. StackGrows
  BY <1>a, <1>b DEF StackGrows
<1>8. ASSUME NEW k \in Marker, k # m PROVE Placed(k)'
  BY <1>a, <1>b, <1>1, <1>2, <1>7, <1>8, OthersPlaced DEF TypeOK
<1>9. Placed(m)'
  <2>1. myTop'[m] = top /\ pc'[m] = l /\ Placed(m)
    BY <1>a, <1>1 DEF TypeOK, MarkersPlaced
  <2> QED BY <1>a, <1>b, <1>1, <1>3, <2>1 DEF Placed, Emptied
<1>10. MarkersPlaced'
  BY <1>a, <1>b, <1>5, <1>8, <1>9 DEF MarkersPlaced, Emptied
<1> QED BY <1>4, <1>5, <1>6, <1>10, Assemble DEF Parts

\* The marker has stolen enough.
LEMMA StealEndStep ==
  ASSUME MarkersConsistent, mconf' = mconf, NEW m \in Marker, StealEnd(m)
  PROVE  MarkersConsistent'
<1>a. /\ MarkersM1 \in Nat /\ StackSize \in Nat /\ 0 \in Marker /\ Slot = 1..StackSize
      /\ top \in Nat /\ top <= StackSize /\ firstNonempty \in Nat /\ pc \in [Marker -> Labels]
      /\ Marker' = Marker /\ Slot' = Slot /\ MarkersM1' = MarkersM1 /\ StackSize' = StackSize
      /\ TypeOK /\ MarkersPlaced /\ QuietAtCleanup
  BY Typed
<1>b. /\ UNCHANGED <<lock, helpWanted, helperCount, activeCount, markNo, top, firstNonempty, gstack>>
      /\ UNCHANGED <<marked, markState, sleeping, myMarkNo, myFirst, myTop, seen, toGet, hand, local>>
  BY DEF StealEnd, counts, global, steal
<1>1. pc[m] \in {"steal"} /\ pc' = [pc EXCEPT ![m] = "local"]
  BY DEF StealEnd, counts, global, steal, Goto
<1>2. pc[m] \in Working /\ pc[m] \in Joined /\ "local" \in Working /\ "local" \in Joined /\ "local" \in Labels
  BY <1>1 DEF Working, Joined, Labels
<1>3. TypeOK'
  BY <1>a, <1>b, <1>1, <1>2 DEF TypeOK, Labels
<1>4. CountsExact' /\ PhaseConsistent' /\ NoWorkLost' /\ pc[0] # "idle"
  BY <1>b, <1>1, <1>2, WorkerMoves, InPhase
<1>5. WorkCovered' /\ QuietAtCleanup'
  BY <1>a, <1>b, <1>1, <1>2, WorkKept DEF QuietAtCleanup
<1>6. StackGrows
  BY <1>a, <1>b DEF StackGrows
<1>7. ASSUME NEW k \in Marker, k # m PROVE Placed(k)'
  BY <1>a, <1>b, <1>1, <1>6, <1>7, OthersPlaced DEF TypeOK
<1>8. Placed(m)'
  BY <1>a, <1>b, <1>1, <1>2 DEF Placed, MarkersPlaced, Emptied
<1>9. MarkersPlaced'
  BY <1>a, <1>b, <1>4, <1>7, <1>8 DEF MarkersPlaced, Emptied
<1> QED BY <1>3, <1>4, <1>5, <1>9, Assemble DEF Parts

\* The local stack is empty.
LEMMA LocalDoneStep ==
  ASSUME MarkersConsistent, mconf' = mconf, NEW m \in Marker, LocalDone(m)
  PROVE  MarkersConsistent'
<1>a. /\ MarkersM1 \in Nat /\ StackSize \in Nat /\ 0 \in Marker /\ Slot = 1..StackSize
      /\ top \in Nat /\ top <= StackSize /\ firstNonempty \in Nat /\ pc \in [Marker -> Labels]
      /\ Marker' = Marker /\ Slot' = Slot /\ MarkersM1' = MarkersM1 /\ StackSize' = StackSize
      /\ TypeOK /\ MarkersPlaced /\ QuietAtCleanup
  BY Typed
<1>b. /\ UNCHANGED <<lock, helpWanted, helperCount, activeCount, markNo, top, firstNonempty, gstack>>
      /\ UNCHANGED <<marked, markState, sleeping, myMarkNo, myFirst, myTop, seen, toGet, hand, local>>
  BY DEF LocalDone, counts, global, steal
<1>1. pc[m] \in {"local", "credit"} /\ pc' = [pc EXCEPT ![m] = "loop"] /\ local[m] = {}
  BY DEF LocalDone, counts, global, steal, Goto
<1>2. pc[m] \in Working /\ pc[m] \in Joined /\ "loop" \in Working /\ "loop" \in Joined /\ "loop" \in Labels
  BY <1>1 DEF Working, Joined, Labels
<1>3. TypeOK'
  BY <1>a, <1>b, <1>1, <1>2 DEF TypeOK, Labels
<1>4. CountsExact' /\ PhaseConsistent' /\ NoWorkLost' /\ pc[0] # "idle"
  BY <1>b, <1>1, <1>2, WorkerMoves, InPhase
<1>5. WorkCovered' /\ QuietAtCleanup'
  BY <1>a, <1>b, <1>1, <1>2, WorkKept DEF QuietAtCleanup
<1>6. StackGrows
  BY <1>a, <1>b DEF StackGrows
<1>7. ASSUME NEW k \in Marker, k # m PROVE Placed(k)'
  BY <1>a, <1>b, <1>1, <1>6, <1>7, OthersPlaced DEF TypeOK
<1>8. Placed(m)'
  BY <1>a, <1>b, <1>1, <1>2 DEF Placed, MarkersPlaced, Emptied
<1>9. MarkersPlaced'
  BY <1>a, <1>b, <1>4, <1>7, <1>8 DEF MarkersPlaced, Emptied
<1> QED BY <1>3, <1>4, <1>5, <1>9, Assemble DEF Parts

\* There are helpers without work.
LEMMA OfferWorkStep ==
  ASSUME MarkersConsistent, mconf' = mconf, NEW m \in Marker, OfferWork(m)
  PROVE  MarkersConsistent'
<1>a. /\ MarkersM1 \in Nat /\ StackSize \in Nat /\ 0 \in Marker /\ Slot = 1..StackSize
      /\ top \in Nat /\ top <= StackSize /\ firstNonempty \in Nat /\ pc \in [Marker -> Labels]
      /\ Marker' = Marker /\ Slot' = Slot /\ MarkersM1' = MarkersM1 /\ StackSize' = StackSize
      /\ TypeOK /\ MarkersPlaced /\ QuietAtCleanup
  BY Typed
<1>b. /\ UNCHANGED <<lock, helpWanted, helperCount, activeCount, markNo, top, firstNonempty, gstack>>
      /\ UNCHANGED <<marked, markState, sleeping, myMarkNo, myFirst, myTop, seen, toGet, hand, local>>
  BY DEF OfferWork, counts, global, steal
<1>1. pc[m] \in {"credit"} /\ pc' = [pc EXCEPT ![m] = "share"] /\ Cardinality(local[m]) > 2
  BY DEF OfferWork, counts, global, steal, Goto
<1>2. pc[m] \in Working /\ pc[m] \in Joined /\ "share" \in Working /\ "share" \in Joined /\ "share" \in Labels
  BY <1>1 DEF Working, Joined, Labels
<1>3. TypeOK'
  BY <1>a, <1>b, <1>1, <1>2 DEF TypeOK, Labels
<1>4. CountsExact' /\ PhaseConsistent' /\ NoWorkLost' /\ pc[0] # "idle"
  BY <1>b, <1>1, <1>2, WorkerMoves, InPhase
<1>5. WorkCovered' /\ QuietAtCleanup'
  BY <1>a, <1>b, <1>1, <1>2, WorkKept DEF QuietAtCleanup
<1>6. StackGrows
  BY <1>a, <1>b DEF StackGrows
<1>7. ASSUME NEW k \in Marker, k # m PROVE Placed(k)'
  BY <1>a, <1>b, <1>1, <1>6, <1>7, OthersPlaced DEF TypeOK
<1>8. Placed(m)'
  <2>1. local[m] # {}
    BY <1>1, FS_EmptySet
  <2> QED BY <1>a, <1>b, <1>1, <1>2, <2>1 DEF Placed, MarkersPlaced, Emptied
<1>9. MarkersPlaced'
  BY <1>a, <1>b, <1>4, <1>7, <1>8 DEF MarkersPlaced, Emptied
<1> QED BY <1>3, <1>4, <1>5, <1>9, Assemble DEF Parts

\* An entry is read, or an empty slot passed.
LEMMA StealLoadStep ==
  ASSUME MarkersConsistent, mconf' = mconf, NEW m \in Marker, StealLoad(m)
  PROVE  MarkersConsistent'
<1>a. /\ MarkersM1 \in Nat /\ StackSize \in Nat /\ 0 \in Marker /\ Slot = 1..StackSize
      /\ top \in Nat /\ top <= StackSize /\ firstNonempty \in Nat /\ pc \in [Marker -> Labels]
      /\ Marker' = Marker /\ Slot' = Slot /\ MarkersM1' = MarkersM1 /\ StackSize' = StackSize
      /\ TypeOK /\ MarkersPlaced /\ QuietAtCleanup
  BY Typed
<1>b. /\ UNCHANGED <<lock, helpWanted, helperCount, activeCount, markNo, top, firstNonempty, gstack>>
      /\ UNCHANGED <<marked, markState, sleeping, myMarkNo, myTop, seen, toGet, local>>
  BY DEF StealLoad, counts, global
<1>1. pc[m] = "steal" /\ Placed(m) /\ "take" \in Working /\ "take" \in Joined
      /\ pc[m] \in Working /\ pc[m] \in Joined /\ pc[m] \in Labels
  BY <1>a DEF StealLoad, MarkersPlaced, Working, Joined, Labels
<1>2. myFirst[m] \in Slot /\ myFirst[m] <= top /\ toGet[m] > 0 /\ myFirst[m] <= myTop[m] /\ myTop[m] \in Nat
  <2>1. toGet[m] > 0 /\ myFirst[m] <= myTop[m] /\ myTop[m] <= top
    BY <1>1 DEF StealLoad, Placed
  <2>2. myFirst[m] \in 1..(StackSize + 1) /\ myTop[m] \in 0..StackSize
    BY <1>a DEF TypeOK
  <2> QED BY <1>a, <2>1, <2>2
<1>3. StackGrows
  BY <1>a, <1>b DEF StackGrows
<1>4. CASE gstack[myFirst[m]] = NoEntry
  <2>1. myFirst' = [myFirst EXCEPT ![m] = @ + 1] /\ UNCHANGED <<pc, hand>>
    BY <1>4 DEF StealLoad
  <2>2. pc' = [pc EXCEPT ![m] = "steal"] /\ "steal" \in Working /\ "steal" \in Labels
    BY <1>a, <1>1, <2>1 DEF Working, Labels, Joined
  <2>3. TypeOK'
    <3>1. myFirst[m] + 1 \in 1..(StackSize + 1)
      BY <1>a, <1>2
    <3>2. myFirst' \in [Marker -> 1..(StackSize + 1)]
      BY <1>a, <2>1, <3>1 DEF TypeOK
    <3> QED BY <1>a, <1>b, <2>1, <3>2 DEF TypeOK
  <2>4. CountsExact' /\ PhaseConsistent' /\ NoWorkLost' /\ pc[0] # "idle"
    BY <1>b, <1>1, <2>2, WorkerMoves, InPhase
  <2>5. WorkCovered' /\ QuietAtCleanup'
    BY <1>a, <1>b, <1>1, <2>1, <2>2, WorkKept DEF QuietAtCleanup
  <2>6. ASSUME NEW k \in Marker, k # m PROVE Placed(k)'
    BY <1>a, <1>b, <1>3, <2>1, <2>6, OthersPlaced DEF TypeOK
  <2>7. Placed(m)'
    <3>1. myFirst'[m] = myFirst[m] + 1 /\ myFirst[m] \in Nat
      BY <1>a, <1>2, <2>1 DEF TypeOK
    <3>2. myFirst[m] + 1 <= top + 1 /\ \A s \in Slot : s < myFirst[m] + 1 => gstack[s] = NoEntry
      BY <1>a, <1>1, <1>2, <1>4, <3>1 DEF Placed, Emptied
    <3> QED BY <1>a, <1>b, <1>1, <1>2, <2>1, <3>1, <3>2 DEF Placed, Emptied
  <2>8. MarkersPlaced'
    BY <1>a, <1>b, <2>1, <2>6, <2>7 DEF MarkersPlaced, Emptied
  <2> QED BY <2>3, <2>4, <2>5, <2>8, Assemble DEF Parts
<1>5. CASE gstack[myFirst[m]] # NoEntry
  <2> DEFINE o == gstack[myFirst[m]]
  <2>1. /\ hand' = [hand EXCEPT ![m] = {o}] /\ pc' = [pc EXCEPT ![m] = "take"] /\ UNCHANGED myFirst
    BY <1>5 DEF StealLoad, Goto
  <2>2. o \in Obj /\ hand[m] = {} /\ "take" \in Labels
    BY <1>a, <1>1, <1>2, <1>5 DEF TypeOK, Placed, Labels
  <2> HIDE DEF o
  <2>3. TypeOK'
    BY <1>a, <1>b, <1>1, <2>1, <2>2 DEF TypeOK
  <2>4. CountsExact' /\ PhaseConsistent' /\ NoWorkLost' /\ pc[0] # "idle"
    BY <1>b, <1>1, <2>1, WorkerMoves, InPhase
  <2>5. QuietAtCleanup'
    BY <1>a, <1>2, <1>5, <2>1 DEF QuietAtCleanup, Quiet
  <2>6. ASSUME NEW k \in Marker, k # m PROVE Placed(k)'
    BY <1>a, <1>b, <1>3, <2>1, <2>6, OthersPlaced DEF TypeOK
  <2>7. Placed(m)'
    <3>1. hand'[m] = {o} /\ pc'[m] = "take"
      BY <1>a, <2>1 DEF TypeOK
    <3>2. gstack'[myFirst'[m]] = o
      BY <1>b, <2>1 DEF o
    <3> QED BY <1>a, <1>b, <1>1, <1>2, <2>1, <2>2, <3>1, <3>2 DEF Placed, Emptied
  <2>8. MarkersPlaced'
    BY <1>a, <1>b, <2>1, <2>4, <2>6, <2>7 DEF MarkersPlaced, Emptied
  <2>9. ASSUME NEW x PROVE Pending(x)' <=> Pending(x)
    <3>1. \A k \in Marker : k # m => pc'[k] = pc[k] /\ hand'[k] = hand[k]
      BY <1>a, <2>1 DEF TypeOK
    <3>2. hand'[m] = {o} /\ pc'[m] = "take"
      BY <1>a, <2>1 DEF TypeOK
    <3>3. x \in hand'[m] => x = gstack[myFirst[m]]
      BY <3>2 DEF o
    <3> QED BY <1>a, <1>b, <1>1, <1>2, <3>1, <3>2, <3>3 DEF Pending
  <2>10. WorkCovered'
    <3>1. \A k \in Marker : /\ pc'[k] = "push" <=> pc[k] = "push"
                            /\ pc'[k] = "push" => hand'[k] = hand[k]
      BY <1>a, <1>1, <2>1 DEF TypeOK
    <3>2. WorkCovered /\ Succ' = Succ /\ Reachable' = Reachable
      BY Typed
    <3> QED BY <1>a, <1>b, <2>9, <3>1, <3>2 DEF WorkCovered
  <2> QED BY <2>3, <2>4, <2>5, <2>8, <2>10, Assemble DEF Parts
<1> QED BY <1>4, <1>5

\* The entry is cleared, and goes to the local stack.
LEMMA StealStoreStep ==
  ASSUME MarkersConsistent, mconf' = mconf, NEW m \in Marker, StealStore(m)
  PROVE  MarkersConsistent'
<1>a. /\ MarkersM1 \in Nat /\ StackSize \in Nat /\ 0 \in Marker /\ Slot = 1..StackSize
      /\ top \in Nat /\ top <= StackSize /\ firstNonempty \in Nat /\ pc \in [Marker -> Labels]
      /\ Marker' = Marker /\ Slot' = Slot /\ MarkersM1' = MarkersM1 /\ StackSize' = StackSize
      /\ TypeOK /\ MarkersPlaced /\ QuietAtCleanup
  BY Typed
<1>b. /\ UNCHANGED <<lock, helpWanted, helperCount, activeCount, markNo, top, firstNonempty>>
      /\ UNCHANGED <<marked, markState, sleeping, myMarkNo, myTop, seen>>
  BY DEF StealStore, counts
<1>1. pc[m] = "take" /\ Placed(m) /\ "steal" \in Working /\ "steal" \in Joined
      /\ pc[m] \in Working /\ pc[m] \in Joined /\ pc[m] \in Labels /\ "steal" \in Labels
  BY <1>a DEF StealStore, MarkersPlaced, Working, Joined, Labels
<1>2. PICK o \in Obj : hand[m] = {o} /\ gstack[myFirst[m]] \in {o, NoEntry}
  BY <1>1 DEF Placed
<1>3. myFirst[m] \in Slot /\ myFirst[m] <= top /\ toGet[m] > 0 /\ myFirst[m] <= myTop[m] /\ myTop[m] \in Nat
      /\ myTop[m] <= top
  <2>1. toGet[m] > 0 /\ myFirst[m] <= myTop[m] /\ myTop[m] <= top
    BY <1>1 DEF Placed
  <2>2. myFirst[m] \in 1..(StackSize + 1) /\ myTop[m] \in 0..StackSize
    BY <1>a DEF TypeOK
  <2> QED BY <1>a, <2>1, <2>2
<1>4. /\ gstack' = [gstack EXCEPT ![myFirst[m]] = NoEntry] /\ local' = [local EXCEPT ![m] = @ \cup {o}]
      /\ hand' = [hand EXCEPT ![m] = {}] /\ myFirst' = [myFirst EXCEPT ![m] = @ + 1]
      /\ toGet' = [toGet EXCEPT ![m] = @ - 1] /\ pc' = [pc EXCEPT ![m] = "steal"]
  BY <1>2 DEF StealStore, Goto
<1>5. TypeOK'
  <2>1. myFirst[m] + 1 \in 1..(StackSize + 1) /\ toGet[m] - 1 \in Nat
    <3>1. toGet[m] \in Nat /\ toGet[m] > 0
      BY <1>a, <1>3 DEF TypeOK
    <3>2. toGet[m] - 1 \in Nat
      BY <3>1
    <3>3. myFirst[m] + 1 \in 1..(StackSize + 1)
      BY <1>a, <1>3
    <3> QED BY <3>2, <3>3
  <2>2. myFirst' \in [Marker -> 1..(StackSize + 1)] /\ toGet' \in [Marker -> Nat]
    BY <1>a, <1>4, <2>1 DEF TypeOK
  <2>3. gstack' \in [Slot -> Obj \cup {NoEntry}] /\ local' \in [Marker -> SUBSET Obj]
        /\ hand' \in [Marker -> SUBSET Obj] /\ pc' \in [Marker -> Labels]
    BY <1>a, <1>1, <1>4 DEF TypeOK
  <2> QED BY <1>a, <1>b, <2>2, <2>3 DEF TypeOK, Labels
<1>6. CountsExact' /\ PhaseConsistent' /\ NoWorkLost' /\ pc[0] # "idle"
  BY <1>b, <1>1, <1>4, WorkerMoves, InPhase
<1>7. QuietAtCleanup'
  BY <1>a, <1>2, <1>1, <1>4 DEF QuietAtCleanup, Quiet
<1>8. StackGrows
  BY <1>a, <1>b, <1>4 DEF StackGrows, TypeOK
<1>9. ASSUME NEW k \in Marker, k # m PROVE Placed(k)'
  BY <1>a, <1>b, <1>4, <1>8, <1>9, OthersPlaced DEF TypeOK
<1>10. Placed(m)'
  <2>1. myFirst'[m] = myFirst[m] + 1 /\ myFirst[m] \in Nat /\ hand'[m] = {} /\ pc'[m] = "steal"
    BY <1>a, <1>3, <1>4 DEF TypeOK
  <2>2. myFirst[m] + 1 <= top + 1 /\ \A s \in Slot : s < myFirst[m] + 1 => gstack'[s] = NoEntry
    BY <1>a, <1>1, <1>3, <1>4, <2>1 DEF Placed, Emptied, TypeOK
  <2> QED BY <1>a, <1>b, <1>1, <1>3, <2>1, <2>2 DEF Placed, Emptied
<1>11. MarkersPlaced'
  <2>1. Emptied(firstNonempty)
    BY <1>a, <1>6 DEF MarkersPlaced
  <2>2. \A s \in Slot : s < firstNonempty => gstack'[s] = NoEntry
    BY <1>a, <1>4, <2>1 DEF Emptied, TypeOK
  <2> QED BY <1>a, <1>b, <1>9, <1>10, <2>1, <2>2 DEF MarkersPlaced, Emptied
<1>12. ASSUME NEW x \in Obj PROVE Pending(x)' <=> Pending(x)
  <2>1. \A k \in Marker : k # m => pc'[k] = pc[k] /\ hand'[k] = hand[k] /\ local'[k] = local[k]
    BY <1>a, <1>4 DEF TypeOK
  <2>2. local'[m] = local[m] \cup {o} /\ pc'[m] = "steal"
    BY <1>a, <1>4 DEF TypeOK
  <2>3. \A s \in Slot : gstack'[s] = IF s = myFirst[m] THEN NoEntry ELSE gstack[s]
    BY <1>a, <1>4 DEF TypeOK
  <2>4. x # NoEntry
    BY NoEntryNotObj
  <2> QED BY <1>a, <1>b, <1>1, <1>2, <2>1, <2>2, <2>3, <2>4 DEF Pending
<1>13. WorkCovered'
  <2>1. \A k \in Marker : /\ pc'[k] = "push" <=> pc[k] = "push"
                          /\ pc'[k] = "push" => hand'[k] = hand[k]
    BY <1>a, <1>1, <1>4 DEF TypeOK
  <2>2. WorkCovered /\ Succ' = Succ /\ Reachable' = Reachable /\ marked \subseteq Obj
    BY Typed DEF TypeOK
  <2> QED BY <1>a, <1>b, <1>12, <2>1, <2>2 DEF WorkCovered
<1> QED BY <1>5, <1>6, <1>7, <1>11, <1>13, Assemble DEF Parts

\* The mark bits of what an object points to are read.
LEMMA TestMarksStep ==
  ASSUME MarkersConsistent, mconf' = mconf, NEW m \in Marker, TestMarks(m)
  PROVE  MarkersConsistent'
<1>a. /\ MarkersM1 \in Nat /\ StackSize \in Nat /\ 0 \in Marker /\ Slot = 1..StackSize
      /\ top \in Nat /\ top <= StackSize /\ firstNonempty \in Nat /\ pc \in [Marker -> Labels]
      /\ Marker' = Marker /\ Slot' = Slot /\ MarkersM1' = MarkersM1 /\ StackSize' = StackSize
      /\ TypeOK /\ MarkersPlaced /\ QuietAtCleanup
  BY Typed
<1>b. /\ UNCHANGED <<lock, helpWanted, helperCount, activeCount, markNo, top, firstNonempty, gstack>>
      /\ UNCHANGED <<marked, markState, sleeping, myMarkNo, myFirst, myTop, seen, toGet>>
  BY DEF TestMarks, counts, global, steal
<1>1. PICK o \in local[m] : /\ local' = [local EXCEPT ![m] = @ \ {o}]
                            /\ hand' = [hand EXCEPT ![m] = Succ[o] \ marked]
  BY DEF TestMarks
<1>2. pc[m] \in {"local", "credit"} /\ pc' = [pc EXCEPT ![m] = "push"] /\ Placed(m)
  BY <1>a DEF TestMarks, Goto, MarkersPlaced
<1>3. pc[m] \in Working /\ pc[m] \in Joined /\ "push" \in Working /\ "push" \in Joined /\ "push" \in Labels
  BY <1>2 DEF Working, Joined, Labels
<1>4. /\ Succ \in [Obj -> SUBSET Obj] /\ Succ' = Succ /\ Reachable' = Reachable /\ WorkCovered
      /\ mconf \in MarkConfigs
  BY Typed
<1>5. o \in Obj /\ Succ[o] \subseteq Obj /\ hand[m] = {} /\ local[m] \subseteq Obj
  BY <1>a, <1>2, <1>4 DEF TypeOK, Placed
<1>6. TypeOK'
  BY <1>a, <1>b, <1>1, <1>2, <1>3, <1>5 DEF TypeOK, Labels
<1>7. CountsExact' /\ PhaseConsistent' /\ NoWorkLost' /\ pc[0] # "idle"
  BY <1>b, <1>2, <1>3, WorkerMoves, InPhase
<1>8. QuietAtCleanup'
  BY <1>a, <1>1, <1>2 DEF QuietAtCleanup, Quiet
<1>9. StackGrows
  BY <1>a, <1>b DEF StackGrows
<1>10. ASSUME NEW k \in Marker, k # m PROVE Placed(k)'
  BY <1>a, <1>b, <1>1, <1>2, <1>9, <1>10, OthersPlaced DEF TypeOK
<1>11. Placed(m)'
  BY <1>a, <1>b, <1>2, <1>3 DEF Placed, Emptied
<1>12. MarkersPlaced'
  BY <1>a, <1>b, <1>7, <1>10, <1>11 DEF MarkersPlaced, Emptied
<1>13. /\ \A k \in Marker : k # m => pc'[k] = pc[k] /\ hand'[k] = hand[k] /\ local'[k] = local[k]
       /\ local'[m] = local[m] \ {o} /\ hand'[m] = Succ[o] \ marked /\ pc'[m] = "push"
  BY <1>a, <1>1, <1>2 DEF TypeOK
<1>14. \A x : (Pending(x)' => Pending(x)) /\ (Pending(x) /\ x # o => Pending(x)')
  BY <1>a, <1>b, <1>2, <1>13 DEF Pending
<1>15. hand'[m] \subseteq Reachable
  <2>1. Pending(o)
    BY DEF Pending
  <2>2. o \in Reachable
    BY <1>4, <1>5, <2>1 DEF WorkCovered
  <2> QED BY <1>4, <1>13, <2>2, ReachableFacts
<1>16. ASSUME markState = "ROOTS_PUSHED", NEW y \in marked, NEW x \in Succ[y]
       PROVE  x \in marked \/ Pending(y)' \/ \E k \in Marker : pc'[k] = "push" /\ x \in hand'[k]
  BY <1>2, <1>4, <1>13, <1>14, <1>16 DEF WorkCovered
<1>17. WorkCovered'
  BY <1>a, <1>b, <1>4, <1>13, <1>14, <1>15, <1>16 DEF WorkCovered
<1> QED BY <1>6, <1>7, <1>8, <1>12, <1>17, Assemble DEF Parts

\* The mark bits are set, and the objects pushed on the local stack.
LEMMA SetMarksStep ==
  ASSUME MarkersConsistent, mconf' = mconf, NEW m \in Marker, SetMarks(m)
  PROVE  MarkersConsistent'
<1>a. /\ MarkersM1 \in Nat /\ StackSize \in Nat /\ 0 \in Marker /\ Slot = 1..StackSize
      /\ top \in Nat /\ top <= StackSize /\ firstNonempty \in Nat /\ pc \in [Marker -> Labels]
      /\ Marker' = Marker /\ Slot' = Slot /\ MarkersM1' = MarkersM1 /\ StackSize' = StackSize
      /\ TypeOK /\ MarkersPlaced /\ QuietAtCleanup
  BY Typed
<1>b. /\ UNCHANGED <<lock, helpWanted, helperCount, activeCount, markNo, top, firstNonempty, gstack>>
      /\ UNCHANGED <<sleeping, myMarkNo, myFirst, myTop, seen, toGet>>
  BY DEF SetMarks, counts, global, steal
<1>1. PICK kept \in SUBSET (local[m] \cup hand[m]) :
        /\ local' = [local EXCEPT ![m] = kept]
        /\ \/ kept = local[m] \cup hand[m] /\ markState' = markState
           \/ markState' = "INVALID"
  BY DEF SetMarks
<1>2. /\ pc[m] = "push" /\ pc' = [pc EXCEPT ![m] = "credit"] /\ Placed(m)
      /\ marked' = marked \cup hand[m] /\ hand' = [hand EXCEPT ![m] = {}]
  BY <1>a DEF SetMarks, Goto, MarkersPlaced
<1>3. pc[m] \in Working /\ pc[m] \in Joined /\ "credit" \in Working /\ "credit" \in Joined /\ "credit" \in Labels
  BY <1>2 DEF Working, Joined, Labels
<1>4. /\ Succ' = Succ /\ Reachable' = Reachable /\ WorkCovered /\ hand[m] \subseteq Obj /\ local[m] \subseteq Obj
  BY <1>a, Typed DEF TypeOK
<1>5. TypeOK'
  <2>1. pc' \in [Marker -> Labels] /\ local' \in [Marker -> SUBSET Obj] /\ hand' \in [Marker -> SUBSET Obj]
        /\ marked' \subseteq Obj /\ markState' \in {"NONE", "ROOTS_PUSHED", "INVALID"}
    BY <1>a, <1>1, <1>2, <1>3, <1>4 DEF TypeOK
  <2> QED BY <1>a, <1>b, <2>1 DEF TypeOK, Labels
<1>6. CountsExact' /\ PhaseConsistent' /\ NoWorkLost' /\ pc[0] # "idle"
  BY <1>b, <1>1, <1>2, <1>3, WorkerMoves, InPhase
<1>7. /\ \A k \in Marker : k # m => pc'[k] = pc[k] /\ hand'[k] = hand[k] /\ local'[k] = local[k]
      /\ local'[m] = kept /\ hand'[m] = {} /\ pc'[m] = "credit"
  BY <1>a, <1>1, <1>2 DEF TypeOK
<1>8. QuietAtCleanup'
  <2> SUFFICES ASSUME pc'[0] = "cleanup" PROVE Quiet' /\ firstNonempty' > top'
    BY DEF QuietAtCleanup
  <2>1. pc[0] = "cleanup"
    BY <1>a, <1>7
  <2>2. Quiet /\ firstNonempty > top
    BY <1>a, <2>1 DEF QuietAtCleanup
  <2>3. \A k \in Marker : local'[k] = {} /\ hand'[k] = {}
    BY <1>7, <2>2 DEF Quiet
  <2> QED BY <1>a, <1>b, <2>2, <2>3 DEF Quiet
<1>9. StackGrows
  BY <1>a, <1>b DEF StackGrows
<1>10. ASSUME NEW k \in Marker, k # m PROVE Placed(k)'
  BY <1>a, <1>b, <1>7, <1>9, <1>10, OthersPlaced
<1>11. Placed(m)'
  BY <1>a, <1>b, <1>2, <1>3, <1>7 DEF Placed, Emptied
<1>12. MarkersPlaced'
  BY <1>a, <1>b, <1>6, <1>7, <1>10, <1>11 DEF MarkersPlaced, Emptied
<1>13. \A x : Pending(x)' => Pending(x) \/ x \in hand[m]
  BY <1>a, <1>b, <1>1, <1>7 DEF Pending
<1>14. markState' = "ROOTS_PUSHED" =>
         /\ markState = "ROOTS_PUSHED"
         /\ \A x : Pending(x) \/ x \in hand[m] => Pending(x)'
  BY <1>a, <1>b, <1>1, <1>2, <1>7 DEF Pending
<1>15. ASSUME markState' = "ROOTS_PUSHED", NEW y \in marked', NEW x \in Succ[y]
       PROVE  x \in marked' \/ Pending(y)' \/ \E k \in Marker : pc'[k] = "push" /\ x \in hand'[k]
  <2>1. CASE y \in hand[m]
    BY <1>14, <1>15, <2>1
  <2>2. CASE y \in marked
    BY <1>2, <1>4, <1>7, <1>14, <1>15, <2>2 DEF WorkCovered
  <2> QED BY <1>2, <1>15, <2>1, <2>2
<1>16. marked' \subseteq Reachable
  BY <1>2, <1>4 DEF WorkCovered
<1>17. /\ \A x \in Obj : Pending(x)' => x \in marked'
       /\ \A k \in Marker : pc'[k] = "push" => hand'[k] \subseteq Reachable
       /\ markState' = "ROOTS_PUSHED" => Root \subseteq marked'
  BY <1>2, <1>4, <1>7, <1>13, <1>14 DEF WorkCovered
<1>18. WorkCovered'
  BY <1>a, <1>4, <1>15, <1>16, <1>17 DEF WorkCovered
<1> QED BY <1>5, <1>6, <1>8, <1>12, <1>18, Assemble DEF Parts

\* A marker returns some of its entries: all, or half of them to share the work.
LEMMA ReturnStep ==
  ASSUME MarkersConsistent, mconf' = mconf, NEW m \in Marker, NEW R \in SUBSET local[m], GC_return_mark_stack(m, R),
         local[m] # {}, NEW l \in {"loop", "local"}, l = "loop" => R = local[m],
         pc[m] \in {"credit", "share"}, Goto(m, l)
  PROVE  MarkersConsistent'
<1>a. /\ MarkersM1 \in Nat /\ StackSize \in Nat /\ 0 \in Marker /\ Slot = 1..StackSize
      /\ top \in Nat /\ top <= StackSize /\ firstNonempty \in Nat /\ pc \in [Marker -> Labels]
      /\ Marker' = Marker /\ Slot' = Slot /\ MarkersM1' = MarkersM1 /\ StackSize' = StackSize
      /\ TypeOK /\ MarkersPlaced /\ QuietAtCleanup
  BY Typed
<1>b. /\ UNCHANGED <<lock, helpWanted, helperCount, activeCount, markNo, firstNonempty>>
      /\ UNCHANGED <<marked, myMarkNo, myFirst, myTop, seen, toGet, hand>>
      /\ sleeping' = {} /\ local' = [local EXCEPT ![m] = @ \ R]
  BY DEF GC_return_mark_stack, counts, steal
<1>1. Cardinality(R) \in Nat
  <2>1. IsFiniteSet(R)
    BY <1>a, RootsAssumption, FS_Subset DEF TypeOK
  <2> QED BY <2>1, FS_CardinalityType
<1>2. \/ markState' = "INVALID" /\ UNCHANGED <<top, gstack>>
      \/ /\ top + Cardinality(R) <= StackSize /\ top' = top + Cardinality(R) /\ UNCHANGED markState
         /\ \E g \in [1..Cardinality(R) -> R] :
              /\ \A o \in R : \E s \in 1..Cardinality(R) : g[s] = o
              /\ gstack' = [s \in Slot |-> IF s > top /\ s <= top + Cardinality(R)
                                           THEN g[s - top] ELSE gstack[s]]
  BY <1>a, <1>1 DEF GC_return_mark_stack, NoRoom, StateAfterDrop
<1>3. /\ pc' = [pc EXCEPT ![m] = l] /\ Placed(m) /\ pc[m] \in Working /\ pc[m] \in Joined
      /\ l \in Working /\ l \in Joined /\ l \in Labels
  BY <1>a DEF Goto, MarkersPlaced, Working, Joined, Labels
<1>4. /\ Succ' = Succ /\ Reachable' = Reachable /\ WorkCovered /\ local[m] \subseteq Obj
      /\ hand[m] = {}
  BY <1>a, <1>3, Typed DEF TypeOK, Placed
<1>5. \* the stack grows, by entries of R, and by all of them unless some are dropped
      /\ top' \in 0..StackSize /\ top' >= top /\ gstack' \in [Slot -> Obj \cup {NoEntry}]
      /\ \A s \in Slot : s <= top => gstack'[s] = gstack[s]
      /\ \A s \in Slot : s <= top' => s <= top \/ gstack'[s] \in R
      /\ markState' \in {markState, "INVALID"}
      /\ markState' # "INVALID" => \A o \in R : \E s \in Slot : s <= top' /\ gstack'[s] = o
  <2>1. CASE markState' = "INVALID" /\ UNCHANGED <<top, gstack>>
    BY <1>a, <2>1 DEF TypeOK
  <2>2. ASSUME top + Cardinality(R) <= StackSize, top' = top + Cardinality(R), UNCHANGED markState,
               NEW g \in [1..Cardinality(R) -> R],
               \A o \in R : \E s \in 1..Cardinality(R) : g[s] = o,
               gstack' = [s \in Slot |-> IF s > top /\ s <= top + Cardinality(R)
                                         THEN g[s - top] ELSE gstack[s]]
        PROVE  <1>5!:
    <3>1. top' \in 0..StackSize /\ top' >= top
      BY <1>a, <1>1, <2>2
    <3>2. \A s \in Slot : s > top /\ s <= top + Cardinality(R) => s - top \in 1..Cardinality(R) /\ g[s - top] \in R
      BY <1>a, <1>1, <2>2
    <3>3. gstack' \in [Slot -> Obj \cup {NoEntry}]
      BY <1>a, <1>4, <2>2, <3>2 DEF TypeOK
    <3>4. \A s \in Slot : s <= top => gstack'[s] = gstack[s]
      BY <1>a, <1>1, <2>2
    <3>5. \A s \in Slot : s <= top' => s <= top \/ gstack'[s] \in R
      BY <1>a, <1>1, <2>2, <3>2
    <3>6. ASSUME NEW o \in R PROVE \E s \in Slot : s <= top' /\ gstack'[s] = o
      <4>1. PICK i \in 1..Cardinality(R) : g[i] = o
        BY <2>2
      <4>2. top + i \in Slot /\ top + i > top /\ top + i <= top + Cardinality(R) /\ (top + i) - top = i
        BY <1>a, <1>1, <2>2, <4>1
      <4>3. gstack'[top + i] = o
        BY <2>2, <4>1, <4>2
      <4> QED BY <2>2, <4>2, <4>3
    <3> QED BY <2>2, <3>1, <3>3, <3>4, <3>5, <3>6
  <2> QED BY <1>2, <2>1, <2>2
<1>6. TypeOK'
  <2>1. pc' \in [Marker -> Labels] /\ local' \in [Marker -> SUBSET Obj]
        /\ markState' \in {"NONE", "ROOTS_PUSHED", "INVALID"}
    BY <1>a, <1>b, <1>3, <1>4, <1>5 DEF TypeOK
  <2> QED BY <1>a, <1>b, <1>5, <2>1 DEF TypeOK, Labels
<1>7. CountsExact' /\ PhaseConsistent' /\ NoWorkLost' /\ pc[0] # "idle"
  BY <1>b, <1>3, <1>5, WorkerMoves, InPhase
<1>8. /\ \A k \in Marker : k # m => pc'[k] = pc[k] /\ local'[k] = local[k]
      /\ local'[m] = local[m] \ R /\ pc'[m] = l
  BY <1>a, <1>b, <1>3 DEF TypeOK
<1>9. pc[0] # "cleanup"
  BY <1>a DEF QuietAtCleanup, Quiet
<1>10. QuietAtCleanup'
  BY <1>a, <1>8, <1>9 DEF QuietAtCleanup
<1>11. StackGrows
  BY <1>a, <1>5 DEF StackGrows
<1>12. ASSUME NEW k \in Marker, k # m PROVE Placed(k)'
  BY <1>b, <1>8, <1>11, <1>12, OthersPlaced
<1>13. \A n \in Nat : Emptied(n) => n <= top' + 1 /\ \A s \in Slot' : s < n => gstack'[s] = NoEntry
  BY <1>11, EmptiedKept DEF Emptied
<1>14. Placed(m)'
  <2>1. myFirst[m] \in Nat /\ Emptied(myFirst[m])
    BY <1>a, <1>3 DEF Placed, TypeOK
  <2>2. Emptied(myFirst[m])'
    BY <1>b, <1>13, <2>1 DEF Emptied
  <2>3. l = "loop" => local'[m] = {}
    BY <1>8
  <2> QED BY <1>b, <1>4, <1>8, <2>2, <2>3 DEF Placed
<1>15. MarkersPlaced'
  <2>1. Emptied(firstNonempty)'
    BY <1>a, <1>b, <1>7, <1>13 DEF MarkersPlaced, Emptied
  <2> QED BY <1>a, <1>b, <1>12, <1>14, <2>1 DEF MarkersPlaced
<1>16. \A x : Pending(x)' => Pending(x)
  BY <1>a, <1>b, <1>3, <1>5, <1>8 DEF Pending
<1>17. markState' = "ROOTS_PUSHED" => \A x : Pending(x) => Pending(x)'
  <2> SUFFICES ASSUME markState' = "ROOTS_PUSHED", NEW x, Pending(x) PROVE Pending(x)'
    OBVIOUS
  <2>1. CASE \E s \in Slot : s <= top /\ gstack[s] = x
    BY <1>a, <1>5, <2>1 DEF Pending
  <2>2. CASE x \in R
    BY <1>a, <1>5, <2>2 DEF Pending
  <2>3. CASE \E k \in Marker : (x \in local[k] /\ x \notin R) \/ (pc[k] = "take" /\ x \in hand[k])
    BY <1>a, <1>b, <1>8, <2>3 DEF Pending
  <2> QED BY <2>1, <2>2, <2>3 DEF Pending
<1>18. \A k \in Marker : pc'[k] = "push" <=> pc[k] = "push"
  BY <1>8
<1>19. WorkCovered'
  BY <1>a, <1>b, <1>4, <1>5, <1>16, <1>17, <1>18 DEF WorkCovered
<1> QED BY <1>6, <1>7, <1>10, <1>15, <1>19, Assemble DEF Parts

\* One caller of GC_return_mark_stack returns all ...
LEMMA ReturnAllStep ==
  ASSUME MarkersConsistent, mconf' = mconf, NEW m \in Marker, ReturnAll(m)
  PROVE  MarkersConsistent'
BY ReturnStep DEF ReturnAll
\* ... and the other the lower half.
LEMMA ShareWorkStep ==
  ASSUME MarkersConsistent, mconf' = mconf, NEW m \in Marker, ShareWork(m)
  PROVE  MarkersConsistent'
<1>1. pc[m] = "share" /\ local[m] # {}
  BY DEF ShareWork, MarkersConsistent, MarkersPlaced, Placed
<1> QED BY <1>1, ReturnStep DEF ShareWork

(***************************************************************************)
(* The steps under the mark lock.                                          *)
(***************************************************************************)

\* The marker finds nothing on the stack, and becomes inactive.
LEMMA StackEmptyStep ==
  ASSUME MarkersConsistent, mconf' = mconf, NEW m \in Marker, StackEmpty(m)
  PROVE  MarkersConsistent'
<1>a. /\ MarkersM1 \in Nat /\ StackSize \in Nat /\ 0 \in Marker /\ Slot = 1..StackSize
      /\ top \in Nat /\ top <= StackSize /\ firstNonempty \in Nat /\ pc \in [Marker -> Labels]
      /\ Marker' = Marker /\ Slot' = Slot /\ MarkersM1' = MarkersM1 /\ StackSize' = StackSize
      /\ Helper' = Helper /\ Helper = Marker \ {0} /\ NoLock \notin Marker /\ mconf \in MarkConfigs
      /\ TypeOK /\ MarkersPlaced /\ QuietAtCleanup /\ PhaseConsistent /\ NoWorkLost
  BY Typed
<1>b. /\ UNCHANGED <<helpWanted, helperCount, markNo, top, firstNonempty, gstack>>
      /\ UNCHANGED <<marked, markState, myMarkNo, myFirst, seen, hand, local>>
  BY DEF StackEmpty, global
<1>1. PICK l \in {"inactive", "steal"} :
        /\ pc[m] = "empty" /\ pc' = [pc EXCEPT ![m] = l] /\ myTop' = [myTop EXCEPT ![m] = top]
        /\ lock = NoLock /\ lock' \in {m, NoLock} /\ sleeping' \in {sleeping, {}}
        /\ activeCount' = IF l = "inactive" THEN activeCount - 1 ELSE activeCount
  BY DEF StackEmpty, Goto, WokenWhenIdle
<1>2. PICK n \in Nat : toGet' = [toGet EXCEPT ![m] = n]
  BY ToGetNat DEF StackEmpty
<1>3. /\ pc[m] \in Working /\ pc[m] \in Joined /\ l \in Joined /\ l \in Labels
      /\ l \in Working <=> l = "steal"
  BY <1>1 DEF Working, Joined, Labels
<1>4. helperCount \in Int /\ activeCount \in Int
  BY <1>a DEF TypeOK
<1>5. CountsExact'
  <2>1. /\ helperCount' = helperCount + (IF l \in Joined THEN 1 ELSE 0)
                                     - (IF pc[m] \in Joined THEN 1 ELSE 0)
        /\ activeCount' = activeCount + (IF l \in Working THEN 1 ELSE 0)
                                     - (IF pc[m] \in Working THEN 1 ELSE 0)
    BY <1>b, <1>1, <1>3, <1>4
  <2> QED BY <1>1, <1>3, <2>1, CountsFollow, Zenon
<1>6. TypeOK'
  <2>1. /\ pc' \in [Marker -> Labels] /\ myTop' \in [Marker -> 0..StackSize]
        /\ toGet' \in [Marker -> Nat] /\ lock' \in Marker \cup {NoLock} /\ sleeping' \subseteq Marker
    BY <1>a, <1>1, <1>2, <1>3 DEF TypeOK
  <2>2. activeCount' \in 0..(MarkersM1 + 1)
    BY <1>a, <1>5, CountBounds
  <2> QED BY <1>a, <1>b, <2>1, <2>2 DEF TypeOK, Labels
<1>7. pc[0] # "idle" /\ markState # "NONE"
  BY <1>3, InPhase
<1>8. PhaseConsistent'
  BY <1>a, <1>b, <1>1, <1>3, <1>7 DEF PhaseConsistent
<1>9. NoWorkLost'
  BY <1>b, <1>7 DEF NoWorkLost
<1>10. WorkCovered' /\ QuietAtCleanup'
  BY <1>a, <1>b, <1>1, <1>3, WorkKept DEF QuietAtCleanup
<1>11. StackGrows
  BY <1>a, <1>b DEF StackGrows
<1>12. ASSUME NEW k \in Marker, k # m PROVE Placed(k)'
  BY <1>a, <1>b, <1>1, <1>2, <1>11, <1>12, OthersPlaced DEF TypeOK
<1>13. Placed(m)'
  <2>1. myTop'[m] = top /\ pc'[m] = l /\ Placed(m)
    BY <1>a, <1>1 DEF TypeOK, MarkersPlaced
  <2> QED BY <1>a, <1>b, <1>1, <1>3, <2>1 DEF Placed, Emptied
<1>14. MarkersPlaced'
  BY <1>a, <1>b, <1>7, <1>12, <1>13 DEF MarkersPlaced, Emptied
<1> QED BY <1>5, <1>6, <1>8, <1>9, <1>10, <1>14, Assemble DEF Parts

\* An inactive marker waits, or goes on.
LEMMA WaitForWorkStep ==
  ASSUME MarkersConsistent, mconf' = mconf, NEW m \in Marker, WaitForWork(m)
  PROVE  MarkersConsistent'
<1>a. /\ MarkersM1 \in Nat /\ StackSize \in Nat /\ 0 \in Marker /\ Slot = 1..StackSize
      /\ top \in Nat /\ top <= StackSize /\ firstNonempty \in Nat /\ pc \in [Marker -> Labels]
      /\ Marker' = Marker /\ Slot' = Slot /\ MarkersM1' = MarkersM1 /\ StackSize' = StackSize
      /\ Helper' = Helper /\ Helper = Marker \ {0} /\ NoLock \notin Marker /\ mconf \in MarkConfigs
      /\ TypeOK /\ MarkersPlaced /\ QuietAtCleanup /\ PhaseConsistent /\ NoWorkLost
  BY Typed
<1>b. /\ UNCHANGED <<helpWanted, helperCount, activeCount, markNo, top, firstNonempty, gstack>>
      /\ UNCHANGED <<marked, markState, myMarkNo, myFirst, myTop, seen, toGet, hand, local>>
  BY DEF WaitForWork, counts, global, steal
<1>1. PICK l \in {"inactive", "over"} :
        /\ pc[m] = "inactive" /\ pc' = [pc EXCEPT ![m] = l] /\ lock \in {NoLock, m}
        /\ lock' \in {NoLock, m} /\ sleeping' \in {sleeping, sleeping \cup {m}}
  <2>1. UNCHANGED pc /\ pc[m] = "inactive" => pc' = [pc EXCEPT ![m] = "inactive"]
    BY <1>a
  <2> QED BY <2>1 DEF WaitForWork, Goto, MayLock
<1>3. /\ pc[m] \in Joined /\ l \in Joined /\ l \in Labels /\ pc[m] \notin Working /\ l \notin Working
  BY <1>1 DEF Working, Joined, Labels
<1>4. helperCount \in Int /\ activeCount \in Int
  BY <1>a DEF TypeOK
<1>5. CountsExact'
  <2>1. /\ helperCount' = helperCount + (IF l \in Joined THEN 1 ELSE 0)
                                     - (IF pc[m] \in Joined THEN 1 ELSE 0)
        /\ activeCount' = activeCount + (IF l \in Working THEN 1 ELSE 0)
                                     - (IF pc[m] \in Working THEN 1 ELSE 0)
    BY <1>b, <1>1, <1>3, <1>4
  <2> QED BY <1>1, <1>3, <2>1, CountsFollow, Zenon
<1>6. TypeOK'
  <2>1. pc' \in [Marker -> Labels] /\ lock' \in Marker \cup {NoLock} /\ sleeping' \subseteq Marker
    BY <1>a, <1>1, <1>3 DEF TypeOK
  <2> QED BY <1>a, <1>b, <2>1 DEF TypeOK, Labels
<1>7. pc[0] # "idle" /\ markState # "NONE"
  BY <1>3, InPhase
<1>8. PhaseConsistent'
  BY <1>a, <1>b, <1>1, <1>3, <1>7 DEF PhaseConsistent
<1>9. NoWorkLost'
  BY <1>b, <1>7 DEF NoWorkLost
<1>10. WorkCovered' /\ QuietAtCleanup'
  BY <1>a, <1>b, <1>1, <1>3, WorkKept DEF QuietAtCleanup
<1>11. StackGrows
  BY <1>a, <1>b DEF StackGrows
<1>12. ASSUME NEW k \in Marker, k # m PROVE Placed(k)'
  BY <1>a, <1>b, <1>1, <1>11, <1>12, OthersPlaced
<1>13. Placed(m)'
  BY <1>a, <1>b, <1>1, <1>3 DEF Placed, MarkersPlaced, Emptied
<1>14. MarkersPlaced'
  BY <1>a, <1>b, <1>7, <1>12, <1>13 DEF MarkersPlaced, Emptied
<1> QED BY <1>5, <1>6, <1>8, <1>9, <1>10, <1>14, Assemble DEF Parts

\* When nobody is active and GC_first_nonempty is past the top, there is nothing
\* left, anywhere.
LEMMA NothingLeftMeansQuiet ==
  ASSUME MarkersConsistent, mconf' = mconf, pc[0] # "idle", NothingLeft
  PROVE  Quiet
<1>1. /\ TypeOK /\ MarkersPlaced /\ mconf \in MarkConfigs /\ Slot = 1..StackSize /\ StackSize \in Nat
      /\ top \in Nat /\ firstNonempty \in Nat /\ pc \in [Marker -> Labels]
  BY Typed
<1>2. \A k \in Marker : pc[k] \notin Working
  BY <1>1, CountFacts DEF NothingLeft, MarkersConsistent
<1>3. ASSUME NEW k \in Marker PROVE local[k] = {} /\ hand[k] = {}
  <2>1. Placed(k)
    BY <1>1 DEF MarkersPlaced
  <2>2. pc[k] \notin {"steal", "take", "local", "push", "credit", "share"}
    BY <1>2 DEF Working
  <2> QED BY <2>1, <2>2 DEF Placed
<1>4. ASSUME NEW s \in Slot, s <= top PROVE gstack[s] = NoEntry
  <2>1. \A t \in Slot : t < firstNonempty => gstack[t] = NoEntry
    BY <1>1 DEF MarkersPlaced, Emptied
  <2>2. s < firstNonempty
    BY <1>1, <1>4 DEF NothingLeft
  <2> QED BY <2>1, <2>2
<1> QED BY <1>3, <1>4 DEF Quiet

\* my_mark_no stays a number.
LEMMA NextMarkNoNat ==
  ASSUME MarkersConsistent, NEW m \in Marker
  PROVE  NextMarkNo(m) \in Nat
<1>1. markNo \in Nat /\ myMarkNo[m] \in Nat
  BY DEF MarkersConsistent, TypeOK
<1> QED BY <1>1 DEF NextMarkNo

\* A marker leaves GC_mark_local, or becomes active again.
LEMMA FinishOrResumeStep ==
  ASSUME MarkersConsistent, mconf' = mconf, NEW m \in Marker, FinishOrResume(m)
  PROVE  MarkersConsistent'
<1>a. /\ MarkersM1 \in Nat /\ StackSize \in Nat /\ 0 \in Marker /\ Slot = 1..StackSize
      /\ top \in Nat /\ top <= StackSize /\ firstNonempty \in Nat /\ pc \in [Marker -> Labels]
      /\ Marker' = Marker /\ Slot' = Slot /\ MarkersM1' = MarkersM1 /\ StackSize' = StackSize
      /\ Helper' = Helper /\ Helper = Marker \ {0} /\ NoLock \notin Marker /\ mconf \in MarkConfigs
      /\ TypeOK /\ MarkersPlaced /\ QuietAtCleanup /\ PhaseConsistent /\ NoWorkLost
  BY Typed
<1>b. /\ UNCHANGED <<helpWanted, markNo, top, firstNonempty, gstack>>
      /\ UNCHANGED <<marked, markState, myFirst, myTop, seen, toGet, hand, local>>
  BY DEF FinishOrResume, global, steal
<1>1. pc[m] = "over" /\ lock = m /\ pc[m] \in Joined /\ pc[m] \notin Working
  BY DEF FinishOrResume, Joined, Working
<1>2. PICK l \in {"cleanup", "help", "loop"} :
        /\ pc' = [pc EXCEPT ![m] = l] /\ lock' \in {NoLock, m} /\ sleeping' \in {sleeping, {}}
        /\ l = "loop" => lock' = NoLock /\ helperCount' = helperCount /\ activeCount' = activeCount + 1
        /\ l # "loop" => /\ lock' = m /\ helperCount' = helperCount - 1
                         /\ activeCount' = activeCount /\ NothingLeft
        /\ l = "cleanup" <=> m = 0 /\ l # "loop"
  <2>1. CASE NothingLeft /\ m = 0
    BY <1>1, <2>1 DEF FinishOrResume, Goto
  <2>2. CASE NothingLeft /\ m # 0
    BY <1>1, <2>2 DEF FinishOrResume, Goto
  <2>3. CASE ~NothingLeft
    BY <1>1, <2>3 DEF FinishOrResume, Goto
  <2> QED BY <2>1, <2>2, <2>3
<1>3. myMarkNo' \in [Marker -> Nat]
  <2>1. NextMarkNo(m) \in Nat /\ myMarkNo \in [Marker -> Nat]
    BY <1>a, NextMarkNoNat DEF TypeOK
  <2>2. myMarkNo' \in {myMarkNo, [myMarkNo EXCEPT ![m] = NextMarkNo(m)]}
    BY DEF FinishOrResume
  <2> QED BY <2>1, <2>2
<1>4. l \in Labels /\ (l \in Joined <=> l = "loop") /\ (l \in Working <=> l = "loop")
  BY DEF Working, Joined, Labels
<1>5. helperCount \in Int /\ activeCount \in Int
  BY <1>a DEF TypeOK
<1>6. CountsExact'
  <2>1. /\ helperCount' = helperCount + (IF l \in Joined THEN 1 ELSE 0)
                                     - (IF pc[m] \in Joined THEN 1 ELSE 0)
        /\ activeCount' = activeCount + (IF l \in Working THEN 1 ELSE 0)
                                     - (IF pc[m] \in Working THEN 1 ELSE 0)
    BY <1>1, <1>2, <1>4, <1>5
  <2> QED BY <1>2, <1>4, <2>1, CountsFollow, Zenon
<1>7. TypeOK'
  <2>1. pc' \in [Marker -> Labels] /\ lock' \in Marker \cup {NoLock} /\ sleeping' \subseteq Marker
    BY <1>a, <1>2, <1>4 DEF TypeOK
  <2>2. helperCount' \in 0..(MarkersM1 + 1) /\ activeCount' \in 0..(MarkersM1 + 1)
    BY <1>a, <1>6, CountBounds
  <2> QED BY <1>a, <1>b, <1>3, <2>1, <2>2 DEF TypeOK, Labels
<1>8. pc[0] # "idle" /\ markState # "NONE"
  BY <1>1, InPhase
<1>9. PhaseConsistent'
  BY <1>a, <1>b, <1>1, <1>2, <1>8 DEF PhaseConsistent
<1>10. NoWorkLost'
  BY <1>b, <1>8 DEF NoWorkLost
<1>11. WorkCovered' /\ (Quiet => Quiet')
  BY <1>b, <1>1, <1>2, <1>4, WorkKept
<1>12. QuietAtCleanup'
  <2> SUFFICES ASSUME pc'[0] = "cleanup" PROVE Quiet /\ firstNonempty > top
    BY <1>b, <1>11 DEF QuietAtCleanup
  <2>1. CASE m = 0
    BY <1>a, <1>2, <1>8, <2>1, NothingLeftMeansQuiet DEF NothingLeft
  <2>2. CASE m # 0
    BY <1>a, <1>2, <2>2 DEF QuietAtCleanup
  <2> QED BY <2>1, <2>2
<1>13. StackGrows
  BY <1>a, <1>b DEF StackGrows
<1>14. ASSUME NEW k \in Marker, k # m PROVE Placed(k)'
  BY <1>a, <1>b, <1>2, <1>13, <1>14, OthersPlaced
<1>15. Placed(m)'
  BY <1>a, <1>b, <1>1, <1>2, <1>4 DEF Placed, MarkersPlaced, Emptied
<1>16. MarkersPlaced'
  BY <1>a, <1>b, <1>8, <1>14, <1>15 DEF MarkersPlaced, Emptied
<1> QED BY <1>6, <1>7, <1>9, <1>10, <1>11, <1>12, <1>16, Assemble DEF Parts

\* A helper waits, catches up with GC_mark_no, or joins.
LEMMA HelpStep ==
  ASSUME MarkersConsistent, mconf' = mconf, NEW m \in Marker, m \in Helper, GC_help_marker(m)
  PROVE  MarkersConsistent'
<1>a. /\ MarkersM1 \in Nat /\ StackSize \in Nat /\ 0 \in Marker /\ Slot = 1..StackSize
      /\ top \in Nat /\ top <= StackSize /\ firstNonempty \in Nat /\ pc \in [Marker -> Labels]
      /\ Marker' = Marker /\ Slot' = Slot /\ MarkersM1' = MarkersM1 /\ StackSize' = StackSize
      /\ Helper' = Helper /\ Helper = Marker \ {0} /\ NoLock \notin Marker /\ mconf \in MarkConfigs
      /\ TypeOK /\ MarkersPlaced /\ QuietAtCleanup /\ PhaseConsistent /\ NoWorkLost
  BY Typed
<1>b. /\ UNCHANGED <<helpWanted, markNo, top, firstNonempty, gstack>>
      /\ UNCHANGED <<marked, markState, myTop, seen, toGet, hand, local>>
  BY DEF GC_help_marker, counts, global
<1>1. pc[m] = "help" /\ m # 0 /\ lock \in {NoLock, m} /\ pc[m] \notin Joined /\ pc[m] \notin Working
  <2>1. pc[m] = "help" /\ lock \in {NoLock, m}
    BY DEF GC_help_marker, MayLock
  <2> QED BY <1>a, <2>1 DEF Joined, Working
<1>2. PICK l \in {"help", "loop"} :
        /\ pc' = [pc EXCEPT ![m] = l] /\ lock' \in {NoLock, m} /\ sleeping' \in {sleeping, sleeping \cup {m}}
        /\ l = "loop" => /\ helpWanted /\ helperCount' = helperCount + 1 /\ activeCount' = activeCount + 1
                         /\ myFirst' = [myFirst EXCEPT ![m] = firstNonempty] /\ lock' = NoLock
        /\ l = "help" => UNCHANGED <<helperCount, activeCount, myFirst>>
  <2>1. UNCHANGED pc => pc' = [pc EXCEPT ![m] = "help"]
    BY <1>a, <1>1
  <2>2. CASE /\ UNCHANGED <<helperCount, activeCount, pc, myFirst>> /\ lock' \in {NoLock, m}
             /\ sleeping' \in {sleeping, sleeping \cup {m}}
    BY <2>1, <2>2
  <2>3. CASE /\ helpWanted /\ helperCount' = helperCount + 1 /\ activeCount' = activeCount + 1
             /\ myFirst' = [myFirst EXCEPT ![m] = firstNonempty] /\ lock' = NoLock
             /\ pc' = [pc EXCEPT ![m] = "loop"] /\ sleeping' = sleeping
    BY <2>3
  <2>4. markNo \in Nat /\ myMarkNo[m] \in Nat
    BY <1>a DEF TypeOK
  <2> QED BY <2>2, <2>3, <2>4 DEF GC_help_marker, Goto, counts
<1>3. myMarkNo' \in [Marker -> Nat]
  <2>1. NextMarkNo(m) \in Nat /\ myMarkNo \in [Marker -> Nat]
    BY <1>a, NextMarkNoNat DEF TypeOK
  <2>2. myMarkNo' \in {myMarkNo, [myMarkNo EXCEPT ![m] = NextMarkNo(m)]}
    BY DEF GC_help_marker
  <2> QED BY <2>1, <2>2
<1>4. l \in Labels /\ (l \in Joined <=> l = "loop") /\ (l \in Working <=> l = "loop")
  BY DEF Working, Joined, Labels
<1>5. helperCount \in Int /\ activeCount \in Int
  BY <1>a DEF TypeOK
<1>6. CountsExact'
  <2>1. /\ helperCount' = helperCount + (IF l \in Joined THEN 1 ELSE 0)
                                     - (IF pc[m] \in Joined THEN 1 ELSE 0)
        /\ activeCount' = activeCount + (IF l \in Working THEN 1 ELSE 0)
                                     - (IF pc[m] \in Working THEN 1 ELSE 0)
    BY <1>1, <1>2, <1>4, <1>5
  <2> QED BY <1>2, <1>4, <2>1, CountsFollow, Zenon
<1>7. TypeOK'
  <2>1. /\ pc' \in [Marker -> Labels] /\ lock' \in Marker \cup {NoLock} /\ sleeping' \subseteq Marker
        /\ myFirst' \in [Marker -> 1..(StackSize + 1)]
    <3>1. /\ firstNonempty \in 1..(StackSize + 1) /\ myFirst \in [Marker -> 1..(StackSize + 1)]
          /\ sleeping \subseteq Marker
      BY <1>a DEF TypeOK
    <3>2. myFirst' \in [Marker -> 1..(StackSize + 1)]
      BY <1>2, <3>1
    <3> QED BY <1>a, <1>2, <1>4, <3>1, <3>2
  <2>2. helperCount' \in 0..(MarkersM1 + 1) /\ activeCount' \in 0..(MarkersM1 + 1)
    BY <1>a, <1>6, CountBounds
  <2> QED BY <1>a, <1>b, <1>3, <2>1, <2>2 DEF TypeOK, Labels
<1>8. l = "loop" => pc[0] # "idle" /\ pc[0] # "cleanup"
  BY <1>a, <1>1, <1>2 DEF PhaseConsistent
<1>9. PhaseConsistent'
  BY <1>a, <1>b, <1>1, <1>2, <1>4, <1>8 DEF PhaseConsistent
<1>10. NoWorkLost'
  <2>1. Reachable' = Reachable
    BY Typed
  <2> QED BY <1>a, <1>b, <2>1 DEF NoWorkLost
<1>11. WorkCovered' /\ (Quiet => Quiet')
  BY <1>b, <1>1, <1>2, <1>4, WorkKept
<1>12. QuietAtCleanup'
  BY <1>a, <1>b, <1>1, <1>2, <1>11 DEF QuietAtCleanup
<1>13. StackGrows
  BY <1>a, <1>b DEF StackGrows
<1>14. ASSUME NEW k \in Marker, k # m PROVE Placed(k)'
  BY <1>a, <1>b, <1>2, <1>13, <1>14, OthersPlaced DEF TypeOK
<1>15. Placed(m)'
  <2>1. pc'[m] = l /\ Placed(m) /\ (l = "loop" => myFirst'[m] = firstNonempty)
    BY <1>a, <1>2 DEF MarkersPlaced, TypeOK
  <2>2. local'[m] = {} /\ hand'[m] = {}
    BY <1>b, <1>1, <2>1 DEF Placed
  <2>3. l = "loop" => Emptied(myFirst[m])'
    BY <1>a, <1>b, <1>8, <2>1 DEF MarkersPlaced, Emptied
  <2> QED BY <1>2, <1>4, <2>1, <2>2, <2>3 DEF Placed
<1>16. MarkersPlaced'
  BY <1>a, <1>b, <1>1, <1>2, <1>14, <1>15 DEF MarkersPlaced, Emptied
<1> QED BY <1>6, <1>7, <1>9, <1>10, <1>11, <1>12, <1>16, Assemble DEF Parts

\* Marker 0 starts a phase, alone.
LEMMA ParallelMarkStep ==
  ASSUME MarkersConsistent, mconf' = mconf, GC_do_parallel_mark
  PROVE  MarkersConsistent'
<1>a. /\ MarkersM1 \in Nat /\ StackSize \in Nat /\ 0 \in Marker /\ Slot = 1..StackSize
      /\ top \in Nat /\ top <= StackSize /\ firstNonempty \in Nat /\ pc \in [Marker -> Labels]
      /\ Marker' = Marker /\ Slot' = Slot /\ MarkersM1' = MarkersM1 /\ StackSize' = StackSize
      /\ Helper' = Helper /\ Helper = Marker \ {0} /\ NoLock \notin Marker /\ mconf \in MarkConfigs
      /\ TypeOK /\ MarkersPlaced /\ QuietAtCleanup /\ PhaseConsistent /\ NoWorkLost
  BY Typed
<1>b. /\ UNCHANGED <<lock, markNo, top, gstack, marked, markState, myMarkNo, myTop, seen, toGet, hand, local>>
      /\ helpWanted' = TRUE /\ helperCount' = 1 /\ activeCount' = 1 /\ firstNonempty' = 1
      /\ myFirst' = [myFirst EXCEPT ![0] = 1] /\ sleeping' = {}
      /\ pc[0] = "idle" /\ pc' = [pc EXCEPT ![0] = "loop"] /\ markState = "ROOTS_PUSHED"
  BY DEF GC_do_parallel_mark, Goto
<1>1. /\ "loop" \in Working /\ "loop" \in Joined /\ "loop" \in Labels
      /\ pc[0] \notin Working /\ pc[0] \notin Joined
  BY <1>b DEF Working, Joined, Labels
<1>2. helperCount = 0 /\ activeCount = 0
  BY <1>b DEF MarkersConsistent, MarkerAsserts
<1>3. CountsExact'
  <2>1. /\ helperCount' = helperCount + (IF "loop" \in Joined THEN 1 ELSE 0)
                                     - (IF pc[0] \in Joined THEN 1 ELSE 0)
        /\ activeCount' = activeCount + (IF "loop" \in Working THEN 1 ELSE 0)
                                     - (IF pc[0] \in Working THEN 1 ELSE 0)
    BY <1>b, <1>1, <1>2
  <2> QED BY <1>a, <1>b, <1>1, <2>1, CountsFollow, Zenon
<1>4. TypeOK'
  <2>1. pc' \in [Marker -> Labels] /\ myFirst' \in [Marker -> 1..(StackSize + 1)]
    BY <1>a, <1>b, <1>1 DEF TypeOK
  <2>2. helperCount' \in 0..(MarkersM1 + 1) /\ activeCount' \in 0..(MarkersM1 + 1)
    BY <1>a, <1>3, CountBounds
  <2> QED BY <1>a, <1>b, <2>1, <2>2 DEF TypeOK, Labels
<1>5. PhaseConsistent'
  BY <1>a, <1>b, <1>1 DEF PhaseConsistent
<1>6. NoWorkLost'
  BY <1>b DEF NoWorkLost
<1>7. WorkCovered' /\ QuietAtCleanup'
  BY <1>a, <1>b, <1>1, WorkKept DEF QuietAtCleanup
<1>8. StackGrows
  BY <1>a, <1>b DEF StackGrows
<1>9. ASSUME NEW k \in Marker, k # 0 PROVE Placed(k)'
  BY <1>a, <1>b, <1>8, <1>9, OthersPlaced DEF TypeOK
<1>10. Emptied(1)'
  BY <1>a, <1>b DEF Emptied
<1>11. Placed(0)'
  <2>1. pc'[0] = "loop" /\ myFirst'[0] = 1 /\ Placed(0)
    BY <1>a, <1>b DEF MarkersPlaced, TypeOK
  <2> QED BY <1>b, <1>10, <2>1 DEF Placed
<1>12. MarkersPlaced'
  BY <1>a, <1>b, <1>9, <1>10, <1>11 DEF MarkersPlaced
<1> QED BY <1>3, <1>4, <1>5, <1>6, <1>7, <1>12, Assemble DEF Parts

\* Marker 0 waits for the helpers, or ends the phase.
LEMMA StopHelpStep ==
  ASSUME MarkersConsistent, mconf' = mconf, StopHelp
  PROVE  MarkersConsistent'
<1>a. /\ MarkersM1 \in Nat /\ StackSize \in Nat /\ 0 \in Marker /\ Slot = 1..StackSize
      /\ top \in Nat /\ top <= StackSize /\ firstNonempty \in Nat /\ pc \in [Marker -> Labels]
      /\ Marker' = Marker /\ Slot' = Slot /\ MarkersM1' = MarkersM1 /\ StackSize' = StackSize
      /\ Helper' = Helper /\ Helper = Marker \ {0} /\ NoLock \notin Marker /\ mconf \in MarkConfigs
      /\ TypeOK /\ MarkersPlaced /\ QuietAtCleanup /\ PhaseConsistent /\ NoWorkLost
  BY Typed
<1>b. /\ UNCHANGED <<helperCount, activeCount, firstNonempty, gstack, marked, myMarkNo, myFirst, myTop>>
      /\ UNCHANGED <<seen, toGet, hand, local>>
      /\ helpWanted' = FALSE /\ lock' = NoLock /\ pc[0] = "cleanup"
  BY DEF StopHelp, steal
<1>1. Quiet /\ firstNonempty > top
  BY <1>a, <1>b DEF QuietAtCleanup
<1>c. Reachable' = Reachable /\ Succ' = Succ /\ WorkCovered /\ Succ \in [Obj -> SUBSET Obj]
  BY Typed
<1>2. CASE HelpersRunning
  <2>1. UNCHANGED <<markNo, pc, top, markState>> /\ sleeping' = sleeping \cup {0}
    BY <1>2 DEF StopHelp
  <2>2. TypeOK'
    BY <1>a, <1>b, <2>1 DEF TypeOK
  <2>3. CountsExact'
    BY <1>a, <1>b, <2>1 DEF CountsExact, MarkersConsistent
  <2>4. PhaseConsistent'
    BY <1>a, <1>b, <2>1 DEF PhaseConsistent
  <2>5. NoWorkLost'
    BY <1>a, <1>b, <1>c, <2>1 DEF NoWorkLost
  <2>6. WorkCovered'
    <3>1. \A x : Pending(x)' <=> Pending(x)
      BY <1>a, <1>b, <2>1 DEF Pending
    <3> QED BY <1>a, <1>b, <1>c, <2>1, <3>1 DEF WorkCovered
  <2>7. QuietAtCleanup'
    BY <1>a, <1>b, <1>1, <2>1 DEF QuietAtCleanup, Quiet
  <2>8. StackGrows
    BY <1>a, <1>b, <2>1 DEF StackGrows
  <2>9. ASSUME NEW k \in Marker PROVE Placed(k)'
    BY <1>b, <2>1, <2>8, OthersPlaced
  <2>10. MarkersPlaced'
    BY <1>a, <1>b, <2>1, <2>9 DEF MarkersPlaced, Emptied
  <2> QED BY <2>2, <2>3, <2>4, <2>5, <2>6, <2>7, <2>10, Assemble DEF Parts
<1>3. CASE ~HelpersRunning
  <2>1. /\ sleeping' = {} /\ markNo' = markNo + 1 /\ top' = 0 /\ pc' = [pc EXCEPT ![0] = "idle"]
        /\ markState' = IF markState = "ROOTS_PUSHED" THEN "NONE" ELSE markState
    BY <1>3 DEF StopHelp, Goto
  <2>2. helperCount = 0 /\ \A k \in Marker : pc[k] \notin Joined
    <3>1. helperCount \in Nat
      BY <1>a DEF TypeOK
    <3>2. helperCount = 0
      BY <1>3, <3>1 DEF HelpersRunning
    <3>3. mconf \in MarkConfigs /\ CountsExact
      BY <1>a DEF MarkersConsistent
    <3> QED BY <3>2, <3>3, CountFacts
  <2>3. /\ "idle" \in Labels /\ "idle" \notin Joined /\ "idle" \notin Working
        /\ pc[0] \notin Joined /\ pc[0] \notin Working
    BY <1>b DEF Working, Joined, Labels
  <2>4. TypeOK'
    <3>1. pc' \in [Marker -> Labels] /\ markNo' \in Nat /\ markState' \in {"NONE", "ROOTS_PUSHED", "INVALID"}
      BY <1>a, <2>1, <2>3 DEF TypeOK
    <3>2. top' \in 0..StackSize'
      BY <1>a, <2>1
    <3>3. lock' \in Marker \cup {NoLock} /\ sleeping' \subseteq Marker /\ helpWanted' \in BOOLEAN
      BY <1>b, <2>1
    <3> QED BY <1>a, <1>b, <3>1, <3>2, <3>3 DEF TypeOK, Labels
  <2>5. CountsExact'
    <3>1. helperCount \in Int /\ activeCount \in Int
      BY <1>a DEF TypeOK
    <3>2. /\ helperCount' = helperCount + (IF "idle" \in Joined THEN 1 ELSE 0)
                                       - (IF pc[0] \in Joined THEN 1 ELSE 0)
          /\ activeCount' = activeCount + (IF "idle" \in Working THEN 1 ELSE 0)
                                       - (IF pc[0] \in Working THEN 1 ELSE 0)
      BY <1>b, <2>3, <3>1
    <3> QED BY <1>a, <2>1, <2>3, <3>2, CountsFollow, Zenon
  <2>6. PhaseConsistent'
    BY <1>a, <1>b, <2>1, <2>2, <2>3 DEF PhaseConsistent
  <2>7. \A k \in Marker : pc[k] # "push" /\ pc[k] # "take"
    BY <2>2 DEF Joined, Working
  <2>8. \A x \in Obj : ~Pending(x) /\ ~Pending(x)'
    <3>1. \A x \in Obj : ~Pending(x)
      BY <1>1, NoEntryNotObj DEF Pending, Quiet
    <3>2. \A k \in Marker : pc'[k] # "take"
      BY <1>a, <2>1, <2>7
    <3>3. \A s \in Slot : ~(s <= 0)
      BY <1>a
    <3> QED BY <1>a, <1>b, <1>1, <2>1, <3>1, <3>2, <3>3 DEF Pending, Quiet
  <2>9. NoWorkLost'
    <3> SUFFICES ASSUME markState' = "NONE" PROVE marked = Reachable
      BY <1>b, <1>c DEF NoWorkLost
    <3>1. markState = "ROOTS_PUSHED"
      BY <1>a, <1>b, <2>1 DEF PhaseConsistent
    <3>2. Root \subseteq marked /\ \A o \in marked : Succ[o] \subseteq marked
      BY <1>a, <1>c, <2>7, <2>8, <3>1 DEF WorkCovered, TypeOK
    <3>3. Reachable \subseteq marked
      BY <1>a, <3>2, ReachableLeast DEF TypeOK
    <3> QED BY <1>c, <3>3 DEF WorkCovered
  <2>10. WorkCovered'
    <3>1. \A k \in Marker : pc'[k] # "push"
      BY <1>a, <2>1, <2>7
    <3> QED BY <1>a, <1>b, <1>c, <2>1, <2>8, <3>1 DEF WorkCovered
  <2>11. QuietAtCleanup'
    BY <1>a, <2>1 DEF QuietAtCleanup
  <2>12. ASSUME NEW k \in Marker PROVE Placed(k)'
    <3>1. pc'[k] \in {"idle", "cleanup", "help"} /\ local'[k] = {} /\ hand'[k] = {}
      BY <1>a, <1>b, <1>1, <2>1, <2>2 DEF Labels, Quiet
    <3> QED BY <3>1, OutsidePlaced
  <2>13. MarkersPlaced'
    BY <1>a, <2>1, <2>12 DEF MarkersPlaced
  <2> QED BY <2>4, <2>5, <2>6, <2>9, <2>10, <2>11, <2>13, Assemble DEF Parts
<1> QED BY <1>2, <1>3

\* Outside a phase nothing is on a local stack or in a hand.
LEMMA NobodyMarks ==
  ASSUME MarkersConsistent, mconf' = mconf, pc[0] = "idle"
  PROVE  \A k \in Marker : pc[k] \in {"idle", "cleanup", "help"} /\ local[k] = {} /\ hand[k] = {}
<1>1. pc \in [Marker -> Labels] /\ MarkersPlaced /\ PhaseConsistent
  BY Typed
<1>2. \A k \in Marker : pc[k] \in {"idle", "cleanup", "help"}
  BY <1>1 DEF PhaseConsistent, Labels
<1> QED BY <1>1, <1>2 DEF MarkersPlaced, Placed

\* The stack is filled with a set W of objects.
LEMMA LoadedFacts ==
  ASSUME MarkersConsistent, mconf' = mconf, NEW W \in SUBSET Obj, Loaded(W)
  PROVE  /\ top' \in 0..StackSize /\ gstack' \in [Slot -> Obj \cup {NoEntry}]
         /\ \A o \in Obj : (\E s \in Slot : s <= top' /\ gstack'[s] = o) <=> o \in W
<1>1. StackSize \in Nat /\ Slot = 1..StackSize
  BY Typed
<1>2. Cardinality(W) \in Nat
  <2>1. IsFiniteSet(W)
    BY RootsAssumption, FS_Subset
  <2> QED BY <2>1, FS_CardinalityType
<1>3. Cardinality(W) <= StackSize /\ top' = Cardinality(W)
  BY DEF Loaded
<1>4. PICK g \in [1..Cardinality(W) -> W] :
         /\ \A o \in W : \E s \in 1..Cardinality(W) : g[s] = o
         /\ gstack' = [s \in Slot |-> IF s <= Cardinality(W) THEN g[s] ELSE NoEntry]
  BY DEF Loaded
<1>5. \A s \in Slot : s <= Cardinality(W) => s \in 1..Cardinality(W) /\ gstack'[s] = g[s] /\ g[s] \in W
  BY <1>1, <1>2, <1>4
<1>6. \A s \in 1..Cardinality(W) : s \in Slot /\ s <= Cardinality(W)
  BY <1>1, <1>2, <1>3
<1>7. gstack' \in [Slot -> Obj \cup {NoEntry}]
  BY <1>4, <1>5
<1>8. \A o \in Obj : (\E s \in Slot : s <= Cardinality(W) /\ gstack'[s] = o) <=> o \in W
  BY <1>4, <1>5, <1>6
<1> QED BY <1>1, <1>2, <1>3, <1>7, <1>8

\* The roots are pushed.
LEMMA PushRootsStep ==
  ASSUME MarkersConsistent, mconf' = mconf, PushRoots
  PROVE  MarkersConsistent'
<1>a. /\ MarkersM1 \in Nat /\ StackSize \in Nat /\ 0 \in Marker /\ Slot = 1..StackSize
      /\ top \in Nat /\ top <= StackSize /\ firstNonempty \in Nat /\ pc \in [Marker -> Labels]
      /\ Marker' = Marker /\ Slot' = Slot /\ MarkersM1' = MarkersM1 /\ StackSize' = StackSize
      /\ Helper' = Helper /\ Helper = Marker \ {0} /\ NoLock \notin Marker /\ mconf \in MarkConfigs
      /\ TypeOK /\ MarkersPlaced /\ QuietAtCleanup /\ PhaseConsistent /\ NoWorkLost
  BY Typed
<1>b. /\ UNCHANGED <<lock, helpWanted, helperCount, activeCount, markNo, firstNonempty, pc, sleeping>>
      /\ UNCHANGED <<myMarkNo, myFirst, myTop, seen, toGet, hand, local>>
      /\ pc[0] = "idle" /\ markState' = "ROOTS_PUSHED"
  BY DEF PushRoots, counts, steal
<1>c. Reachable' = Reachable /\ Succ' = Succ /\ WorkCovered /\ Succ \in [Obj -> SUBSET Obj] /\ marked \subseteq Obj
  BY Typed DEF TypeOK
<1>1. \A k \in Marker : pc[k] \in {"idle", "cleanup", "help"} /\ local[k] = {} /\ hand[k] = {}
  BY <1>b, NobodyMarks
<1>2. PICK W \in SUBSET Obj : \* what is pushed
        /\ Loaded(W) /\ W \subseteq marked' /\ Root \subseteq marked' /\ marked' \subseteq marked \cup Root
        /\ \A o \in marked' : Succ[o] \subseteq marked' \/ o \in W
  <2>1. CASE markState = "NONE" /\ marked' = Root /\ Loaded(Root)
    BY <2>1, RootsAssumption
  <2>2. CASE marked' = marked \cup Root /\ Loaded(Unfinished \cup (Root \ marked))
    <3>1. Unfinished \cup (Root \ marked) \in SUBSET Obj
      BY <1>c, RootsAssumption DEF Unfinished
    <3> QED BY <1>c, <2>2, <3>1 DEF Unfinished
  <2> QED BY <2>1, <2>2 DEF PushRoots
<1>3. /\ top' \in 0..StackSize /\ gstack' \in [Slot -> Obj \cup {NoEntry}]
      /\ \A o \in Obj : (\E s \in Slot : s <= top' /\ gstack'[s] = o) <=> o \in W
  BY <1>2, LoadedFacts
<1>4. TypeOK'
  BY <1>a, <1>b, <1>c, <1>2, <1>3, RootsAssumption DEF TypeOK
<1>5. CountsExact'
  BY <1>a, <1>b DEF CountsExact, MarkersConsistent
<1>6. PhaseConsistent' /\ NoWorkLost' /\ QuietAtCleanup'
  BY <1>a, <1>b DEF PhaseConsistent, NoWorkLost, QuietAtCleanup
<1>7. ASSUME NEW k \in Marker PROVE Placed(k)'
  BY <1>b, <1>1, OutsidePlaced
<1>8. MarkersPlaced'
  BY <1>a, <1>b, <1>7 DEF MarkersPlaced
<1>9. \A o \in Obj : Pending(o)' <=> o \in W
  BY <1>a, <1>b, <1>1, <1>3 DEF Pending
<1>10. marked' \subseteq Reachable
  BY <1>a, <1>c, <1>2, ReachableFacts DEF WorkCovered
<1>11. WorkCovered'
  <2>1. \A k \in Marker : pc'[k] # "push"
    BY <1>b, <1>1
  <2>2. \A o \in marked' : \A x \in Succ[o] : x \in marked' \/ Pending(o)'
    BY <1>2, <1>9
  <2>3. \A o \in Obj : Pending(o)' => o \in marked'
    BY <1>2, <1>9
  <2> QED BY <1>a, <1>c, <1>2, <1>10, <2>1, <2>2, <2>3 DEF WorkCovered
<1> QED BY <1>4, <1>5, <1>6, <1>8, <1>11, Assemble DEF Parts

(***************************************************************************)
(* The theorems.                                                           *)
(***************************************************************************)

\* The first state.
LEMMA InitConsistent == Init => MarkersConsistent
<1> SUFFICES ASSUME Init PROVE MarkersConsistent
  OBVIOUS
<1>1. /\ mconf \in MarkConfigs /\ MarkersM1 \in Nat /\ StackSize \in Nat /\ 0 \in Marker
      /\ Helper = Marker \ {0} /\ Slot = 1..StackSize
  BY ConfTyped DEF Init, Slot
<1>2. TypeOK
  <2>1. pc \in [Marker -> Joined \cup {"idle", "cleanup", "help"}]
    BY DEF Init
  <2>2. /\ helperCount \in 0..(MarkersM1 + 1) /\ activeCount \in 0..(MarkersM1 + 1) /\ markNo \in Nat
        /\ top \in 0..StackSize /\ firstNonempty \in 1..(StackSize + 1)
    BY <1>1 DEF Init
  <2>3. /\ myMarkNo \in [Marker -> Nat] /\ myFirst \in [Marker -> 1..(StackSize + 1)]
        /\ myTop \in [Marker -> 0..StackSize] /\ seen \in [Marker -> 1..(StackSize + 1)]
        /\ toGet \in [Marker -> Nat]
    BY <1>1 DEF Init
  <2>4. /\ gstack \in [Slot -> Obj \cup {NoEntry}] /\ hand \in [Marker -> SUBSET Obj]
        /\ local \in [Marker -> SUBSET Obj]
    BY DEF Init
  <2> QED BY <1>1, <2>1, <2>2, <2>3, <2>4 DEF Init, TypeOK
<1>3. \A m \in Marker : pc[m] \in {"idle", "help"} /\ local[m] = {} /\ hand[m] = {}
  BY DEF Init
<1>4. CountsExact
  <2>1. {m \in Marker : pc[m] \in Joined} = {} /\ {m \in Marker : pc[m] \in Working} = {}
    BY <1>3 DEF Joined, Working
  <2> QED BY <2>1, FS_EmptySet DEF CountsExact, Init
<1>5. PhaseConsistent
  BY <1>1, <1>3 DEF PhaseConsistent, Init, Joined, Working
<1>6. MarkersPlaced
  BY <1>1, <1>3 DEF MarkersPlaced, Placed, Joined, Working, Init
<1>7. QuietAtCleanup /\ NoWorkLost
  BY <1>1, <1>3 DEF QuietAtCleanup, NoWorkLost, Init
<1>8. \A o \in Obj : ~Pending(o)
  BY <1>1, <1>3 DEF Pending, Init
<1>9. WorkCovered
  BY <1>3, <1>8 DEF WorkCovered, Init
<1>10. MarkerAsserts
  BY <1>1, <1>2, <1>4, <1>5, <1>6, <1>7, AssertsFollow, ConfTyped DEF Init
<1> QED BY <1>2, <1>4, <1>5, <1>6, <1>7, <1>9, <1>10 DEF MarkersConsistent

\* Every step keeps the invariant.
LEMMA NextConsistent == MarkersConsistent /\ [Next]_vars => MarkersConsistent'
<1> SUFFICES ASSUME MarkersConsistent, [Next]_vars PROVE MarkersConsistent'
  OBVIOUS
<1>1. CASE UNCHANGED vars
  <2>1. /\ Marker' = Marker /\ Helper' = Helper /\ Slot' = Slot /\ Succ' = Succ
        /\ MarkersM1' = MarkersM1 /\ StackSize' = StackSize /\ Reachable' = Reachable /\ mconf' = mconf
    BY <1>1, SameConf DEF vars
  <2>2. /\ UNCHANGED <<lock, helpWanted, helperCount, activeCount, markNo, top, firstNonempty, gstack>>
        /\ UNCHANGED <<marked, markState, pc, sleeping, myMarkNo, myFirst, myTop, seen, toGet, hand, local>>
    BY <1>1 DEF vars, marking, counts, global, steal
  <2>3. TypeOK' /\ CountsExact' /\ PhaseConsistent' /\ NoWorkLost'
    BY <2>1, <2>2 DEF MarkersConsistent, TypeOK, CountsExact, PhaseConsistent, NoWorkLost
  <2>4. MarkersPlaced' /\ QuietAtCleanup'
    BY <2>1, <2>2 DEF MarkersConsistent, MarkersPlaced, Placed, Emptied, QuietAtCleanup, Quiet
  <2>5. WorkCovered'
    BY <2>1, <2>2 DEF MarkersConsistent, WorkCovered, Pending
  <2> QED BY <2>3, <2>4, <2>5, Assemble DEF Parts
<1>2. ASSUME mconf' = mconf, NEW m \in Marker, MarkLocal(m) PROVE MarkersConsistent'
  BY <1>2, ReadFirstStep, CasFirstStep, ReadTopStep, StackEmptyStep, WaitForWorkStep,
     FinishOrResumeStep, StealLoadStep, StealStoreStep, StealEndStep, TestMarksStep,
     SetMarksStep, ReturnAllStep, OfferWorkStep, ShareWorkStep, LocalDoneStep DEF MarkLocal
<1>3. ASSUME mconf' = mconf, NEW m \in Helper, GC_help_marker(m) PROVE MarkersConsistent'
  BY <1>3, Typed, HelpStep
<1>4. CASE mconf' = mconf /\ (PushRoots \/ GC_do_parallel_mark \/ StopHelp)
  BY <1>4, PushRootsStep, ParallelMarkStep, StopHelpStep
<1> QED BY <1>1, <1>2, <1>3, <1>4 DEF Next

\* The counters, indices and entries that the markers share agree in every
\* state, and the assertions of mark.c hold.
THEOREM MarkersAreConsistent == Spec => []MarkersConsistent
BY InitConsistent, NextConsistent, PTL DEF Spec

\* However entries are stolen, duplicated, returned and shared, a mark phase that
\* GC_mark_some reports as finished has marked exactly the reachable objects.
THEOREM ParallelMarkIsExact == Spec => []NoWorkLost
<1>1. MarkersConsistent => NoWorkLost
  BY DEF MarkersConsistent
<1> QED BY <1>1, MarkersAreConsistent, PTL

\* The compare-and-swap never moves GC_first_nonempty back during a phase.
THEOREM FirstNonemptyOnlyAdvances == Spec => FirstOnlyAdvances
<1> DEFINE Ahead == helpWanted /\ helpWanted' => firstNonempty' >= firstNonempty
<1>1. MarkersConsistent /\ [Next]_vars => [Ahead]_vars
  <2> SUFFICES ASSUME MarkersConsistent, Next, helpWanted PROVE firstNonempty' >= firstNonempty
    OBVIOUS
  <2>1. mconf' = mconf /\ firstNonempty \in Nat
    BY Typed DEF Next
  <2>2. CASE firstNonempty' = firstNonempty
    BY <2>1, <2>2
  <2>3. ASSUME NEW m \in Marker, CasFirst(m) PROVE firstNonempty' >= firstNonempty
    <3>1. seen[m] < myFirst[m]
      BY <2>3 DEF CasFirst, MarkersConsistent, MarkersPlaced, Placed
    <3>2. seen[m] \in Int /\ myFirst[m] \in Int
      <4>1. StackSize \in Nat /\ TypeOK
        BY <2>1, Typed
      <4> QED BY <4>1 DEF TypeOK
    <3>3. (firstNonempty' = myFirst[m] /\ firstNonempty = seen[m]) \/ firstNonempty' = firstNonempty
      BY <2>3 DEF CasFirst, AdvancedFirst
    <3> QED BY <2>1, <3>1, <3>2, <3>3
  <2>4. ~GC_do_parallel_mark
    BY DEF GC_do_parallel_mark, MarkersConsistent, PhaseConsistent
  <2>5. CASE PushRoots \/ StopHelp
    BY <2>2, <2>5 DEF PushRoots, StopHelp
  <2>6. ASSUME NEW m \in Helper, GC_help_marker(m) PROVE firstNonempty' = firstNonempty
    BY <2>6 DEF GC_help_marker, global
  <2>7. ASSUME NEW m \in Marker, MarkLocal(m), ~CasFirst(m) PROVE firstNonempty' = firstNonempty
    BY <2>7 DEF MarkLocal, ReadFirst, ReadTop, StackEmpty, WaitForWork, FinishOrResume, StealLoad,
                StealStore, StealEnd, TestMarks, SetMarks, ReturnAll, OfferWork, ShareWork, LocalDone,
                GC_return_mark_stack, global
  <2> QED BY <2>2, <2>3, <2>4, <2>5, <2>6, <2>7 DEF Next
<1> QED BY <1>1, MarkersAreConsistent, PTL DEF Spec, FirstOnlyAdvances

(***************************************************************************)
(* DirtyPages.  Pages of blocks.                                           *)
(***************************************************************************)

\* Division by what is not a number but a name.
LEMMA Quotient ==
  ASSUME NEW m \in Nat \ {0}, NEW x \in Int
  PROVE  /\ x = m * (x \div m) + (x % m) /\ x \div m \in Int /\ x % m \in 0..(m - 1)
  OBVIOUS

\* There is one quotient and one remainder.
LEMMA QuotientUnique ==
  ASSUME NEW m \in Nat \ {0}, NEW x \in Int, NEW q \in Int, NEW r \in 0..(m - 1), x = m * q + r
  PROVE  q = x \div m /\ r = x % m
<1> DEFINE p == x \div m
           s == x % m
<1>1. p \in Int /\ s \in 0..(m - 1) /\ x = m * p + s
  BY Quotient
<1> HIDE DEF p, s
<1>2. m * (q - p) = s - r
  BY <1>1
<1>3. ~(q - p >= 1)
  <2> SUFFICES ASSUME q - p >= 1 PROVE FALSE
    OBVIOUS
  <2>1. m * (q - p) >= m
    BY <1>1
  <2> QED
    BY <2>1, <1>1, <1>2
<1>4. ~(p - q >= 1)
  <2> SUFFICES ASSUME p - q >= 1 PROVE FALSE
    OBVIOUS
  <2>1. m * (p - q) >= m
    BY <1>1
  <2>2. m * (p - q) = r - s
    BY <1>1
  <2> QED
    BY <2>1, <2>2, <1>1
<1>5. q = p
  BY <1>1, <1>3, <1>4
<1>6. r = s
  BY <1>1, <1>5
<1> QED
  BY <1>5, <1>6 DEF p, s
\* PageOf and OnPage for any number m of blocks to a page.
PageAt(m, b) == b - ((b - 1) % m)
PageFrom(m, p) == p..(p + m - 1)

\* The pages of two blocks are the same or have no block in common.
LEMMA PageIs ==
  ASSUME NEW m \in Nat \ {0}, NEW b \in Nat \ {0}
  PROVE  /\ PageAt(m, b) \in 1..b /\ b < PageAt(m, b) + m
         /\ \E q \in Int : PageAt(m, b) = m * q + 1
<1> DEFINE q == (b - 1) \div m
           r == (b - 1) % m
<1>1. q \in Int /\ r \in 0..(m - 1) /\ b - 1 = m * q + r
  BY Quotient
<1>3. r <= b - 1
  <2>1. q >= 0
    <3> SUFFICES ASSUME q <= -1 PROVE FALSE
      BY <1>1
    <3>1. m * q <= m * (-1)
      BY <1>1
    <3> QED
      BY <3>1, <1>1
  <2> QED
    BY <2>1, <1>1
<1>2. PageAt(m, b) = b - r
  BY DEF PageAt
<1> HIDE DEF q, r
<1> QED
  BY <1>1, <1>2, <1>3

\* Two blocks are on one page if and only if their pages begin alike.
LEMMA SamePage ==
  ASSUME NEW m \in Nat \ {0}, NEW b \in Nat \ {0}, NEW c \in Nat \ {0}
  PROVE  c \in PageFrom(m, PageAt(m, b)) <=> PageAt(m, c) = PageAt(m, b)
<1>1. PageAt(m, b) \in 1..b /\ b < PageAt(m, b) + m
  BY PageIs
<1>2. PageAt(m, c) \in 1..c /\ c < PageAt(m, c) + m
  BY PageIs
<1>3. PageAt(m, c) = PageAt(m, b) => c \in PageFrom(m, PageAt(m, b))
  BY <1>1, <1>2 DEF PageFrom
<1>4. ASSUME c \in PageFrom(m, PageAt(m, b)) PROVE PageAt(m, c) = PageAt(m, b)
  <2>1. PICK q \in Int : PageAt(m, b) = m * q + 1
    BY PageIs
  <2>2. c - 1 = m * q + (c - PageAt(m, b)) /\ c - PageAt(m, b) \in 0..(m - 1)
    BY <1>4, <1>1, <2>1 DEF PageFrom
  <2>3. c - PageAt(m, b) = (c - 1) % m
    <3> DEFINE x == c - 1
               r == c - PageAt(m, b)
    <3>1. x \in Int /\ r \in 0..(m - 1) /\ x = m * q + r
      BY <2>2
    <3> HIDE DEF x, r
    <3>2. r = x % m
      BY <3>1, QuotientUnique
    <3> QED
      BY <3>2 DEF x, r
  <2> QED
    BY <2>3, <1>1 DEF PageAt
<1> QED
  BY <1>3, <1>4

\* A page of which a block is in an aligned interval lies in the interval.
LEMMA PageWithin ==
  ASSUME NEW m \in Nat \ {0}, NEW s \in Nat \ {0}, NEW e \in Nat, NEW b \in s..e,
         (s - 1) % m = 0, e % m = 0
  PROVE  PageFrom(m, PageAt(m, b)) \subseteq s..e
<1>0. b \in Nat \ {0}
  OBVIOUS
<1>1. PageAt(m, b) \in 1..b /\ b < PageAt(m, b) + m
  BY <1>0, PageIs
<1>2. PICK q \in Int : PageAt(m, b) = m * q + 1
  BY <1>0, PageIs
<1>3. PICK p \in Int : s - 1 = m * p
  <2>1. s - 1 = m * ((s - 1) \div m) + 0 /\ (s - 1) \div m \in Int
    BY Quotient
  <2> QED
    BY <2>1
<1>4. PICK z \in Int : e = m * z
  <2>1. e = m * (e \div m) + 0 /\ e \div m \in Int
    BY Quotient
  <2> QED
    BY <2>1
<1>5. p <= q
  <2> SUFFICES ASSUME q - p <= -1 PROVE FALSE
    OBVIOUS
  <2>1. m * (q - p) <= m * (-1)
    OBVIOUS
  <2> QED
    BY <2>1, <1>1, <1>2, <1>3
<1>6. q + 1 <= z
  <2> SUFFICES ASSUME z - q <= 0 PROVE FALSE
    OBVIOUS
  <2>1. m * (z - q) <= 0
    OBVIOUS
  <2> QED
    BY <2>1, <1>1, <1>2, <1>4
<1>7. m * (q - p) >= 0
  BY <1>5
<1>8. m * (z - q) >= m
  BY <1>6
<1>9. PageAt(m, b) >= s /\ PageAt(m, b) + m - 1 <= e
  BY <1>2, <1>3, <1>4, <1>7, <1>8
<1> QED
  BY <1>9, <1>1 DEF PageFrom
-----------------------------------------------------------------------------
\* Headers h of a heap H: the blocks of each are its own, and all of H.
HdrCell == [k : {"nil", "fwd", "free", "ptr", "atomic"}, n : Nat]
RealHdr(h, s) == h[s].k \in {"free", "ptr", "atomic"}
Tiled(h, H) ==
  /\ h \in [Blk -> HdrCell]
  /\ \A s \in Blk : RealHdr(h, s) => h[s].n >= 1 /\ s..(s + h[s].n - 1) \subseteq H
  /\ \A r, s \in Blk : RealHdr(h, r) /\ RealHdr(h, s) /\ r < s => r + h[r].n <= s
  /\ \A b \in H : \E s \in Blk : RealHdr(h, s) /\ s <= b /\ b < s + h[s].n
  /\ \A s \in Blk : h[s].k \in {"ptr", "atomic"} =>
       \A b \in (s + 1)..(s + h[s].n - 1) : h[b].k = "fwd"
\* HasPtrs and InUseBlock for any headers.
PtrsIn(h, b) == h[b].k # "nil" /\ \E s \in 1..b : h[s].k = "ptr" /\ s + h[s].n > b
UsedIn(h, b) == \E s \in 1..b : h[s].k \in {"ptr", "atomic"} /\ s + h[s].n > b

\* The heap of the first n sections.
SectionsTo(n) == UNION {Sections[k][1]..Sections[k][2] : k \in 1..n}
AlignedSections(m) ==
  \A k \in 1..Len(Sections) : (Sections[k][1] - 1) % m = 0 /\ Sections[k][2] % m = 0
IndexSet(p) == {p[b] : b \in Blk}
DirtyingIn(w, b) == \E t \in DOMAIN w : w[t].at = "dirtying" /\ b \in w[t].todo
OneIndexEach(m, p) == m = 1 /\ \A b, c \in Blk : p[b] = p[c] => b = c
Tracked == on /\ vdb = "mprotect"

\* What the build is.
BuildOK ==
  /\ vdb \in {"mprotect", "soft", "gww", "proc"} /\ on \in BOOLEAN /\ looking \in BOOLEAN
  /\ bpp \in 1..NBlocks /\ AlignedSections(bpp)
  /\ maxSects \in 1..Len(Sections) /\ nSects \in 1..maxSects /\ watched \subseteq 1..nSects
\* The tables of bits.
BitsOK ==
  /\ prot \subseteq {PageAt(bpp, b) : b \in SectionsTo(nSects)}
  /\ osDirty \subseteq SectionsTo(nSects) /\ stored \subseteq SectionsTo(nSects)
  /\ taken \subseteq SectionsTo(nSects)
  /\ dirty \subseteq IndexSet(pht) /\ grungy \subseteq IndexSet(pht)
  /\ everSet \subseteq IndexSet(pht)
\* Threads write to objects, and dirty blocks of the page of the object.
WriterOK(w, h, m) ==
  /\ w.at = "idle" => w = NotWriting
  /\ w.at # "idle" => /\ w.b \in Blk /\ UsedIn(h, w.b)
                      /\ w.todo \subseteq PageFrom(m, PageAt(m, w.b))
WritersOK ==
  /\ wr \in [DOMAIN wr -> [at : {"idle", "fault", "dirtying", "retry"}, b : Nat, todo : SUBSET Blk]]
  /\ \A t \in DOMAIN wr : WriterOK(wr[t], hdr, bpp)
\* Without protection nobody faults.
UntrackedQuiet ==
  ~Tracked => prot = {} /\ dirty = {} /\ \A t \in DOMAIN wr : wr[t] = NotWriting
\* Stores are remembered where they will be looked for.
StoredRemembered ==
  /\ \A b \in stored : PtrsIn(hdr, b)
  /\ vdb # "mprotect" => \A b \in stored : PageAt(bpp, b) \in osDirty
  /\ Tracked => \A b \in stored : pht[b] \in dirty \/ DirtyingIn(wr, b)
WrittenKnown ==
  Tracked => \A b \in SectionsTo(nSects) :
               PtrsIn(hdr, b) /\ PageAt(bpp, b) \notin prot =>
                 pht[b] \in dirty \/ DirtyingIn(wr, b)
TakenFound ==
  \A b \in taken : pht[b] \in grungy /\ (vdb = "proc" /\ on => pht[b] \in everSet)
\* With pages of one block and no shared index, dirty blocks are not protected.
SmallPages ==
  OneIndexEach(bpp, pht) =>
    /\ \A b \in Blk : pht[b] \in dirty \/ DirtyingIn(wr, b) => b \notin prot
    /\ \A b \in Blk : b \in prot /\ UsedIn(hdr, b) => PtrsIn(hdr, b)
DirtyIInv ==
  /\ BuildOK /\ Tiled(hdr, SectionsTo(nSects)) /\ BitsOK /\ WritersOK /\ UntrackedQuiet
  /\ StoredRemembered /\ WrittenKnown /\ TakenFound /\ SmallPages
-----------------------------------------------------------------------------
\* A block has one header, and its kind is that of the block.
LEMMA KindOfBlock ==
  ASSUME NBlocks \in Nat, NEW h, NEW H, Tiled(h, H), NEW b \in Blk, NEW s \in Blk,
         RealHdr(h, s), s <= b, b < s + h[s].n
  PROVE  /\ PtrsIn(h, b) <=> h[s].k = "ptr"
         /\ UsedIn(h, b) <=> h[s].k \in {"ptr", "atomic"}
         /\ UsedIn(h, b) => h[b].k # "nil"
<1>1. \A r \in 1..b : RealHdr(h, r) /\ r + h[r].n > b => r = s
  BY DEF Tiled, Blk, HdrCell
<1>2. s \in 1..b
  BY DEF Blk
<1>3. h[s].k \in {"ptr", "atomic"} => h[b].k # "nil"
  <2>1. CASE b = s
    BY <2>1
  <2>2. CASE b # s
    <3>1. b \in (s + 1)..(s + h[s].n - 1)
      BY <2>2 DEF Blk, Tiled, HdrCell
    <3> QED
      BY <3>1 DEF Tiled
  <2> QED
    BY <2>1, <2>2
<1>4. UsedIn(h, b) <=> h[s].k \in {"ptr", "atomic"}
  BY <1>1, <1>2 DEF UsedIn, RealHdr, Tiled, HdrCell, Blk
<1>5. PtrsIn(h, b) <=> h[s].k = "ptr"
  BY <1>1, <1>2, <1>3 DEF PtrsIn, RealHdr, Tiled, HdrCell, Blk
<1> QED
  BY <1>3, <1>4, <1>5

\* A block in use belongs to a region with a header, in the heap.
LEMMA UsedBlock ==
  ASSUME NBlocks \in Nat, NEW h, NEW H, Tiled(h, H), NEW b \in Blk, UsedIn(h, b)
  PROVE  /\ \E s \in Blk : h[s].k \in {"ptr", "atomic"} /\ RealHdr(h, s) /\ s <= b /\ b < s + h[s].n
         /\ b \in H /\ h[b].k # "nil"
<1>1. PICK s \in 1..b : h[s].k \in {"ptr", "atomic"} /\ s + h[s].n > b
  BY DEF UsedIn
<1>2. s \in Blk /\ RealHdr(h, s) /\ s <= b /\ b < s + h[s].n
  BY <1>1 DEF Blk, RealHdr, Tiled, HdrCell
<1>3. b \in s..(s + h[s].n - 1)
  BY <1>2 DEF Blk, Tiled, HdrCell
<1>4. b \in H
  BY <1>2, <1>3 DEF Tiled
<1> QED
  BY <1>1, <1>2, <1>4, KindOfBlock

\* Blocks that may hold pointers are in use.
LEMMA PtrsUsed ==
  ASSUME NEW h, NEW b, PtrsIn(h, b)
  PROVE  UsedIn(h, b)
BY DEF PtrsIn, UsedIn

\* Blocks outside of f..l keep their kind when only headers within change.
Whole(h, f, l) ==
  \A s \in Blk : RealHdr(h, s) =>
    (f <= s /\ s + h[s].n - 1 <= l) \/ s + h[s].n <= f \/ l < s
\* What a change of the headers of a run leaves as it was for other blocks.
LEMMA KindKept ==
  ASSUME NBlocks \in Nat, NEW h, NEW H, Tiled(h, H), NEW g, NEW G, Tiled(g, G),
         NEW f \in Int, NEW l \in Int, Whole(h, f, l), Whole(g, f, l),
         \A b \in Blk : b \notin f..l => g[b] = h[b],
         NEW c \in Blk, c \notin f..l
  PROVE  /\ PtrsIn(g, c) <=> PtrsIn(h, c)
         /\ UsedIn(g, c) <=> UsedIn(h, c)
<1>1. \A s \in 1..c : RealHdr(h, s) /\ s + h[s].n > c => s \notin f..l
  <2> TAKE s \in 1..c
  <2> HAVE RealHdr(h, s) /\ s + h[s].n > c
  <2>1. s \in Blk /\ h[s].n \in Nat /\ h[s].n >= 1
    BY DEF Blk, Tiled, HdrCell
  <2>2. (f <= s /\ s + h[s].n - 1 <= l) \/ s + h[s].n <= f \/ l < s
    BY <2>1 DEF Whole
  <2> QED
    BY <2>1, <2>2 DEF Blk
<1>2. \A s \in 1..c : RealHdr(g, s) /\ s + g[s].n > c => s \notin f..l
  <2> TAKE s \in 1..c
  <2> HAVE RealHdr(g, s) /\ s + g[s].n > c
  <2>1. s \in Blk /\ g[s].n \in Nat /\ g[s].n >= 1
    BY DEF Blk, Tiled, HdrCell
  <2>2. (f <= s /\ s + g[s].n - 1 <= l) \/ s + g[s].n <= f \/ l < s
    BY <2>1 DEF Whole
  <2> QED
    BY <2>1, <2>2 DEF Blk
<1>3. 1..c \subseteq Blk
  BY DEF Blk
<1>4. \A s \in 1..c : s \notin f..l => g[s] = h[s]
  BY <1>3
<1>5. UsedIn(g, c) <=> UsedIn(h, c)
  BY <1>1, <1>2, <1>4 DEF UsedIn, RealHdr
<1>6. PtrsIn(g, c) <=> PtrsIn(h, c)
  BY <1>1, <1>2, <1>4 DEF PtrsIn, RealHdr
<1> QED
  BY <1>5, <1>6
\* Headers h are those of H as far as they are not at the n blocks from s.
TiledBut(h, H, s, n) ==
  /\ h \in [Blk -> HdrCell] /\ H \subseteq Blk
  /\ \A r \in Blk : RealHdr(h, r) /\ r \notin s..(s + n - 1) =>
       /\ h[r].n >= 1 /\ r..(r + h[r].n - 1) \subseteq H
       /\ r + h[r].n <= s \/ s + n <= r
  /\ \A r, q \in Blk : RealHdr(h, r) /\ RealHdr(h, q) /\ r \notin s..(s + n - 1)
                        /\ q \notin s..(s + n - 1) /\ r < q => r + h[r].n <= q
  /\ \A b \in H : b \notin s..(s + n - 1) =>
       \E r \in Blk : RealHdr(h, r) /\ r \notin s..(s + n - 1) /\ r <= b /\ b < r + h[r].n
  /\ \A r \in Blk : h[r].k \in {"ptr", "atomic"} /\ r \notin s..(s + n - 1) =>
       \A b \in (r + 1)..(r + h[r].n - 1) : h[b].k = "fwd"

\* What is freed becomes one block with its free neighbours: f..l.
Merged(h, f, l) == [b \in Blk |-> IF b = f THEN FreeHdr(l + 1 - f)
                                  ELSE IF b \in f..l THEN NoHdr ELSE h[b]]
RunOf(h, s, n, f, l) ==
  /\ f \in Blk /\ l \in Blk /\ f <= s /\ s + n - 1 <= l
  /\ f = s \/ (h[f].k = "free" /\ f + h[f].n = s)
  /\ l = s + n - 1 \/ (s + n \in Blk /\ h[s + n].k = "free" /\ l = s + n + h[s + n].n - 1)
\* GC_freehblk: free neighbours and the block make one run of whole regions.
LEMMA RunMerges ==
  ASSUME NBlocks \in Nat, NEW h, NEW H, NEW s \in Blk, NEW n \in Nat \ {0},
         s..(s + n - 1) \subseteq Blk, TiledBut(h, H, s, n)
  PROVE  \E f, l \in Blk : RunOf(h, s, n, f, l) /\ Run(h, s, n) = Merged(h, f, l)
<1> DEFINE next == IF s + n \in Blk /\ h[s + n].k = "free" THEN h[s + n].n ELSE 0
           before == {p \in Blk : p < s /\ h[p].k = "free" /\ p + h[p].n = s}
           first == IF before = {} THEN s ELSE CHOOSE p \in before : TRUE
           last == s + n + next - 1
<1>1. Run(h, s, n) = [b \in Blk |-> IF b = first THEN FreeHdr(s + n + next - first)
                                   ELSE IF b \in first..last THEN NoHdr ELSE h[b]]
  BY DEF Run
<1>2. first \in Blk /\ first <= s /\ (first = s \/ (h[first].k = "free" /\ first + h[first].n = s))
  <2>1. CASE before = {}
    BY <2>1 DEF Blk
  <2>2. CASE before # {}
    <3>1. first \in before
      BY <2>2
    <3> QED
      BY <3>1 DEF Blk
  <2> QED
    BY <2>1, <2>2
<1> HIDE DEF first
<1>3. s + n - 1 \in Blk
  BY DEF Blk
<1>4. last \in Blk /\ s + n - 1 <= last
      /\ (last = s + n - 1 \/ (s + n \in Blk /\ h[s + n].k = "free" /\ last = s + n + h[s + n].n - 1))
  <2>1. CASE s + n \in Blk /\ h[s + n].k = "free"
    <3>1. RealHdr(h, s + n) /\ s + n \notin s..(s + n - 1)
      BY <2>1 DEF RealHdr, Blk
    <3>2. h[s + n].n \in Nat /\ h[s + n].n >= 1
          /\ (s + n)..(s + n + h[s + n].n - 1) \subseteq Blk
      BY <2>1, <3>1 DEF TiledBut, HdrCell
    <3>3. last = s + n + h[s + n].n - 1
      BY <2>1
    <3>4. last \in (s + n)..(s + n + h[s + n].n - 1)
      BY <3>2, <3>3 DEF Blk
    <3> QED
      BY <2>1, <3>2, <3>3, <3>4 DEF Blk
  <2>2. CASE ~(s + n \in Blk /\ h[s + n].k = "free")
    BY <2>2, <1>3 DEF Blk
  <2> QED
    BY <2>1, <2>2
<1>5. s + n + next - first = last + 1 - first
  <2>1. next \in Int
    BY DEF TiledBut, HdrCell
  <2> HIDE DEF next
  <2> QED
    BY <2>1, <1>2 DEF Blk
<1>6. Run(h, s, n) = Merged(h, first, last)
  BY <1>1, <1>5 DEF Merged
<1> HIDE DEF last
<1>7. RunOf(h, s, n, first, last)
  BY <1>2, <1>4 DEF RunOf
<1> QED
  BY <1>2, <1>4, <1>6, <1>7

MergedOK(h, H, s, n, f, l, g) ==
  /\ Tiled(g, H \cup s..(s + n - 1))
  /\ Whole(g, f, l)
  /\ \A b \in Blk : b \notin f..l => g[b] = h[b]
  /\ \A b \in f..l : ~UsedIn(g, b)
  /\ \A r \in Blk : RealHdr(h, r) /\ r \notin s..(s + n - 1) =>
       /\ (f <= r /\ r + h[r].n - 1 <= l) \/ r + h[r].n <= f \/ l < r
       /\ r \in f..l => h[r].k = "free"
\* With the run made one free region, the headers still tile the heap.
LEMMA MergedTiles ==
  ASSUME NBlocks \in Nat, NEW h, NEW H, NEW s \in Blk, NEW n \in Nat \ {0},
         s..(s + n - 1) \subseteq Blk, TiledBut(h, H, s, n),
         NEW f \in Blk, NEW l \in Blk, RunOf(h, s, n, f, l), NEW g, g = Merged(h, f, l)
  PROVE  MergedOK(h, H, s, n, f, l, g)
<1> DEFINE N == s..(s + n - 1)
           G == H \cup N
           w == l + 1 - f
<1>1. w \in Nat /\ w >= 1 /\ f + w = l + 1
  BY DEF RunOf, Blk
<1>2. /\ \A b \in Blk : b \notin f..l => g[b] = h[b]
      /\ g[f].k = "free" /\ g[f].n = w
      /\ \A b \in Blk : b \in f..l /\ b # f => g[b] = NoHdr
  BY DEF Merged, FreeHdr, Blk, RunOf
<1>3. g \in [Blk -> HdrCell]
  <2>1. FreeHdr(w) \in HdrCell /\ NoHdr \in HdrCell
    BY <1>1 DEF FreeHdr, NoHdr, HdrCell
  <2>2. \A b \in Blk : h[b] \in HdrCell
    BY DEF TiledBut
  <2> QED
    BY <2>1, <2>2 DEF Merged
<1>4. N \subseteq f..l /\ f..l \subseteq Blk
  BY DEF RunOf, Blk
<1>5. \A r \in Blk : RealHdr(g, r) <=> r = f \/ (r \notin f..l /\ RealHdr(h, r))
  BY <1>2 DEF RealHdr, NoHdr
\* Headers of h within f..l are those of the free neighbours.
<1>6. ASSUME NEW r \in Blk, RealHdr(h, r), r \notin N
      PROVE  /\ h[r].n \in Nat /\ h[r].n >= 1 /\ r..(r + h[r].n - 1) \subseteq H
             /\ (f <= r /\ r + h[r].n - 1 <= l) \/ r + h[r].n <= f \/ l < r
             /\ r \in f..l => h[r].k = "free"
  <2>1. h[r].n \in Nat /\ h[r].n >= 1 /\ r..(r + h[r].n - 1) \subseteq H
        /\ (r + h[r].n <= s \/ s + n <= r)
    BY <1>6 DEF TiledBut, HdrCell
  <2>2. CASE r + h[r].n <= s
    <3>1. CASE f = s
      BY <2>1, <2>2, <3>1 DEF Blk, RunOf
    <3>2. CASE f # s
      <4>1. h[f].k = "free" /\ f + h[f].n = s /\ f < s /\ h[f].n \in Nat
        BY <3>2 DEF RunOf, Blk, TiledBut, HdrCell
      <4>2. RealHdr(h, f) /\ f \notin N
        BY <4>1 DEF RealHdr, Blk
      <4>3. r < f => r + h[r].n <= f
        BY <1>6, <4>2 DEF TiledBut
      <4>4. f < r => f + h[f].n <= r
        BY <1>6, <4>2 DEF TiledBut
      <4> QED
        BY <2>1, <2>2, <4>1, <4>3, <4>4 DEF Blk, RunOf
    <3> QED
      BY <3>1, <3>2
  <2>3. CASE s + n <= r
    <3>1. CASE l = s + n - 1
      BY <2>1, <2>3, <3>1 DEF Blk, RunOf
    <3>2. CASE l # s + n - 1
      <4>1. s + n \in Blk /\ h[s + n].k = "free" /\ l = s + n + h[s + n].n - 1 /\ h[s + n].n \in Nat
        BY <3>2 DEF RunOf, Blk, TiledBut, HdrCell
      <4>2. RealHdr(h, s + n) /\ s + n \notin N
        BY <4>1 DEF RealHdr, Blk
      <4>3. s + n < r => s + n + h[s + n].n <= r
        BY <1>6, <4>1, <4>2 DEF TiledBut
      <4> QED
        BY <2>1, <2>3, <4>1, <4>3 DEF Blk, RunOf
    <3> QED
      BY <3>1, <3>2
  <2> QED
    BY <2>1, <2>2, <2>3
<1>7. f..l \subseteq G
  <2> SUFFICES ASSUME NEW b \in f..l, b \notin N PROVE b \in H
    OBVIOUS
  <2>1. CASE b < s
    <3>1. h[f].k = "free" /\ f + h[f].n = s /\ f < s /\ h[f].n \in Nat
      BY <2>1 DEF RunOf, Blk, TiledBut, HdrCell
    <3>2. RealHdr(h, f) /\ f \notin N
      BY <3>1 DEF RealHdr, Blk
    <3>3. f..(f + h[f].n - 1) \subseteq H
      BY <3>2, <1>6
    <3> QED
      BY <3>1, <3>3, <2>1 DEF Blk
  <2>2. CASE b >= s + n
    <3>1. s + n \in Blk /\ h[s + n].k = "free" /\ l = s + n + h[s + n].n - 1 /\ h[s + n].n \in Nat
      BY <2>2 DEF RunOf, Blk, TiledBut, HdrCell
    <3>2. RealHdr(h, s + n) /\ s + n \notin N
      BY <3>1 DEF RealHdr, Blk
    <3>3. (s + n)..(s + n + h[s + n].n - 1) \subseteq H
      BY <3>1, <3>2, <1>6
    <3> QED
      BY <3>1, <3>3, <2>2 DEF Blk
  <2> QED
    BY <2>1, <2>2 DEF Blk
<1>8. \A r \in Blk : RealHdr(g, r) => g[r].n >= 1 /\ r..(r + g[r].n - 1) \subseteq G
  <2> SUFFICES ASSUME NEW r \in Blk, RealHdr(g, r)
               PROVE  g[r].n >= 1 /\ r..(r + g[r].n - 1) \subseteq G
    OBVIOUS
  <2>1. CASE r = f
    BY <2>1, <1>1, <1>2, <1>7 DEF Blk
  <2>2. CASE r # f
    <3>1. r \notin f..l /\ RealHdr(h, r) /\ g[r] = h[r]
      BY <2>2, <1>5, <1>2
    <3> QED
      BY <3>1, <1>4, <1>6
  <2> QED
    BY <2>1, <2>2
<1>9. \A r, q \in Blk : RealHdr(g, r) /\ RealHdr(g, q) /\ r < q => r + g[r].n <= q
  <2> SUFFICES ASSUME NEW r \in Blk, NEW q \in Blk, RealHdr(g, r), RealHdr(g, q), r < q
               PROVE  r + g[r].n <= q
    OBVIOUS
  <2>1. r # f => r \notin f..l /\ RealHdr(h, r) /\ g[r] = h[r] /\ r \notin N
    BY <1>5, <1>2, <1>4
  <2>2. q # f => q \notin f..l /\ RealHdr(h, q) /\ g[q] = h[q] /\ q \notin N
    BY <1>5, <1>2, <1>4
  <2>3. CASE r = f
    BY <2>3, <2>2, <1>1, <1>2 DEF Blk
  <2>4. CASE r # f /\ q = f
    BY <2>4, <2>1, <1>6 DEF Blk, RunOf
  <2>5. CASE r # f /\ q # f
    BY <2>5, <2>1, <2>2 DEF TiledBut
  <2> QED
    BY <2>3, <2>4, <2>5
<1>10. \A b \in G : \E r \in Blk : RealHdr(g, r) /\ r <= b /\ b < r + g[r].n
  <2> SUFFICES ASSUME NEW b \in G PROVE \E r \in Blk : RealHdr(g, r) /\ r <= b /\ b < r + g[r].n
    OBVIOUS
  <2>1. CASE b \in f..l
    BY <2>1, <1>1, <1>2, <1>5 DEF Blk
  <2>2. CASE b \notin f..l
    <3>1. b \in H /\ b \notin N
      BY <2>2, <1>4
    <3>2. PICK r \in Blk : RealHdr(h, r) /\ r \notin N /\ r <= b /\ b < r + h[r].n
      BY <3>1 DEF TiledBut
    <3>3. b \in Blk
      BY <3>1 DEF TiledBut
    <3>4. r \notin f..l
      BY <3>2, <3>3, <2>2, <1>6 DEF Blk, RunOf
    <3> QED
      BY <3>2, <3>4, <1>2, <1>5
  <2> QED
    BY <2>1, <2>2
<1>11. \A r \in Blk : g[r].k \in {"ptr", "atomic"} =>
         \A b \in (r + 1)..(r + g[r].n - 1) : g[b].k = "fwd"
  <2> SUFFICES ASSUME NEW r \in Blk, g[r].k \in {"ptr", "atomic"},
                      NEW b \in (r + 1)..(r + g[r].n - 1)
               PROVE  g[b].k = "fwd"
    OBVIOUS
  <2>1. r # f /\ RealHdr(g, r)
    BY <1>2 DEF RealHdr
  <2>2. r \notin f..l /\ RealHdr(h, r) /\ g[r] = h[r] /\ r \notin N
    BY <2>1, <1>2, <1>4, <1>5
  <2>3. h[b].k = "fwd"
    BY <2>2 DEF TiledBut
  <2>4. b \in Blk
    <3>1. r..(r + h[r].n - 1) \subseteq Blk
      BY <2>2, <1>6 DEF TiledBut
    <3> QED
      BY <3>1, <2>2, <1>6 DEF Blk
  <2>5. b \notin f..l
    BY <2>2, <1>6 DEF Blk, RunOf
  <2> QED
    BY <2>3, <2>4, <2>5, <1>2
<1>12. Tiled(g, G)
  BY <1>3, <1>8, <1>9, <1>10, <1>11 DEF Tiled
<1>13. Whole(g, f, l)
  <2> SUFFICES ASSUME NEW r \in Blk, RealHdr(g, r)
               PROVE  (f <= r /\ r + g[r].n - 1 <= l) \/ r + g[r].n <= f \/ l < r
    BY DEF Whole
  <2>1. CASE r = f
    BY <2>1, <1>1, <1>2 DEF Blk
  <2>2. CASE r # f
    BY <2>2, <1>2, <1>4, <1>5, <1>6
  <2> QED
    BY <2>1, <2>2
<1>14. \A b \in f..l : ~UsedIn(g, b)
  <2> TAKE b \in f..l
  <2>1. b \in Blk /\ RealHdr(g, f) /\ f <= b /\ b < f + g[f].n
    BY <1>1, <1>2, <1>4, <1>5 DEF Blk
  <2> QED
    BY <2>1, <1>12, <1>2, KindOfBlock
<1> QED
  BY <1>2, <1>6, <1>12, <1>13, <1>14 DEF MergedOK

\* Blocks outside of N keep their kind.
KindsKept(h, g, N) ==
  \A c \in Blk : c \notin N => (UsedIn(g, c) <=> UsedIn(h, c)) /\ (PtrsIn(g, c) <=> PtrsIn(h, c))

\* GC_freehblk: the blocks of s are no longer in use, and all else is as before.
LEMMA FreedHeaders ==
  ASSUME NBlocks \in Nat, NEW h, NEW H, Tiled(h, H), H \subseteq Blk,
         NEW s \in Blk, h[s].k \in {"ptr", "atomic"}, NEW g, g = Run(h, s, h[s].n)
  PROVE  /\ Tiled(g, H)
         /\ s..(s + h[s].n - 1) \subseteq H
         /\ \A c \in Blk : /\ UsedIn(g, c) <=> UsedIn(h, c) /\ c \notin s..(s + h[s].n - 1)
                           /\ PtrsIn(g, c) <=> PtrsIn(h, c) /\ c \notin s..(s + h[s].n - 1)
<1> DEFINE n == h[s].n
           N == s..(s + n - 1)
<1>1. RealHdr(h, s) /\ n \in Nat \ {0} /\ N \subseteq H /\ N \subseteq Blk
  BY DEF RealHdr, Tiled, HdrCell
<1>2. \A r \in Blk : RealHdr(h, r) /\ r # s => r \notin N /\ (r + h[r].n <= s \/ s + n <= r)
  <2> SUFFICES ASSUME NEW r \in Blk, RealHdr(h, r), r # s
               PROVE  r \notin N /\ (r + h[r].n <= s \/ s + n <= r)
    OBVIOUS
  <2>1. h[r].n \in Nat
    BY DEF Tiled, HdrCell
  <2>2. (r < s => r + h[r].n <= s) /\ (s < r => s + n <= r)
    BY <1>1 DEF Tiled
  <2> QED
    BY <2>1, <2>2, <1>1 DEF Blk
<1>3. TiledBut(h, H, s, n)
  <2>1. \A r \in Blk : RealHdr(h, r) /\ r \notin N =>
          /\ h[r].n >= 1 /\ r..(r + h[r].n - 1) \subseteq H
          /\ r + h[r].n <= s \/ s + n <= r
    <3>1. s \in N
      BY <1>1 DEF Blk
    <3> QED
      BY <3>1, <1>2 DEF Tiled
  <2>2. \A b \in H : b \notin N =>
          \E r \in Blk : RealHdr(h, r) /\ r \notin N /\ r <= b /\ b < r + h[r].n
    <3> SUFFICES ASSUME NEW b \in H, b \notin N
                 PROVE  \E r \in Blk : RealHdr(h, r) /\ r \notin N /\ r <= b /\ b < r + h[r].n
      OBVIOUS
    <3>1. PICK r \in Blk : RealHdr(h, r) /\ r <= b /\ b < r + h[r].n
      BY DEF Tiled
    <3>2. r # s
      <4> SUFFICES ASSUME r = s PROVE FALSE
        OBVIOUS
      <4>1. s <= b /\ b < s + n
        BY <3>1
      <4>2. b \in Blk /\ s \in Blk
        OBVIOUS
      <4>3. b \in Int /\ s \in Int
        BY <4>2 DEF Blk
      <4>4. b \in N
        BY <4>1, <4>3, <1>1
      <4> QED
        BY <4>4
    <3> QED
      BY <3>1, <3>2, <1>2
  <2>3. \A r, q \in Blk : RealHdr(h, r) /\ RealHdr(h, q) /\ r \notin N /\ q \notin N /\ r < q
          => r + h[r].n <= q
    BY DEF Tiled
  <2>4. \A r \in Blk : h[r].k \in {"ptr", "atomic"} /\ r \notin N =>
          \A b \in (r + 1)..(r + h[r].n - 1) : h[b].k = "fwd"
    BY DEF Tiled
  <2>5. h \in [Blk -> HdrCell]
    BY DEF Tiled
  <2> QED
    BY <2>1, <2>2, <2>3, <2>4, <2>5 DEF TiledBut
<1>4. PICK f, l \in Blk : RunOf(h, s, n, f, l) /\ g = Merged(h, f, l)
  BY <1>1, <1>3, RunMerges
<1>5. /\ Tiled(g, H \cup N) /\ Whole(g, f, l)
      /\ \A b \in Blk : b \notin f..l => g[b] = h[b]
      /\ \A b \in f..l : ~UsedIn(g, b)
      /\ \A r \in Blk : RealHdr(h, r) /\ r \notin N =>
              (f <= r /\ r + h[r].n - 1 <= l) \/ r + h[r].n <= f \/ l < r
      /\ \A r \in Blk : RealHdr(h, r) /\ r \notin N /\ r \in f..l => h[r].k = "free"
  <2>1. MergedOK(h, H, s, n, f, l, g)
    BY <1>1, <1>3, <1>4, MergedTiles
  <2> QED
    BY <2>1 DEF MergedOK
<1>6. H \cup N = H
  BY <1>1
<1>7. N \subseteq f..l
  BY <1>1, <1>4 DEF RunOf, Blk
<1>8. Whole(h, f, l)
  <2> SUFFICES ASSUME NEW r \in Blk, RealHdr(h, r)
               PROVE  (f <= r /\ r + h[r].n - 1 <= l) \/ r + h[r].n <= f \/ l < r
    BY DEF Whole
  <2>1. CASE r = s
    BY <2>1, <1>4 DEF RunOf
  <2>2. CASE r # s
    BY <2>2, <1>2, <1>5
  <2> QED
    BY <2>1, <2>2
<1>9. ASSUME NEW c \in Blk
      PROVE  /\ UsedIn(g, c) <=> UsedIn(h, c) /\ c \notin N
             /\ PtrsIn(g, c) <=> PtrsIn(h, c) /\ c \notin N
  <2>1. CASE c \notin f..l
    BY <2>1, <1>5, <1>6, <1>7, <1>8, KindKept DEF Blk
  <2>2. CASE c \in f..l
    <3>1. ~UsedIn(g, c) /\ ~PtrsIn(g, c)
      BY <2>2, <1>5, PtrsUsed
    <3>2. ~(UsedIn(h, c) /\ c \notin N)
      <4> SUFFICES ASSUME UsedIn(h, c), c \notin N PROVE FALSE
        OBVIOUS
      <4>1. PICK r \in Blk : h[r].k \in {"ptr", "atomic"} /\ RealHdr(h, r) /\ r <= c /\ c < r + h[r].n
        BY UsedBlock
      <4>2. r # s
        BY <4>1, <1>1 DEF Blk
      <4>3. r \notin N /\ h[r].n \in Nat
        BY <4>1, <4>2, <1>2 DEF Tiled, HdrCell
      <4>4. r \in f..l
        BY <4>1, <4>3, <1>5, <2>2 DEF Blk
      <4> QED
        BY <4>1, <4>3, <4>4, <1>5
    <3> QED
      BY <3>1, <3>2, PtrsUsed
  <2> QED
    BY <2>1, <2>2
<1> QED
  BY <1>1, <1>5, <1>6, <1>9

\* GC_add_to_heap: nothing in the new section is in use.
LEMMA AddedHeaders ==
  ASSUME NBlocks \in Nat, NEW h, NEW H, Tiled(h, H), H \subseteq Blk,
         NEW s \in Blk, NEW n \in Nat \ {0}, s..(s + n - 1) \subseteq Blk,
         \A b \in s..(s + n - 1) : b \notin H, NEW g, g = Run(h, s, n)
  PROVE  /\ Tiled(g, H \cup s..(s + n - 1))
         /\ \A c \in Blk : /\ UsedIn(g, c) <=> UsedIn(h, c)
                           /\ PtrsIn(g, c) <=> PtrsIn(h, c)
<1> DEFINE N == s..(s + n - 1)
<1>1. \A r \in Blk : RealHdr(h, r) => r \notin N /\ (r + h[r].n <= s \/ s + n <= r)
  <2> SUFFICES ASSUME NEW r \in Blk, RealHdr(h, r)
               PROVE  r \notin N /\ (r + h[r].n <= s \/ s + n <= r)
    OBVIOUS
  <2>1. h[r].n \in Nat /\ h[r].n >= 1 /\ r..(r + h[r].n - 1) \subseteq H
    BY DEF Tiled, HdrCell
  <2>2. r \in r..(r + h[r].n - 1)
    BY <2>1 DEF Blk
  <2>3. s \in N /\ s \notin r..(r + h[r].n - 1)
    BY <2>1 DEF Blk
  <2> QED
    BY <2>1, <2>2, <2>3 DEF Blk
<1>2. TiledBut(h, H, s, n)
  <2>1. \A r \in Blk : RealHdr(h, r) /\ r \notin N =>
          /\ h[r].n >= 1 /\ r..(r + h[r].n - 1) \subseteq H
          /\ r + h[r].n <= s \/ s + n <= r
    BY <1>1 DEF Tiled
  <2>2. \A b \in H : b \notin N =>
          \E r \in Blk : RealHdr(h, r) /\ r \notin N /\ r <= b /\ b < r + h[r].n
    BY <1>1 DEF Tiled
  <2>3. \A r, q \in Blk : RealHdr(h, r) /\ RealHdr(h, q) /\ r \notin N /\ q \notin N /\ r < q
          => r + h[r].n <= q
    BY DEF Tiled
  <2>4. \A r \in Blk : h[r].k \in {"ptr", "atomic"} /\ r \notin N =>
          \A b \in (r + 1)..(r + h[r].n - 1) : h[b].k = "fwd"
    BY DEF Tiled
  <2>5. h \in [Blk -> HdrCell]
    BY DEF Tiled
  <2> QED
    BY <2>1, <2>2, <2>3, <2>4, <2>5 DEF TiledBut
<1>3. PICK f, l \in Blk : RunOf(h, s, n, f, l) /\ g = Merged(h, f, l)
  BY <1>2, RunMerges
<1>4. /\ Tiled(g, H \cup N) /\ Whole(g, f, l)
      /\ \A b \in Blk : b \notin f..l => g[b] = h[b]
      /\ \A b \in f..l : ~UsedIn(g, b)
      /\ \A r \in Blk : RealHdr(h, r) /\ r \notin N =>
              (f <= r /\ r + h[r].n - 1 <= l) \/ r + h[r].n <= f \/ l < r
      /\ \A r \in Blk : RealHdr(h, r) /\ r \notin N /\ r \in f..l => h[r].k = "free"
  <2>1. MergedOK(h, H, s, n, f, l, g)
    BY <1>2, <1>3, MergedTiles
  <2> QED
    BY <2>1 DEF MergedOK
<1>5. Whole(h, f, l)
  BY <1>1, <1>4 DEF Whole
<1>6. ASSUME NEW c \in Blk
      PROVE  /\ UsedIn(g, c) <=> UsedIn(h, c)
             /\ PtrsIn(g, c) <=> PtrsIn(h, c)
  <2>1. CASE c \notin f..l
    BY <2>1, <1>4, <1>5, KindKept DEF Blk
  <2>2. CASE c \in f..l
    <3>1. ~UsedIn(g, c) /\ ~PtrsIn(g, c)
      BY <2>2, <1>4, PtrsUsed
    <3>2. ~UsedIn(h, c)
      <4> SUFFICES ASSUME UsedIn(h, c) PROVE FALSE
        OBVIOUS
      <4>1. PICK r \in Blk : h[r].k \in {"ptr", "atomic"} /\ RealHdr(h, r) /\ r <= c /\ c < r + h[r].n
        BY UsedBlock
      <4>3. r \notin N /\ h[r].n \in Nat
        BY <4>1, <1>1 DEF Tiled, HdrCell
      <4>4. r \in f..l
        BY <4>1, <4>3, <1>4, <2>2 DEF Blk
      <4> QED
        BY <4>1, <4>3, <4>4, <1>4
    <3> QED
      BY <3>1, <3>2, PtrsUsed
  <2> QED
    BY <2>1, <2>2
<1> QED
  BY <1>4, <1>6

\* GC_allochblk: the first n blocks of a free block get in use.
Allocated(h, b, n, kind) ==
  [c \in Blk |-> IF c = b THEN [k |-> kind, n |-> n]
                 ELSE IF c \in b..(b + n - 1) THEN Fwd
                 ELSE IF c = b + n /\ h[b].n > n THEN FreeHdr(h[b].n - n)
                 ELSE h[c]]
AllocatedOK(h, H, b, n, kind, g) ==
  /\ Tiled(g, H) /\ b..(b + n - 1) \subseteq H
  /\ \A c \in b..(b + n - 1) : ~UsedIn(h, c) /\ UsedIn(g, c) /\ (PtrsIn(g, c) <=> kind = "ptr")
  /\ KindsKept(h, g, b..(b + n - 1))
\* GC_allochblk: the headers still tile the heap when a region is cut from a
\* free one.
LEMMA AllocatedHeaders ==
  ASSUME NBlocks \in Nat, NEW h, NEW H, Tiled(h, H), H \subseteq Blk,
         NEW b \in Blk, NEW n \in Nat \ {0}, NEW kind \in {"ptr", "atomic"},
         h[b].k = "free", h[b].n >= n, NEW g, g = Allocated(h, b, n, kind)
  PROVE  AllocatedOK(h, H, b, n, kind, g)
<1>0. PICK m \in Nat : m = h[b].n /\ m >= n
  BY DEF Tiled, HdrCell
<1> DEFINE l == b + m - 1
<1>1. RealHdr(h, b) /\ b..l \subseteq H /\ b..l \subseteq Blk /\ l \in Blk
  <2>1. RealHdr(h, b)
    BY DEF RealHdr
  <2>2. b..l \subseteq H
    BY <2>1, <1>0 DEF Tiled
  <2>3. l \in b..l
    BY <1>0 DEF Blk
  <2> QED
    BY <2>1, <2>2, <2>3
<1>2. /\ g[b].k = kind /\ g[b].n = n
      /\ \A c \in Blk : c \in b..(b + n - 1) /\ c # b => g[c].k = "fwd"
      /\ m > n /\ b + n \in Blk => g[b + n].k = "free" /\ g[b + n].n = m - n
      /\ \A c \in Blk : c \notin b..(b + n - 1) /\ (c # b + n \/ m = n) => g[c] = h[c]
  <2>1. b \in b..(b + n - 1) /\ b + n \notin b..(b + n - 1) /\ b + n # b
    BY DEF Blk
  <2> QED
    BY <2>1, <1>0 DEF Allocated, Fwd, FreeHdr
<1>3. g \in [Blk -> HdrCell]
  <2>1. [k |-> kind, n |-> n] \in HdrCell /\ Fwd \in HdrCell
    BY DEF HdrCell, Fwd
  <2>2. h[b].n > n => FreeHdr(h[b].n - n) \in HdrCell
    BY <1>0 DEF HdrCell, FreeHdr
  <2>3. \A c \in Blk : h[c] \in HdrCell
    BY DEF Tiled
  <2> QED
    BY <2>1, <2>2, <2>3 DEF Allocated
<1>4. \A r \in Blk : RealHdr(h, r) /\ r # b =>
        h[r].n \in Nat /\ h[r].n >= 1 /\ r..(r + h[r].n - 1) \subseteq H
        /\ r \notin b..l /\ (r + h[r].n <= b \/ l < r)
  <2> SUFFICES ASSUME NEW r \in Blk, RealHdr(h, r), r # b
               PROVE  h[r].n \in Nat /\ h[r].n >= 1 /\ r..(r + h[r].n - 1) \subseteq H
                      /\ r \notin b..l /\ (r + h[r].n <= b \/ l < r)
    OBVIOUS
  <2>1. h[r].n \in Nat /\ h[r].n >= 1 /\ r..(r + h[r].n - 1) \subseteq H
    BY DEF Tiled, HdrCell
  <2>2. (r < b => r + h[r].n <= b) /\ (b < r => b + m <= r)
    BY <1>0, <1>1 DEF Tiled
  <2> QED
    BY <2>1, <2>2 DEF Blk
<1>5. \A r \in Blk : RealHdr(g, r) => r = b \/ (r = b + n /\ m > n) \/ (r \notin b..l /\ RealHdr(h, r) /\ g[r] = h[r])
  <2> SUFFICES ASSUME NEW r \in Blk, RealHdr(g, r), r # b, ~(r = b + n /\ m > n)
               PROVE  r \notin b..l /\ RealHdr(h, r) /\ g[r] = h[r]
    OBVIOUS
  <2>1. r \notin b..(b + n - 1)
    BY <1>2 DEF RealHdr
  <2>2. g[r] = h[r]
    BY <2>1, <1>0, <1>2
  <2> QED
    BY <2>2, <1>4 DEF RealHdr
<1>6. \A r \in Blk : RealHdr(h, r) /\ r # b => RealHdr(g, r) /\ g[r] = h[r]
  <2> SUFFICES ASSUME NEW r \in Blk, RealHdr(h, r), r # b PROVE RealHdr(g, r) /\ g[r] = h[r]
    OBVIOUS
  <2>1. r \notin b..l
    BY <1>4
  <2>2. r \notin b..(b + n - 1) /\ (r # b + n \/ m = n)
    BY <2>1, <1>0 DEF Blk
  <2>3. g[r] = h[r]
    BY <2>2, <1>2
  <2> QED
    BY <2>3 DEF RealHdr
<1>7. RealHdr(g, b) /\ (m > n => b + n \in Blk /\ RealHdr(g, b + n))
  <2>1. m > n => b + n \in Blk
    BY <1>1 DEF Blk
  <2> QED
    BY <2>1, <1>2 DEF RealHdr
<1>8. \A r \in Blk : RealHdr(g, r) => g[r].n >= 1 /\ r..(r + g[r].n - 1) \subseteq H
  <2> SUFFICES ASSUME NEW r \in Blk, RealHdr(g, r)
               PROVE  g[r].n >= 1 /\ r..(r + g[r].n - 1) \subseteq H
    OBVIOUS
  <2>1. CASE r = b
    <3>1. r..(r + g[r].n - 1) \subseteq b..l
      BY <2>1, <1>0, <1>2 DEF Blk
    <3> QED
      BY <3>1, <2>1, <1>1, <1>2
  <2>2. CASE r = b + n /\ m > n
    <3>1. g[r].n = m - n /\ r..(r + g[r].n - 1) \subseteq b..l
      BY <2>2, <1>0, <1>2 DEF Blk
    <3> QED
      BY <3>1, <2>2, <1>1
  <2>3. CASE r # b /\ ~(r = b + n /\ m > n)
    BY <2>3, <1>4, <1>5
  <2> QED
    BY <2>1, <2>2, <2>3
<1>9. \A r, q \in Blk : RealHdr(g, r) /\ RealHdr(g, q) /\ r < q => r + g[r].n <= q
  <2> SUFFICES ASSUME NEW r \in Blk, NEW q \in Blk, RealHdr(g, r), RealHdr(g, q), r < q
               PROVE  r + g[r].n <= q
    OBVIOUS
  <2>1. r = b \/ (r = b + n /\ m > n) \/ (r \notin b..l /\ RealHdr(h, r) /\ g[r] = h[r])
    BY <1>5
  <2>2. q = b \/ (q = b + n /\ m > n) \/ (q \notin b..l /\ RealHdr(h, q) /\ g[q] = h[q])
    BY <1>5
  <2>3. CASE r = b
    BY <2>3, <2>2, <1>0, <1>2 DEF Blk
  <2>4. CASE r = b + n /\ m > n
    <3>1. g[r].n = m - n
      BY <2>4, <1>2
    <3> QED
      BY <2>4, <3>1, <2>2, <1>0 DEF Blk
  <2>5. CASE r # b /\ ~(r = b + n /\ m > n)
    <3>1. RealHdr(h, r) /\ g[r] = h[r] /\ h[r].n \in Nat /\ (r + h[r].n <= b \/ l < r)
      BY <2>1, <2>5, <1>4
    <3>2. CASE q = b \/ (q = b + n /\ m > n)
      BY <3>1, <3>2, <1>0 DEF Blk
    <3>3. CASE ~(q = b \/ (q = b + n /\ m > n))
      BY <3>1, <3>3, <2>2 DEF Tiled
    <3> QED
      BY <3>2, <3>3
  <2> QED
    BY <2>3, <2>4, <2>5
<1>10. \A c \in H : \E r \in Blk : RealHdr(g, r) /\ r <= c /\ c < r + g[r].n
  <2> SUFFICES ASSUME NEW c \in H PROVE \E r \in Blk : RealHdr(g, r) /\ r <= c /\ c < r + g[r].n
    OBVIOUS
  <2>1. CASE c \in b..(b + n - 1)
    BY <2>1, <1>2, <1>7 DEF Blk
  <2>2. CASE c \in (b + n)..l
    <3>1. m > n /\ g[b + n].n = m - n
      BY <2>2, <1>0, <1>2, <1>7 DEF Blk
    <3> QED
      BY <3>1, <2>2, <1>7 DEF Blk
  <2>3. CASE c \notin b..l
    <3>1. PICK r \in Blk : RealHdr(h, r) /\ r <= c /\ c < r + h[r].n
      BY DEF Tiled
    <3>2. r # b
      <4> SUFFICES ASSUME r = b PROVE FALSE
        OBVIOUS
      <4>1. b <= c /\ c < b + m
        BY <3>1, <1>0
      <4>2. b \in Blk /\ c \in Blk
        OBVIOUS
      <4>3. b \in Int /\ c \in Int
        BY <4>2 DEF Blk
      <4>4. c \in b..l
        BY <4>1, <4>3, <1>0
      <4> QED
        BY <4>4, <2>3
    <3> QED
      BY <3>1, <3>2, <1>6
  <2> QED
    BY <2>1, <2>2, <2>3, <1>0 DEF Blk
<1>11. \A r \in Blk : g[r].k \in {"ptr", "atomic"} =>
         \A c \in (r + 1)..(r + g[r].n - 1) : g[c].k = "fwd"
  <2> SUFFICES ASSUME NEW r \in Blk, g[r].k \in {"ptr", "atomic"},
                      NEW c \in (r + 1)..(r + g[r].n - 1)
               PROVE  g[c].k = "fwd"
    OBVIOUS
  <2>1. CASE r = b
    <3>1. c \in Blk /\ c \in b..(b + n - 1) /\ c # b
      BY <2>1, <1>0, <1>1, <1>2 DEF Blk
    <3> QED
      BY <3>1, <1>2
  <2>2. CASE r # b
    <3>1. RealHdr(g, r) /\ (r # b + n \/ m = n)
      BY <1>0, <1>2, <1>7 DEF RealHdr
    <3>2. RealHdr(h, r) /\ g[r] = h[r] /\ r \notin b..l
      BY <3>1, <2>2, <1>2, <1>5 DEF RealHdr
    <3>3. h[c].k = "fwd"
      BY <3>2 DEF Tiled
    <3>4. h[r].n \in Nat /\ r..(r + h[r].n - 1) \subseteq H /\ (r + h[r].n <= b \/ l < r)
      BY <3>2, <2>2, <1>4
    <3>5. c \in Int /\ r < c /\ c <= r + h[r].n - 1
      BY <3>2, <3>4 DEF Blk
    <3>6. c \in Blk
      BY <3>4, <3>5 DEF Blk
    <3>7. c \notin b..l
      BY <3>4, <3>5, <3>2 DEF Blk
    <3>8. c \notin b..(b + n - 1) /\ (c # b + n \/ m = n)
      BY <3>7, <3>6, <1>0 DEF Blk
    <3> QED
      BY <3>3, <3>6, <3>8, <1>2
  <2> QED
    BY <2>1, <2>2
<1>12. Tiled(g, H)
  BY <1>3, <1>8, <1>9, <1>10, <1>11 DEF Tiled
<1>13. Whole(h, b, l) /\ Whole(g, b, l)
  <2>1. Whole(h, b, l)
    <3> SUFFICES ASSUME NEW r \in Blk, RealHdr(h, r)
                 PROVE  (b <= r /\ r + h[r].n - 1 <= l) \/ r + h[r].n <= b \/ l < r
      BY DEF Whole
    <3>1. CASE r = b
      BY <3>1, <1>0 DEF Blk
    <3> QED
      BY <3>1, <1>4
  <2>2. Whole(g, b, l)
    <3> SUFFICES ASSUME NEW r \in Blk, RealHdr(g, r)
                 PROVE  (b <= r /\ r + g[r].n - 1 <= l) \/ r + g[r].n <= b \/ l < r
      BY DEF Whole
    <3>1. CASE r = b
      BY <3>1, <1>0, <1>2 DEF Blk
    <3>2. CASE r = b + n /\ m > n
      <4>1. g[r].n = m - n
        BY <3>2, <1>2
      <4> QED
        BY <3>2, <4>1, <1>0 DEF Blk
    <3>3. CASE r # b /\ ~(r = b + n /\ m > n)
      BY <3>3, <1>4, <1>5
    <3> QED
      BY <3>1, <3>2, <3>3
  <2> QED
    BY <2>1, <2>2
<1>14. \A c \in Blk : c \notin b..l => g[c] = h[c]
  <2> SUFFICES ASSUME NEW c \in Blk, c \notin b..l PROVE g[c] = h[c]
    OBVIOUS
  <2>1. c \notin b..(b + n - 1) /\ (c # b + n \/ m = n)
    BY <1>0 DEF Blk
  <2> QED
    BY <2>1, <1>2
<1>15. \A c \in b..l : ~UsedIn(h, c) /\ ~PtrsIn(h, c)
  <2> TAKE c \in b..l
  <2>1. c \in Blk /\ b <= c /\ c < b + h[b].n
    BY <1>0, <1>1 DEF Blk
  <2>2. ~UsedIn(h, c)
    BY <2>1, <1>1, KindOfBlock
  <2> QED
    BY <2>2, PtrsUsed
<1>16. \A c \in b..(b + n - 1) : UsedIn(g, c) /\ (PtrsIn(g, c) <=> kind = "ptr")
  <2> TAKE c \in b..(b + n - 1)
  <2>1. c \in Blk /\ b <= c /\ c < b + g[b].n
    BY <1>0, <1>1, <1>2 DEF Blk
  <2> QED
    BY <2>1, <1>2, <1>7, <1>12, KindOfBlock
<1>17. \A c \in (b + n)..l : ~UsedIn(g, c) /\ ~PtrsIn(g, c)
  <2> TAKE c \in (b + n)..l
  <2>1. c \in Blk /\ m > n
    BY <1>0, <1>1 DEF Blk
  <2>2. b + n \in Blk /\ RealHdr(g, b + n) /\ g[b + n].k = "free" /\ g[b + n].n = m - n
    BY <2>1, <1>2, <1>7
  <2>3. b + n <= c /\ c < b + n + g[b + n].n
    BY <2>1, <2>2, <1>0 DEF Blk
  <2>4. ~UsedIn(g, c)
    BY <2>1, <2>2, <2>3, <1>12, KindOfBlock
  <2> QED
    BY <2>4, PtrsUsed
<1>18. ASSUME NEW c \in Blk, c \notin b..(b + n - 1)
       PROVE  /\ UsedIn(g, c) <=> UsedIn(h, c)
              /\ PtrsIn(g, c) <=> PtrsIn(h, c)
  <2>1. CASE c \notin b..l
    <3>1. b \in Int /\ l \in Int
      BY <1>0 DEF Blk
    <3> HIDE DEF l
    <3> QED
      BY <2>1, <3>1, <1>12, <1>13, <1>14, KindKept
  <2>2. CASE c \in b..l
    <3>1. c \in (b + n)..l
      BY <2>2, <1>18, <1>0 DEF Blk
    <3> QED
      BY <2>2, <3>1, <1>15, <1>17
  <2> QED
    BY <2>1, <2>2
<1>19. b..(b + n - 1) \subseteq b..l
  BY <1>0 DEF Blk
<1> QED
  BY <1>1, <1>12, <1>15, <1>16, <1>18, <1>19 DEF AllocatedOK, KindsKept
-----------------------------------------------------------------------------
\* The constants are numbers.
LEMMA BlocksCount == NBlocks \in Nat /\ Len(Sections) \in Nat
BY DirtyAssumption

\* A build's configuration.
LEMMA ConfigIs ==
  ASSUME NEW c \in Configs
  PROVE  /\ c.vdb \in {"mprotect", "soft", "gww", "proc"} /\ c.bpp \in 1..NBlocks
         /\ c.sects \in 1..Len(Sections) /\ AlignedSections(c.bpp)
<1>1. /\ c.vdb \in {"mprotect", "soft", "gww", "proc"} /\ c.bpp \in 1..NBlocks
      /\ c.sects \in 1..Len(Sections)
  BY DirtyAssumption
<1>2. AlignedSections(c.bpp)
  BY DirtyAssumption DEF AlignedSections
<1> QED
  BY <1>1, <1>2

\* The sections are intervals of blocks.
LEMMA SectionIs ==
  ASSUME NEW k \in 1..Len(Sections)
  PROVE  NBlocks \in Nat /\ Sections[k][1] \in Blk /\ Sections[k][2] \in Blk
         /\ Sections[k][1] <= Sections[k][2]
<1>1. Sections[k] \in Blk \X Blk
  BY DirtyAssumption
<1> QED
  BY <1>1, DirtyAssumption

\* Sections are of blocks.
LEMMA SectionsInBlk ==
  ASSUME NEW n \in Int, n <= Len(Sections)
  PROVE  SectionsTo(n) \subseteq Blk
<1> SUFFICES ASSUME NEW k \in 1..n PROVE Sections[k][1]..Sections[k][2] \subseteq Blk
  BY DEF SectionsTo
<1>1. k \in 1..Len(Sections) /\ Len(Sections) \in Nat
  BY DirtyAssumption
<1> QED
  BY <1>1, SectionIs DEF Blk

\* Sections are of whole pages.
LEMMA SectionsHavePages ==
  ASSUME NEW m \in Nat \ {0}, AlignedSections(m), NEW n \in Int, n <= Len(Sections),
         NEW b \in SectionsTo(n)
  PROVE  /\ PageFrom(m, PageAt(m, b)) \subseteq SectionsTo(n)
         /\ PageAt(m, b) \in SectionsTo(n) /\ b \in Nat \ {0}
<1>1. PICK k \in 1..n : b \in Sections[k][1]..Sections[k][2]
  BY DEF SectionsTo
<1>2. k \in 1..Len(Sections)
  BY DirtyAssumption
<1>3. PICK s, e \in Blk : s = Sections[k][1] /\ e = Sections[k][2]
  BY <1>2, SectionIs
<1>4. (s - 1) % m = 0 /\ e % m = 0
  BY <1>2, <1>3 DEF AlignedSections
<1>5. s \in Nat \ {0} /\ e \in Nat /\ b \in s..e /\ b \in Nat \ {0}
  BY <1>1, <1>3, BlocksCount DEF Blk
<1>6. PageFrom(m, PageAt(m, b)) \subseteq s..e
  BY <1>4, <1>5, PageWithin
<1>7. s..e \subseteq SectionsTo(n)
  BY <1>3 DEF SectionsTo
<1>8. PageAt(m, b) \in PageFrom(m, PageAt(m, b))
  <2>1. PageAt(m, b) \in 1..b
    BY <1>5, PageIs
  <2> QED
    BY <2>1 DEF PageFrom
<1> QED
  BY <1>5, <1>6, <1>7, <1>8

\* The next section is apart from those the heap has.
LEMMA SectionsGrow ==
  ASSUME NEW n \in Nat, n + 1 <= Len(Sections)
  PROVE  /\ SectionsTo(n + 1) = SectionsTo(n) \cup Sections[n + 1][1]..Sections[n + 1][2]
         /\ \A b \in Sections[n + 1][1]..Sections[n + 1][2] : b \notin SectionsTo(n)
<1>1. 1..(n + 1) = 1..n \cup {n + 1}
  OBVIOUS
<1>2. SectionsTo(n + 1) = SectionsTo(n) \cup Sections[n + 1][1]..Sections[n + 1][2]
  BY <1>1 DEF SectionsTo
<1>3. ASSUME NEW b \in Sections[n + 1][1]..Sections[n + 1][2], b \in SectionsTo(n)
      PROVE  FALSE
  <2>1. PICK k \in 1..n : b \in Sections[k][1]..Sections[k][2]
    BY <1>3 DEF SectionsTo
  <2>2. k \in 1..Len(Sections) /\ n + 1 \in 1..Len(Sections) /\ k < n + 1
    BY DirtyAssumption
  <2>3. Sections[k][2] < Sections[n + 1][1] \/ Sections[n + 1][2] < Sections[k][1]
    BY <2>2, DirtyAssumption
  <2>4. /\ Sections[k][1] \in Int /\ Sections[k][2] \in Int
        /\ Sections[n + 1][1] \in Int /\ Sections[n + 1][2] \in Int
    BY <2>2, SectionIs DEF Blk
  <2> QED
    BY <1>3, <2>1, <2>3, <2>4
<1> QED
  BY <1>2, <1>3

\* Initially the invariant holds.
LEMMA DirtyInitOK == DirtyInit => DirtyIInv
<1> SUFFICES ASSUME DirtyInit PROVE DirtyIInv
  OBVIOUS
<1>1. PICK c \in Configs : /\ vdb = c.vdb /\ bpp = c.bpp /\ pht = c.pht /\ maxSects = c.sects
                           /\ wr = [t \in c.writers |-> NotWriting]
  BY DEF DirtyInit
<1>2. BuildOK
  <2>1. /\ vdb \in {"mprotect", "soft", "gww", "proc"} /\ bpp \in 1..NBlocks
        /\ maxSects \in 1..Len(Sections) /\ AlignedSections(bpp)
    BY <1>1, ConfigIs
  <2>2. on = FALSE /\ looking = FALSE /\ nSects = 1 /\ watched = {}
    BY DEF DirtyInit
  <2>3. 1 \in 1..maxSects
    BY <2>1, BlocksCount
  <2> QED
    BY <2>1, <2>2, <2>3 DEF BuildOK
<1>3. Tiled(hdr, SectionsTo(nSects))
  <2>1. 1 \in 1..Len(Sections) /\ NBlocks \in Nat
    BY <1>2, DirtyAssumption DEF BuildOK
  <2>2. PICK s, e \in Blk : s = Sections[1][1] /\ e = Sections[1][2] /\ s <= e
    BY <2>1, SectionIs
  <2>3. SectionsTo(nSects) = s..e
    <3>1. 1..nSects = {1}
      BY DEF DirtyInit
    <3> QED
      BY <2>2, <3>1 DEF SectionsTo
  <2>4. hdr = [b \in Blk |-> IF b = s THEN FreeHdr(e - s + 1) ELSE NoHdr]
    BY <2>2 DEF DirtyInit
  <2>5. FreeHdr(e - s + 1) \in HdrCell /\ NoHdr \in HdrCell
    BY <2>2 DEF FreeHdr, NoHdr, HdrCell, Blk
  <2>6. hdr \in [Blk -> HdrCell]
    BY <2>4, <2>5
  <2>7. /\ hdr[s].k = "free" /\ hdr[s].n = e - s + 1
        /\ \A b \in Blk : b # s => hdr[b].k = "nil"
    BY <2>4 DEF FreeHdr, NoHdr
  <2>8. \A b \in Blk : RealHdr(hdr, b) <=> b = s
    BY <2>7 DEF RealHdr
  <2>9. s \in Int /\ e \in Int
    BY DEF Blk
  <2>10. /\ \A r \in Blk : RealHdr(hdr, r) => hdr[r].n >= 1 /\ r..(r + hdr[r].n - 1) \subseteq s..e
         /\ \A r, q \in Blk : RealHdr(hdr, r) /\ RealHdr(hdr, q) /\ r < q => r + hdr[r].n <= q
    BY <2>2, <2>7, <2>8, <2>9
  <2>11. \A b \in s..e : \E r \in Blk : RealHdr(hdr, r) /\ r <= b /\ b < r + hdr[r].n
    BY <2>2, <2>7, <2>8, <2>9
  <2>12. \A r \in Blk : ~(hdr[r].k \in {"ptr", "atomic"})
    BY <2>7
  <2> QED
    BY <2>3, <2>6, <2>10, <2>11, <2>12 DEF Tiled
<1>4. BitsOK /\ UntrackedQuiet /\ StoredRemembered /\ WrittenKnown /\ TakenFound
  BY <1>1 DEF DirtyInit, BitsOK, UntrackedQuiet, StoredRemembered, WrittenKnown, TakenFound, Tracked
<1>5. WritersOK
  BY <1>1 DEF WritersOK, WriterOK, NotWriting
<1>6. SmallPages
  BY <1>1 DEF SmallPages, DirtyInit, DirtyingIn, NotWriting
<1> QED
  BY <1>2, <1>3, <1>4, <1>5, <1>6 DEF DirtyIInv

\* The heap and its pages, in a state of the invariant.
LEMMA HeapIs ==
  ASSUME BuildOK
  PROVE  /\ Heap = SectionsTo(nSects) /\ SectionsTo(nSects) \subseteq Blk
         /\ bpp \in Nat \ {0} /\ nSects \in Nat /\ nSects <= Len(Sections)
         /\ \A b \in SectionsTo(nSects) :
              PageAt(bpp, b) \in SectionsTo(nSects)
              /\ PageFrom(bpp, PageAt(bpp, b)) \subseteq SectionsTo(nSects) /\ b \in Nat \ {0}
         /\ \A b, c \in Blk : c \in PageFrom(bpp, PageAt(bpp, b)) <=> PageAt(bpp, c) = PageAt(bpp, b)
<1>1. bpp \in Nat \ {0} /\ nSects \in Nat /\ nSects <= Len(Sections)
  BY BlocksCount DEF BuildOK
<1>2. Heap = SectionsTo(nSects)
  BY DEF Heap, SectionsTo
<1>3. SectionsTo(nSects) \subseteq Blk
  BY <1>1, SectionsInBlk
<1>4. \A b \in SectionsTo(nSects) :
              PageAt(bpp, b) \in SectionsTo(nSects)
              /\ PageFrom(bpp, PageAt(bpp, b)) \subseteq SectionsTo(nSects) /\ b \in Nat \ {0}
  BY <1>1, SectionsHavePages DEF BuildOK
<1>5. \A b, c \in Blk : c \in PageFrom(bpp, PageAt(bpp, b)) <=> PageAt(bpp, c) = PageAt(bpp, b)
  BY <1>1, SamePage, BlocksCount DEF Blk
<1> QED
  BY <1>1, <1>2, <1>3, <1>4, <1>5

\* Pages of one block.
LEMMA OneBlockPages ==
  ASSUME NEW b \in Blk
  PROVE  PageAt(1, b) = b /\ PageFrom(1, b) = {b}
BY BlocksCount DEF PageAt, PageFrom, Blk

\* GC_remove_protection of n blocks at b.
Unprotected(b, n, ptrfree) ==
  /\ prot' \subseteq prot /\ dirty \subseteq dirty' /\ dirty' \subseteq IndexSet(pht)
  /\ ~Tracked => prot' = prot /\ dirty' = dirty
  /\ Tracked => /\ \A c \in SectionsTo(nSects) :
                     PageAt(bpp, c) \in prot /\ PageAt(bpp, c) \notin prot' =>
                       pht[c] \in dirty' \/ (ptrfree /\ c \in b..(b + n - 1))
                /\ ~ptrfree => \A c \in b..(b + n - 1) : pht[c] \in dirty'
  /\ OneIndexEach(bpp, pht) =>
       /\ \A c \in b..(b + n - 1) : c \notin prot'
       /\ \A c \in Blk : pht[c] \in dirty' \/ DirtyingIn(wr, c) => c \notin prot'
\* GC_remove_protection, where it is called and where it is not: the blocks are
\* then on pages that are not protected, or nothing is.
LEMMA RemoveProtection ==
  ASSUME DirtyIInv, NEW b \in Blk, NEW n \in Nat \ {0}, b..(b + n - 1) \subseteq SectionsTo(nSects),
         NEW ptrfree \in BOOLEAN, GC_remove_protection(b, n, ptrfree)
  PROVE  Unprotected(b, n, ptrfree)
<1> DEFINE N == b..(b + n - 1)
           H == SectionsTo(nSects)
<1>1. BuildOK /\ BitsOK /\ UntrackedQuiet /\ SmallPages
  BY DEF DirtyIInv
<1>2. /\ H \subseteq Blk /\ N \subseteq Blk /\ bpp \in Nat \ {0}
      /\ \A c \in H : PageFrom(bpp, PageAt(bpp, c)) \subseteq H
      /\ \A c, d \in Blk : d \in PageFrom(bpp, PageAt(bpp, c)) <=> PageAt(bpp, d) = PageAt(bpp, c)
  BY <1>1, HeapIs
<1>3. CASE ~Tracked
  <2>1. prot' = prot /\ dirty' = dirty
    BY <1>3 DEF GC_remove_protection, Tracked
  <2>2. prot = {}
    BY <1>1, <1>3 DEF UntrackedQuiet
  <2> QED
    BY <1>1, <1>3, <2>1, <2>2 DEF Unprotected, BitsOK
<1>4. CASE Tracked /\ AlreadyDirty(b, n)
  <2>1. prot' = prot /\ dirty' = dirty
    BY <1>4 DEF GC_remove_protection
  <2>2. N = {b} /\ pht[b] \in dirty
    BY <1>4 DEF AlreadyDirty, Blk
  <2> QED
    BY <1>1, <1>2, <1>4, <2>1, <2>2 DEF Unprotected, BitsOK, SmallPages
<1>5. CASE Tracked /\ ~AlreadyDirty(b, n)
  <2> DEFINE P == {PageAt(bpp, c) : c \in N}
             M == UNION {PageFrom(bpp, p) : p \in P}
             D == (M \ N) \cup (IF ptrfree THEN {} ELSE N)
  <2>1. dirty' = dirty \cup {pht[c] : c \in D} /\ prot' = prot \ P
    <3>1. PagesOf(N) = P
      BY DEF PagesOf, PageOf, PageAt
    <3>2. UNION {OnPage(p) : p \in PagesOf(N)} = M
      BY <3>1 DEF OnPage, PageFrom
    <3>3. ToBeDirty(b, n, ptrfree) = D
      <4>1. Neighbours(b, n) = (UNION {OnPage(p) : p \in PagesOf(N)}) \ N
        BY DEF Neighbours
      <4>2. Neighbours(b, n) = M \ N
        BY <4>1, <3>2
      <4>3. ToBeDirty(b, n, ptrfree) = Neighbours(b, n) \cup (IF ptrfree THEN {} ELSE N)
        BY DEF ToBeDirty
      <4> HIDE DEF M, N
      <4> QED
        BY <4>2, <4>3
    <3>4. Indices(ToBeDirty(b, n, ptrfree)) = {pht[c] : c \in D}
      BY <3>3 DEF Indices
    <3>5. /\ dirty' = dirty \cup Indices(ToBeDirty(b, n, ptrfree))
          /\ prot' = prot \ PagesOf(N)
      BY <1>5 DEF GC_remove_protection, Tracked
    <3> QED
      BY <3>1, <3>4, <3>5
  <2>2. M \subseteq H
    BY <1>2
  <2>3. D \subseteq Blk
    BY <1>2, <2>2
  <2>4. prot' \subseteq prot /\ dirty \subseteq dirty'
    BY <2>1
  <2>5. dirty' \subseteq IndexSet(pht)
    BY <1>1, <2>1, <2>3 DEF BitsOK, IndexSet
  <2>6. ASSUME NEW c \in H, PageAt(bpp, c) \in prot, PageAt(bpp, c) \notin prot'
        PROVE  pht[c] \in dirty' \/ (ptrfree /\ c \in N)
    <3>1. PICK d \in N : PageAt(bpp, c) = PageAt(bpp, d)
      BY <2>1, <2>6
    <3>2. c \in PageFrom(bpp, PageAt(bpp, d))
      BY <3>1, <1>2
    <3>3. c \in M
      BY <3>2
    <3> HIDE DEF M
    <3> QED
      BY <2>1, <3>3
  <2>7. ~ptrfree => \A c \in N : pht[c] \in dirty'
    BY <2>1
  <2>8. ASSUME OneIndexEach(bpp, pht)
        PROVE  /\ \A c \in N : c \notin prot'
               /\ \A c \in Blk : pht[c] \in dirty' \/ DirtyingIn(wr, c) => c \notin prot'
    <3>1. bpp = 1 /\ \A c \in Blk : PageAt(bpp, c) = c /\ PageFrom(bpp, c) = {c}
      BY <2>8, OneBlockPages DEF OneIndexEach
    <3>2. P = N
      BY <1>2, <3>1
    <3>3. M = N
      BY <1>2, <3>1, <3>2
    <3>4. D \subseteq N
      BY <3>3
    <3> HIDE DEF D, P, N
    <3>5. \A c \in Blk : pht[c] \in dirty' => pht[c] \in dirty \/ c \in N
      BY <2>1, <2>3, <3>4, <2>8 DEF OneIndexEach
    <3> QED
      BY <2>1, <3>2, <3>5, <1>1, <2>8 DEF SmallPages
  <2> QED
    BY <1>5, <2>4, <2>5, <2>6, <2>7, <2>8 DEF Unprotected
<1> QED
  BY <1>3, <1>4, <1>5
-----------------------------------------------------------------------------
\* Steps.  Those that change no header first.
LEMMA LookedAtOK ==
  ASSUME DirtyIInv, LookedAt
  PROVE  DirtyIInv'
<1> USE DEF LookedAt, dirtyConfig
<1>1. BuildOK'
  BY DEF DirtyIInv, BuildOK
<1>2. Tiled(hdr, SectionsTo(nSects))'
  BY DEF DirtyIInv
<1>3. BitsOK'
  BY DEF DirtyIInv, BitsOK
<1>4. WritersOK' /\ UntrackedQuiet' /\ SmallPages'
  BY DEF DirtyIInv, WritersOK, UntrackedQuiet, SmallPages, Tracked
<1>5. StoredRemembered' /\ WrittenKnown' /\ TakenFound'
  BY DEF DirtyIInv, StoredRemembered, WrittenKnown, TakenFound, Tracked
<1> QED
  BY <1>1, <1>2, <1>3, <1>4, <1>5 DEF DirtyIInv

\* Where headers change, blocks other than those freed or allocated keep their
\* kind, and the rest of the invariant follows from how protection changes.
LEMMA WritersKept ==
  ASSUME DirtyIInv, wr' = wr, bpp' = bpp, NEW N, KindsKept(hdr, hdr', N),
         \A t \in DOMAIN wr : wr[t].b \notin N \/ \A c \in N : UsedIn(hdr', c)
  PROVE  WritersOK'
<1>1. \A c \in Blk : UsedIn(hdr, c) => UsedIn(hdr', c) \/ c \in N
  BY DEF KindsKept
<1>2. ASSUME NEW t \in DOMAIN wr PROVE WriterOK(wr[t], hdr', bpp)
  <2>1. WriterOK(wr[t], hdr, bpp)
    BY DEF DirtyIInv, WritersOK
  <2> QED
    BY <2>1, <1>1 DEF WriterOK
<1> QED
  BY <1>2 DEF WritersOK, DirtyIInv

\* One lemma for each action: GC_allochblk.
LEMMA AllochblkOK ==
  ASSUME DirtyIInv, NEW b \in Blk, NEW n \in 1..2, NEW kind \in {"ptr", "atomic"},
         GC_allochblk(b, n, kind)
  PROVE  DirtyIInv'
<1> DEFINE N == b..(b + n - 1)
           H == SectionsTo(nSects)
<1>1. /\ BuildOK /\ Tiled(hdr, H) /\ BitsOK /\ UntrackedQuiet /\ WritersOK
      /\ StoredRemembered /\ WrittenKnown /\ TakenFound /\ SmallPages
  BY DEF DirtyIInv
<1>2. /\ vdb' = vdb /\ bpp' = bpp /\ pht' = pht /\ on' = on /\ maxSects' = maxSects
      /\ nSects' = nSects /\ watched' = watched
      /\ grungy' = grungy /\ everSet' = everSet /\ taken' = taken /\ looking' = looking
      /\ osDirty' = osDirty /\ stored' = stored /\ wr' = wr
  BY DEF GC_allochblk, dirtyConfig, bits
<1>3. hdr[b].k = "free" /\ hdr[b].n >= n /\ hdr' = Allocated(hdr, b, n, kind)
  BY DEF GC_allochblk, Allocated
<1>4. H \subseteq Blk /\ NBlocks \in Nat
  BY <1>1, HeapIs, BlocksCount
<1>5. /\ Tiled(hdr', H) /\ N \subseteq H
      /\ \A c \in N : ~UsedIn(hdr, c) /\ UsedIn(hdr', c) /\ (PtrsIn(hdr', c) <=> kind = "ptr")
      /\ KindsKept(hdr, hdr', N)
  <2>1. n \in Nat \ {0}
    OBVIOUS
  <2>2. AllocatedOK(hdr, H, b, n, kind, hdr')
    BY <2>1, <1>1, <1>3, <1>4, AllocatedHeaders
  <2> QED
    BY <2>2 DEF AllocatedOK
<1>6. Unprotected(b, n, kind = "atomic")
  <2>1. GC_remove_protection(b, n, kind = "atomic") /\ n \in Nat \ {0}
    BY DEF GC_allochblk
  <2> QED
    BY <2>1, <1>5, RemoveProtection
<1> HIDE DEF N
<1>7. BuildOK'
  BY <1>1, <1>2 DEF BuildOK
<1>8. Tiled(hdr, SectionsTo(nSects))'
  BY <1>2, <1>5
<1>9. BitsOK'
  BY <1>1, <1>2, <1>6 DEF BitsOK, Unprotected
<1>10. WritersOK'
  BY <1>2, <1>5, WritersKept
<1>11. UntrackedQuiet'
  BY <1>1, <1>2, <1>6 DEF UntrackedQuiet, Tracked, Unprotected
<1>12. StoredRemembered'
  <2>1. \A c \in stored : c \in Blk /\ PtrsIn(hdr, c) /\ c \notin N
    BY <1>1, <1>4, <1>5, PtrsUsed DEF StoredRemembered, BitsOK
  <2>2. \A c \in stored : PtrsIn(hdr', c)
    BY <2>1, <1>5 DEF KindsKept
  <2> QED
    BY <2>2, <1>1, <1>2, <1>6 DEF StoredRemembered, Tracked, Unprotected
<1>13. WrittenKnown'
  <2> SUFFICES ASSUME Tracked, NEW c \in H, PtrsIn(hdr', c), PageAt(bpp, c) \notin prot'
               PROVE  pht[c] \in dirty' \/ DirtyingIn(wr, c)
    BY <1>2 DEF WrittenKnown, Tracked
  <2>1. CASE c \in N
    BY <2>1, <1>5, <1>6 DEF Unprotected, N
  <2>2. CASE c \notin N
    <3>1. PtrsIn(hdr, c)
      BY <2>2, <1>4, <1>5 DEF KindsKept
    <3>2. CASE PageAt(bpp, c) \in prot
      BY <2>2, <3>2, <1>6 DEF Unprotected, N
    <3>3. CASE PageAt(bpp, c) \notin prot
      BY <3>1, <3>3, <1>1, <1>6 DEF Unprotected, WrittenKnown
    <3> QED
      BY <3>2, <3>3
  <2> QED
    BY <2>1, <2>2
<1>14. TakenFound'
  BY <1>1, <1>2 DEF TakenFound
<1>15. SmallPages'
  <2> SUFFICES ASSUME OneIndexEach(bpp, pht)
               PROVE  /\ \A c \in Blk : pht[c] \in dirty' \/ DirtyingIn(wr, c) => c \notin prot'
                      /\ \A c \in Blk : c \in prot' /\ UsedIn(hdr', c) => PtrsIn(hdr', c)
    BY <1>2 DEF SmallPages
  <2>1. \A c \in N : c \notin prot'
    BY <1>6 DEF Unprotected, N
  <2>2. ASSUME NEW c \in Blk, c \in prot', UsedIn(hdr', c) PROVE PtrsIn(hdr', c)
    <3>1. c \notin N /\ c \in prot
      BY <2>1, <2>2, <1>6 DEF Unprotected
    <3>2. UsedIn(hdr, c)
      BY <3>1, <2>2, <1>5 DEF KindsKept
    <3>3. PtrsIn(hdr, c)
      BY <3>1, <3>2, <1>1 DEF SmallPages
    <3> QED
      BY <3>1, <3>3, <1>5 DEF KindsKept
  <2> QED
    BY <2>2, <1>6 DEF Unprotected
<1> QED
  BY <1>7, <1>8, <1>9, <1>10, <1>11, <1>12, <1>13, <1>14, <1>15 DEF DirtyIInv

\* GC_reclaim_generic.
LEMMA ReclaimGenericOK ==
  ASSUME DirtyIInv, NEW b \in Blk, GC_reclaim_generic(b)
  PROVE  DirtyIInv'
<1> DEFINE H == SectionsTo(nSects)
<1>1. /\ BuildOK /\ Tiled(hdr, H) /\ BitsOK /\ UntrackedQuiet /\ WritersOK
      /\ StoredRemembered /\ WrittenKnown /\ TakenFound /\ SmallPages
  BY DEF DirtyIInv
<1>2. /\ vdb' = vdb /\ bpp' = bpp /\ pht' = pht /\ on' = on /\ maxSects' = maxSects
      /\ nSects' = nSects /\ watched' = watched /\ hdr' = hdr
      /\ grungy' = grungy /\ everSet' = everSet /\ taken' = taken /\ looking' = looking
      /\ osDirty' = osDirty /\ stored' = stored /\ wr' = wr
  BY DEF GC_reclaim_generic, dirtyConfig, bits
<1>3. /\ hdr[b].k \in {"ptr", "atomic"} /\ hdr[b].n = 1
      /\ GC_remove_protection(b, 1, hdr[b].k = "atomic")
  BY DEF GC_reclaim_generic
<1>4. H \subseteq Blk /\ NBlocks \in Nat
  BY <1>1, HeapIs, BlocksCount
<1>5. RealHdr(hdr, b) /\ b..(b + 1 - 1) = {b} /\ {b} \subseteq H
  <2>1. RealHdr(hdr, b)
    BY <1>3 DEF RealHdr
  <2>2. b..(b + hdr[b].n - 1) \subseteq H
    BY <2>1, <1>1 DEF Tiled
  <2>3. b \in Int
    BY DEF Blk
  <2> QED
    BY <2>1, <2>2, <2>3, <1>3
<1>6. Unprotected(b, 1, hdr[b].k = "atomic")
  <2>1. 1 \in Nat \ {0} /\ b..(b + 1 - 1) \subseteq H /\ (hdr[b].k = "atomic") \in BOOLEAN
    BY <1>5
  <2> QED
    BY <2>1, <1>3, RemoveProtection
<1>7. hdr[b].k = "atomic" => ~PtrsIn(hdr, b)
  <2>1. b <= b /\ b < b + hdr[b].n
    BY <1>3 DEF Blk
  <2> QED
    BY <2>1, <1>1, <1>4, <1>5, KindOfBlock
<1>8. BuildOK' /\ Tiled(hdr, SectionsTo(nSects))'
  BY <1>1, <1>2 DEF BuildOK
<1>9. BitsOK'
  BY <1>1, <1>2, <1>6 DEF BitsOK, Unprotected
<1>10. WritersOK' /\ TakenFound'
  BY <1>1, <1>2 DEF WritersOK, TakenFound
<1>11. UntrackedQuiet'
  BY <1>1, <1>2, <1>6 DEF UntrackedQuiet, Tracked, Unprotected
<1>12. StoredRemembered'
  BY <1>1, <1>2, <1>6 DEF StoredRemembered, Tracked, Unprotected
<1>13. WrittenKnown'
  <2> SUFFICES ASSUME Tracked, NEW c \in H, PtrsIn(hdr, c), PageAt(bpp, c) \notin prot'
               PROVE  pht[c] \in dirty' \/ DirtyingIn(wr, c)
    BY <1>2 DEF WrittenKnown, Tracked
  <2>1. CASE PageAt(bpp, c) \in prot
    <3>1. pht[c] \in dirty' \/ (hdr[b].k = "atomic" /\ c = b)
      BY <2>1, <1>5, <1>6 DEF Unprotected
    <3> QED
      BY <3>1, <1>7
  <2>2. CASE PageAt(bpp, c) \notin prot
    BY <2>2, <1>1, <1>6 DEF Unprotected, WrittenKnown
  <2> QED
    BY <2>1, <2>2
<1>14. SmallPages'
  BY <1>1, <1>2, <1>6 DEF SmallPages, Unprotected
<1> QED
  BY <1>8, <1>9, <1>10, <1>11, <1>12, <1>13, <1>14 DEF DirtyIInv

\* GC_freehblk.
LEMMA FreehblkOK ==
  ASSUME DirtyIInv, NEW b \in Blk, GC_freehblk(b)
  PROVE  DirtyIInv'
<1> DEFINE N == b..(b + hdr[b].n - 1)
           H == SectionsTo(nSects)
<1>1. /\ BuildOK /\ Tiled(hdr, H) /\ BitsOK /\ UntrackedQuiet /\ WritersOK
      /\ StoredRemembered /\ WrittenKnown /\ TakenFound /\ SmallPages
  BY DEF DirtyIInv
<1>2. /\ vdb' = vdb /\ bpp' = bpp /\ pht' = pht /\ on' = on /\ maxSects' = maxSects
      /\ nSects' = nSects /\ watched' = watched /\ prot' = prot /\ dirty' = dirty
      /\ grungy' = grungy /\ everSet' = everSet /\ taken' = taken /\ looking' = looking
      /\ osDirty' = osDirty /\ stored' = stored \ N /\ wr' = wr
  BY DEF GC_freehblk, dirtyConfig, bits
<1>3. /\ hdr[b].k \in {"ptr", "atomic"} /\ hdr' = Run(hdr, b, hdr[b].n)
      /\ \A t \in DOMAIN wr : wr[t].b \notin N
  BY DEF GC_freehblk, Writer
<1>4. H \subseteq Blk /\ NBlocks \in Nat
  BY <1>1, HeapIs, BlocksCount
<1>5. /\ Tiled(hdr', H)
      /\ \A c \in Blk : /\ UsedIn(hdr', c) <=> UsedIn(hdr, c) /\ c \notin N
                        /\ PtrsIn(hdr', c) <=> PtrsIn(hdr, c) /\ c \notin N
  BY <1>1, <1>3, <1>4, FreedHeaders
<1> HIDE DEF N
<1>6. KindsKept(hdr, hdr', N)
  BY <1>5 DEF KindsKept
<1>7. BuildOK' /\ Tiled(hdr, SectionsTo(nSects))'
  BY <1>1, <1>2, <1>5 DEF BuildOK
<1>8. BitsOK'
  BY <1>1, <1>2 DEF BitsOK
<1>9. WritersOK'
  BY <1>2, <1>3, <1>6, WritersKept
<1>10. UntrackedQuiet' /\ TakenFound'
  BY <1>1, <1>2 DEF UntrackedQuiet, Tracked, TakenFound
<1>11. StoredRemembered'
  <2>1. \A c \in stored' : c \in Blk /\ c \in stored /\ c \notin N
    BY <1>1, <1>2, <1>4 DEF BitsOK
  <2> QED
    BY <2>1, <1>1, <1>2, <1>5 DEF StoredRemembered, Tracked
<1>12. WrittenKnown'
  BY <1>1, <1>2, <1>4, <1>5 DEF WrittenKnown, Tracked
<1>13. SmallPages'
  BY <1>1, <1>2, <1>5 DEF SmallPages
<1> QED
  BY <1>7, <1>8, <1>9, <1>10, <1>11, <1>12, <1>13 DEF DirtyIInv

\* GC_add_to_heap.
LEMMA AddToHeapOK ==
  ASSUME DirtyIInv, GC_add_to_heap
  PROVE  DirtyIInv'
<1> DEFINE H == SectionsTo(nSects)
           G == SectionsTo(nSects + 1)
<1>1. /\ BuildOK /\ Tiled(hdr, H) /\ BitsOK /\ UntrackedQuiet /\ WritersOK
      /\ StoredRemembered /\ WrittenKnown /\ TakenFound /\ SmallPages
  BY DEF DirtyIInv
<1>2. /\ vdb' = vdb /\ bpp' = bpp /\ pht' = pht /\ on' = on /\ maxSects' = maxSects
      /\ nSects' = nSects + 1 /\ prot' = prot /\ dirty' = dirty
      /\ grungy' = grungy /\ everSet' = everSet /\ taken' = taken /\ looking' = looking
      /\ osDirty' = osDirty /\ stored' = stored /\ wr' = wr
      /\ nSects < maxSects /\ watched' \subseteq watched \cup {nSects + 1}
  BY DEF GC_add_to_heap, bits
<1>3. /\ H \subseteq Blk /\ NBlocks \in Nat /\ nSects \in Nat /\ nSects + 1 \in 1..Len(Sections)
      /\ nSects + 1 \in 1..maxSects
  <2>1. H \subseteq Blk /\ nSects \in Nat /\ NBlocks \in Nat /\ Len(Sections) \in Nat
    BY <1>1, HeapIs, BlocksCount
  <2>2. maxSects \in 1..Len(Sections) /\ nSects \in 1..maxSects
    BY <1>1 DEF BuildOK
  <2> QED
    BY <2>1, <2>2, <1>2
<1>4. PICK s, e \in Blk : s = Sections[nSects + 1][1] /\ e = Sections[nSects + 1][2] /\ s <= e
  BY <1>3, SectionIs
<1>5. G = H \cup s..e /\ \A c \in s..e : c \notin H
  <2>1. nSects \in Nat /\ nSects + 1 <= Len(Sections)
    BY <1>3, BlocksCount
  <2>2. /\ G = H \cup Sections[nSects + 1][1]..Sections[nSects + 1][2]
        /\ \A c \in Sections[nSects + 1][1]..Sections[nSects + 1][2] : c \notin H
    BY <2>1, SectionsGrow
  <2> HIDE DEF G, H
  <2> QED
    BY <2>2, <1>4
<1>6. PICK n \in Nat \ {0} : n = e - s + 1 /\ s..(s + n - 1) = s..e /\ s..e \subseteq Blk
  BY <1>3, <1>4 DEF Blk
<1>7. hdr' = Run(hdr, s, n)
  BY <1>2, <1>4, <1>6 DEF GC_add_to_heap
<1>8. /\ Tiled(hdr', G)
      /\ \A c \in Blk : /\ UsedIn(hdr', c) <=> UsedIn(hdr, c)
                        /\ PtrsIn(hdr', c) <=> PtrsIn(hdr, c)
  <2> HIDE DEF G, H
  <2>1. /\ Tiled(hdr, H) /\ H \subseteq Blk /\ s..(s + n - 1) \subseteq Blk
        /\ \A c \in s..(s + n - 1) : c \notin H
    BY <1>1, <1>3, <1>5, <1>6
  <2>2. /\ Tiled(hdr', H \cup s..(s + n - 1))
        /\ \A c \in Blk : /\ UsedIn(hdr', c) <=> UsedIn(hdr, c)
                          /\ PtrsIn(hdr', c) <=> PtrsIn(hdr, c)
    BY <2>1, <1>3, <1>7, AddedHeaders
  <2> QED
    BY <2>2, <1>5, <1>6
<1>9. G \subseteq Blk /\ H \subseteq G
  BY <1>3, <1>5, <1>6
<1>10. KindsKept(hdr, hdr', {})
  BY <1>8 DEF KindsKept
<1>11. BuildOK'
  <2>1. watched' \subseteq 1..nSects'
    BY <1>1, <1>2, <1>3 DEF BuildOK
  <2> QED
    BY <2>1, <1>1, <1>2, <1>3 DEF BuildOK
<1>12. Tiled(hdr, SectionsTo(nSects))'
  BY <1>2, <1>8
<1> HIDE DEF H, G
<1>13. BitsOK'
  BY <1>1, <1>2, <1>9 DEF BitsOK, H, G
<1>14. WritersOK'
  BY <1>2, <1>10, WritersKept
<1>15. UntrackedQuiet' /\ TakenFound'
  BY <1>1, <1>2 DEF UntrackedQuiet, Tracked, TakenFound
<1>16. StoredRemembered'
  <2>1. \A c \in stored : c \in Blk
    BY <1>1, <1>3 DEF BitsOK, H
  <2> QED
    BY <2>1, <1>1, <1>2, <1>8 DEF StoredRemembered, Tracked
<1>17. WrittenKnown'
  <2> SUFFICES ASSUME Tracked, NEW c \in G, PtrsIn(hdr', c), PageAt(bpp, c) \notin prot
               PROVE  pht[c] \in dirty \/ DirtyingIn(wr, c)
    BY <1>2 DEF WrittenKnown, Tracked, G
  <2>1. c \in Blk /\ PtrsIn(hdr, c)
    BY <1>8, <1>9
  <2>2. UsedIn(hdr, c)
    BY <2>1, PtrsUsed
  <2>3. c \in SectionsTo(nSects)
    BY <2>1, <2>2, <1>1, <1>3, UsedBlock DEF H
  <2> QED
    BY <2>1, <2>3, <1>1 DEF WrittenKnown
<1>18. SmallPages'
  BY <1>1, <1>2, <1>8 DEF SmallPages
<1> QED
  BY <1>11, <1>12, <1>13, <1>14, <1>15, <1>16, <1>17, <1>18 DEF DirtyIInv

\* What a thread does changes; what blocks are still to be dirtied with it.
WriterRec == [at : {"idle", "fault", "dirtying", "retry"}, b : Nat, todo : SUBSET Blk]
\* A writer's step leaves the other writers where they are.
LEMMA WriterMoves ==
  ASSUME WritersOK, NEW t \in DOMAIN wr, NEW v \in WriterRec, WriterOK(v, hdr, bpp),
         wr' = [wr EXCEPT ![t] = v], hdr' = hdr, bpp' = bpp
  PROVE  /\ WritersOK' /\ DOMAIN wr' = DOMAIN wr
         /\ \A u \in DOMAIN wr : wr'[u] = IF u = t THEN v ELSE wr[u]
<1>1. wr \in [DOMAIN wr -> WriterRec]
  BY DEF WritersOK, WriterRec
<1>2. DOMAIN wr' = DOMAIN wr
  BY <1>1
<1>3. \A u \in DOMAIN wr : wr'[u] = IF u = t THEN v ELSE wr[u]
  BY <1>1
<1>4. wr' \in [DOMAIN wr -> WriterRec]
  BY <1>1
<1> QED
  BY <1>2, <1>3, <1>4 DEF WritersOK, WriterRec

\* A store that meets no protection, and the fault of one that does.
LEMMA StoreOK ==
  ASSUME DirtyIInv, NEW t \in DOMAIN wr, NEW b \in Blk, Store(t, b)
  PROVE  DirtyIInv'
<1> DEFINE H == SectionsTo(nSects)
<1>1. /\ BuildOK /\ Tiled(hdr, H) /\ BitsOK /\ UntrackedQuiet /\ WritersOK
      /\ StoredRemembered /\ WrittenKnown /\ TakenFound /\ SmallPages
  BY DEF DirtyIInv
<1>2. /\ vdb' = vdb /\ bpp' = bpp /\ pht' = pht /\ on' = on /\ maxSects' = maxSects
      /\ nSects' = nSects /\ watched' = watched /\ prot' = prot /\ dirty' = dirty
      /\ grungy' = grungy /\ everSet' = everSet /\ taken' = taken /\ looking' = looking
      /\ hdr' = hdr
  BY DEF Store, dirtyConfig, bits
<1>3. wr[t] = NotWriting \/ wr[t].at = "retry"
  BY DEF Store
<1>4. WriterOK(wr[t], hdr, bpp)
  BY <1>1 DEF WritersOK
<1>5. UsedIn(hdr, b)
  <2>1. CASE wr[t] = NotWriting
    BY <2>1 DEF Store, InUseBlock, UsedIn, NotWriting
  <2>2. CASE wr[t] # NotWriting
    BY <2>2, <1>4 DEF Store, WriterOK
  <2> QED
    BY <2>1, <2>2
<1>6. wr[t].at # "dirtying"
  BY <1>3 DEF NotWriting
<1>7. BuildOK' /\ Tiled(hdr, SectionsTo(nSects))' /\ TakenFound'
  BY <1>1, <1>2 DEF BuildOK, TakenFound
<1>8. CASE PageOf(b) \in prot
  <2> DEFINE v == [at |-> "fault", b |-> b, todo |-> {}]
  <2>1. wr' = [wr EXCEPT ![t] = v] /\ stored' = stored /\ osDirty' = osDirty
    BY <1>8 DEF Store
  <2>2. v \in WriterRec
    BY BlocksCount DEF WriterRec, Blk
  <2>3. WriterOK(v, hdr, bpp)
    BY <1>5 DEF WriterOK
  <2>4. v.at = "fault"
    OBVIOUS
  <2> HIDE DEF v
  <2>5. /\ WritersOK' /\ DOMAIN wr' = DOMAIN wr
        /\ \A u \in DOMAIN wr : wr'[u] = IF u = t THEN v ELSE wr[u]
    BY <2>1, <2>2, <2>3, <1>1, <1>2, WriterMoves
  <2>6. \A c : DirtyingIn(wr', c) <=> DirtyingIn(wr, c)
    BY <2>4, <2>5, <1>6 DEF DirtyingIn
  <2>7. Tracked
    BY <1>1, <1>8 DEF UntrackedQuiet
  <2>8. BitsOK' /\ UntrackedQuiet'
    BY <2>1, <2>7, <1>1, <1>2 DEF BitsOK, UntrackedQuiet, Tracked
  <2>9. StoredRemembered' /\ WrittenKnown' /\ SmallPages'
    BY <2>1, <2>6, <1>1, <1>2 DEF StoredRemembered, WrittenKnown, SmallPages, Tracked
  <2> QED
    BY <2>5, <2>8, <2>9, <1>7 DEF DirtyIInv
<1>9. CASE PageOf(b) \notin prot
  <2>1. /\ wr' = [wr EXCEPT ![t] = NotWriting]
        /\ stored' = IF HasPtrs(b) THEN stored \cup {b} ELSE stored
        /\ osDirty' = IF vdb = "mprotect" THEN osDirty ELSE osDirty \cup {PageOf(b)}
    BY <1>9 DEF Store
  <2>2. NotWriting \in WriterRec /\ WriterOK(NotWriting, hdr, bpp) /\ NotWriting.at # "dirtying"
    BY DEF NotWriting, WriterRec, WriterOK
  <2>5. /\ WritersOK' /\ DOMAIN wr' = DOMAIN wr
        /\ \A u \in DOMAIN wr : wr'[u] = IF u = t THEN NotWriting ELSE wr[u]
    BY <2>1, <2>2, <1>1, <1>2, WriterMoves
  <2>6. \A c : DirtyingIn(wr', c) <=> DirtyingIn(wr, c)
    BY <2>2, <2>5, <1>6 DEF DirtyingIn
  <2>7. PageOf(b) = PageAt(bpp, b) /\ (HasPtrs(b) <=> PtrsIn(hdr, b))
    BY DEF PageOf, PageAt, HasPtrs, PtrsIn
  <2>8. b \in H /\ PageAt(bpp, b) \in H
    <3>1. b \in H
      BY <1>1, <1>5, UsedBlock, BlocksCount
    <3> QED
      BY <3>1, <1>1, HeapIs
  <2> HIDE DEF H
  <2>9. BitsOK'
    BY <2>1, <2>7, <2>8, <1>1, <1>2 DEF BitsOK, H
  <2>10. UntrackedQuiet'
    BY <2>5, <1>1, <1>2 DEF UntrackedQuiet, Tracked
  <2>11. StoredRemembered'
    <3>1. Tracked /\ PtrsIn(hdr, b) => pht[b] \in dirty \/ DirtyingIn(wr, b)
      BY <2>7, <2>8, <1>1, <1>9 DEF WrittenKnown, H
    <3>2. \A c \in stored' : c \in stored \/ (c = b /\ PtrsIn(hdr, b))
      BY <2>1, <2>7
    <3>3. vdb # "mprotect" => osDirty \subseteq osDirty' /\ PageAt(bpp, b) \in osDirty'
      BY <2>1, <2>7
    <3> QED
      BY <3>1, <3>2, <3>3, <2>6, <1>1, <1>2 DEF StoredRemembered, Tracked
  <2>12. WrittenKnown' /\ SmallPages'
    BY <2>6, <1>1, <1>2 DEF WrittenKnown, SmallPages, Tracked
  <2> QED
    BY <2>5, <2>9, <2>10, <2>11, <2>12, <1>7 DEF DirtyIInv
<1> QED
  BY <1>8, <1>9

\* GC_write_fault_handler.
LEMMA WriteFaultOK ==
  ASSUME DirtyIInv, NEW t \in DOMAIN wr, GC_write_fault_handler(t)
  PROVE  DirtyIInv'
<1> DEFINE H == SectionsTo(nSects)
<1>1. /\ BuildOK /\ Tiled(hdr, H) /\ BitsOK /\ UntrackedQuiet /\ WritersOK
      /\ StoredRemembered /\ WrittenKnown /\ TakenFound /\ SmallPages
  BY DEF DirtyIInv
<1>2. /\ vdb' = vdb /\ bpp' = bpp /\ pht' = pht /\ on' = on /\ maxSects' = maxSects
      /\ nSects' = nSects /\ watched' = watched /\ dirty' = dirty
      /\ grungy' = grungy /\ everSet' = everSet /\ taken' = taken /\ looking' = looking
      /\ hdr' = hdr /\ osDirty' = osDirty /\ stored' = stored
  BY DEF GC_write_fault_handler, dirtyConfig, bits
<1>3. wr \in [DOMAIN wr -> WriterRec] /\ wr[t] \in WriterRec /\ WriterOK(wr[t], hdr, bpp)
  BY <1>1 DEF WritersOK, WriterRec
<1>4. wr[t].at = "fault"
  BY DEF GC_write_fault_handler
<1>5. PICK b \in Blk : b = wr[t].b /\ UsedIn(hdr, b)
  BY <1>3, <1>4 DEF WriterOK
<1>6. hdr[b].k # "nil" /\ b \in H
  BY <1>1, <1>5, UsedBlock, BlocksCount
<1> DEFINE p == PageAt(bpp, b)
           v == [at |-> "dirtying", b |-> b, todo |-> PageFrom(bpp, p)]
<1>7. PageOf(b) = p /\ OnPage(p) = PageFrom(bpp, p)
  BY DEF PageOf, OnPage, PageAt, PageFrom
<1>8. prot' = prot \ {p} /\ wr' = [wr EXCEPT ![t] = v]
  <2>1. is_header_found_async(wr[t].b)
    BY <1>5, <1>6 DEF is_header_found_async
  <2> QED
    BY <2>1, <1>5, <1>7 DEF GC_write_fault_handler
<1>10. PageFrom(bpp, p) \subseteq Blk
  BY <1>1, <1>6, HeapIs
<1>11. v \in WriterRec /\ WriterOK(v, hdr, bpp) /\ v.at = "dirtying" /\ v.todo = PageFrom(bpp, p)
  BY <1>5, <1>10, BlocksCount DEF WriterRec, WriterOK, Blk
<1> HIDE DEF v
<1>12. /\ WritersOK' /\ DOMAIN wr' = DOMAIN wr
       /\ \A u \in DOMAIN wr : wr'[u] = IF u = t THEN v ELSE wr[u]
  BY <1>1, <1>2, <1>8, <1>11, WriterMoves
<1>13. \A c : DirtyingIn(wr', c) <=> DirtyingIn(wr, c) \/ c \in PageFrom(bpp, p)
  BY <1>4, <1>11, <1>12 DEF DirtyingIn
<1>14. Tracked
  BY <1>1, <1>4 DEF UntrackedQuiet, NotWriting
<1>15. \A c \in Blk : PageAt(bpp, c) = p <=> c \in PageFrom(bpp, p)
  BY <1>1, HeapIs
<1>16. H \subseteq Blk
  BY <1>1, HeapIs
<1>17. BuildOK' /\ Tiled(hdr, SectionsTo(nSects))' /\ TakenFound'
  BY <1>1, <1>2 DEF BuildOK, TakenFound
<1> HIDE DEF p, H
<1>18. BitsOK' /\ UntrackedQuiet'
  BY <1>1, <1>2, <1>8, <1>14 DEF BitsOK, UntrackedQuiet, Tracked
<1>19. StoredRemembered'
  BY <1>1, <1>2, <1>13 DEF StoredRemembered, Tracked
<1>20. WrittenKnown'
  <2> SUFFICES ASSUME NEW c \in H, PtrsIn(hdr, c), PageAt(bpp, c) \notin prot'
               PROVE  pht[c] \in dirty \/ DirtyingIn(wr', c)
    BY <1>2 DEF WrittenKnown, Tracked, H
  <2>1. CASE PageAt(bpp, c) = p
    BY <2>1, <1>13, <1>15, <1>16
  <2>2. CASE PageAt(bpp, c) # p
    BY <2>2, <1>1, <1>8, <1>13, <1>14 DEF WrittenKnown, H
  <2> QED
    BY <2>1, <2>2
<1>21. SmallPages'
  <2> SUFFICES ASSUME OneIndexEach(bpp, pht)
               PROVE  /\ \A c \in Blk : pht[c] \in dirty \/ DirtyingIn(wr', c) => c \notin prot'
                      /\ \A c \in Blk : c \in prot' /\ UsedIn(hdr, c) => PtrsIn(hdr, c)
    BY <1>2 DEF SmallPages
  <2>1. \A c \in Blk : PageAt(bpp, c) = c
    BY OneBlockPages DEF OneIndexEach
  <2>2. \A c \in Blk : c \in PageFrom(bpp, p) => c \notin prot'
    BY <2>1, <1>8, <1>15
  <2> QED
    BY <2>2, <1>1, <1>8, <1>13 DEF SmallPages
<1> QED
  BY <1>12, <1>17, <1>18, <1>19, <1>20, <1>21 DEF DirtyIInv

\* The handler sets the dirty bits of the page's blocks one by one.
LEMMA SetDirtyOK ==
  ASSUME DirtyIInv, NEW t \in DOMAIN wr, SetDirty(t)
  PROVE  DirtyIInv'
<1>1. /\ BuildOK /\ Tiled(hdr, SectionsTo(nSects)) /\ BitsOK /\ UntrackedQuiet /\ WritersOK
      /\ StoredRemembered /\ WrittenKnown /\ TakenFound /\ SmallPages
  BY DEF DirtyIInv
<1>2. /\ vdb' = vdb /\ bpp' = bpp /\ pht' = pht /\ on' = on /\ maxSects' = maxSects
      /\ nSects' = nSects /\ watched' = watched /\ prot' = prot
      /\ grungy' = grungy /\ everSet' = everSet /\ taken' = taken /\ looking' = looking
      /\ hdr' = hdr /\ osDirty' = osDirty /\ stored' = stored
  BY DEF SetDirty, dirtyConfig, bits
<1>3. wr \in [DOMAIN wr -> WriterRec] /\ wr[t] \in WriterRec /\ WriterOK(wr[t], hdr, bpp)
  BY <1>1 DEF WritersOK, WriterRec
<1>4. wr[t].at = "dirtying"
  BY DEF SetDirty
<1> DEFINE V(b) == [at |-> IF wr[t].todo = {b} THEN "retry" ELSE "dirtying",
                    b |-> wr[t].b, todo |-> wr[t].todo \ {b}]
<1>5. PICK b \in wr[t].todo : dirty' = dirty \cup {pht[b]} /\ wr' = [wr EXCEPT ![t] = V(b)]
  BY DEF SetDirty
<1>6. b \in Blk
  BY <1>3, <1>5 DEF WriterRec
<1> DEFINE v == V(b)
<1>8. v \in WriterRec /\ WriterOK(v, hdr, bpp)
  BY <1>3, <1>4 DEF WriterRec, WriterOK
<1>9. v.at \in {"retry", "dirtying"} /\ v.todo = wr[t].todo \ {b}
      /\ (v.at = "retry" => wr[t].todo = {b})
  OBVIOUS
<1> HIDE DEF v, V
<1>10. /\ WritersOK' /\ DOMAIN wr' = DOMAIN wr
       /\ \A u \in DOMAIN wr : wr'[u] = IF u = t THEN v ELSE wr[u]
  BY <1>1, <1>2, <1>5, <1>8, WriterMoves DEF v
<1>11. \A c : DirtyingIn(wr, c) => DirtyingIn(wr', c) \/ c = b
  BY <1>4, <1>9, <1>10 DEF DirtyingIn
<1>12. \A c : DirtyingIn(wr', c) => DirtyingIn(wr, c)
  BY <1>4, <1>9, <1>10 DEF DirtyingIn
<1>13. DirtyingIn(wr, b)
  BY <1>4, <1>5 DEF DirtyingIn
<1>14. Tracked
  BY <1>1, <1>4 DEF UntrackedQuiet, NotWriting
<1>15. BuildOK' /\ Tiled(hdr, SectionsTo(nSects))' /\ TakenFound'
  BY <1>1, <1>2 DEF BuildOK, TakenFound
<1>16. BitsOK' /\ UntrackedQuiet'
  BY <1>1, <1>2, <1>5, <1>6, <1>14 DEF BitsOK, UntrackedQuiet, Tracked, IndexSet
<1>17. StoredRemembered' /\ WrittenKnown'
  BY <1>1, <1>2, <1>5, <1>11 DEF StoredRemembered, WrittenKnown, Tracked
<1>18. SmallPages'
  <2> SUFFICES ASSUME OneIndexEach(bpp, pht)
               PROVE  /\ \A c \in Blk : pht[c] \in dirty' \/ DirtyingIn(wr', c) => c \notin prot
                      /\ \A c \in Blk : c \in prot /\ UsedIn(hdr, c) => PtrsIn(hdr, c)
    BY <1>2 DEF SmallPages
  <2>1. \A c \in Blk : pht[c] \in dirty' => pht[c] \in dirty \/ c = b
    BY <1>5, <1>6 DEF OneIndexEach
  <2> QED
    BY <2>1, <1>1, <1>6, <1>12, <1>13 DEF SmallPages
<1> QED
  BY <1>10, <1>15, <1>16, <1>17, <1>18 DEF DirtyIInv

\* GC_protect_heap leaves no block with pointers out, and no other block of an
\* object in if a page is a block.
LEMMA ProtectHeap ==
  ASSUME BuildOK, Tiled(hdr, SectionsTo(nSects))
  PROVE  /\ GC_protect_heap \subseteq {PageAt(bpp, b) : b \in SectionsTo(nSects)}
         /\ \A b \in SectionsTo(nSects) : PtrsIn(hdr, b) => PageAt(bpp, b) \in GC_protect_heap
         /\ bpp = 1 => \A b \in GC_protect_heap : PtrsIn(hdr, b)
<1> DEFINE H == SectionsTo(nSects)
<1>1. /\ Heap = H /\ H \subseteq Blk /\ bpp \in Nat \ {0} /\ nSects \in Nat
      /\ nSects <= Len(Sections)
  BY HeapIs
<1>2. CASE bpp > 1
  <2>1. GC_protect_heap = PagesOf(Heap)
    BY <1>2 DEF GC_protect_heap
  <2>2. GC_protect_heap = {PageAt(bpp, b) : b \in H}
    BY <2>1, <1>1 DEF PagesOf, PageOf, PageAt
  <2> QED
    BY <2>2, <1>1, <1>2
<1>3. CASE bpp = 1
  <2>1. GC_protect_heap = UNION {UNION {s..(s + hdr[s].n - 1) : s \in Spans(k)} : k \in 1..nSects}
    BY <1>3 DEF GC_protect_heap
  <2>2. \A k \in 1..nSects : \A s \in Spans(k) : s \in Blk /\ hdr[s].k = "ptr"
    <3> SUFFICES ASSUME NEW k \in 1..nSects, NEW s \in Spans(k) PROVE s \in Blk /\ hdr[s].k = "ptr"
      OBVIOUS
    <3>1. s \in Sections[k][1]..Sections[k][2] /\ hdr[s].k = "ptr"
      BY DEF Spans
    <3>2. s \in SectionsTo(nSects)
      BY <3>1 DEF SectionsTo
    <3> QED
      BY <3>1, <3>2, <1>1
  <2>3. ASSUME NEW b \in GC_protect_heap PROVE b \in H /\ PtrsIn(hdr, b)
    <3>1. PICK k \in 1..nSects : b \in UNION {s..(s + hdr[s].n - 1) : s \in Spans(k)}
      BY <2>1, <2>3
    <3>2. PICK s \in Spans(k) : b \in s..(s + hdr[s].n - 1)
      BY <3>1
    <3>3. s \in Blk /\ hdr[s].k = "ptr" /\ RealHdr(hdr, s)
      BY <2>2 DEF RealHdr
    <3>4. hdr[s].n \in Nat /\ s..(s + hdr[s].n - 1) \subseteq H
      BY <3>3 DEF Tiled, HdrCell
    <3>5. b \in H /\ b \in Blk /\ s <= b /\ b < s + hdr[s].n
      BY <3>2, <3>3, <3>4, <1>1 DEF Blk
    <3> QED
      BY <3>3, <3>5, KindOfBlock, BlocksCount
  <2>4. ASSUME NEW b \in H, PtrsIn(hdr, b) PROVE b \in GC_protect_heap
    <3>1. PICK s \in 1..b : hdr[s].k = "ptr" /\ s + hdr[s].n > b
      BY <2>4 DEF PtrsIn
    <3>0. b \in Blk
      BY <1>1
    <3>2. b \in Blk /\ s \in Blk /\ RealHdr(hdr, s)
      BY <3>0, <3>1, BlocksCount DEF RealHdr, Blk
    <3>3. hdr[s].n \in Nat /\ hdr[s].n >= 1 /\ s..(s + hdr[s].n - 1) \subseteq H
      BY <3>2 DEF Tiled, HdrCell
    <3>4. s \in H /\ b \in s..(s + hdr[s].n - 1)
      BY <3>1, <3>2, <3>3 DEF Blk
    <3>5. PICK k \in 1..nSects : s \in Sections[k][1]..Sections[k][2]
      BY <3>4 DEF SectionsTo
    <3>6. s \in Spans(k)
      BY <3>1, <3>5 DEF Spans
    <3>7. b \in UNION {r..(r + hdr[r].n - 1) : r \in Spans(k)}
      BY <3>4, <3>6
    <3> QED
      BY <2>1, <3>7
  <2>5. \A b \in H : PageAt(bpp, b) = b
    BY <1>1, <1>3, OneBlockPages
  <2> QED
    BY <2>3, <2>4, <2>5
<1> QED
  BY <1>1, <1>2, <1>3

\* With the bits read, every block that was stored in is in one of them.
BitsRead(unneeded) ==
  /\ grungy' \subseteq IndexSet(pht) /\ everSet \subseteq everSet' /\ everSet' \subseteq IndexSet(pht)
  /\ osDirty' \subseteq osDirty
  /\ vdb = "mprotect" => dirty' = {} /\ prot' = prot \cup GC_protect_heap
  /\ vdb # "mprotect" => dirty' = dirty /\ prot' = prot
  /\ ~unneeded => \A b \in stored : pht[b] \in grungy' /\ (vdb = "proc" => pht[b] \in everSet')
\* What reading the bits, however it is done, makes of the invariant's parts.
LEMMA ReadBitsOK ==
  ASSUME DirtyIInv, on, HandlersDone, NEW unneeded \in BOOLEAN, ReadBits(unneeded)
  PROVE  BitsRead(unneeded)
<1> DEFINE H == SectionsTo(nSects)
<1>1. BuildOK /\ BitsOK /\ StoredRemembered /\ WritersOK
  BY DEF DirtyIInv
<1>2. Heap = H /\ H \subseteq Blk
  BY <1>1, HeapIs
<1>3. /\ stored \subseteq H /\ dirty \subseteq IndexSet(pht) /\ grungy \subseteq IndexSet(pht)
      /\ everSet \subseteq IndexSet(pht)
  BY <1>1 DEF BitsOK
<1>4. AllIndices = IndexSet(pht) /\ \A S : Indices(S) = {pht[b] : b \in S}
  BY DEF AllIndices, Indices, IndexSet
<1>5. \A b : PageOf(b) = PageAt(bpp, b)
  BY DEF PageOf, PageAt
<1>6. vdb \in {"mprotect", "soft", "gww", "proc"}
  BY <1>1 DEF BuildOK
<1>7. CASE vdb = "mprotect"
  <2>1. /\ grungy' = IF unneeded THEN grungy ELSE dirty
        /\ dirty' = {} /\ prot' = prot \cup GC_protect_heap /\ everSet' = everSet /\ osDirty' = osDirty
    BY <1>7 DEF ReadBits
  <2>2. \A b \in stored : pht[b] \in dirty
    <3>1. \A b : ~DirtyingIn(wr, b)
      BY DEF DirtyingIn, HandlersDone, Writer
    <3> QED
      BY <3>1, <1>1, <1>7 DEF StoredRemembered, Tracked
  <2> QED
    BY <2>1, <2>2, <1>3, <1>7 DEF BitsRead
<1>8. \A b \in stored : vdb # "mprotect" => PageOf(b) \in osDirty
  BY <1>1, <1>5 DEF StoredRemembered
<1>9. CASE vdb = "gww"
  <2>1. /\ grungy' = IF unneeded THEN grungy ELSE Indices(GwwDirty)
        /\ osDirty' \subseteq osDirty /\ dirty' = dirty /\ prot' = prot /\ everSet' = everSet
    BY <1>9 DEF ReadBits
  <2>2. stored \subseteq GwwDirty /\ GwwDirty \subseteq Blk
    BY <1>2, <1>3, <1>8, <1>9 DEF GwwDirty
  <2>3. Indices(GwwDirty) \subseteq IndexSet(pht) /\ \A b \in stored : pht[b] \in Indices(GwwDirty)
    BY <2>2 DEF Indices, IndexSet
  <2> QED
    BY <2>1, <2>3, <1>3, <1>9 DEF BitsRead
<1>10. CASE vdb = "soft"
  <2>1. /\ \/ grungy' = IF unneeded THEN grungy ELSE Indices(SoftDirty)
           \/ grungy' = IF unneeded THEN grungy ELSE AllIndices
        /\ osDirty' \subseteq osDirty /\ dirty' = dirty /\ prot' = prot /\ everSet' = everSet
    BY <1>10 DEF ReadBits
  <2>2. stored \subseteq SoftDirty /\ SoftDirty \subseteq Blk
    BY <1>2, <1>3, <1>8, <1>10 DEF SoftDirty
  <2>3. /\ Indices(SoftDirty) \subseteq IndexSet(pht)
        /\ \A b \in stored : pht[b] \in Indices(SoftDirty) /\ pht[b] \in IndexSet(pht)
    BY <2>2 DEF Indices, IndexSet
  <2> QED
    BY <2>1, <2>3, <1>3, <1>4, <1>10 DEF BitsRead
<1>11. CASE vdb = "proc"
  <2>1. /\ \/ grungy' = Indices(ProcDirty) /\ everSet' = everSet \cup grungy'
           \/ grungy' = (IF unneeded THEN {} ELSE AllIndices) /\ everSet' = AllIndices
        /\ osDirty' \subseteq osDirty /\ dirty' = dirty /\ prot' = prot
    BY <1>11 DEF ReadBits, EverAfterFailure
  <2>2. stored \subseteq ProcDirty /\ ProcDirty \subseteq Blk
    BY <1>2, <1>3, <1>8, <1>11 DEF ProcDirty
  <2>3. /\ Indices(ProcDirty) \subseteq IndexSet(pht)
        /\ \A b \in stored : pht[b] \in Indices(ProcDirty) /\ pht[b] \in IndexSet(pht)
    BY <2>2 DEF Indices, IndexSet
  <2> QED
    BY <2>1, <2>3, <1>3, <1>4, <1>11 DEF BitsRead
<1> QED
  BY <1>6, <1>7, <1>9, <1>10, <1>11

\* GC_read_dirty.
LEMMA ReadDirtyOK ==
  ASSUME DirtyIInv, NEW unneeded \in BOOLEAN, GC_read_dirty(unneeded)
  PROVE  DirtyIInv'
<1> DEFINE H == SectionsTo(nSects)
<1>1. /\ BuildOK /\ Tiled(hdr, H) /\ BitsOK /\ UntrackedQuiet /\ WritersOK
      /\ StoredRemembered /\ WrittenKnown /\ TakenFound /\ SmallPages
  BY DEF DirtyIInv
<1>2. /\ vdb' = vdb /\ bpp' = bpp /\ pht' = pht /\ on' = on /\ maxSects' = maxSects
      /\ nSects' = nSects /\ watched' = watched /\ hdr' = hdr /\ wr' = wr
      /\ on /\ HandlersDone /\ stored' = {} /\ looking' = TRUE
      /\ taken' = IF unneeded THEN {} ELSE {b \in stored : HasPtrs(b)}
      /\ ReadBits(unneeded)
  BY DEF GC_read_dirty, dirtyConfig
<1>3. BitsRead(unneeded)
  BY <1>2, ReadBitsOK
<1>4. taken' \subseteq stored /\ (unneeded => taken' = {})
  BY <1>2
<1>5. \A b : ~DirtyingIn(wr, b)
  BY <1>2 DEF DirtyingIn, HandlersDone, Writer
<1>6. /\ GC_protect_heap \subseteq {PageAt(bpp, b) : b \in H}
      /\ \A b \in H : PtrsIn(hdr, b) => PageAt(bpp, b) \in GC_protect_heap
      /\ bpp = 1 => \A b \in GC_protect_heap : PtrsIn(hdr, b)
  BY <1>1, ProtectHeap
<1>7. BuildOK' /\ Tiled(hdr, SectionsTo(nSects))' /\ WritersOK'
  BY <1>1, <1>2 DEF BuildOK, WritersOK
<1>8. BitsOK'
  <2>1. prot' \subseteq {PageAt(bpp, b) : b \in H} /\ dirty' \subseteq IndexSet(pht)
    BY <1>1, <1>3, <1>6 DEF BitsOK, BitsRead
  <2>2. osDirty' \subseteq H /\ taken' \subseteq H
    BY <1>1, <1>3, <1>4 DEF BitsOK, BitsRead
  <2>3. grungy' \subseteq IndexSet(pht) /\ everSet' \subseteq IndexSet(pht)
    BY <1>3 DEF BitsRead
  <2> QED
    BY <2>1, <2>2, <2>3, <1>2 DEF BitsOK
<1>9. UntrackedQuiet'
  BY <1>1, <1>2, <1>3 DEF UntrackedQuiet, Tracked, BitsRead
<1>10. StoredRemembered'
  BY <1>2 DEF StoredRemembered
<1>11. WrittenKnown'
  <2> SUFFICES ASSUME vdb = "mprotect", NEW c \in H, PtrsIn(hdr, c)
               PROVE  PageAt(bpp, c) \in prot'
    BY <1>2 DEF WrittenKnown, Tracked
  <2> QED
    BY <1>3, <1>6 DEF BitsRead
<1>12. TakenFound'
  BY <1>2, <1>3, <1>4 DEF TakenFound, BitsRead
<1>13. SmallPages'
  <2> SUFFICES ASSUME OneIndexEach(bpp, pht)
               PROVE  /\ \A c \in Blk : pht[c] \in dirty' => c \notin prot'
                      /\ \A c \in Blk : c \in prot' /\ UsedIn(hdr, c) => PtrsIn(hdr, c)
    BY <1>2, <1>5 DEF SmallPages
  <2>1. bpp = 1
    BY DEF OneIndexEach
  <2>2. CASE vdb = "mprotect"
    BY <2>1, <2>2, <1>1, <1>3, <1>6 DEF SmallPages, BitsRead
  <2>3. CASE vdb # "mprotect"
    BY <2>3, <1>1, <1>3 DEF SmallPages, BitsRead
  <2> QED
    BY <2>2, <2>3
<1> QED
  BY <1>7, <1>8, <1>9, <1>10, <1>11, <1>12, <1>13 DEF DirtyIInv

\* GC_enable_incremental.
LEMMA EnableIncrementalOK ==
  ASSUME DirtyIInv, GC_enable_incremental
  PROVE  DirtyIInv'
<1> DEFINE H == SectionsTo(nSects)
<1>1. /\ BuildOK /\ Tiled(hdr, H) /\ BitsOK /\ UntrackedQuiet /\ WritersOK
  BY DEF DirtyIInv
<1>2. /\ bpp' = bpp /\ pht' = pht /\ on' = TRUE /\ maxSects' = maxSects /\ ~on
      /\ nSects' = nSects /\ watched' = watched /\ hdr' = hdr /\ wr' = wr
      /\ dirty' = {} /\ osDirty' = {} /\ stored' = {} /\ taken' = {}
      /\ grungy' = grungy /\ looking' = looking
      /\ prot' = IF vdb' = "mprotect" THEN GC_protect_heap ELSE {}
      /\ everSet' = IF stored = {} THEN everSet ELSE AllIndices
      /\ vdb' \in {"mprotect", "soft", "gww", "proc"}
  BY <1>1 DEF GC_enable_incremental, soft_dirty_init_fails, WrittenBefore, BuildOK
<1>3. \A t \in DOMAIN wr : wr[t] = NotWriting
  BY <1>1, <1>2 DEF UntrackedQuiet, Tracked
<1>4. \A b : ~DirtyingIn(wr, b)
  BY <1>3 DEF DirtyingIn, NotWriting
<1>5. /\ GC_protect_heap \subseteq {PageAt(bpp, b) : b \in H}
      /\ \A b \in H : PtrsIn(hdr, b) => PageAt(bpp, b) \in GC_protect_heap
      /\ bpp = 1 => \A b \in GC_protect_heap : PtrsIn(hdr, b)
  BY <1>1, ProtectHeap
<1>6. BuildOK' /\ Tiled(hdr, SectionsTo(nSects))' /\ WritersOK'
  BY <1>1, <1>2 DEF BuildOK, WritersOK
<1>7. BitsOK'
  <2>1. everSet' \subseteq IndexSet(pht)
    BY <1>1, <1>2 DEF BitsOK, AllIndices, Indices, IndexSet
  <2>2. prot' \subseteq {PageAt(bpp, b) : b \in H}
    BY <1>2, <1>5
  <2> QED
    BY <2>1, <2>2, <1>1, <1>2 DEF BitsOK
<1>8. UntrackedQuiet'
  BY <1>2, <1>3 DEF UntrackedQuiet, Tracked
<1>9. StoredRemembered' /\ TakenFound'
  BY <1>2 DEF StoredRemembered, TakenFound
<1>10. WrittenKnown'
  BY <1>2, <1>5 DEF WrittenKnown, Tracked
<1>11. SmallPages'
  BY <1>2, <1>4, <1>5 DEF SmallPages, OneIndexEach
<1> QED
  BY <1>6, <1>7, <1>8, <1>9, <1>10, <1>11 DEF DirtyIInv

\* Every step keeps the invariant.
LEMMA DirtyNextOK ==
  ASSUME DirtyIInv, [DirtyNext]_dirtyVars
  PROVE  DirtyIInv'
<1>1. CASE LookedAt
  BY <1>1, LookedAtOK
<1>2. ASSUME NEW b \in Blk, GC_freehblk(b) PROVE DirtyIInv'
  BY <1>2, FreehblkOK
<1>3. ASSUME NEW b \in Blk, NEW n \in 1..2, NEW kind \in {"ptr", "atomic"}, GC_allochblk(b, n, kind)
      PROVE  DirtyIInv'
  BY <1>3, AllochblkOK
<1>4. ASSUME NEW b \in Blk, GC_reclaim_generic(b) PROVE DirtyIInv'
  BY <1>4, ReclaimGenericOK
<1>5. ASSUME NEW b \in Blk, NEW t \in Writer, Store(t, b) PROVE DirtyIInv'
  BY <1>5, StoreOK DEF Writer
<1>6. ASSUME NEW t \in Writer, GC_write_fault_handler(t) PROVE DirtyIInv'
  BY <1>6, WriteFaultOK DEF Writer
<1>7. ASSUME NEW t \in Writer, SetDirty(t) PROVE DirtyIInv'
  BY <1>7, SetDirtyOK DEF Writer
<1>8. ASSUME NEW unneeded \in BOOLEAN, GC_read_dirty(unneeded) PROVE DirtyIInv'
  BY <1>8, ReadDirtyOK
<1>9. CASE GC_add_to_heap
  BY <1>9, AddToHeapOK
<1>10. CASE GC_enable_incremental
  BY <1>10, EnableIncrementalOK
<1>11. CASE UNCHANGED dirtyVars
  BY <1>11 DEF DirtyIInv, dirtyVars, BuildOK, BitsOK, WritersOK, UntrackedQuiet, StoredRemembered,
               WrittenKnown, TakenFound, SmallPages, Tracked
<1> QED
  BY <1>1, <1>2, <1>3, <1>4, <1>5, <1>6, <1>7, <1>8, <1>9, <1>10, <1>11 DEF DirtyNext

\* The invariant says what DirtySound promises.
LEMMA DirtyIInvSound == DirtyIInv => DirtySound
<1> SUFFICES ASSUME DirtyIInv PROVE DirtySound
  OBVIOUS
<1> DEFINE H == SectionsTo(nSects)
<1>1. /\ BuildOK /\ Tiled(hdr, H) /\ BitsOK /\ UntrackedQuiet /\ WritersOK
      /\ StoredRemembered /\ WrittenKnown /\ TakenFound /\ SmallPages
  BY DEF DirtyIInv
<1>2. Heap = H /\ H \subseteq Blk /\ NBlocks \in Nat
  BY <1>1, HeapIs, BlocksCount
<1>3. \A b : (HasPtrs(b) <=> PtrsIn(hdr, b)) /\ (InUseBlock(b) <=> UsedIn(hdr, b))
             /\ PageOf(b) = PageAt(bpp, b)
  BY DEF HasPtrs, PtrsIn, InUseBlock, UsedIn, PageOf, PageAt
<1>4. DirtyTypeOK
  <2>1. AllIndices = IndexSet(pht)
    BY DEF AllIndices, Indices, IndexSet
  <2>2. PagesOf(Heap) = {PageAt(bpp, b) : b \in H}
    BY <1>2 DEF PagesOf, PageOf, PageAt
  <2>3. ASSUME NEW b \in Heap
        PROVE  Cardinality({s \in 1..b : hdr[s].k \notin {"nil", "fwd"} /\ s + hdr[s].n > b}) = 1
    <3>1. PICK s \in Blk : RealHdr(hdr, s) /\ s <= b /\ b < s + hdr[s].n
      BY <1>1, <1>2 DEF Tiled
    <3>2. b \in Blk
      BY <1>2
    <3>3. \A r \in 1..b : r \in Blk /\ hdr[r] \in HdrCell
      <4>1. 1..b \subseteq Blk
        BY <3>2, <1>2 DEF Blk
      <4> QED
        BY <4>1, <1>1 DEF Tiled
    <3>4. \A r \in 1..b : hdr[r].k \notin {"nil", "fwd"} <=> RealHdr(hdr, r)
      BY <3>3 DEF HdrCell, RealHdr
    <3>5. \A r \in 1..b : RealHdr(hdr, r) /\ r + hdr[r].n > b => r = s
      <4> SUFFICES ASSUME NEW r \in 1..b, RealHdr(hdr, r), r + hdr[r].n > b PROVE r = s
        OBVIOUS
      <4>1. (r < s => r + hdr[r].n <= s) /\ (s < r => s + hdr[s].n <= r)
        BY <3>1, <3>3, <1>1 DEF Tiled
      <4>2. hdr[r].n \in Nat /\ hdr[s].n \in Nat
        BY <3>3, <1>1 DEF Tiled, HdrCell
      <4> QED
        BY <4>1, <4>2, <3>1, <3>2 DEF Blk
    <3>6. s \in 1..b
      BY <3>1, <3>2 DEF Blk
    <3>7. {r \in 1..b : hdr[r].k \notin {"nil", "fwd"} /\ r + hdr[r].n > b} = {s}
      BY <3>1, <3>4, <3>5, <3>6
    <3> QED
      BY <3>7, FS_Singleton
  <2> QED
    BY <2>1, <2>2, <2>3, <1>1, <1>2 DEF DirtyTypeOK, BuildOK, BitsOK
<1>5. StoresFound /\ EverFound
  BY <1>1 DEF StoresFound, EverFound, TakenFound, GC_page_was_dirty, GC_page_was_ever_dirty
<1>6. UnprotectedDirty
  BY <1>1, <1>2, <1>3 DEF UnprotectedDirty, WrittenKnown, Tracked, DirtyingIn, Writer
<1>7. NoForeignFault
  BY <1>1 DEF NoForeignFault, WritersOK, Writer
<1>8. PtrfreeNotProtectedSmall
  <2> SUFFICES ASSUME \A b, c \in Blk : pht[b] = pht[c] => b = c, bpp = 1,
                      NEW b \in Blk, UsedIn(hdr, b), PageAt(bpp, b) \in prot
               PROVE  PtrsIn(hdr, b)
    BY <1>3 DEF PtrfreeNotProtectedSmall, PtrfreeNotProtected
  <2>1. PageAt(bpp, b) = b
    BY OneBlockPages
  <2> QED
    BY <2>1, <1>1 DEF SmallPages, OneIndexEach
<1> QED
  BY <1>4, <1>5, <1>6, <1>7, <1>8 DEF DirtySound

\* Whatever finds out which blocks were written (protection, soft-dirty bits,
\* write watches, /proc), with pages of any size, hash tables of any quality and
\* any number of writers: no store is missed, and every fault is served.
THEOREM DirtyBitsSound == DirtySpec => []DirtySound
<1>1. DirtyInit => DirtyIInv
  BY DirtyInitOK
<1>2. DirtyIInv /\ [DirtyNext]_dirtyVars => DirtyIInv'
  BY DirtyNextOK
<1>3. DirtyIInv => DirtySound
  BY DirtyIInvSound
<1> QED
  BY <1>1, <1>2, <1>3, PTL DEF DirtySpec

(***************************************************************************)
(* Pagemap.  The scan of the regions.                                      *)
(***************************************************************************)

\* Where the scan and the buffer are.
ScanOK ==
  /\ regions \in Regions /\ soft \subseteq 0..(NPages - 1) /\ found \subseteq 0..(NPages - 1)
  /\ region \in 1..(Len(regions) + 1) /\ vaddr \in Nat
  /\ bufPos \in Nat /\ offset \in Nat /\ strayed \in BOOLEAN
  /\ bufData \in Seq(Nat) /\ bufLen = Len(bufData) /\ bufLen <= BufSize
\* The buffer is what it is taken for, and the file's offset is where it ends.
BufferOK == ~strayed => /\ \A k \in 1..bufLen : bufData[k] = bufPos + k - 1
                        /\ bufLen = 0 \/ offset = bufPos + bufLen
\* A page that a region has a word of.
OfRegion(p, k) == regions[k][1] < (p + 1) * PageWords /\ regions[k][2] > p * PageWords
\* The scan is as far into a page as its region began, and the dirty pages of
\* this region below it, and those of earlier regions, were found.
ScannedFound ==
  /\ region <= Len(regions) => vaddr % PageWords = regions[region][1] % PageWords
  /\ ~strayed => \A p \in soft : \A k \in 1..Len(regions) :
       (OfRegion(p, k) /\ (k < region \/ (k = region /\ p < PageNo(vaddr)))) => p \in found
PagemapIInv == ScanOK /\ BufferOK /\ OnlyDirtyFound

\* The pages of addresses that are whole pages apart.
LEMMA PagesOn ==
  ASSUME NEW m \in Nat \ {0}, NEW a \in Nat, NEW k \in Nat
  PROVE  (a + k * m) \div m = a \div m + k /\ (a + k * m) % m = a % m
<1> DEFINE q == a \div m
           r == a % m
           x == a + k * m
<1>1. a = m * q + r /\ q \in Int /\ r \in 0..(m - 1)
  BY Quotient
<1>2. x \in Int /\ x = m * (q + k) + r /\ q + k \in Int
  BY <1>1
<1> HIDE DEF x, q, r
<1>3. q + k = x \div m /\ r = x % m
  BY <1>1, <1>2, QuotientUnique
<1> QED
  BY <1>3 DEF x, q, r

\* An address lies in its page.
LEMMA PageBounds ==
  ASSUME NEW m \in Nat \ {0}, NEW a \in Int
  PROVE  /\ a \div m \in Int /\ m * (a \div m) <= a /\ a < m * (a \div m + 1)
         /\ a \in Nat => a \div m \in Nat
<1> DEFINE q == a \div m
           r == a % m
<1>1. a = m * q + r /\ q \in Int /\ r \in 0..(m - 1)
  BY Quotient
<1> HIDE DEF q, r
<1>2. m * (q + 1) = m * q + m
  BY <1>1
<1>3. ASSUME a \in Nat, q <= -1 PROVE FALSE
  <2>1. m * q <= m * (-1)
    BY <1>1, <1>3
  <2> QED
    BY <2>1, <1>1, <1>3
<1>4. m * q <= a /\ a < m * (q + 1)
  BY <1>1, <1>2
<1> QED
  BY <1>1, <1>3, <1>4 DEF q

\* Pages are in the order of their addresses.
LEMMA PageOrder ==
  ASSUME NEW m \in Nat \ {0}, NEW a \in Int, NEW p \in Int
  PROVE  /\ a < m * p <=> a \div m < p
         /\ m * p <= a <=> p <= a \div m
<1> DEFINE q == a \div m
<1>1. q \in Int /\ m * q <= a /\ a < m * (q + 1)
  BY PageBounds
<1> HIDE DEF q
<1>2. ASSUME q < p PROVE a < m * p
  <2>1. m * (q + 1) <= m * p
    BY <1>1, <1>2
  <2> QED
    BY <2>1, <1>1
<1>3. ASSUME p <= q PROVE m * p <= a
  <2>1. m * p <= m * q
    BY <1>1, <1>3
  <2> QED
    BY <2>1, <1>1
<1>4. m * p \in Int
  OBVIOUS
<1>5. /\ a < m * p <=> q < p
      /\ m * p <= a <=> p <= q
  BY <1>1, <1>2, <1>3, <1>4
<1> QED
  BY <1>5 DEF q

\* Min of two numbers.
LEMMA MinOfTwo ==
  ASSUME NEW a \in Int, NEW b \in Int
  PROVE  Min({a, b}) \in {a, b} /\ Min({a, b}) <= a /\ Min({a, b}) <= b
<1>1. \E x \in {a, b} : \A y \in {a, b} : x <= y
  <2>1. CASE a <= b
    BY <2>1
  <2>2. CASE ~(a <= b)
    BY <2>2
  <2> QED
    BY <2>1, <2>2
<1> DEFINE z == CHOOSE x \in {a, b} : \A y \in {a, b} : x <= y
<1>2. z \in {a, b} /\ \A y \in {a, b} : z <= y
  BY <1>1
<1>3. Min({a, b}) = z
  BY DEF Min
<1> HIDE DEF z
<1> QED
  BY <1>2, <1>3

\* The region that is scanned.
LEMMA InRegion ==
  ASSUME ScanOK, region <= Len(regions)
  PROVE  /\ region \in 1..Len(regions) /\ regions[region] \in Nat \X Nat
         /\ Limit \in Nat /\ Limit <= NPages * PageWords
         /\ PageWords \in Nat \ {0} /\ Fpos \in Nat
         /\ \A k \in 1..Len(regions) : regions[k][1] \in Nat /\ regions[k][2] \in Nat
<1>1. regions \in Seq(Nat \X Nat) /\ \A k \in 1..Len(regions) : regions[k][2] <= NPages * PageWords
  BY PagemapAssumption DEF ScanOK
<1>2. region \in 1..Len(regions)
  BY <1>1 DEF ScanOK
<1>3. \A k \in 1..Len(regions) : regions[k] \in Nat \X Nat
  BY <1>1
<1>4. PageWords \in Nat \ {0}
  BY PagemapAssumption
<1>5. Fpos \in Nat
  BY <1>4, PageBounds DEF ScanOK, Fpos, PageNo
<1> QED
  BY <1>1, <1>2, <1>3, <1>4, <1>5 DEF Limit

\* How many entries are wanted: at least one, and the last is of a page that
\* the region has a word of.
LEMMA ReadLenOK ==
  ASSUME ScanOK, region <= Len(regions), vaddr < Limit
  PROVE  ReadLen \in Nat \ {0} /\ \A k \in 0..(ReadLen - 1) : vaddr + k * PageWords < Limit
<1> DEFINE x == Limit - vaddr + PageWords - 1
           q == x \div PageWords
<1>0. /\ Limit \in Nat /\ PageWords \in Nat \ {0} /\ vaddr \in Nat
  BY InRegion DEF ScanOK
<1>1. x \in Int /\ PageWords * 1 <= x
  BY <1>0
<1>2. q \in Int /\ PageWords * q <= x
  <2> HIDE DEF x
  <2> QED
    BY <1>0, <1>1, PageBounds
<1>3. 1 <= q
  <2> HIDE DEF x
  <2> QED
    BY <1>0, <1>1, PageOrder
<1>4. ReadLen = q
  BY DEF ReadLen
<1> HIDE DEF q
<1>5. ASSUME NEW k \in 0..(q - 1) PROVE vaddr + k * PageWords < Limit
  <2>1. PageWords * k <= PageWords * (q - 1)
    BY <1>0, <1>2, <1>5
  <2>2. PageWords * (q - 1) = PageWords * q - PageWords
    BY <1>0, <1>2
  <2>3. k * PageWords = PageWords * k /\ k * PageWords \in Int
    BY <1>0, <1>2
  <2> QED
    BY <2>1, <2>2, <2>3, <1>2, <1>0 DEF x
<1> QED
  BY <1>2, <1>3, <1>4, <1>5

\* What the scan looks at in one go are pages of the region, one after another.
LEMMA AvailableOK ==
  ASSUME ScanOK, region <= Len(regions), vaddr < Limit, InBuffer
  PROVE  /\ Available \in Nat \ {0} /\ Available <= bufPos + bufLen - Fpos
         /\ \A k \in 0..(Available - 1) :
              /\ PageNo(vaddr + k * PageWords) = Fpos + k
              /\ Fpos + k \in 0..(NPages - 1)
              /\ Fpos + k - bufPos + 1 \in 1..bufLen
<1>1. /\ Limit \in Nat /\ PageWords \in Nat \ {0} /\ vaddr \in Nat /\ Fpos \in Nat
      /\ bufPos \in Nat /\ bufLen \in Nat /\ Limit <= NPages * PageWords /\ NPages \in Nat
  BY InRegion, PagemapAssumption DEF ScanOK
<1>2. ReadLen \in Nat \ {0} /\ \A k \in 0..(ReadLen - 1) : vaddr + k * PageWords < Limit
  BY ReadLenOK
<1> DEFINE n == bufPos + bufLen - Fpos
<1>3. n \in Int /\ n >= 1
  BY <1>1 DEF InBuffer
<1>4. Available \in {n, ReadLen} /\ Available <= n /\ Available <= ReadLen
  <2>1. Available = Min({n, ReadLen})
    BY DEF Available
  <2>2. n \in Int /\ ReadLen \in Int
    BY <1>2, <1>3
  <2> HIDE DEF n
  <2> QED
    BY <2>1, <2>2, MinOfTwo, Zenon
<1>5. Available \in Nat \ {0}
  BY <1>2, <1>3, <1>4
<1>6. ASSUME NEW k \in 0..(Available - 1)
      PROVE  /\ PageNo(vaddr + k * PageWords) = Fpos + k
             /\ Fpos + k \in 0..(NPages - 1)
             /\ Fpos + k - bufPos + 1 \in 1..bufLen
  <2>1. k \in Nat /\ k <= ReadLen - 1 /\ k <= n - 1
    BY <1>2, <1>3, <1>4, <1>5, <1>6
  <2>2. PageNo(vaddr + k * PageWords) = Fpos + k
    BY <1>1, <2>1, PagesOn DEF PageNo, Fpos
  <2> DEFINE a == vaddr + k * PageWords
  <2>3. a \in Nat /\ a < Limit
    <3>1. k * PageWords \in Nat
      BY <1>1, <2>1
    <3>2. k \in 0..(ReadLen - 1)
      BY <1>2, <2>1
    <3>3. a < Limit
      BY <3>2, <1>2
    <3> QED
      BY <3>1, <3>3, <1>1
  <2>4. a < PageWords * NPages
    <3>1. NPages * PageWords = PageWords * NPages /\ NPages * PageWords \in Int
      BY <1>1
    <3> QED
      BY <2>3, <3>1, <1>1
  <2>5. PageNo(a) = Fpos + k
    BY <2>2
  <2> HIDE DEF a
  <2>6. a \div PageWords < NPages
    BY <2>3, <2>4, <1>1, PageOrder
  <2>7. Fpos + k \in 0..(NPages - 1)
    BY <2>5, <2>6, <2>1, <1>1 DEF PageNo
  <2>8. Fpos + k - bufPos + 1 \in 1..bufLen
    BY <2>1, <1>1 DEF InBuffer
  <2> QED
    BY <2>2, <2>7, <2>8
<1> QED
  BY <1>4, <1>5, <1>6

\* What soft_set_grungy_pages adds to GC_grungy_pages.
LEMMA FoundThen ==
  ASSUME ScanOK, soft_set_grungy_pages
  PROVE  /\ found' \subseteq 0..(NPages - 1)
         /\ found' = found \cup {Fpos + k : k \in {l \in 0..(Available - 1) :
                                                     bufData[Fpos + l - bufPos + 1] \in soft}}
<1>1. /\ region <= Len(regions) /\ vaddr < Limit /\ InBuffer
      /\ found' = found \cup {PageNo(a) : a \in {v \in Visited : PageEntry(v) \in soft}}
  BY DEF soft_set_grungy_pages
<1> DEFINE D == 0..(Available - 1)
           new == {PageNo(a) : a \in {v \in Visited : PageEntry(v) \in soft}}
           looked == {Fpos + k : k \in {l \in D : bufData[Fpos + l - bufPos + 1] \in soft}}
<1>2. \A k \in D : PageNo(vaddr + k * PageWords) = Fpos + k /\ Fpos + k \in 0..(NPages - 1)
  BY <1>1, AvailableOK
<1>3. \A k \in D : PageEntry(vaddr + k * PageWords) = bufData[Fpos + k - bufPos + 1]
  <2> TAKE k \in D
  <2> DEFINE a == vaddr + k * PageWords
             f == PageNo(a)
  <2>1. f = Fpos + k
    BY <1>2
  <2>2. PageEntry(a) = bufData[f - bufPos + 1]
    BY DEF PageEntry
  <2> HIDE DEF a, f
  <2>3. Fpos \in Nat /\ bufPos \in Nat /\ k \in Int
    BY <1>1, InRegion DEF ScanOK
  <2>4. f - bufPos + 1 = Fpos + k - bufPos + 1
    BY <2>1, <2>3
  <2>5. PageEntry(a) = bufData[Fpos + k - bufPos + 1]
    BY <2>2, <2>4
  <2> QED
    BY <2>5 DEF a
<1>4. Visited = {vaddr + k * PageWords : k \in D}
  BY DEF Visited
<1> HIDE DEF D
<1>5. new \subseteq looked
  <2> SUFFICES ASSUME NEW p \in new PROVE p \in looked
    OBVIOUS
  <2>1. PICK a \in Visited : PageEntry(a) \in soft /\ p = PageNo(a)
    OBVIOUS
  <2>2. PICK k \in D : a = vaddr + k * PageWords
    BY <2>1, <1>4
  <2> QED
    BY <2>1, <2>2, <1>2, <1>3
<1>6. looked \subseteq new
  <2> SUFFICES ASSUME NEW k \in D, bufData[Fpos + k - bufPos + 1] \in soft PROVE Fpos + k \in new
    OBVIOUS
  <2>1. vaddr + k * PageWords \in Visited /\ PageEntry(vaddr + k * PageWords) \in soft
    BY <1>3, <1>4
  <2>2. PageNo(vaddr + k * PageWords) = Fpos + k
    BY <1>2
  <2> QED
    BY <2>1, <2>2
<1>7. found' = found \cup looked
  BY <1>1, <1>5, <1>6
<1>8. looked \subseteq 0..(NPages - 1)
  BY <1>2
<1> HIDE DEF looked, new
<1>9. found' \subseteq 0..(NPages - 1)
  BY <1>7, <1>8 DEF ScanOK
<1> QED
  BY <1>7, <1>9 DEF D, looked

\* soft_set_grungy_pages keeps the invariant.
LEMMA GrungyPagesOK ==
  ASSUME PagemapIInv, soft_set_grungy_pages
  PROVE  PagemapIInv'
<1> USE DEF PagemapIInv
<1>1. /\ region <= Len(regions) /\ vaddr < Limit /\ InBuffer
      /\ vaddr' = vaddr + Available * PageWords
      /\ UNCHANGED <<regions, soft, region, bufPos, bufLen, bufData, offset, strayed>>
  BY DEF soft_set_grungy_pages
<1>2. Available \in Nat \ {0} /\ PageWords \in Nat \ {0}
  BY <1>1, AvailableOK, InRegion
<1>3. vaddr' \in Nat
  <2>1. Available * PageWords \in Nat
    BY <1>2
  <2> QED
    BY <2>1, <1>1 DEF ScanOK
<1>4. ScanOK'
  BY <1>1, <1>3, FoundThen DEF ScanOK
<1>5. BufferOK'
  BY <1>1 DEF BufferOK
<1>6. OnlyDirtyFound'
  <2> SUFFICES ASSUME ~strayed PROVE found' \subseteq soft
    BY <1>1 DEF OnlyDirtyFound
  <2>1. found \subseteq soft /\ \A k \in 1..bufLen : bufData[k] = bufPos + k - 1
    BY DEF OnlyDirtyFound, BufferOK
  <2> SUFFICES ASSUME NEW k \in 0..(Available - 1), bufData[Fpos + k - bufPos + 1] \in soft
               PROVE  Fpos + k \in soft
    BY <2>1, FoundThen
  <2>2. Fpos + k - bufPos + 1 \in 1..bufLen /\ Fpos + k \in 0..(NPages - 1)
    BY <1>1, AvailableOK
  <2>3. bufData[Fpos + k - bufPos + 1] = bufPos + (Fpos + k - bufPos + 1) - 1
    BY <2>1, <2>2
  <2>4. bufPos \in Nat /\ Fpos \in Nat
    BY <1>1, InRegion DEF ScanOK
  <2>5. bufPos + (Fpos + k - bufPos + 1) - 1 = Fpos + k
    BY <2>4
  <2> QED
    BY <2>3, <2>5
<1> QED
  BY <1>4, <1>5, <1>6

\* The next region keeps the invariant.
LEMMA NextRegionOK ==
  ASSUME PagemapIInv, NextRegion
  PROVE  PagemapIInv'
<1> USE DEF PagemapIInv
<1>1. /\ region <= Len(regions) /\ region' = region + 1
      /\ vaddr' = IF region < Len(regions) THEN regions[region + 1][1] ELSE Done
      /\ UNCHANGED <<regions, soft, bufPos, bufLen, bufData, offset, found, strayed>>
  BY DEF NextRegion
<1>2. Done \in Nat
  <2>1. NPages \in Nat /\ PageWords \in Nat
    BY PagemapAssumption
  <2> QED
    BY <2>1 DEF Done
<1>3. region \in 1..Len(regions) /\ \A k \in 1..Len(regions) : regions[k][1] \in Nat
  BY <1>1, InRegion
<1>4. vaddr' \in Nat
  <2>1. region < Len(regions) => region + 1 \in 1..Len(regions)
    BY <1>3
  <2> QED
    BY <2>1, <1>1, <1>2, <1>3
<1>5. region' \in 1..(Len(regions) + 1)
  BY <1>1, <1>3
<1>6. ScanOK'
  BY <1>1, <1>4, <1>5 DEF ScanOK
<1> QED
  BY <1>1, <1>6 DEF BufferOK, OnlyDirtyFound

\* A read fills the buffer with what is at the file's offset.
LEMMA FillOK ==
  ASSUME ScanOK, NEW pos \in Nat, NEW off \in Nat, NEW res \in 1..BufSize, Fill(pos, off, res),
         UNCHANGED <<regions, soft, region, vaddr, found>>, strayed' \in BOOLEAN,
         ~strayed' => off = pos
  PROVE  ScanOK' /\ BufferOK'
<1>1. BufSize \in Nat \ {0}
  BY PagemapAssumption
<1>2. /\ bufPos' = pos /\ bufLen' = res /\ offset' = off + res
      /\ bufData' = [k \in 1..res |-> off + k - 1]
  BY DEF Fill
<1>3. bufData' \in Seq(Nat) /\ Len(bufData') = res
  <2>1. res \in Nat /\ \A k \in 1..res : off + k - 1 \in Nat
    BY <1>1
  <2> QED
    BY <2>1, <1>2
<1>4. ScanOK'
  BY <1>1, <1>2, <1>3 DEF ScanOK
<1>5. BufferOK'
  BY <1>1, <1>2 DEF BufferOK
<1> QED
  BY <1>4, <1>5

\* As much is asked for as fits into the buffer.
LEMMA CountOK ==
  ASSUME ScanOK, region <= Len(regions), vaddr < Limit, NEW pos \in Nat
  PROVE  Count(pos) \in Int /\ Count(pos) <= BufSize
<1>1. BufSize \in Nat \ {0}
  BY PagemapAssumption
<1>2. ReadLen \in Nat /\ Fpos \in Nat
  BY ReadLenOK, InRegion
<1>3. ReadLen + Fpos - pos \in Int
  BY <1>2
<1>4. Min({ReadLen + Fpos - pos, BufSize}) \in Int /\ Min({ReadLen + Fpos - pos, BufSize}) <= BufSize
  <2> DEFINE x == ReadLen + Fpos - pos
  <2>1. x \in Int
    BY <1>3
  <2> HIDE DEF x
  <2>2. Min({x, BufSize}) \in {x, BufSize} /\ Min({x, BufSize}) <= BufSize
    <3>1. BufSize \in Int
      BY <1>1
    <3> QED
      BY <2>1, <3>1, MinOfTwo, Zenon
  <2>3. Min({x, BufSize}) \in Int /\ Min({x, BufSize}) <= BufSize
    BY <2>1, <2>2, <1>1
  <2> QED
    BY <2>3 DEF x
<1> QED
  BY <1>1, <1>4 DEF Count

\* pagemap_buffered_read keeps the invariant: without a stray read the buffer
\* ends at the file's offset, so that leaving out the lseek is right.
LEMMA BufferedReadOK ==
  ASSUME PagemapIInv, pagemap_buffered_read
  PROVE  PagemapIInv'
<1> USE DEF PagemapIInv
<1>1. /\ region <= Len(regions) /\ vaddr < Limit /\ ~strayed
      /\ UNCHANGED <<regions, soft, region, vaddr, found>>
  BY DEF pagemap_buffered_read
<1>2. Fpos \in Nat /\ BufAlign \in Nat \ {0} /\ BufSize \in Nat
  BY <1>1, InRegion, PagemapAssumption
<1>3. Aligned \in Nat
  <2> DEFINE q == Fpos \div BufAlign
             r == Fpos % BufAlign
  <2>1. Fpos = BufAlign * q + r /\ r \in 0..(BufAlign - 1) /\ q \in Nat
    <3>1. Fpos \in Int
      BY <1>2
    <3> QED
      BY <1>2, <3>1, Quotient, PageBounds
  <2>2. Aligned = Fpos - r
    BY DEF Aligned
  <2> HIDE DEF q, r
  <2>3. BufAlign * q \in Nat
    BY <2>1, <1>2
  <2> QED
    BY <2>1, <2>2, <2>3, <1>2
<1>4. Seek(Aligned, offset) = Aligned
  BY <1>1, <1>3 DEF Seek, BufferOK
<1>5. PICK off \in {Seek(Aligned, offset)}, res \in 1..Count(Aligned) :
       \/ res > Fpos - Aligned /\ Fill(Aligned, off, res) /\ UNCHANGED strayed
       \/ /\ res <= Fpos - Aligned
          /\ \E again \in {Seek(Fpos, off + res)}, more \in 1..Count(Fpos) :
               Fill(Fpos, again, more) /\ strayed' = (again # Fpos)
  BY DEF pagemap_buffered_read
<1>6. off = Aligned /\ res \in 1..BufSize
  BY <1>4, <1>5, <1>1, <1>2, <1>3, CountOK
<1>7. ScanOK' /\ BufferOK'
  <2>1. CASE Fill(Aligned, off, res) /\ UNCHANGED strayed
    <3>1. strayed' \in BOOLEAN
      BY <2>1 DEF ScanOK
    <3>2. off \in Nat /\ (~strayed' => off = Aligned)
      BY <1>3, <1>6
    <3> QED
      BY <2>1, <3>1, <3>2, <1>1, <1>3, <1>6, FillOK
  <2>2. CASE \E again \in {Seek(Fpos, off + res)}, more \in 1..Count(Fpos) :
               Fill(Fpos, again, more) /\ strayed' = (again # Fpos)
    <3>1. PICK again \in {Seek(Fpos, off + res)}, more \in 1..Count(Fpos) :
            Fill(Fpos, again, more) /\ strayed' = (again # Fpos)
      BY <2>2
    <3>2. more \in 1..BufSize
      BY <3>1, <1>1, <1>2, CountOK
    <3>3. off + res \in Nat
      BY <1>6, <1>3, <1>2
    <3>4. again \in Nat
      BY <3>1, <3>3, <1>2 DEF Seek
    <3> QED
      BY <3>1, <3>2, <3>4, <1>1, <1>2, FillOK
  <2> QED
    BY <1>5, <2>1, <2>2
<1>8. OnlyDirtyFound'
  BY <1>1 DEF OnlyDirtyFound
<1> QED
  BY <1>7, <1>8

\* Initially the invariant holds.
LEMMA PagemapInitOK ==
  ASSUME PagemapInit
  PROVE  PagemapIInv
<1>1. regions \in Seq(Nat \X Nat) /\ regions # <<>>
  BY PagemapAssumption DEF PagemapInit
<1>2. 1 \in 1..Len(regions)
  BY <1>1
<1>3. regions[1][1] \in Nat
  BY <1>1, <1>2
<1>4. <<>> \in Seq(Nat) /\ Len(<<>>) = 0 /\ 0 <= BufSize
  BY PagemapAssumption
<1> QED
  <2>1. ScanOK
    <3>1. region \in 1..(Len(regions) + 1)
      BY <1>1, <1>2 DEF PagemapInit
    <3>2. bufData \in Seq(Nat) /\ bufLen = Len(bufData) /\ bufLen <= BufSize
      BY <1>4 DEF PagemapInit
    <3> QED
      BY <3>1, <3>2, <1>3 DEF PagemapInit, ScanOK
  <2>2. BufferOK
    BY DEF PagemapInit, BufferOK
  <2>3. OnlyDirtyFound
    BY DEF PagemapInit, OnlyDirtyFound
  <2> QED
    BY <2>1, <2>2, <2>3 DEF PagemapIInv

\* Where a region begins, no page of it is below the scan.
LEMMA NoneBelow ==
  ASSUME NEW m \in Nat \ {0}, NEW a \in Nat, NEW p \in Nat, a < (p + 1) * m
  PROVE  ~(p < a \div m)
<1>1. a < m * (p + 1) /\ p + 1 \in Int
  OBVIOUS
<1>2. a \div m < p + 1
  BY <1>1, PageOrder
<1>3. a \div m \in Int
  BY PageBounds
<1> QED
  BY <1>2, <1>3

\* Where a region is done, all of its pages are below the scan.
LEMMA AllBelow ==
  ASSUME NEW m \in Nat \ {0}, NEW b \in Nat, NEW e \in Nat, NEW a \in Nat, NEW p \in Nat,
         b % m <= (e - 1) % m, a % m = b % m, a >= e, e > p * m
  PROVE  p < a \div m
<1> DEFINE q == a \div m
           r == a % m
           x == e - 1
           z == x \div m
           y == x % m
<1>0. x \in Int
  OBVIOUS
<1>1. a = m * q + r /\ q \in Int /\ r \in 0..(m - 1)
  BY Quotient
<1>2. x = m * z + y /\ z \in Int /\ y \in 0..(m - 1)
  BY <1>0, Quotient
<1>3. r <= y
  OBVIOUS
<1>4. m * p <= x
  OBVIOUS
<1>5. a > x
  OBVIOUS
<1>6. p <= z
  <2> HIDE DEF x
  <2> QED
    BY <1>0, <1>4, PageOrder
<1> HIDE DEF q, r, x, z, y
<1>7. z < q
  <2> SUFFICES ASSUME q - z <= 0 PROVE FALSE
    BY <1>1, <1>2
  <2>1. m * (q - z) <= 0
    BY <1>1, <1>2
  <2>2. m * (q - z) = m * q - m * z
    BY <1>1, <1>2
  <2> QED
    BY <2>1, <2>2, <1>1, <1>2, <1>3, <1>5
<1>8. p < q
  BY <1>6, <1>7, <1>1, <1>2
<1> QED
  BY <1>8 DEF q

\* The dirty pages among those looked at are found.
LEMMA GrungyPagesFound ==
  ASSUME PagemapIInv, ScannedFound, soft_set_grungy_pages
  PROVE  ScannedFound'
<1>0. ScanOK /\ BufferOK
  BY DEF PagemapIInv
<1>1. /\ region <= Len(regions) /\ vaddr < Limit /\ InBuffer
      /\ vaddr' = vaddr + Available * PageWords
      /\ UNCHANGED <<regions, soft, region, bufPos, bufLen, bufData, offset, strayed>>
  BY DEF soft_set_grungy_pages
<1>2. /\ Available \in Nat \ {0} /\ PageWords \in Nat \ {0} /\ vaddr \in Nat /\ Fpos \in Nat
      /\ bufPos \in Nat
  BY <1>0, <1>1, AvailableOK, InRegion DEF ScanOK
<1>3. PageNo(vaddr') = Fpos + Available /\ vaddr' % PageWords = vaddr % PageWords
  BY <1>1, <1>2, PagesOn DEF PageNo, Fpos
<1>4. region <= Len(regions) => vaddr' % PageWords = regions[region][1] % PageWords
  BY <1>3 DEF ScannedFound
<1>5. ASSUME ~strayed, NEW p \in soft, NEW k \in 1..Len(regions), OfRegion(p, k),
             k < region \/ (k = region /\ p < PageNo(vaddr'))
      PROVE  p \in found'
  <2>1. found \subseteq found'
    BY <1>0, FoundThen
  <2>2. CASE k < region \/ (k = region /\ p < PageNo(vaddr))
    BY <2>1, <2>2, <1>5 DEF ScannedFound
  <2>3. CASE ~(p < PageNo(vaddr)) /\ p < PageNo(vaddr')
    <3>1. p \in Nat
      BY <1>0 DEF ScanOK
    <3>2. p >= Fpos /\ p < Fpos + Available
      BY <2>3, <3>1, <1>2, <1>3 DEF Fpos
    <3> DEFINE l == p - Fpos
    <3>3. l \in 0..(Available - 1) /\ Fpos + l = p
      BY <3>1, <3>2, <1>2
    <3> HIDE DEF l
    <3>4. Fpos + l - bufPos + 1 \in 1..bufLen
      BY <3>3, <1>0, <1>1, AvailableOK
    <3>5. bufData[Fpos + l - bufPos + 1] = bufPos + (Fpos + l - bufPos + 1) - 1
      BY <3>4, <1>0, <1>5 DEF BufferOK
    <3>6. bufPos + (Fpos + l - bufPos + 1) - 1 = Fpos + l
      BY <1>2, <3>3
    <3>7. bufData[Fpos + l - bufPos + 1] \in soft
      BY <3>3, <3>5, <3>6
    <3> QED
      BY <3>3, <3>7, <1>0, FoundThen
  <2> QED
    BY <1>5, <2>2, <2>3
<1>6. \A p, k : OfRegion(p, k)' <=> OfRegion(p, k)
  BY <1>1 DEF OfRegion
<1> QED
  BY <1>1, <1>4, <1>5, <1>6 DEF ScannedFound, PageNo

\* When the scan is past a region, all its pages are below it.
LEMMA NextRegionFound ==
  ASSUME LastPagesVisited, PagemapIInv, ScannedFound, NextRegion
  PROVE  ScannedFound'
<1>0. ScanOK
  BY DEF PagemapIInv
<1>1. /\ region <= Len(regions) /\ vaddr >= Limit /\ region' = region + 1
      /\ vaddr' = IF region < Len(regions) THEN regions[region + 1][1] ELSE Done
      /\ UNCHANGED <<regions, soft, bufPos, bufLen, bufData, offset, found, strayed>>
  BY DEF NextRegion
<1>2. /\ region \in 1..Len(regions) /\ PageWords \in Nat \ {0} /\ vaddr \in Nat /\ Limit \in Nat
      /\ \A k \in 1..Len(regions) : regions[k][1] \in Nat /\ regions[k][2] \in Nat
  BY <1>0, <1>1, InRegion DEF ScanOK
<1>3. region' <= Len(regions) => /\ vaddr' = regions[region'][1]
                                 /\ region' \in 1..Len(regions)
  BY <1>1, <1>2
<1>4. ASSUME ~strayed, NEW p \in soft, NEW k \in 1..Len(regions), OfRegion(p, k),
             k < region' \/ (k = region' /\ p < PageNo(vaddr'))
      PROVE  p \in found
  <2>0. p \in Nat
    BY <1>0 DEF ScanOK
  <2>1. CASE k < region
    BY <2>1, <1>4 DEF ScannedFound
  <2>2. CASE k = region
    <3>1. /\ regions[region][1] % PageWords <= (Limit - 1) % PageWords
          /\ vaddr % PageWords = regions[region][1] % PageWords
      BY <1>0, <1>1, <1>2 DEF LastPagesVisited, ScanOK, ScannedFound, Limit
    <3>2. Limit > p * PageWords
      BY <1>4, <2>2 DEF OfRegion, Limit
    <3>3. regions[region][1] \in Nat
      BY <1>2
    <3>4. p < vaddr \div PageWords
      BY <2>0, <3>1, <3>2, <3>3, <1>1, <1>2, AllBelow
    <3> QED
      BY <3>4, <2>2, <1>4 DEF ScannedFound, PageNo
  <2>3. CASE k = region' /\ p < PageNo(vaddr')
    <3>1. vaddr' = regions[k][1] /\ regions[k][1] \in Nat
      BY <2>3, <1>2, <1>3
    <3>2. regions[k][1] < (p + 1) * PageWords
      BY <1>4 DEF OfRegion
    <3>3. ~(p < regions[k][1] \div PageWords)
      BY <3>1, <3>2, <2>0, <1>2, NoneBelow
    <3> QED
      BY <2>3, <3>1, <3>3 DEF PageNo
  <2>4. k \in Nat /\ region \in Nat
    BY <1>2
  <2> QED
    BY <1>1, <1>4, <2>1, <2>2, <2>3, <2>4
<1>5. \A p, k : OfRegion(p, k)' <=> OfRegion(p, k)
  BY <1>1 DEF OfRegion
<1> QED
  BY <1>1, <1>3, <1>4, <1>5 DEF ScannedFound, PageNo

\* Reading the buffer finds and loses nothing.
LEMMA BufferedReadFound ==
  ASSUME PagemapIInv, ScannedFound, pagemap_buffered_read
  PROVE  ScannedFound'
<1>1. UNCHANGED <<regions, soft, region, vaddr, found>> /\ ~strayed
  BY DEF pagemap_buffered_read
<1>2. \A p, k : OfRegion(p, k)' <=> OfRegion(p, k)
  BY <1>1 DEF OfRegion
<1> QED
  BY <1>1, <1>2 DEF ScannedFound, PageNo

\* Initially no page of the first region is below the scan.
LEMMA PagemapInitFound ==
  ASSUME PagemapInit
  PROVE  ScannedFound
<1>0. regions \in Seq(Nat \X Nat) /\ regions # <<>> /\ PageWords \in Nat \ {0}
  BY PagemapAssumption DEF PagemapInit
<1>1. 1 \in 1..Len(regions) /\ regions[1][1] \in Nat
  BY <1>0
<1>2. region = 1 /\ vaddr = regions[1][1] /\ soft \in SUBSET (0..(NPages - 1))
  BY DEF PagemapInit
<1>3. ASSUME NEW p \in soft, NEW k \in 1..Len(regions), OfRegion(p, k)
      PROVE  ~(k < region \/ (k = region /\ p < PageNo(vaddr)))
  <2>1. ~(k < region)
    BY <1>2
  <2>2. ASSUME k = 1 PROVE ~(p < vaddr \div PageWords)
    <3>1. regions[1][1] < (p + 1) * PageWords /\ p \in Nat
      BY <2>2, <1>2, <1>3 DEF OfRegion
    <3> QED
      BY <3>1, <1>0, <1>1, <1>2, NoneBelow
  <2> QED
    BY <2>1, <2>2, <1>2 DEF PageNo
<1> QED
  BY <1>2, <1>3 DEF ScannedFound

\* The invariant's parts that hold whatever the regions.
LEMMA PagemapKept ==
  ASSUME PagemapIInv, [PagemapNext]_pagemapVars
  PROVE  PagemapIInv'
<1>1. CASE UNCHANGED pagemapVars
  BY <1>1 DEF pagemapVars, PagemapIInv, ScanOK, BufferOK, OnlyDirtyFound
<1> QED
  BY <1>1, GrungyPagesOK, NextRegionOK, BufferedReadOK DEF PagemapNext

\* Every step keeps what was found, if the last pages are visited.
LEMMA ScannedKept ==
  ASSUME LastPagesVisited, PagemapIInv, ScannedFound, [PagemapNext]_pagemapVars
  PROVE  ScannedFound'
<1>1. CASE UNCHANGED pagemapVars
  BY <1>1 DEF pagemapVars, ScannedFound, OfRegion, PageNo
<1> QED
  BY <1>1, GrungyPagesFound, NextRegionFound, BufferedReadFound DEF PagemapNext

\* What the invariant says.
LEMMA PagemapIInvSound ==
  ASSUME PagemapIInv
  PROVE  PagemapTypeOK /\ BufferRight /\ OnlyDirtyFound
BY DEF PagemapIInv, ScanOK, BufferOK, PagemapTypeOK, BufferRight, OnlyDirtyFound

\* When all regions are done their dirty pages were found.
LEMMA ScannedPagesFound ==
  ASSUME PagemapIInv, ScannedFound
  PROVE  PagesFound
<1> SUFFICES ASSUME region > Len(regions), ~strayed, NEW p \in soft, Overlaps(p)
             PROVE  p \in found
  BY DEF PagesFound
<1>1. PICK k \in 1..Len(regions) : OfRegion(p, k)
  BY DEF Overlaps, OfRegion
<1>2. regions \in Seq(Nat \X Nat) /\ region \in Int
  BY PagemapAssumption DEF PagemapIInv, ScanOK
<1>3. k < region
  BY <1>2
<1> QED
  BY <1>1, <1>3 DEF ScannedFound

\* Whatever the regions and however short the reads: unless a second read went
\* astray, pagemap_buffered_read's buffer holds the entries of the pages it is
\* taken to hold, and soft_set_grungy_pages adds no page that is not dirty.
THEOREM PagemapBuffered == PagemapSpec => [](PagemapTypeOK /\ BufferRight /\ OnlyDirtyFound)
<1>1. PagemapInit => PagemapIInv
  BY PagemapInitOK
<1>2. PagemapIInv /\ [PagemapNext]_pagemapVars => PagemapIInv'
  BY PagemapKept
<1>3. PagemapIInv => PagemapTypeOK /\ BufferRight /\ OnlyDirtyFound
  BY PagemapIInvSound
<1> QED
  BY <1>1, <1>2, <1>3, PTL DEF PagemapSpec

\* If moreover the last page of every region is looked at, GC_soft_read_dirty
\* finds all dirty pages of the regions.
THEOREM PagesAreFound ==
  ASSUME LastPagesVisited
  PROVE  PagemapSpec => []PagemapSound
<1> DEFINE I == PagemapIInv /\ ScannedFound
<1>1. PagemapInit => I
  BY PagemapInitOK, PagemapInitFound
<1>2. I /\ [PagemapNext]_pagemapVars => I'
  BY PagemapKept, ScannedKept
<1>3. I => PagemapSound
  BY PagemapIInvSound, ScannedPagesFound DEF PagemapSound
<1> HIDE DEF I
<1> QED
  BY <1>1, <1>2, <1>3, PTL DEF PagemapSpec

\* The dirty bits miss no store, and neither does the reading of the soft-dirty
\* bits through the buffer, if the last page of every region is looked at.
THEOREM StoresAreSeen ==
  ASSUME LastPagesVisited
  PROVE  DirtySpec /\ PagemapSpec => []StoresSeen
<1>1. DirtySound /\ PagemapSound => StoresSeen
  BY DEF StoresSeen
<1>2. PagemapSpec => []PagemapSound
  BY PagesAreFound
<1> QED
  BY <1>1, <1>2, DirtyBitsSound, PTL
=============================================================================
