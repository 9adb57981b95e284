-------------------------- MODULE CollectorProofs --------------------------
(***************************************************************************)
(* Machine-checked proofs about Collector, for every heap layout, every    *)
(* number of blocks, objects and words and every mark stack size: the type *)
(* invariant, and that IndInv is inductive, hence that no reachable object *)
(* is ever taken away (LiveKept), that marking is complete when it ends    *)
(* (MarkBitsConsistent), and that thread-local free lists are left alone.  *)
(* At the end, proofs about HeapSections, where the memory of the heap and *)
(* of the collector's tables comes from.                                   *)
(***************************************************************************)
EXTENDS Collector, HeapSections, FiniteSetTheorems, TLAPS

(***************************************************************************)
(* Facts about the helper operators.                                       *)
(***************************************************************************)

\* Words yields pairs of a member of S and a field.
LEMMA WordsType ==
  ASSUME NEW S \in SUBSET Obj
  PROVE  Words(S) \in SUBSET (Obj \X Field)
BY DEF Words

\* All that matters of PushWords: the words are on the stack, or the state is
\* MS_INVALID and the stack holds no others.
LEMMA PushWordsFacts ==
  ASSUME NEW base \in SUBSET (Obj \X Field), NEW P \in SUBSET (Obj \X Field),
         NEW size \in Nat, NEW state \in MarkStates, NEW small \in BOOLEAN,
         PushWords(base, P, size, state, small)
  PROVE  /\ markStack' \in SUBSET (Obj \X Field)
         /\ markStack' \subseteq base \cup P
         /\ stackSize' = size
         /\ tooSmall' \in BOOLEAN
         /\ \/ markState' = "INVALID"
            \/ markState' = state /\ markStack' = base \cup P
BY DEF PushWords, MarkStates

\* The sizes alloc_mark_stack can leave behind.
LEMMA GrownSizesType ==
  ASSUME stackSize \in Nat, NEW s \in GrownSizes
  PROVE  s \in Nat
BY DEF GrownSizes

\* Reachable is itself closed, and holds only objects.
LEMMA ReachableClosed ==
  ASSUME TypeOK
  PROVE  Closed(Reachable) /\ Reachable \subseteq Obj
<1>1. Reachable \subseteq Obj
  BY DEF Reachable
<1>2. roots \subseteq Reachable /\ PermanentRoots \subseteq Reachable
  BY DEF Reachable, Closed, TypeOK, PermanentRoots
<1>3. ASSUME NEW o \in Reachable, NEW t \in Targets(o)
      PROVE  t \in Reachable
  <2>1. t \in Obj
    BY <1>1, <1>3 DEF Targets, TypeOK
  <2>2. ASSUME NEW S \in SUBSET Obj, Closed(S) PROVE t \in S
    BY <1>3, <2>2 DEF Reachable, Closed
  <2> QED BY <2>1, <2>2 DEF Reachable
<1> QED BY <1>1, <1>2, <1>3 DEF Closed

\* A step that leaves the client's data alone leaves Reachable alone.
LEMMA ReachableUnchanged ==
  ASSUME UNCHANGED <<heap, roots, where>>
  PROVE  Reachable' = Reachable
BY DEF Reachable, Closed, PermanentRoots, Targets, KindOf

\* If, after a step, Reachable is still closed, nothing became reachable.
LEMMA ReachableShrinks ==
  ASSUME NEW S \in SUBSET Obj, Closed(S)'
  PROVE  Reachable' \subseteq S
BY DEF Reachable, Closed, PermanentRoots, Targets, KindOf

(***************************************************************************)
(* The type invariant.                                                     *)
(***************************************************************************)
LEMMA MarkFromType ==
  ASSUME TypeOK, NEW small \in BOOLEAN, GC_mark_from(small)
  PROVE  /\ marked' \subseteq Obj /\ markState' \in MarkStates
         /\ markStack' \subseteq Obj \X Field /\ stackSize' \in Nat
         /\ tooSmall' \in BOOLEAN /\ scanPtr' \in 0..(NBlocks + 1)
         /\ objectsAreMarked' \in BOOLEAN
<1>1. PICK e \in markStack :
        LET new == Unmarked({heap[e[1]][e[2]]})
        IN /\ marked' = marked \cup new
           /\ PushWords(markStack \ {e}, Words(new), stackSize, markState, small)
           /\ objectsAreMarked' = TRUE
           /\ UNCHANGED scanPtr
  BY DEF GC_mark_from
<1>2. Unmarked({heap[e[1]][e[2]]}) \in SUBSET Obj
  BY DEF Unmarked
<1>3. Words(Unmarked({heap[e[1]][e[2]]})) \in SUBSET (Obj \X Field)
  BY <1>2, WordsType
<1>4. markStack \ {e} \in SUBSET (Obj \X Field) /\ markState \in MarkStates
      /\ stackSize \in Nat
  BY DEF TypeOK
<1>5. /\ markStack' \in SUBSET (Obj \X Field)
      /\ stackSize' = stackSize /\ tooSmall' \in BOOLEAN
      /\ markState' \in {"INVALID", markState}
  BY <1>1, <1>3, <1>4, PushWordsFacts
<1> QED BY <1>1, <1>2, <1>4, <1>5 DEF TypeOK, MarkStates

\* GC_push_roots keeps the marker's variables in their types.
LEMMA PushRootsType ==
  ASSUME TypeOK, NEW size \in Nat, NEW small \in BOOLEAN,
         push_roots_and_advance(size, small)
  PROVE  /\ marked' \subseteq Obj /\ markState' \in MarkStates
         /\ markStack' \subseteq Obj \X Field /\ stackSize' \in Nat
         /\ tooSmall' \in BOOLEAN /\ scanPtr' \in 0..(NBlocks + 1)
         /\ objectsAreMarked' \in BOOLEAN
<1>1. Words(Unmarked(roots \cup Junk)) \in SUBSET (Obj \X Field)
  BY WordsType, Unmarked(roots \cup Junk) \in SUBSET Obj DEF Unmarked
<1>2. markStack \in SUBSET (Obj \X Field) /\ "ROOTS_PUSHED" \in MarkStates
  BY DEF TypeOK, MarkStates
<1>3. PushWords(markStack, Words(Unmarked(roots \cup Junk)), size,
                "ROOTS_PUSHED", small)
  BY DEF push_roots_and_advance
<1>4. /\ markStack' \in SUBSET (Obj \X Field)
      /\ stackSize' = size /\ tooSmall' \in BOOLEAN
      /\ markState' \in {"INVALID", "ROOTS_PUSHED"}
  BY <1>1, <1>2, <1>3, PushWordsFacts
<1>5. marked' \subseteq Obj
  BY DEF push_roots_and_advance, Unmarked, TLMarks, TLFreeLists, TypeOK
<1> QED BY <1>4, <1>5, SizesAreNat DEF push_roots_and_advance, MarkStates

\* GC_push_marked keeps the marker's variables in their types.
LEMMA PushMarkedType ==
  ASSUME TypeOK, NEW bs \in SUBSET Block, NEW size \in Nat, NEW state \in MarkStates,
         NEW small \in BOOLEAN, GC_push_marked(bs, size, state, small)
  PROVE  /\ marked' \subseteq Obj /\ markState' \in MarkStates
         /\ markStack' \subseteq Obj \X Field /\ stackSize' \in Nat
         /\ tooSmall' \in BOOLEAN /\ scanPtr' \in 0..(NBlocks + 1)
         /\ objectsAreMarked' \in BOOLEAN
<1>1. PICK b \in Ahead(bs) :
        /\ PushWords(markStack, Words(marked \cap ObjsIn(b)), size, state, small)
        /\ objectsAreMarked' = (objectsAreMarked \/ Words(marked \cap ObjsIn(b)) # {})
        /\ scanPtr' = Past(b)
        /\ UNCHANGED marked
  BY DEF GC_push_marked
<1>2. b \in Block
  BY DEF Ahead
<1>3. Words(marked \cap ObjsIn(b)) \in SUBSET (Obj \X Field)
  BY WordsType, marked \cap ObjsIn(b) \in SUBSET Obj DEF TypeOK
<1>4. markStack \in SUBSET (Obj \X Field)
  BY DEF TypeOK
<1>w. PushWords(markStack, Words(marked \cap ObjsIn(b)), size, state, small)
  BY <1>1
<1>5. /\ markStack' \in SUBSET (Obj \X Field)
      /\ markStack' \subseteq markStack \cup Words(marked \cap ObjsIn(b))
      /\ stackSize' = size
      /\ tooSmall' \in BOOLEAN
      /\ \/ markState' = "INVALID"
         \/ markState' = state /\ markStack' = markStack \cup Words(marked \cap ObjsIn(b))
  BY <1>w, <1>3, <1>4 DEF PushWords, MarkStates
<1>6. objectsAreMarked' \in BOOLEAN
  <2>1. objectsAreMarked' = (objectsAreMarked \/ Words(marked \cap ObjsIn(b)) # {})
    BY <1>1
  <2>2. (objectsAreMarked \/ Words(marked \cap ObjsIn(b)) # {}) \in BOOLEAN
    OBVIOUS
  <2> QED BY <2>1, <2>2, Zenon
<1> QED BY <1>1, <1>2, <1>5, <1>6, SizesAreNat DEF TypeOK, MarkStates, Past, Block

\* So does every call of GC_mark_some.
LEMMA MarkSomeType ==
  ASSUME TypeOK, GC_mark_some
  PROVE  /\ marked' \subseteq Obj /\ markState' \in MarkStates
         /\ markStack' \subseteq Obj \X Field /\ stackSize' \in Nat
         /\ tooSmall' \in BOOLEAN /\ scanPtr' \in 0..(NBlocks + 1)
         /\ objectsAreMarked' \in BOOLEAN
<1>t. /\ grungy \in SUBSET Block /\ UncollectableBlocks \in SUBSET Block
      /\ Block \in SUBSET Block /\ stackSize \in Nat /\ tooSmall \in BOOLEAN
      /\ markState \in MarkStates /\ "PUSH_RESCUERS" \in MarkStates
      /\ "PUSH_UNCOLLECTABLE" \in MarkStates /\ "PARTIALLY_INVALID" \in MarkStates
  BY DEF TypeOK, UncollectableBlocks, MarkStates
<1>1. CASE MarkSomeRescuers
  BY <1>1, <1>t, MarkFromType, PushMarkedType, PushRootsType DEF MarkSomeRescuers
<1>2. CASE MarkSomeUncollectable
  BY <1>2, <1>t, MarkFromType, PushMarkedType, PushRootsType DEF MarkSomeUncollectable
<1>3. CASE MarkSomeRootsPushed \/ MarkSomeInvalidDrain
  BY <1>3, <1>t, MarkFromType DEF MarkSomeRootsPushed, MarkSomeInvalidDrain
<1>4. CASE MarkSomeStartFull
  BY <1>4 DEF MarkSomeStartFull, TypeOK, stack, MarkStates
<1>5. CASE MarkSomeInvalidScan
  <2>1. ASSUME NEW size \in IF ScanStarts THEN GrownSizes ELSE {stackSize},
               \/ GC_push_marked(Block, size, ScanState, tooSmall /\ ~ScanStarts)
               \/ push_roots_and_advance(size, tooSmall /\ ~ScanStarts)
        PROVE  /\ marked' \subseteq Obj /\ markState' \in MarkStates
               /\ markStack' \subseteq Obj \X Field /\ stackSize' \in Nat
               /\ tooSmall' \in BOOLEAN /\ scanPtr' \in 0..(NBlocks + 1)
               /\ objectsAreMarked' \in BOOLEAN
    <3>1. size \in Nat
      BY <1>t, GrownSizesType
    <3>2. ScanState \in MarkStates
      BY <1>t DEF ScanState
    <3>3. (tooSmall /\ ~ScanStarts) \in BOOLEAN
      OBVIOUS
    <3> QED BY <2>1, <3>1, <3>2, <3>3, <1>t, PushMarkedType, PushRootsType
  <2>2. CASE /\ scanPtr' = 0
             /\ UNCHANGED <<marked, markState, stack, objectsAreMarked>>
    BY <2>2, SizesAreNat DEF TypeOK, stack
  <2> QED BY <1>5, <2>1, <2>2 DEF MarkSomeInvalidScan
<1> QED BY <1>1, <1>2, <1>3, <1>4, <1>5 DEF GC_mark_some

\* The client's steps keep every variable in its type, ...
LEMMA ClientType ==
  ASSUME TypeOK, Client PROVE TypeOK'
<1>1. ASSUME NEW o \in Obj, NEW f \in Field, Load(o, f) PROVE TypeOK'
  BY <1>1 DEF TypeOK, Load, alloc, mark, stack, vdb, ctl, policy
<1>2. ASSUME NEW o \in Obj, NEW f \in Field, GC_dirty(o, f) PROVE TypeOK'
  BY <1>2, BlocksTyped DEF TypeOK, GC_dirty, alloc, mark, stack, ctl, policy
<1>3. ASSUME NEW o \in Obj, NEW f \in Field, NEW v \in Obj \cup {Null}, Store(o, f, v)
      PROVE  TypeOK'
  BY <1>3 DEF TypeOK, Store, alloc, mark, stack, vdb, ctl, policy
<1>4. ASSUME NEW o \in Obj, DropRoot(o) PROVE TypeOK'
  BY <1>4 DEF TypeOK, DropRoot, alloc, mark, stack, vdb, ctl, policy
<1>5. ASSUME NEW o \in Obj, GC_malloc(o) PROVE TypeOK'
  BY <1>5 DEF TypeOK, GC_malloc, Cleared, mark, stack, vdb, ctl, policy
<1>6. ASSUME NEW o \in Obj, GC_malloc_tl(o) PROVE TypeOK'
  BY <1>6 DEF TypeOK, GC_malloc_tl, Cleared, mark, stack, vdb, ctl, policy
<1>7. ASSUME NEW o \in Obj, GC_free(o) PROVE TypeOK'
  BY <1>7 DEF TypeOK, GC_free, Cleared, mark, stack, vdb, ctl, policy
<1>8. ASSUME NEW k \in Kinds, GC_malloc_many(k) PROVE TypeOK'
  BY <1>8 DEF TypeOK, GC_malloc_many, ToThread, client, mark, stack, vdb, ctl, policy
<1> QED BY <1>1, <1>2, <1>3, <1>4, <1>5, <1>6, <1>7, <1>8 DEF Client

\* ... and so do the allocator's ...
LEMMA AllocatorType ==
  ASSUME TypeOK, Allocator PROVE TypeOK'
<1>1. ASSUME NEW b \in Block, GC_continue_reclaim(b) PROVE TypeOK'
  BY <1>1 DEF TypeOK, GC_continue_reclaim, GC_reclaim_generic, FreeObjects,
       ClearObjects, Cleared, SetHdrMarks, stack, vdb, ctl, policy
<1>2. ASSUME NEW b \in Block, GC_new_hblk(b) PROVE TypeOK'
  BY <1>2 DEF TypeOK, GC_new_hblk, FreeObjects,
       ClearObjects, Cleared, SetHdrMarks, stack, vdb, ctl, policy
<1>3. ASSUME NEW b \in Block, GC_malloc_many_swept(b) \/ GC_malloc_many_fresh(b)
      PROVE  TypeOK'
  <2>1. CASE GC_malloc_many_swept(b)
    <3>1. bytesAllocd' \in BOOLEAN
      <4>1. bytesAllocd' = (bytesAllocd \/ Swept({b}) # {})
        BY <2>1 DEF GC_malloc_many_swept
      <4>2. (bytesAllocd \/ Swept({b}) # {}) \in BOOLEAN
        OBVIOUS
      <4> QED BY <4>1, <4>2, Zenon
    <3> QED BY <2>1, <3>1 DEF TypeOK, GC_malloc_many_swept, ToThread, ClearObjects, Cleared,
         mark, stack, vdb, ctl, policy
  <2>2. CASE GC_malloc_many_fresh(b)
    BY <2>2 DEF TypeOK, GC_malloc_many_fresh, ToThread, ClearObjects, Cleared,
         mark, stack, vdb, ctl, policy
  <2> QED BY <1>3, <2>1, <2>2
<1> QED BY <1>1, <1>2, <1>3 DEF Allocator

\* ... and the collector's.
LEMMA ControlType ==
  ASSUME TypeOK, Control PROVE TypeOK'
<1>1. CASE GC_collect_a_little_inner
  <2>1. ASSUME GC_maybe_gc PROVE TypeOK'
    <3>1. CASE needFullGc \/ nPartialGcs >= FullFreq
      <4>1. PICK bs \in SUBSET reclaimList :
              /\ GC_reclaim_generic(bs)
              /\ reclaimList' = ReclaimListAfter(bs)
              /\ GC_clear_marks(marked \cup SetHdrMarks(bs))
        BY <2>1, <3>1 DEF GC_maybe_gc
      <4>2. heap' \in [Obj -> [Field -> Obj \cup {Null}]]
            /\ where' \in [Obj -> {"used", "free", "tl", "none"}]
        BY <4>1 DEF TypeOK, GC_reclaim_generic, FreeObjects, ClearObjects, Cleared
      <4>3. /\ reclaimList' \subseteq Block /\ marked' \subseteq Obj
            /\ markState' \in MarkStates /\ scanPtr' \in 0..(NBlocks + 1)
        BY <4>1, SizesAreNat DEF TypeOK, ReclaimListAfter, GC_clear_marks, SurvivingMarks,
             SetHdrMarks, MarkStates
      <4>4. objectsAreMarked' \in BOOLEAN
        BY <4>1 DEF GC_clear_marks
      <4>5. isFullGc' = TRUE /\ nPartialGcs' = 0 /\ UNCHANGED stack
        BY <2>1, <3>1, Zenon DEF GC_maybe_gc
      <4> QED BY <2>1, <4>2, <4>3, <4>4, <4>5 DEF TypeOK, GC_maybe_gc, stack, vdb
    <3>2. CASE ~(needFullGc \/ nPartialGcs >= FullFreq)
      BY <2>1, <3>2 DEF TypeOK, GC_maybe_gc, mark, stack, vdb
    <3> QED BY <3>1, <3>2
  <2> QED BY <1>1, <2>1 DEF TypeOK, GC_collect_a_little_inner, client, alloc, mark,
                stack, vdb, policy
<1>2. CASE LittleQuit
  BY <1>2 DEF TypeOK, LittleQuit, ReturnFromLittle, client, alloc, mark, stack, vdb, policy
<1>3. CASE LittleMark \/ StoppedMark
  <2>1. GC_mark_some /\ UNCHANGED <<client, alloc, vdb, ctl, policy>>
    BY <1>3 DEF LittleMark, StoppedMark, GC_mark_some
  <2> QED BY <2>1, MarkSomeType DEF TypeOK, client, alloc, vdb, ctl, policy
<1>4. CASE LittleDone
  BY <1>4, GrownSizesType DEF TypeOK, LittleDone, MarkSomeDone, LittleStopFunc, MarkStates,
        client, alloc, vdb, policy
<1>5. ASSUME NEW f \in StopFuncs, GC_try_to_collect_inner(f) PROVE TypeOK'
  BY <1>5, ProgramTyped DEF TypeOK, GC_try_to_collect_inner, client, alloc, mark, stack, vdb, policy
<1>6. CASE TryGiveUp
  BY <1>6 DEF TypeOK, TryGiveUp, client, alloc, mark, stack, vdb, policy
<1>7. CASE TryFinishCurrent
  BY <1>7 DEF TypeOK, TryFinishCurrent, client, alloc, mark, stack, vdb, policy
<1>8. CASE TryStart
  <2>1. /\ marked' \subseteq Obj /\ markState' \in MarkStates
        /\ markStack' \subseteq Obj \X Field /\ scanPtr' \in 0..(NBlocks + 1)
        /\ stackSize' \in Nat
    BY <1>8, SizesAreNat DEF TypeOK, TryStart, GC_clear_marks, SurvivingMarks, MarkStates
  <2>2. objectsAreMarked' \in BOOLEAN /\ isFullGc' \in BOOLEAN /\ tooSmall' \in BOOLEAN
    BY <1>8 DEF TypeOK, TryStart, GC_clear_marks
  <2> QED BY <1>8, <2>1, <2>2 DEF TypeOK, TryStart, client, alloc, vdb
<1>9. ASSUME NEW b \in Block, TryReclaimAll(b) PROVE TypeOK'
  BY <1>9 DEF TypeOK, TryReclaimAll, GC_reclaim_generic, FreeObjects,
       ClearObjects, Cleared, SetHdrMarks, stack, vdb, ctl, policy
<1>10. CASE StopWorld
  BY <1>10, SizesAreNat DEF TypeOK, StopWorld, GC_read_dirty, MarkStates, client, alloc, stack, vdb, policy
<1>11. CASE AbandonStoppedMark
  BY <1>11 DEF TypeOK, AbandonStoppedMark, AttemptsCounted, ReturnFromLittle, MarkStates, client, alloc, vdb
<1>12. CASE StoppedMarkDone
  BY <1>12, GrownSizesType DEF TypeOK, StoppedMarkDone, MarkSomeDone, MarkStates, client, alloc, vdb, policy
<1>13. CASE GC_finish_collection
  BY <1>13 DEF TypeOK, GC_finish_collection, ReturnFromLittle, GC_read_dirty, client, stack, vdb
<1>14. CASE GC_enable_incremental
  BY <1>14 DEF TypeOK, GC_enable_incremental, GC_read_dirty, client, alloc, mark, stack, policy, vdb
<1> QED BY <1>1, <1>2, <1>3, <1>4, <1>5, <1>6, <1>7, <1>8, <1>9, <1>10, <1>11,
           <1>12, <1>13, <1>14 DEF Control

\* The initial state is well typed.
LEMMA TypeCorrectInit == Init => TypeOK
<1>1. Init => incremental \in BOOLEAN
  BY ProgramTyped DEF Init
<1>2. Init => /\ heap \in [Obj -> [Field -> Obj \cup {Null}]]
              /\ where \in [Obj -> {"used", "free", "tl", "none"}]
              /\ stackSize \in Nat /\ scanPtr \in 0..(NBlocks + 1)
  BY SizesAreNat DEF Init, Cleared
<1>3. Init => /\ bytesAllocd \in BOOLEAN /\ tooSmall \in BOOLEAN
              /\ objectsAreMarked \in BOOLEAN /\ isFullGc \in BOOLEAN
              /\ needFullGc \in BOOLEAN
  BY DEF Init
<1> QED BY <1>1, <1>2, <1>3 DEF Init, TypeOK, MarkStates

\* TypeOK is an invariant of the collector.
THEOREM TypeCorrect == Spec => []TypeOK
<1>2. TypeOK /\ [Next]_vars => TypeOK'
  <2>1. CASE UNCHANGED vars
    BY <2>1 DEF TypeOK, vars, client, alloc, mark, stack, vdb, ctl, policy
  <2> QED BY <2>1, ClientType, AllocatorType, ControlType DEF Next
<1> QED BY <1>2, TypeCorrectInit, PTL DEF Spec

(***************************************************************************)
(* IndInv is inductive.  What is reachable, first: a step can only make    *)
(* reachable what some set closed after the step holds.                    *)
(***************************************************************************)
LEMMA ReachableFacts ==
  ASSUME TypeOK
  PROVE  /\ Reachable \subseteq Obj
         /\ roots \subseteq Reachable
         /\ PermanentRoots \subseteq Reachable
         /\ \A o \in Reachable, f \in Field :
              KindOf(o) # "ptrfree" /\ heap[o][f] # Null => heap[o][f] \in Reachable
BY ReachableClosed DEF Closed, Targets

\* A set that holds the roots after a step and what its members then point to
\* holds all that is reachable then.
LEMMA ReachableStep ==
  ASSUME NEW R \in SUBSET Obj, roots' \subseteq R, PermanentRoots' \subseteq R,
         \A o \in R, f \in Field :
           KindOf(o) # "ptrfree" /\ heap'[o][f] # Null => heap'[o][f] \in R
  PROVE  Reachable' \subseteq R
<1>1. \A o \in R : Targets(o)' \subseteq R
  BY DEF Targets, KindOf
<1> QED BY <1>1, ReachableShrinks DEF Closed

\* What is reachable is in use and in an allocated block.
LEMMA LiveFacts ==
  ASSUME IndInv
  PROVE  \A o \in Reachable : /\ o \in Obj
                              /\ where[o] = "used"
                              /\ BlockOf[o] \in Block
                              /\ InUse(BlockOf[o])
BY ReachableFacts, BlocksTyped DEF IndInv, LiveKept, BlocksConsistent, InUse

(***************************************************************************)
(* Steps of the client.                                                    *)
(***************************************************************************)

\* Loads, stores and write barriers: all that is left to show is that nothing
\* becomes reachable, and that what a store leaves behind is known.
LEMMA MutatorStep ==
  ASSUME IndInv, TypeOK', UNCHANGED <<alloc, mark, grungy, ctl, policy>>,
         pc # "stopped", Reachable' \subseteq Reachable, StoresKept', Tricolour',
         ~incremental => dirty' = dirty
  PROVE  IndInv'
<1>1. LiveKept' /\ MarkBitsConsistent' /\ SweepSeesMarks'
  BY DEF IndInv, LiveKept, MarkBitsConsistent, SweepSeesMarks, TLFreeLists, alloc, mark, ctl
<1>2. UncollectableMarked' /\ BlocksConsistent'
  BY DEF IndInv, UncollectableMarked, BlocksConsistent, UncollectableBlocks, KindOf, alloc, mark
<1>3. StoppedConsistent'
  BY DEF StoppedConsistent, ctl
<1>4. CleanWhenIdle'
  BY DEF IndInv, CleanWhenIdle, TLFreeLists, alloc, mark, ctl
<1>5. MarkerConsistent'
  BY DEF IndInv, MarkerConsistent, KindOf, mark, stack
<1>6. ControlConsistent'
  BY DEF IndInv, ControlConsistent, alloc, mark, ctl, policy
<1> QED BY <1>1, <1>2, <1>3, <1>4, <1>5, <1>6 DEF IndInv

\* Copying a pointer out of a reachable object makes nothing new reachable.
LEMMA LoadInv ==
  ASSUME IndInv, NEW o \in Obj, NEW f \in Field, Load(o, f) PROVE IndInv'
<1>1. TypeOK /\ TypeOK'
  BY ClientType DEF IndInv, Client
<1>2. UNCHANGED <<alloc, mark, grungy, ctl, policy>> /\ pc # "stopped" /\ dirty' = dirty
  BY DEF Load, WorldStopped, vdb
<1>3. Reachable' \subseteq Reachable
  <2>1. roots' \subseteq Reachable
    BY <1>1, ReachableFacts DEF Load
  <2>2. PermanentRoots' \subseteq Reachable
    BY <1>1, ReachableFacts DEF Load, alloc, PermanentRoots, KindOf
  <2> QED BY <1>1, <2>1, <2>2, ReachableFacts, ReachableStep DEF Load
<1>4. StoresKept'
  BY DEF IndInv, StoresKept, Load
<1>5. Tricolour'
  BY <1>3 DEF IndInv, Tricolour, Ungreyed, KindOf, Load, alloc, mark, stack, vdb, ctl
<1> QED BY <1>1, <1>2, <1>3, <1>4, <1>5, MutatorStep

\* Forgetting a pointer may only make objects unreachable.
LEMMA DropRootInv ==
  ASSUME IndInv, NEW o \in Obj, DropRoot(o) PROVE IndInv'
<1>1. TypeOK /\ TypeOK'
  BY ClientType DEF IndInv, Client
<1>2. UNCHANGED <<alloc, mark, grungy, ctl, policy>> /\ pc # "stopped" /\ dirty' = dirty
  BY DEF DropRoot, WorldStopped, vdb
<1>3. Reachable' \subseteq Reachable
  <2>1. roots' \subseteq Reachable
    BY <1>1, ReachableFacts DEF DropRoot
  <2>2. PermanentRoots' \subseteq Reachable
    BY <1>1, ReachableFacts DEF DropRoot, alloc, PermanentRoots, KindOf
  <2> QED BY <1>1, <2>1, <2>2, ReachableFacts, ReachableStep DEF DropRoot
<1>4. StoresKept'
  BY DEF IndInv, StoresKept, DropRoot, KeptByStores
<1>5. Tricolour'
  BY <1>3 DEF IndInv, Tricolour, Ungreyed, KindOf, DropRoot, alloc, mark, stack, vdb, ctl
<1> QED BY <1>1, <1>2, <1>3, <1>4, <1>5, MutatorStep

\* A store hides an object from the marker at worst behind a word in pend.
LEMMA StoreInv ==
  ASSUME IndInv, NEW o \in Obj, NEW f \in Field, NEW v \in Obj \cup {Null}, Store(o, f, v)
  PROVE  IndInv'
<1>1. TypeOK /\ TypeOK'
  BY ClientType DEF IndInv, Client
<1>2. UNCHANGED <<alloc, mark, grungy, ctl, policy>> /\ pc # "stopped" /\ dirty' = dirty
  BY DEF Store, WorldStopped, vdb
<1>h. \A x \in Obj, g \in Field : heap'[x][g] = IF x = o /\ g = f THEN v ELSE heap[x][g]
  BY <1>1 DEF Store, TypeOK
<1>3. Reachable' \subseteq Reachable
  <2>1. roots' \subseteq Reachable
    BY <1>1, ReachableFacts DEF Store
  <2>2. PermanentRoots' \subseteq Reachable
    BY <1>1, ReachableFacts DEF Store, alloc, PermanentRoots, KindOf
  <2>3. v \in Reachable \cup {Null}
    BY <1>1, ReachableFacts DEF Store
  <2> QED BY <1>1, <1>h, <2>1, <2>2, <2>3, ReachableFacts, ReachableStep
<1>4. StoresKept'
  <2> SUFFICES ASSUME NEW e \in pend'
               PROVE  e[1] \in roots' /\ heap'[e[1]][e[2]] \in roots' \cup {Null}
    BY DEF StoresKept
  <2>1. CASE e = <<o, f>>
    BY <2>1, <1>h DEF Store
  <2>2. CASE e # <<o, f>>
    <3>1. e \in pend /\ e \in Obj \X Field
      BY <1>1, <2>2 DEF Store, TypeOK
    <3> QED BY <1>h, <2>2, <3>1 DEF IndInv, StoresKept, Store
  <2> QED BY <2>1, <2>2
<1>5. Tricolour'
  <2> SUFFICES ASSUME NEW x \in Reachable' \cap marked', NEW g \in Field,
                      KindOf(x) # "ptrfree", heap'[x][g] # Null
               PROVE  heap'[x][g] \in marked' \/ Ungreyed(x, g)'
    BY DEF Tricolour, KindOf
  <2>1. CASE x = o /\ g = f
    BY <2>1 DEF Store, Ungreyed
  <2>2. CASE ~(x = o /\ g = f)
    <3>1. x \in Reachable /\ x \in Obj /\ x \in marked
      BY <1>1, <1>3, ReachableFacts DEF Store, mark
    <3>2. heap'[x][g] = heap[x][g]
      BY <1>h, <2>2, <3>1
    <3>3. heap[x][g] \in marked \/ Ungreyed(x, g)
      BY <3>1, <3>2 DEF IndInv, Tricolour
    <3> QED BY <3>2, <3>3 DEF Ungreyed, KindOf, Store, alloc, mark, stack, vdb, ctl
  <2> QED BY <2>1, <2>2
<1> QED BY <1>1, <1>2, <1>3, <1>4, <1>5, MutatorStep

\* GC_dirty may forget a store because the block becomes dirty or, outside of
\* incremental mode, because a later full collection starts from scratch.
LEMMA DirtyInv ==
  ASSUME IndInv, NEW o \in Obj, NEW f \in Field, GC_dirty(o, f) PROVE IndInv'
<1>1. TypeOK /\ TypeOK'
  BY ClientType DEF IndInv, Client
<1>2. UNCHANGED <<alloc, mark, grungy, ctl, policy>> /\ pc # "stopped"
      /\ (~incremental => dirty' = dirty)
  BY DEF GC_dirty, WorldStopped
<1>3. Reachable' = Reachable
  BY ReachableUnchanged DEF GC_dirty, alloc
<1>4. StoresKept'
  BY DEF IndInv, StoresKept, GC_dirty
<1>5. Tricolour'
  <2> SUFFICES ASSUME NEW x \in Reachable \cap marked, NEW g \in Field,
                      KindOf(x) # "ptrfree", heap[x][g] # Null
               PROVE  heap[x][g] \in marked \/ Ungreyed(x, g)'
    BY <1>3 DEF Tricolour, KindOf, GC_dirty, mark
  <2>1. CASE x = o /\ g = f
    <3>1. CASE incremental
      BY <2>1, <3>1 DEF GC_dirty, Ungreyed
    <3>2. CASE ~incremental
      <4>1. markState \in {"NONE", "INVALID"}
        BY <1>2, <3>2 DEF IndInv, ControlConsistent
      <4>2. CASE markState = "NONE" /\ ~bytesAllocd
        BY <1>1, <3>2, <4>2, ReachableFacts DEF IndInv, CleanWhenIdle
      <4>3. CASE markState = "NONE" /\ bytesAllocd
        BY <3>2, <4>3 DEF Ungreyed, GC_dirty, mark, alloc, ctl
      <4>4. CASE markState = "INVALID"
        BY <4>4 DEF Ungreyed, GC_dirty, mark
      <4> QED BY <4>1, <4>2, <4>3, <4>4
    <3> QED BY <3>1, <3>2
  <2>2. CASE ~(x = o /\ g = f)
    <3>1. heap[x][g] \in marked \/ Ungreyed(x, g)
      BY DEF IndInv, Tricolour
    <3>2. BlockOf[x] \in dirty => BlockOf[x] \in dirty'
      BY DEF GC_dirty
    <3>3. <<x, g>> \in pend => <<x, g>> \in pend'
      BY <2>2 DEF GC_dirty
    <3> QED BY <3>1, <3>2, <3>3 DEF Ungreyed, KindOf, GC_dirty, alloc, mark, stack, ctl
  <2> QED BY <2>1, <2>2
<1> QED BY <1>1, <1>2, <1>3, <1>4, <1>5, MutatorStep

\* An object handed to the client, from a global list (with the lock held) or
\* from a thread-local one (without it).
LEMMA NewObject ==
  ASSUME IndInv, TypeOK', NEW o \in Obj, where[o] \in {"free", "tl"}, pc # "stopped",
         where' = [where EXCEPT ![o] = "used"], heap' = [heap EXCEPT ![o] = Cleared],
         roots' = roots \cup {o},
         where[o] = "free" => pc = "run" /\ bytesAllocd' = TRUE,
         where[o] = "tl" => bytesAllocd' = bytesAllocd,
         UNCHANGED <<pend, freeBlk, reclaimList, mark, vdb, ctl, policy>>
  PROVE  IndInv'
<1>1. TypeOK
  BY DEF IndInv
<1>h. \A x \in Obj, g \in Field : heap'[x][g] = IF x = o THEN Null ELSE heap[x][g]
  BY <1>1 DEF TypeOK, Cleared
<1>w. \A x \in Obj : where'[x] = IF x = o THEN "used" ELSE where[x]
  BY <1>1 DEF TypeOK
<1>3. Reachable' \subseteq Reachable \cup {o}
  <2>1. roots' \subseteq Reachable \cup {o}
    BY <1>1, ReachableFacts
  <2>2. PermanentRoots' \subseteq Reachable \cup {o}
    BY <1>1, <1>w, ReachableFacts DEF PermanentRoots, KindOf
  <2>3. Reachable \cup {o} \in SUBSET Obj
    BY <1>1, ReachableFacts
  <2>4. \A x \in Reachable \cup {o}, g \in Field :
          KindOf(x) # "ptrfree" /\ heap'[x][g] # Null => heap'[x][g] \in Reachable \cup {o}
    BY <1>1, <1>h, <2>3, ReachableFacts
  <2> QED BY <2>1, <2>2, <2>3, <2>4, ReachableStep
<1>r. Reachable \subseteq Obj /\ Reachable' \subseteq Obj
  BY <1>1, <1>3, ReachableFacts
<1>4. LiveKept'
  BY <1>3, <1>w, <1>r DEF IndInv, LiveKept
<1>5. MarkBitsConsistent'
  BY <1>3, <1>w DEF IndInv, MarkBitsConsistent, TLFreeLists, mark, ctl
<1>6. SweepSeesMarks'
  BY <1>3, <1>w DEF IndInv, SweepSeesMarks, mark, ctl
<1>7. UncollectableMarked'
  BY <1>w DEF IndInv, UncollectableMarked, BlocksConsistent, KindOf, mark
<1>8. BlocksConsistent'
  BY <1>w DEF IndInv, BlocksConsistent, UncollectableBlocks, KindOf, mark
<1>9. StoresKept'
  <2> SUFFICES ASSUME NEW e \in pend
               PROVE  e[1] \in roots' /\ heap'[e[1]][e[2]] \in roots' \cup {Null}
    BY DEF StoresKept
  <2>1. e \in Obj \X Field
    BY <1>1 DEF TypeOK
  <2> QED BY <1>h, <2>1 DEF IndInv, StoresKept
<1>10. Tricolour'
  <2> SUFFICES ASSUME NEW x \in Reachable' \cap marked', NEW g \in Field,
                      KindOf(x) # "ptrfree", heap'[x][g] # Null
               PROVE  heap'[x][g] \in marked' \/ Ungreyed(x, g)'
    BY DEF Tricolour, KindOf
  <2>1. x \in Reachable /\ x \in marked /\ heap'[x][g] = heap[x][g]
    BY <1>3, <1>h, <1>r DEF mark
  <2>2. heap[x][g] \in marked \/ Ungreyed(x, g)
    BY <2>1 DEF IndInv, Tricolour
  <2>3. bytesAllocd => bytesAllocd'
    OBVIOUS
  <2> QED BY <2>1, <2>2, <2>3 DEF Ungreyed, KindOf, mark, stack, vdb, ctl
<1>11. StoppedConsistent'
  BY DEF StoppedConsistent, ctl
<1>12. CleanWhenIdle'
  BY <1>3, <1>w DEF IndInv, CleanWhenIdle, TLFreeLists, mark, vdb, ctl
<1>13. MarkerConsistent' /\ ControlConsistent'
  BY DEF IndInv, MarkerConsistent, ControlConsistent, KindOf, mark, stack, ctl, policy
<1> QED BY <1>4, <1>5, <1>6, <1>7, <1>8, <1>9, <1>10, <1>11, <1>12, <1>13 DEF IndInv

\* Allocation from either kind of free list preserves IndInv.
LEMMA MallocInv ==
  ASSUME IndInv, NEW o \in Obj, GC_malloc(o) \/ GC_malloc_tl(o) PROVE IndInv'
<1>1. TypeOK'
  BY ClientType DEF IndInv, Client
<1>2. CASE GC_malloc(o)
  BY <1>1, <1>2, NewObject DEF GC_malloc
<1>3. CASE GC_malloc_tl(o)
  BY <1>1, <1>3, NewObject DEF GC_malloc_tl, WorldStopped
<1> QED BY <1>2, <1>3

\* GC_free returns an object nothing reachable points to, mark bit and all.
LEMMA FreeInv ==
  ASSUME IndInv, NEW o \in Obj, GC_free(o) PROVE IndInv'
<1>1. TypeOK /\ TypeOK'
  BY ClientType DEF IndInv, Client
<1>h. \A x \in Obj, g \in Field : heap'[x][g] = IF x = o THEN Null ELSE heap[x][g]
  BY <1>1 DEF TypeOK, Cleared, GC_free
<1>w. \A x \in Obj : where'[x] = IF x = o THEN "free" ELSE where[x]
  BY <1>1 DEF TypeOK, GC_free
<1>2. o \in Reachable /\ where[o] = "used" /\ pc = "run" /\ frame = "none"
  BY <1>1, ReachableFacts DEF GC_free, MayFree, IndInv, ControlConsistent
<1>3. Reachable' \subseteq Reachable \ {o}
  <2>1. roots' \subseteq Reachable \ {o}
    BY <1>1, ReachableFacts DEF GC_free
  <2>2. PermanentRoots' \subseteq Reachable \ {o}
    BY <1>1, <1>w, ReachableFacts DEF PermanentRoots, KindOf
  <2>3. Reachable \ {o} \in SUBSET Obj
    BY <1>1, ReachableFacts
  <2>4. \A x \in Reachable \ {o}, g \in Field :
          KindOf(x) # "ptrfree" /\ heap'[x][g] # Null => heap'[x][g] \in Reachable \ {o}
    BY <1>1, <1>h, <2>3, ReachableFacts DEF GC_free, MayFree, Targets
  <2> QED BY <2>1, <2>2, <2>3, <2>4, ReachableStep
<1>r. Reachable \subseteq Obj /\ Reachable' \subseteq Obj
  BY <1>1, <1>3, ReachableFacts
<1>4. LiveKept'
  BY <1>3, <1>w, <1>r DEF IndInv, LiveKept
<1>5. MarkBitsConsistent'
  BY <1>2 DEF MarkBitsConsistent, GC_free, ctl
<1>6. SweepSeesMarks'
  BY <1>2, <1>3, <1>w DEF IndInv, SweepSeesMarks, GC_free, mark, ctl
<1>7. UncollectableMarked'
  BY <1>2, <1>w DEF IndInv, UncollectableMarked, KindOf, GC_free, mark
<1>8. BlocksConsistent'
  BY <1>2, <1>w DEF IndInv, BlocksConsistent, UncollectableBlocks, KindOf, GC_free, mark
<1>9. StoresKept'
  <2> SUFFICES ASSUME NEW e \in pend
               PROVE  e[1] \in roots' /\ heap'[e[1]][e[2]] \in roots' \cup {Null}
    BY DEF StoresKept, GC_free
  <2>1. e \in Obj \X Field
    BY <1>1 DEF TypeOK
  <2> QED BY <1>h, <2>1 DEF IndInv, StoresKept, GC_free, MayFree, KeptByStores
<1>10. Tricolour'
  <2> SUFFICES ASSUME NEW x \in Reachable' \cap marked', NEW g \in Field,
                      KindOf(x) # "ptrfree", heap'[x][g] # Null
               PROVE  heap'[x][g] \in marked' \/ Ungreyed(x, g)'
    BY DEF Tricolour, KindOf
  <2>1. x \in Reachable /\ x \in marked /\ heap'[x][g] = heap[x][g]
    BY <1>3, <1>h, <1>r DEF GC_free, mark
  <2>2. heap[x][g] \in marked \/ Ungreyed(x, g)
    BY <2>1 DEF IndInv, Tricolour
  <2> QED BY <2>1, <2>2 DEF Ungreyed, KindOf, GC_free, mark, stack, vdb, ctl
<1>11. StoppedConsistent'
  BY <1>2 DEF StoppedConsistent, GC_free, ctl
<1>12. CleanWhenIdle'
  BY <1>2, <1>3, <1>w DEF IndInv, CleanWhenIdle, TLFreeLists, GC_free, mark, vdb, ctl
<1>13. MarkerConsistent' /\ ControlConsistent'
  BY DEF IndInv, MarkerConsistent, ControlConsistent, KindOf, GC_free, mark, stack, ctl, policy
<1> QED BY <1>1, <1>4, <1>5, <1>6, <1>7, <1>8, <1>9, <1>10, <1>11, <1>12, <1>13 DEF IndInv

(***************************************************************************)
(* Steps of the allocator: objects S that are not reachable go to a free   *)
(* list, cleared or as they are, and no reachable object gets a mark bit.  *)
(***************************************************************************)
LEMMA AllocatorStep ==
  ASSUME IndInv, TypeOK', NEW S \in SUBSET Obj, NEW w \in {"free", "tl"},
         pc \in {"run", "tryfull"},
         \A o \in Obj : where'[o] = IF o \in S THEN w ELSE where[o],
         \A o \in Obj \ S : heap'[o] = heap[o],
         S \cap Reachable = {},
         marked \subseteq marked', Reachable \cap marked' \subseteq marked,
         \A o \in marked' \ marked : KindOf(o) = "uncollectable",
         freeBlk' \subseteq freeBlk, reclaimList' \subseteq reclaimList,
         \A o \in S : /\ BlockOf[o] \notin freeBlk'
                      /\ BlockOf[o] \in reclaimList' => o \in marked'
                      /\ KindOf(o) = "uncollectable" => w = "free" /\ o \in marked',
         \A b \in UncollectableBlocks \cap (freeBlk \ freeBlk') :
           \E o \in marked' : BlockOf[o] = b,
         bytesAllocd => bytesAllocd',
         w = "tl" => bytesAllocd' \/ S = {},
         UNCHANGED <<roots, pend, markState, stack, scanPtr, objectsAreMarked,
                     vdb, ctl, policy>>
  PROVE  IndInv'
<1>1. TypeOK /\ frame = "none"
  BY DEF IndInv, ControlConsistent
<1>r. Reachable \subseteq Obj
  BY <1>1, ReachableFacts
<1>3. Reachable' \subseteq Reachable
  <2>1. roots' \subseteq Reachable
    BY <1>1, ReachableFacts
  <2>2. PermanentRoots' \subseteq Reachable
    BY <1>1, ReachableFacts DEF PermanentRoots, KindOf
  <2>4. \A x \in Reachable, g \in Field :
          KindOf(x) # "ptrfree" /\ heap'[x][g] # Null => heap'[x][g] \in Reachable
    BY <1>1, <1>r, ReachableFacts
  <2> QED BY <1>r, <2>1, <2>2, <2>4, ReachableStep
<1>4. LiveKept'
  BY <1>3, <1>r DEF IndInv, LiveKept
<1>5. MarkBitsConsistent'
  BY DEF MarkBitsConsistent, ctl
<1>6. SweepSeesMarks'
  BY <1>1, <1>3 DEF IndInv, SweepSeesMarks, ctl
<1>7. UncollectableMarked'
  BY DEF IndInv, UncollectableMarked, KindOf
<1>8. BlocksConsistent'
  <2>1. \A b \in UncollectableBlocks \ freeBlk' : \E o \in marked' : BlockOf[o] = b
    BY DEF IndInv, BlocksConsistent
  <2>2. \A o \in Obj : BlockOf[o] \in freeBlk' => where'[o] = "none"
    BY DEF IndInv, BlocksConsistent
  <2>3. \A o \in Obj : where'[o] = "tl" => KindOf(o) # "uncollectable"
    BY DEF IndInv, BlocksConsistent
  <2>4. reclaimList' \cap freeBlk' = {}
    BY DEF IndInv, BlocksConsistent
  <2> QED BY <2>1, <2>2, <2>3, <2>4 DEF BlocksConsistent, UncollectableBlocks, KindOf
<1>9. StoresKept'
  <2> SUFFICES ASSUME NEW e \in pend
               PROVE  e[1] \in roots' /\ heap'[e[1]][e[2]] \in roots' \cup {Null}
    BY DEF StoresKept
  <2>1. e[1] \in roots /\ heap[e[1]][e[2]] \in roots \cup {Null}
    BY DEF IndInv, StoresKept
  <2>2. e[1] \in Obj \ S
    BY <1>1, <1>r, <2>1, ReachableFacts
  <2> QED BY <2>1, <2>2
<1>10. Tricolour'
  <2> SUFFICES ASSUME NEW x \in Reachable' \cap marked', NEW g \in Field,
                      KindOf(x) # "ptrfree", heap'[x][g] # Null
               PROVE  heap'[x][g] \in marked' \/ Ungreyed(x, g)'
    BY DEF Tricolour, KindOf
  <2>1. x \in Reachable /\ x \in marked /\ heap'[x][g] = heap[x][g]
    BY <1>3, <1>r
  <2>2. heap[x][g] \in marked \/ Ungreyed(x, g)
    BY <2>1 DEF IndInv, Tricolour
  <2> QED BY <2>1, <2>2 DEF Ungreyed, KindOf, stack, vdb, ctl
<1>11. StoppedConsistent'
  BY DEF StoppedConsistent, ctl
<1>12. CleanWhenIdle'
  <2>1. bytesAllocd' \/ TLFreeLists' \subseteq TLFreeLists
    BY DEF TLFreeLists
  <2> QED BY <1>3, <2>1 DEF IndInv, CleanWhenIdle, vdb, ctl
<1>13. MarkerConsistent'
  BY <1>1 DEF IndInv, MarkerConsistent, KindOf, stack, TypeOK
<1>14. ControlConsistent'
  BY DEF IndInv, ControlConsistent, ctl, policy
<1> QED BY <1>4, <1>5, <1>6, <1>7, <1>8, <1>9, <1>10, <1>11, <1>12, <1>13, <1>14 DEF IndInv

\* A block that is swept: nothing reachable is (SweepSeesMarks), and no mark
\* bit that GC_set_hdr_marks gives back is one of a reachable object.
LEMMA SweptFacts ==
  ASSUME IndInv, frame = "none", NEW b \in reclaimList
  PROVE  /\ Swept({b}) \cap Reachable = {}
         /\ \A o \in Swept({b}) : /\ o \in Obj /\ BlockOf[o] = b
                                  /\ BlockOf[o] \notin freeBlk
         /\ Reachable \cap SetHdrMarks({b}) \subseteq marked
         /\ \A o \in SetHdrMarks({b}) : KindOf(o) = "uncollectable"
         /\ \A o \in Swept({b}) : KindOf(o) = "uncollectable" => o \in SetHdrMarks({b})
<1>1. Swept({b}) \cap Reachable = {}
  BY DEF IndInv, SweepSeesMarks, Swept
<1>2. Reachable \cap SetHdrMarks({b}) \subseteq marked
  BY LiveFacts DEF IndInv, UncollectableMarked, SetHdrMarks
<1>3. \A o \in Swept({b}) : o \in Obj /\ BlockOf[o] = b /\ BlockOf[o] \notin freeBlk
  BY DEF IndInv, BlocksConsistent, Swept
<1> QED BY <1>1, <1>2, <1>3 DEF Swept, SetHdrMarks

\* Sweeping one block, whoever does it, preserves IndInv.
LEMMA SweepBlockInv ==
  ASSUME IndInv, TypeOK', NEW b \in reclaimList, pc \in {"run", "tryfull"},
         GC_reclaim_generic({b}), marked' = marked \cup SetHdrMarks({b}),
         reclaimList' = reclaimList \ {b},
         UNCHANGED <<roots, pend, freeBlk, bytesAllocd, markState, stack, scanPtr,
                     objectsAreMarked, vdb, ctl, policy>>
  PROVE  IndInv'
<1>1. TypeOK /\ frame = "none" /\ Swept({b}) \in SUBSET Obj
  BY DEF IndInv, ControlConsistent, Swept
<1>2. /\ \A o \in Obj : where'[o] = IF o \in Swept({b}) THEN "free" ELSE where[o]
      /\ \A o \in Obj \ Swept({b}) : heap'[o] = heap[o]
  BY DEF GC_reclaim_generic, FreeObjects, ClearObjects
<1> QED BY <1>1, <1>2, SweptFacts, AllocatorStep

\* GC_continue_reclaim and GC_reclaim_all preserve IndInv.
LEMMA ReclaimInv ==
  ASSUME IndInv, NEW b \in Block, GC_continue_reclaim(b) \/ TryReclaimAll(b)
  PROVE  IndInv'
<1>1. TypeOK'
  BY AllocatorType, ControlType DEF IndInv, Allocator, Control
<1> QED BY <1>1, SweepBlockInv DEF GC_continue_reclaim, TryReclaimAll

\* A fresh block: all its objects were on no list, so none is reachable.
LEMMA FreshFacts ==
  ASSUME IndInv, NEW b \in freeBlk
  PROVE  /\ ObjsIn(b) \in SUBSET Obj /\ ObjsIn(b) \cap Reachable = {}
         /\ \A o \in ObjsIn(b) : BlockOf[o] = b /\ BlockOf[o] \notin reclaimList
         /\ Reachable \cap SetHdrMarks({b}) = {}
         /\ \A o \in SetHdrMarks({b}) : KindOf(o) = "uncollectable"
         /\ \A o \in ObjsIn(b) : KindOf(o) = "uncollectable" => o \in SetHdrMarks({b})
         /\ b \in UncollectableBlocks => \E o \in SetHdrMarks({b}) : BlockOf[o] = b
<1>1. b \in Block
  BY DEF IndInv, TypeOK
<1>2. PICK o \in Obj : BlockOf[o] = b
  BY <1>1, NonEmpty
<1>3. b \in UncollectableBlocks => o \in SetHdrMarks({b})
  BY <1>2 DEF UncollectableBlocks, SetHdrMarks, KindOf
<1>4. ObjsIn(b) \cap Reachable = {} /\ Reachable \cap SetHdrMarks({b}) = {}
  BY LiveFacts DEF ObjsIn, SetHdrMarks, InUse
<1> QED BY <1>2, <1>3, <1>4 DEF ObjsIn, SetHdrMarks, IndInv, BlocksConsistent

\* A fresh block for a global or a thread-local free list preserves IndInv.
LEMMA NewBlockInv ==
  ASSUME IndInv, NEW b \in Block, GC_new_hblk(b) \/ GC_malloc_many_fresh(b)
  PROVE  IndInv'
<1>1. TypeOK'
  BY AllocatorType DEF IndInv, Allocator
<1>2. CASE GC_new_hblk(b)
  <2>1. /\ \A o \in Obj : where'[o] = IF o \in ObjsIn(b) THEN "free" ELSE where[o]
        /\ \A o \in Obj \ ObjsIn(b) : heap'[o] = heap[o]
    BY <1>2 DEF GC_new_hblk, FreeObjects, ClearObjects
  <2>2. /\ pc = "run" /\ b \in freeBlk /\ marked' = marked \cup SetHdrMarks({b})
        /\ freeBlk' = freeBlk \ {b} /\ reclaimList' = reclaimList
        /\ bytesAllocd' = bytesAllocd
        /\ UNCHANGED <<roots, pend, markState, stack, scanPtr, objectsAreMarked,
                       vdb, ctl, policy>>
    BY <1>2 DEF GC_new_hblk
  <2>3. \A o \in ObjsIn(b) : o \notin marked' => KindOf(o) # "uncollectable"
    BY <2>2, FreshFacts
  <2> QED BY <1>1, <2>1, <2>2, <2>3, FreshFacts, AllocatorStep
<1>3. CASE GC_malloc_many_fresh(b)
  <2>1. /\ \A o \in Obj : where'[o] = IF o \in ObjsIn(b) THEN "tl" ELSE where[o]
        /\ \A o \in Obj \ ObjsIn(b) : heap'[o] = heap[o]
    BY <1>3 DEF GC_malloc_many_fresh, ToThread, ClearObjects
  <2>2. /\ pc = "run" /\ b \in freeBlk /\ marked' = marked
        /\ freeBlk' = freeBlk \ {b} /\ reclaimList' = reclaimList /\ bytesAllocd'
        /\ UNCHANGED <<roots, pend, markState, stack, scanPtr, objectsAreMarked,
                       vdb, ctl, policy>>
    BY <1>3 DEF GC_malloc_many_fresh, mark
  <2>3. \A o \in ObjsIn(b) : KindOf(o) # "uncollectable"
    BY <1>3, TLKindsAreKinds DEF GC_malloc_many_fresh, ObjsIn, KindOf
  <2>4. b \notin UncollectableBlocks
    BY <1>3, TLKindsAreKinds DEF GC_malloc_many_fresh, UncollectableBlocks
  <2>5. /\ ObjsIn(b) \in SUBSET Obj /\ ObjsIn(b) \cap Reachable = {}
        /\ \A o \in ObjsIn(b) : /\ BlockOf[o] \notin freeBlk'
                               /\ BlockOf[o] \notin reclaimList'
    BY <2>2, FreshFacts
  <2>6. \A c \in UncollectableBlocks \cap (freeBlk \ freeBlk') :
          \E o \in marked' : BlockOf[o] = c
    BY <2>2, <2>4
  <2> QED BY <1>1, <2>1, <2>2, <2>3, <2>5, <2>6, AllocatorStep
<1> QED BY <1>2, <1>3

\* Moving a prefix of a global free list to a thread preserves IndInv.
LEMMA MallocManyInv ==
  ASSUME IndInv, NEW k \in Kinds, GC_malloc_many(k) PROVE IndInv'
<1>1. TypeOK'
  BY ClientType DEF IndInv, Client
<1>2. PICK S \in SUBSET {o \in Obj : where[o] = "free" /\ KindOf(o) = k} : ToThread(S)
  BY DEF GC_malloc_many
<1>3. \A o \in Obj : where'[o] = IF o \in S THEN "tl" ELSE where[o]
  BY <1>2 DEF ToThread
<1>4. S \in SUBSET Obj /\ S \cap Reachable = {}
  BY <1>2, LiveFacts
<1>5. /\ pc = "run" /\ bytesAllocd' /\ marked' = marked /\ heap' = heap
      /\ freeBlk' = freeBlk /\ reclaimList' = reclaimList /\ frame = "none"
      /\ UNCHANGED <<roots, pend, markState, stack, scanPtr, objectsAreMarked,
                     vdb, ctl, policy>>
  BY DEF GC_malloc_many, client, mark, IndInv, ControlConsistent
<1>6. \A o \in S : /\ BlockOf[o] \notin freeBlk
                   /\ BlockOf[o] \in reclaimList => o \in marked
                   /\ KindOf(o) # "uncollectable"
  BY <1>2, <1>5, TLKindsAreKinds DEF GC_malloc_many, IndInv, BlocksConsistent, SweepSeesMarks
<1> QED BY <1>1, <1>3, <1>4, <1>5, <1>6, AllocatorStep

\* Sweeping a block straight into a thread-local list preserves IndInv.
LEMMA MallocManySweptInv ==
  ASSUME IndInv, NEW b \in Block, GC_malloc_many_swept(b) PROVE IndInv'
<1>1. TypeOK' /\ Swept({b}) \in SUBSET Obj
  BY AllocatorType DEF IndInv, Allocator, Swept
<1>2. /\ \A o \in Obj : where'[o] = IF o \in Swept({b}) THEN "tl" ELSE where[o]
      /\ \A o \in Obj \ Swept({b}) : heap'[o] = heap[o]
  BY DEF GC_malloc_many_swept, ToThread, ClearObjects
<1>3. /\ pc = "run" /\ b \in reclaimList /\ marked' = marked /\ frame = "none"
      /\ freeBlk' = freeBlk /\ reclaimList' = reclaimList \ {b}
      /\ UNCHANGED <<roots, pend, markState, stack, scanPtr, objectsAreMarked,
                     vdb, ctl, policy>>
  BY DEF GC_malloc_many_swept, mark, IndInv, ControlConsistent
<1>4. \A o \in Swept({b}) : KindOf(o) # "uncollectable"
  BY TLKindsAreKinds DEF GC_malloc_many_swept, Swept, KindOf
<1>5. (bytesAllocd => bytesAllocd') /\ (bytesAllocd' \/ Swept({b}) = {})
  BY DEF GC_malloc_many_swept
<1> QED BY <1>1, <1>2, <1>3, <1>4, <1>5, SweptFacts, AllocatorStep

(***************************************************************************)
(* Steps of the marker: mark bits are only added, and what is left to show *)
(* is the tricolour invariant and what the mark state promises.            *)
(***************************************************************************)
LEMMA MarkerStep ==
  ASSUME IndInv, TypeOK', UNCHANGED <<client, alloc, vdb, ctl, policy>>,
         pc \in {"little", "stopped"}, marked \subseteq marked', markState' # "NONE",
         markState' = "PUSH_RESCUERS" => markState = "PUSH_RESCUERS",
         Tricolour', MarkerConsistent',
         pc = "stopped" /\ markState' = "ROOTS_PUSHED"
           => roots \cup TLFreeLists \subseteq marked'
  PROVE  IndInv'
<1>1. Reachable' = Reachable
  BY ReachableUnchanged DEF client, alloc
<1>4. LiveKept' /\ MarkBitsConsistent' /\ SweepSeesMarks'
  BY <1>1 DEF IndInv, LiveKept, MarkBitsConsistent, SweepSeesMarks, alloc, ctl
<1>5. UncollectableMarked' /\ BlocksConsistent'
  BY DEF IndInv, UncollectableMarked, BlocksConsistent, UncollectableBlocks, KindOf, alloc
<1>6. StoresKept'
  BY DEF IndInv, StoresKept, client
<1>7. StoppedConsistent'
  BY DEF IndInv, StoppedConsistent, TLFreeLists, client, alloc, vdb, ctl
<1>8. CleanWhenIdle'
  BY DEF IndInv, CleanWhenIdle, vdb, ctl
<1>9. ControlConsistent'
  BY DEF IndInv, ControlConsistent, alloc, ctl, policy
<1> QED BY <1>4, <1>5, <1>6, <1>7, <1>8, <1>9 DEF IndInv

\* A word is taken off the stack, and what it points to is marked and pushed.
LEMMA MarkFromInv ==
  ASSUME IndInv, NEW small \in BOOLEAN, GC_mark_from(small), TypeOK',
         UNCHANGED <<client, alloc, vdb, ctl, policy>>, pc \in {"little", "stopped"}
  PROVE  IndInv'
<1>1. PICK e \in markStack :
        /\ marked' = marked \cup Unmarked({heap[e[1]][e[2]]})
        /\ PushWords(markStack \ {e}, Words(Unmarked({heap[e[1]][e[2]]})), stackSize,
                     markState, small)
        /\ objectsAreMarked' = TRUE
        /\ UNCHANGED scanPtr
  BY DEF GC_mark_from
<1> DEFINE new == Unmarked({heap[e[1]][e[2]]})
<1>2. TypeOK /\ markStack # {} /\ markState # "NONE" /\ new \in SUBSET Obj
  BY <1>1 DEF IndInv, MarkerConsistent, Unmarked
<1>3. \/ markState' = "INVALID"
      \/ markState' = markState /\ markStack' = (markStack \ {e}) \cup Words(new)
  BY <1>1 DEF PushWords
<1>4. MarkerConsistent'
  BY <1>1, <1>2, <1>3 DEF MarkerConsistent
<1>5. Reachable' = Reachable
  BY ReachableUnchanged DEF client, alloc
<1>6. Tricolour'
  <2> SUFFICES ASSUME NEW x \in Reachable \cap marked', NEW g \in Field,
                      KindOf(x) # "ptrfree", heap[x][g] # Null, markState' # "INVALID"
               PROVE  heap[x][g] \in marked' \/ Ungreyed(x, g)'
    BY <1>5 DEF Tricolour, KindOf, client, Ungreyed
  <2>1. CASE x \in new
    BY <1>3, <2>1 DEF Words, Ungreyed
  <2>2. CASE x \in marked
    <3>1. CASE e = <<x, g>>
      <4>1. heap[x][g] \in Reachable
        BY <1>2, ReachableFacts
      <4>2. heap[x][g] \in Obj /\ InUse(BlockOf[heap[x][g]])
        BY <4>1, LiveFacts
      <4> QED BY <1>1, <3>1, <4>2 DEF Unmarked
    <3>2. CASE e # <<x, g>>
      <4>1. heap[x][g] \in marked \/ Ungreyed(x, g)
        BY <2>2 DEF IndInv, Tricolour
      <4> QED BY <1>1, <1>3, <3>2, <4>1 DEF Ungreyed, KindOf, client, alloc, vdb, ctl
    <3> QED BY <3>1, <3>2
  <2> QED BY <1>1, <2>1, <2>2
<1>7. pc = "stopped" /\ markState' = "ROOTS_PUSHED" => roots \cup TLFreeLists \subseteq marked'
  BY <1>1, <1>3 DEF IndInv, StoppedConsistent
<1>8. /\ marked \subseteq marked' /\ markState' # "NONE"
      /\ markState' = "PUSH_RESCUERS" => markState = "PUSH_RESCUERS"
  BY <1>1, <1>2, <1>3
<1> QED BY <1>4, <1>6, <1>7, <1>8, MarkerStep

\* The roots are pushed, all that the scans before were for having been done.
LEMMA PushRootsInv ==
  ASSUME IndInv, NEW size \in Nat, NEW small \in BOOLEAN,
         push_roots_and_advance(size, small), TypeOK',
         UNCHANGED <<client, alloc, vdb, ctl, policy>>, pc \in {"little", "stopped"},
         markState # "NONE",
         \A x \in Reachable :
           /\ markState # "INVALID"
           /\ ~(markState = "PARTIALLY_INVALID" /\ BlockOf[x] >= scanPtr)
           /\ ~(markState = "PUSH_RESCUERS" /\ BlockOf[x] \in grungy /\ BlockOf[x] >= scanPtr)
           /\ ~(/\ markState = "PUSH_UNCOLLECTABLE"
                /\ KindOf(x) = "uncollectable" /\ BlockOf[x] >= scanPtr)
  PROVE  IndInv'
<1> DEFINE new == Unmarked(roots \cup Junk)
<1>1. /\ marked' = marked \cup new \cup TLMarks
      /\ PushWords(markStack, Words(new), size, "ROOTS_PUSHED", small)
      /\ objectsAreMarked' = TRUE
  BY DEF push_roots_and_advance
<1>2. TypeOK
  BY DEF IndInv
<1>3. \/ markState' = "INVALID"
      \/ markState' = "ROOTS_PUSHED" /\ markStack' = markStack \cup Words(new)
  BY <1>1 DEF PushWords
<1>4. MarkerConsistent'
  BY <1>1, <1>3 DEF MarkerConsistent
<1>5. Reachable' = Reachable
  BY ReachableUnchanged DEF client, alloc
<1>6. Tricolour'
  <2> SUFFICES ASSUME NEW x \in Reachable \cap marked', NEW g \in Field,
                      KindOf(x) # "ptrfree", heap[x][g] # Null, markState' # "INVALID"
               PROVE  heap[x][g] \in marked' \/ Ungreyed(x, g)'
    BY <1>5 DEF Tricolour, KindOf, client, Ungreyed
  <2>1. CASE x \in new
    BY <1>3, <2>1 DEF Words, Ungreyed
  <2>2. CASE x \in marked
    <3>1. heap[x][g] \in marked \/ Ungreyed(x, g)
      BY <2>2 DEF IndInv, Tricolour
    <3> QED BY <1>1, <1>3, <3>1 DEF Ungreyed, KindOf, client, alloc, vdb, ctl
  <2>3. x \notin TLMarks
    BY LiveFacts DEF TLMarks, TLFreeLists
  <2> QED BY <1>1, <2>1, <2>2, <2>3
<1>7. pc = "stopped" => roots \cup TLFreeLists \subseteq marked'
  <2>1. \A x \in roots : x \in Obj /\ InUse(BlockOf[x])
    BY <1>2, ReachableFacts, LiveFacts
  <2> QED BY <1>1, <2>1 DEF Unmarked, TLMarks, WorldStopped
<1>8. /\ marked \subseteq marked' /\ markState' # "NONE"
      /\ markState' = "PUSH_RESCUERS" => markState = "PUSH_RESCUERS"
  BY <1>1, <1>3
<1> QED BY <1>4, <1>6, <1>7, <1>8, MarkerStep

\* The marked objects of the next block are pushed; Covers: every block that
\* the tricolour invariant still relies on is ahead of the scan.
LEMMA PushMarkedInv ==
  ASSUME IndInv, NEW bs \in SUBSET Block, NEW size \in Nat, NEW small \in BOOLEAN,
         NEW state \in {"INVALID", "PARTIALLY_INVALID", "PUSH_RESCUERS", "PUSH_UNCOLLECTABLE"},
         GC_push_marked(bs, size, state, small), TypeOK',
         UNCHANGED <<client, alloc, vdb, ctl, policy>>, pc \in {"little", "stopped"},
         markState # "NONE",
         state = "PUSH_RESCUERS" => markState = "PUSH_RESCUERS",
         objectsAreMarked \/ state = "PUSH_RESCUERS"
           \/ (state = "PUSH_UNCOLLECTABLE" /\ bs = UncollectableBlocks),
         \A x \in Reachable :
           \/ markState = "INVALID"
           \/ markState = "PARTIALLY_INVALID" /\ BlockOf[x] >= scanPtr
           \/ markState = "PUSH_RESCUERS" /\ BlockOf[x] \in grungy /\ BlockOf[x] >= scanPtr
           \/ /\ markState = "PUSH_UNCOLLECTABLE"
              /\ KindOf(x) = "uncollectable" /\ BlockOf[x] >= scanPtr
           => /\ BlockOf[x] \in bs /\ BlockOf[x] >= scanPtr
              /\ \/ state \in {"INVALID", "PARTIALLY_INVALID"}
                 \/ state = "PUSH_RESCUERS" /\ BlockOf[x] \in grungy
                 \/ state = "PUSH_UNCOLLECTABLE" /\ KindOf(x) = "uncollectable"
  PROVE  IndInv'
<1>1. PICK b \in Ahead(bs) :
        /\ \A c \in Ahead(bs) : b <= c
        /\ PushWords(markStack, Words(marked \cap ObjsIn(b)), size, state, small)
        /\ objectsAreMarked' = (objectsAreMarked \/ Words(marked \cap ObjsIn(b)) # {})
        /\ scanPtr' = Past(b)
        /\ UNCHANGED marked
  BY DEF GC_push_marked
<1> DEFINE words == Words(marked \cap ObjsIn(b))
<1>2. TypeOK /\ b \in Block /\ InUse(b) /\ b \in bs
  BY DEF IndInv, Ahead
<1>p. PushWords(markStack, words, size, state, small)
  BY <1>1
<1>3. \/ markState' = "INVALID"
      \/ markState' = state /\ markStack' = markStack \cup words
  BY <1>p DEF PushWords
<1>4. MarkerConsistent'
  <2>1. markState' # "NONE"
    BY <1>3
  <2>2. ASSUME ~objectsAreMarked'
        PROVE  /\ marked' \subseteq {o \in Obj : KindOf(o) = "uncollectable"}
               /\ markStack' = {} /\ markState' = "PUSH_RESCUERS"
    <3>1. ~objectsAreMarked /\ words = {}
      BY <1>1, <2>2
    <3>2. marked \subseteq {o \in Obj : KindOf(o) = "uncollectable"} /\ markStack = {}
      BY <3>1 DEF IndInv, MarkerConsistent
    <3>3. bs # UncollectableBlocks
      <4>1. SUFFICES ASSUME bs = UncollectableBlocks PROVE FALSE
        OBVIOUS
      <4>2. PICK o \in marked : BlockOf[o] = b
        BY <1>2, <4>1 DEF IndInv, BlocksConsistent, InUse
      <4>3. PICK f \in Field : TRUE
        BY NonEmpty
      <4>4. <<o, f>> \in words
        BY <3>2, <4>2, <4>3 DEF Words, ObjsIn
      <4> QED BY <3>1, <4>4
    <3>4. state = "PUSH_RESCUERS"
      BY <3>1, <3>3
    <3>5. PushWords({}, {}, size, state, small)
      BY <1>p, <3>1, <3>2
    <3>6. markState' = state /\ markStack' = {}
      <4>1. Cardinality({}) = 0
        BY FS_EmptySet
      <4>2. ~(Cardinality({}) + Cardinality({}) > size)
        BY <4>1
      <4> QED BY <3>5, <4>2 DEF PushWords
    <3> QED BY <1>1, <3>2, <3>4, <3>6
  <2> QED BY <2>1, <2>2 DEF MarkerConsistent, KindOf
<1>5. Reachable' = Reachable
  BY ReachableUnchanged DEF client, alloc
<1>6. Tricolour'
  <2> SUFFICES ASSUME NEW x \in Reachable \cap marked, NEW g \in Field,
                      KindOf(x) # "ptrfree", heap[x][g] # Null, markState' # "INVALID"
               PROVE  heap[x][g] \in marked \/ Ungreyed(x, g)'
    BY <1>1, <1>5 DEF Tricolour, KindOf, client, Ungreyed
  <2>1. heap[x][g] \in marked \/ Ungreyed(x, g)
    BY DEF IndInv, Tricolour
  <2>2. /\ BlockOf[x] \in Block /\ InUse(BlockOf[x]) /\ x \in Obj
    BY LiveFacts
  <2>3. ASSUME BlockOf[x] \in bs, BlockOf[x] >= scanPtr
        PROVE  <<x, g>> \in markStack' \/ BlockOf[x] >= scanPtr'
    <3>1. b <= BlockOf[x]
      BY <1>1, <2>2, <2>3 DEF Ahead
    <3>2. CASE BlockOf[x] = b
      BY <1>3, <2>2, <3>2 DEF Words, ObjsIn
    <3>3. CASE BlockOf[x] # b
      BY <1>1, <1>2, <2>2, <3>1, <3>3, SizesAreNat DEF Past, Block
    <3> QED BY <3>2, <3>3
  <2>4. CASE \/ markState = "INVALID"
             \/ markState = "PARTIALLY_INVALID" /\ BlockOf[x] >= scanPtr
             \/ markState = "PUSH_RESCUERS" /\ BlockOf[x] \in grungy /\ BlockOf[x] >= scanPtr
             \/ /\ markState = "PUSH_UNCOLLECTABLE"
                /\ KindOf(x) = "uncollectable" /\ BlockOf[x] >= scanPtr
    BY <1>3, <2>3, <2>4 DEF Ungreyed, KindOf, vdb
  <2> QED BY <1>3, <2>1, <2>4 DEF Ungreyed, KindOf, client, alloc, vdb, ctl
<1>8. /\ marked \subseteq marked' /\ markState' \notin {"NONE", "ROOTS_PUSHED"}
      /\ markState' = "PUSH_RESCUERS" => markState = "PUSH_RESCUERS"
  BY <1>1, <1>3
<1> QED BY <1>4, <1>6, <1>8, MarkerStep

\* Every state of GC_mark_some's state machine preserves IndInv.
LEMMA MarkSomeInv ==
  ASSUME IndInv, GC_mark_some, TypeOK', pc \in {"little", "stopped"} PROVE IndInv'
<1>u. UNCHANGED <<client, alloc, vdb, ctl, policy>>
  BY DEF GC_mark_some
<1>t. /\ TypeOK /\ stackSize \in Nat /\ tooSmall \in BOOLEAN /\ scanPtr \in Nat
      /\ grungy \in SUBSET Block /\ UncollectableBlocks \in SUBSET Block
      /\ Block \in SUBSET Block
  BY SizesAreNat DEF IndInv, TypeOK, UncollectableBlocks
<1>l. \A x \in Reachable : /\ BlockOf[x] \in Block /\ BlockOf[x] \in Nat
                           /\ InUse(BlockOf[x]) /\ BlockOf[x] >= 0
  BY LiveFacts DEF Block
<1>k. \A x \in Reachable : KindOf(x) = "uncollectable" => BlockOf[x] \in UncollectableBlocks
  BY <1>l DEF UncollectableBlocks, KindOf
<1>1. CASE MarkSomeRescuers
  <2>1. CASE GC_mark_from(TRUE)
    BY <1>u, <2>1, MarkFromInv
  <2>2. CASE GC_push_marked(grungy, stackSize, "PUSH_RESCUERS", tooSmall)
    <3>1. markState = "PUSH_RESCUERS"
      BY <1>1 DEF MarkSomeRescuers
    <3> QED BY <1>t, <1>u, <2>2, <3>1, PushMarkedInv
  <2>3. CASE Ahead(grungy) = {} /\ push_roots_and_advance(stackSize, tooSmall)
    <3>1. markState = "PUSH_RESCUERS"
      BY <1>1 DEF MarkSomeRescuers
    <3>2. \A x \in Reachable : ~(BlockOf[x] \in grungy /\ BlockOf[x] >= scanPtr)
      BY <1>l, <2>3 DEF Ahead
    <3> QED BY <1>t, <1>u, <2>3, <3>1, <3>2, PushRootsInv
  <2> QED BY <1>1, <2>1, <2>2, <2>3 DEF MarkSomeRescuers
<1>2. CASE MarkSomeUncollectable
  <2>1. CASE GC_mark_from(tooSmall)
    BY <1>t, <1>u, <2>1, MarkFromInv
  <2>2. CASE GC_push_marked(UncollectableBlocks, stackSize, "PUSH_UNCOLLECTABLE", tooSmall)
    <3>1. markState = "PUSH_UNCOLLECTABLE"
      BY <1>2 DEF MarkSomeUncollectable
    <3> QED BY <1>t, <1>k, <1>u, <2>2, <3>1, PushMarkedInv
  <2>3. CASE /\ Ahead(UncollectableBlocks) = {}
             /\ push_roots_and_advance(stackSize, tooSmall)
    <3>1. markState = "PUSH_UNCOLLECTABLE"
      BY <1>2 DEF MarkSomeUncollectable
    <3>2. \A x \in Reachable : ~(KindOf(x) = "uncollectable" /\ BlockOf[x] >= scanPtr)
      BY <1>l, <1>k, <2>3 DEF Ahead
    <3> QED BY <1>t, <1>u, <2>3, <3>1, <3>2, PushRootsInv
  <2> QED BY <1>2, <2>1, <2>2, <2>3 DEF MarkSomeUncollectable
<1>3. CASE MarkSomeRootsPushed \/ MarkSomeInvalidDrain
  BY <1>3, <1>t, <1>u, MarkFromInv DEF MarkSomeRootsPushed, MarkSomeInvalidDrain
<1>4. CASE MarkSomeStartFull
  <2>1. /\ markState = "INVALID" /\ scanPtr = 0 /\ ~objectsAreMarked
        /\ \A x \in marked : KindOf(x) = "uncollectable"
    BY <1>4 DEF MarkSomeStartFull, IndInv, MarkerConsistent
  <2>2. /\ markState' = "PUSH_UNCOLLECTABLE"
        /\ UNCHANGED <<marked, stack, scanPtr, objectsAreMarked>>
    BY <1>4 DEF MarkSomeStartFull
  <2>3. Reachable' = Reachable
    BY <1>u, ReachableUnchanged DEF client, alloc
  <2>4. Tricolour'
    BY <1>l, <2>1, <2>2, <2>3 DEF Tricolour, Ungreyed, KindOf
  <2>5. MarkerConsistent'
    BY <2>1, <2>2 DEF IndInv, MarkerConsistent, KindOf, stack
  <2> QED BY <1>u, <2>2, <2>4, <2>5, MarkerStep
<1>5. CASE MarkSomeInvalidScan
  <2>1. /\ markState \in {"INVALID", "PARTIALLY_INVALID"} /\ objectsAreMarked
        /\ markState = "INVALID" /\ ScanState = "PARTIALLY_INVALID" => scanPtr = 0
        /\ ScanState \in {"INVALID", "PARTIALLY_INVALID"}
        /\ markState = "PARTIALLY_INVALID" => ScanState = "PARTIALLY_INVALID"
    BY <1>5 DEF MarkSomeInvalidScan, ScanState, ScanStarts
  <2>2. ASSUME NEW size \in IF ScanStarts THEN GrownSizes ELSE {stackSize},
               GC_push_marked(Block, size, ScanState, tooSmall /\ ~ScanStarts)
        PROVE  IndInv'
    <3>1. size \in Nat
      BY <1>t, GrownSizesType
    <3>2. (tooSmall /\ ~ScanStarts) \in BOOLEAN
      OBVIOUS
    <3>3. CASE ScanState = "PARTIALLY_INVALID"
      <4>1. \A x \in Reachable :
              \/ markState = "INVALID"
              \/ markState = "PARTIALLY_INVALID" /\ BlockOf[x] >= scanPtr
              => BlockOf[x] \in Block /\ BlockOf[x] >= scanPtr
        BY <1>l, <2>1, <3>3
      <4> QED BY <1>t, <1>u, <2>1, <2>2, <3>1, <3>2, <3>3, <4>1, PushMarkedInv
    <3>4. CASE ScanState = "INVALID"
      <4>1. markState' = "INVALID" /\ objectsAreMarked' /\ marked' = marked
        <5>1. PICK c \in Ahead(Block) :
                /\ PushWords(markStack, Words(marked \cap ObjsIn(c)), size, ScanState,
                             tooSmall /\ ~ScanStarts)
                /\ objectsAreMarked' = (objectsAreMarked \/ Words(marked \cap ObjsIn(c)) # {})
                /\ UNCHANGED marked
          BY <2>2 DEF GC_push_marked
        <5>2. markState' = "INVALID"
          BY <5>1, <3>4 DEF PushWords
        <5> QED BY <2>1, <5>1, <5>2
      <4>2. Tricolour'
        BY <4>1 DEF Tricolour, Ungreyed
      <4>3. MarkerConsistent'
        BY <4>1 DEF MarkerConsistent
      <4> QED BY <1>u, <4>1, <4>2, <4>3, MarkerStep
    <3> QED BY <2>1, <3>3, <3>4
  <2>3. ASSUME NEW size \in IF ScanStarts THEN GrownSizes ELSE {stackSize},
               Ahead(Block) = {}, ScanState = "PARTIALLY_INVALID",
               push_roots_and_advance(size, tooSmall /\ ~ScanStarts)
        PROVE  IndInv'
    <3>1. size \in Nat
      BY <1>t, GrownSizesType
    <3>2. (tooSmall /\ ~ScanStarts) \in BOOLEAN
      OBVIOUS
    <3>3. \A x \in Reachable : /\ markState # "INVALID"
                               /\ ~(BlockOf[x] >= scanPtr)
      BY <1>l, <2>1, <2>3 DEF Ahead
    <3> QED BY <1>u, <2>1, <2>3, <3>1, <3>2, <3>3, PushRootsInv
  <2>4. ASSUME Ahead(Block) = {}, ScanState = "INVALID", scanPtr' = 0,
               UNCHANGED <<marked, markState, stack, objectsAreMarked>>
        PROVE  IndInv'
    <3>1. markState' = "INVALID" /\ objectsAreMarked' /\ marked' = marked
      BY <2>1, <2>4
    <3>2. Tricolour'
      BY <3>1 DEF Tricolour, Ungreyed
    <3>3. MarkerConsistent'
      BY <3>1 DEF MarkerConsistent
    <3> QED BY <1>u, <3>1, <3>2, <3>3, MarkerStep
  <2> QED BY <1>5, <2>2, <2>3, <2>4 DEF MarkSomeInvalidScan
<1> QED BY <1>1, <1>2, <1>3, <1>4, <1>5 DEF GC_mark_some

(***************************************************************************)
(* Steps of the control.                                                   *)
(***************************************************************************)

\* Between GC_stopped_marks, only the callers on the stack change.
LEMMA CallersStep ==
  ASSUME IndInv, TypeOK',
         UNCHANGED <<client, alloc, mark, vdb, frame, stopFunc, incremental, policy>>,
         pc \in {"run", "little", "tryloop", "tryfull"},
         pc' \in {"run", "little", "tryloop", "tryfull"},
         pc' = "run" => outer' = "none",
         pc' \in {"tryfull", "tryloop"} => outer' # "none",
         pc' \in {"little", "tryloop"} \/ outer' = "enable" => incremental,
         outer = "enable" /\ pc = "tryfull" => outer' = "enable" /\ pc' = "tryfull"
  PROVE  IndInv'
<1>1. Reachable' = Reachable
  BY ReachableUnchanged DEF client, alloc
<1>2. frame = "none"
  BY DEF IndInv, ControlConsistent
<1>4. LiveKept' /\ MarkBitsConsistent' /\ SweepSeesMarks'
  BY <1>1 DEF IndInv, LiveKept, MarkBitsConsistent, SweepSeesMarks, alloc, mark
<1>5. UncollectableMarked' /\ BlocksConsistent'
  BY DEF IndInv, UncollectableMarked, BlocksConsistent, UncollectableBlocks, KindOf, alloc, mark
<1>6. StoresKept'
  BY DEF IndInv, StoresKept, client
<1>7. StoppedConsistent'
  BY DEF StoppedConsistent
<1>8. CleanWhenIdle' /\ MarkerConsistent'
  BY <1>1 DEF IndInv, CleanWhenIdle, MarkerConsistent, TLFreeLists, KindOf, client, alloc,
       mark, stack, vdb
<1>9. Tricolour'
  BY <1>1 DEF IndInv, Tricolour, Ungreyed, KindOf, client, alloc, mark, stack, vdb
<1>10. ControlConsistent'
  BY <1>2 DEF IndInv, ControlConsistent, alloc, mark, policy
<1> QED BY <1>4, <1>5, <1>6, <1>7, <1>8, <1>9, <1>10 DEF IndInv

\* Calls and returns of the collection routines preserve IndInv.
LEMMA CallersInv ==
  ASSUME IndInv, TypeOK',
         \/ LittleQuit \/ TryGiveUp \/ TryFinishCurrent
         \/ \E f \in StopFuncs : GC_try_to_collect_inner(f)
         \/ GC_collect_a_little_inner /\ ~(incremental /\ ~InProgress)
  PROVE  IndInv'
<1>c. ControlConsistent
  BY DEF IndInv
<1>1. CASE LittleQuit
  BY <1>1, <1>c, CallersStep DEF LittleQuit, ReturnFromLittle, ControlConsistent
<1>2. CASE TryGiveUp
  BY <1>2, <1>c, CallersStep DEF TryGiveUp, ControlConsistent
<1>3. CASE TryFinishCurrent
  BY <1>3, <1>c, CallersStep DEF TryFinishCurrent, ControlConsistent
<1>4. ASSUME NEW f \in StopFuncs, GC_try_to_collect_inner(f) PROVE IndInv'
  BY <1>4, <1>c, ProgramTyped, CallersStep DEF GC_try_to_collect_inner, ControlConsistent
<1>5. CASE GC_collect_a_little_inner /\ ~(incremental /\ ~InProgress)
  BY <1>5, <1>c, CallersStep DEF GC_collect_a_little_inner, ControlConsistent
<1> QED BY <1>1, <1>2, <1>3, <1>4, <1>5

\* Incremental marking is done: everything not yet marked is reached through
\* the stores since the world was last stopped.
LEMMA LittleDoneInv ==
  ASSUME IndInv, TypeOK', LittleDone PROVE IndInv'
<1>1. Reachable' = Reachable
  BY ReachableUnchanged DEF LittleDone, client, alloc
<1>2. /\ incremental /\ pc = "little" /\ markState = "ROOTS_PUSHED" /\ markState' = "NONE"
      /\ markStack = {} /\ markStack' = {} /\ marked' = marked
      /\ pc' = "stopping" /\ frame = "none" /\ frame' = "little"
      /\ UNCHANGED <<scanPtr, objectsAreMarked, client, alloc, vdb, outer, incremental, policy>>
  BY DEF LittleDone, MarkSomeDone, IndInv, ControlConsistent
<1>4. LiveKept' /\ MarkBitsConsistent' /\ SweepSeesMarks'
  BY <1>1, <1>2 DEF IndInv, LiveKept, MarkBitsConsistent, SweepSeesMarks, alloc
<1>5. UncollectableMarked' /\ BlocksConsistent'
  BY <1>2 DEF IndInv, UncollectableMarked, BlocksConsistent, UncollectableBlocks, KindOf, alloc
<1>6. StoresKept'
  BY <1>2 DEF IndInv, StoresKept, client
<1>7. StoppedConsistent'
  BY <1>2 DEF StoppedConsistent
<1>8. CleanWhenIdle' /\ MarkerConsistent'
  BY <1>2 DEF IndInv, CleanWhenIdle, MarkerConsistent, KindOf
<1>9. Tricolour'
  BY <1>1, <1>2 DEF IndInv, Tricolour, Ungreyed, KindOf, client, alloc, vdb
<1>10. ControlConsistent'
  BY <1>2 DEF IndInv, ControlConsistent, alloc, policy
<1> QED BY <1>4, <1>5, <1>6, <1>7, <1>8, <1>9, <1>10 DEF IndInv

\* A full collection clears the mark bits: MS_INVALID promises nothing.
LEMMA TryStartInv ==
  ASSUME IndInv, TypeOK', TryStart PROVE IndInv'
<1>1. Reachable' = Reachable
  BY ReachableUnchanged DEF TryStart, client, alloc
<1>2. /\ pc = "tryfull" /\ frame' = "try" /\ pc' = "stopping"
      /\ markState' = "INVALID" /\ markStack' = {} /\ scanPtr' = 0
      /\ marked' = {o \in marked : KindOf(o) = "uncollectable"}
      /\ stopFunc' = IF outer = "client" THEN "client" ELSE "never"
      /\ outer = "client" => reclaimList = {}
      /\ UNCHANGED <<client, alloc, vdb, outer, incremental>>
  BY DEF TryStart, GC_clear_marks, SurvivingMarks, SweptBeforeClear
<1>3. TypeOK
  BY DEF IndInv
<1>4. LiveKept' /\ MarkBitsConsistent' /\ SweepSeesMarks'
  BY <1>1, <1>2 DEF IndInv, LiveKept, MarkBitsConsistent, SweepSeesMarks, alloc
<1>5. UncollectableMarked'
  BY <1>2 DEF IndInv, UncollectableMarked, KindOf, alloc
<1>b. BlocksConsistent'
  <2>1. \A c \in UncollectableBlocks \ freeBlk : \E o \in marked' : BlockOf[o] = c
    BY <1>2 DEF IndInv, BlocksConsistent, UncollectableBlocks, KindOf
  <2> QED BY <1>2, <2>1 DEF IndInv, BlocksConsistent, UncollectableBlocks, KindOf, alloc
<1>6. StoresKept'
  BY <1>2 DEF IndInv, StoresKept, client
<1>7. StoppedConsistent'
  BY <1>2 DEF StoppedConsistent
<1>8. CleanWhenIdle' /\ MarkerConsistent'
  BY <1>2, <1>3 DEF IndInv, CleanWhenIdle, MarkerConsistent, KindOf, vdb, TypeOK
<1>9. Tricolour'
  BY <1>2 DEF Tricolour, Ungreyed
<1>10. ControlConsistent'
  BY <1>2 DEF IndInv, ControlConsistent, alloc
<1> QED BY <1>4, <1>5, <1>b, <1>6, <1>7, <1>8, <1>9, <1>10 DEF IndInv

\* A full collection is chosen: the reclaim lists are disposed of before the
\* mark bits are cleared.
LEMMA MaybeFullInv ==
  ASSUME IndInv, TypeOK', pc = "run", incremental, ~InProgress, GC_maybe_gc,
         needFullGc \/ nPartialGcs >= FullFreq
  PROVE  IndInv'
<1>1. PICK bs \in SUBSET reclaimList :
        /\ GC_reclaim_generic(bs)
        /\ reclaimList' = ReclaimListAfter(bs)
        /\ GC_clear_marks(marked \cup SetHdrMarks(bs))
  BY DEF GC_maybe_gc
<1>2. /\ TypeOK /\ frame = "none" /\ outer = "none" /\ markState = "NONE" /\ markStack = {}
  BY DEF IndInv, ControlConsistent, MarkerConsistent, InProgress
<1>3. /\ pc' = "stopping" /\ frame' = "maybe" /\ markStack' = {} /\ reclaimList' = {}
      /\ markState' = "INVALID" /\ scanPtr' = 0
      /\ marked' = {o \in marked \cup SetHdrMarks(bs) : KindOf(o) = "uncollectable"}
      /\ UNCHANGED <<roots, pend, freeBlk, vdb, outer, incremental>>
  BY <1>1, <1>2 DEF GC_maybe_gc, ReclaimListAfter, GC_clear_marks, SurvivingMarks, stack
<1>s. /\ Swept(bs) \cap Reachable = {} /\ Swept(bs) \in SUBSET Obj
      /\ \A o \in Swept(bs) : BlockOf[o] \notin freeBlk
      /\ \A o \in Swept(bs) : KindOf(o) = "uncollectable" => o \in SetHdrMarks(bs)
  BY <1>2 DEF IndInv, SweepSeesMarks, Swept, BlocksConsistent, SetHdrMarks
<1>w. /\ \A o \in Obj : where'[o] = IF o \in Swept(bs) THEN "free" ELSE where[o]
      /\ \A o \in Obj \ Swept(bs) : heap'[o] = heap[o]
  BY <1>1 DEF GC_reclaim_generic, FreeObjects, ClearObjects
<1>r. Reachable \subseteq Obj
  BY <1>2, ReachableFacts
<1>r2. Reachable' \subseteq Reachable
  <2>1. roots' \subseteq Reachable
    BY <1>2, <1>3, ReachableFacts
  <2>2. PermanentRoots' \subseteq Reachable
    BY <1>2, <1>w, ReachableFacts DEF PermanentRoots, KindOf
  <2>4. \A x \in Reachable, g \in Field :
          KindOf(x) # "ptrfree" /\ heap'[x][g] # Null => heap'[x][g] \in Reachable
    BY <1>2, <1>r, <1>s, <1>w, ReachableFacts
  <2> QED BY <1>r, <2>1, <2>2, <2>4, ReachableStep
<1>4. LiveKept' /\ MarkBitsConsistent' /\ SweepSeesMarks'
  BY <1>r2, <1>r, <1>w, <1>s, <1>3 DEF IndInv, LiveKept, MarkBitsConsistent, SweepSeesMarks
<1>5. UncollectableMarked'
  BY <1>3, <1>s, <1>w DEF IndInv, UncollectableMarked, KindOf
<1>b. BlocksConsistent'
  <2>1. \A c \in UncollectableBlocks \ freeBlk : \E o \in marked' : BlockOf[o] = c
    BY <1>3 DEF IndInv, BlocksConsistent, UncollectableBlocks, KindOf
  <2>2. \A o \in Obj : BlockOf[o] \in freeBlk => where'[o] = "none"
    BY <1>s, <1>w DEF IndInv, BlocksConsistent
  <2>3. \A o \in Obj : where'[o] = "tl" => KindOf(o) # "uncollectable"
    BY <1>w DEF IndInv, BlocksConsistent
  <2> QED BY <1>3, <2>1, <2>2, <2>3 DEF BlocksConsistent, UncollectableBlocks, KindOf
<1>6. StoresKept'
  <2> SUFFICES ASSUME NEW e \in pend
               PROVE  e[1] \in roots' /\ heap'[e[1]][e[2]] \in roots' \cup {Null}
    BY <1>3 DEF StoresKept
  <2>1. e[1] \in roots /\ heap[e[1]][e[2]] \in roots \cup {Null}
    BY DEF IndInv, StoresKept
  <2>2. e[1] \in Obj \ Swept(bs)
    BY <1>2, <1>r, <1>s, <2>1, ReachableFacts
  <2> QED BY <1>3, <1>w, <2>1, <2>2
<1>7. StoppedConsistent'
  BY <1>3 DEF StoppedConsistent
<1>8. CleanWhenIdle' /\ MarkerConsistent'
  BY <1>2, <1>3 DEF CleanWhenIdle, MarkerConsistent, KindOf, SetHdrMarks, TypeOK
<1>9. Tricolour'
  BY <1>3 DEF Tricolour, Ungreyed
<1>10. ControlConsistent'
  BY <1>2, <1>3 DEF IndInv, ControlConsistent
<1> QED BY <1>4, <1>5, <1>b, <1>6, <1>7, <1>8, <1>9, <1>10 DEF IndInv

\* A partial collection keeps all mark bits and goes on from them.
LEMMA MaybePartialInv ==
  ASSUME IndInv, TypeOK', pc = "run", incremental, ~InProgress, GC_maybe_gc,
         ~(needFullGc \/ nPartialGcs >= FullFreq)
  PROVE  IndInv'
<1>2. /\ frame = "none" /\ outer = "none" /\ markState = "NONE"
      /\ pc' = "stopping" /\ frame' = "maybe"
      /\ UNCHANGED <<heap, where, reclaimList, isFullGc, mark, roots, pend, freeBlk,
                     bytesAllocd, vdb, outer, incremental>>
  BY DEF IndInv, ControlConsistent, InProgress, GC_maybe_gc
<1>1. Reachable' = Reachable
  BY <1>2, ReachableUnchanged
<1>4. LiveKept' /\ MarkBitsConsistent' /\ SweepSeesMarks'
  BY <1>1, <1>2 DEF IndInv, LiveKept, MarkBitsConsistent, SweepSeesMarks, mark
<1>5. UncollectableMarked' /\ BlocksConsistent'
  BY <1>2 DEF IndInv, UncollectableMarked, BlocksConsistent, UncollectableBlocks, KindOf, mark
<1>6. StoresKept'
  BY <1>2 DEF IndInv, StoresKept
<1>7. StoppedConsistent'
  BY <1>2 DEF StoppedConsistent
<1>8. CleanWhenIdle' /\ MarkerConsistent'
  BY <1>2 DEF IndInv, CleanWhenIdle, MarkerConsistent, KindOf, mark, stack
<1>9. Tricolour'
  BY <1>1, <1>2 DEF IndInv, Tricolour, Ungreyed, KindOf, mark, stack, vdb
<1>10. ControlConsistent'
  BY <1>2 DEF IndInv, ControlConsistent, mark
<1> QED BY <1>4, <1>5, <1>6, <1>7, <1>8, <1>9, <1>10 DEF IndInv

\* The world stops: what was dirty is now grungy, and the scan of the grungy
\* blocks starts at the first block.
LEMMA StopWorldInv ==
  ASSUME IndInv, TypeOK', StopWorld PROVE IndInv'
<1>1. Reachable' = Reachable
  BY ReachableUnchanged DEF StopWorld, client, alloc
<1>2. /\ pc = "stopping" /\ pc' = "stopped" /\ scanPtr' = 0
      /\ markState \in {"NONE", "INVALID"}
      /\ markState = "INVALID" => markState' = "INVALID"
      /\ markState = "NONE" => /\ markState' = "PUSH_RESCUERS" /\ incremental
                               /\ frame # "try" /\ grungy' = dirty
      /\ dirty' = {}
      /\ UNCHANGED <<client, alloc, marked, stack, objectsAreMarked, frame,
                     stopFunc, outer, incremental, policy>>
  <2>1. /\ pc = "stopping" /\ pc' = "stopped" /\ scanPtr' = 0
        /\ markState' = IF markState = "NONE" THEN "PUSH_RESCUERS" ELSE markState
        /\ UNCHANGED <<client, alloc, marked, stack, objectsAreMarked, frame,
                       stopFunc, outer, incremental, policy>>
    BY DEF StopWorld
  <2>2. /\ markState \in {"NONE", "INVALID"}
        /\ markState = "NONE" => incremental /\ frame # "try"
    BY <2>1 DEF IndInv, ControlConsistent, TypeOK
  <2>3. CASE incremental
    BY <2>1, <2>2, <2>3 DEF StopWorld, GC_read_dirty
  <2>4. CASE ~incremental
    BY <2>1, <2>2, <2>4 DEF StopWorld, IndInv, CleanWhenIdle, vdb
  <2> QED BY <2>3, <2>4
<1>4. LiveKept' /\ MarkBitsConsistent' /\ SweepSeesMarks'
  BY <1>1, <1>2 DEF IndInv, LiveKept, MarkBitsConsistent, SweepSeesMarks, alloc
<1>5. UncollectableMarked' /\ BlocksConsistent'
  BY <1>2 DEF IndInv, UncollectableMarked, BlocksConsistent, UncollectableBlocks, KindOf, alloc
<1>6. StoresKept'
  BY <1>2 DEF IndInv, StoresKept, client
<1>7. StoppedConsistent'
  BY <1>2 DEF StoppedConsistent
<1>8. CleanWhenIdle' /\ MarkerConsistent'
  BY <1>2 DEF IndInv, CleanWhenIdle, MarkerConsistent, KindOf, stack
<1>9. Tricolour'
  <2> SUFFICES ASSUME NEW x \in Reachable \cap marked, NEW g \in Field,
                      KindOf(x) # "ptrfree", heap[x][g] # Null, markState = "NONE"
               PROVE  heap[x][g] \in marked \/ Ungreyed(x, g)'
    BY <1>1, <1>2 DEF Tricolour, KindOf, client, Ungreyed
  <2>1. heap[x][g] \in marked \/ Ungreyed(x, g)
    BY DEF IndInv, Tricolour
  <2>2. BlockOf[x] >= 0
    BY LiveFacts DEF Block
  <2>3. markStack = {}
    BY DEF IndInv, MarkerConsistent
  <2> QED BY <1>2, <2>1, <2>2, <2>3 DEF Ungreyed, client
<1>10. ControlConsistent'
  BY <1>2 DEF IndInv, ControlConsistent, alloc, policy
<1> QED BY <1>4, <1>5, <1>6, <1>7, <1>8, <1>9, <1>10 DEF IndInv

\* The stop function gives up: the world runs again with marking unfinished.
LEMMA AbandonInv ==
  ASSUME IndInv, TypeOK', AbandonStoppedMark PROVE IndInv'
<1>1. Reachable' = Reachable
  BY ReachableUnchanged DEF AbandonStoppedMark, client, alloc
<1>2. /\ pc = "stopped" /\ stopFunc # "never" /\ frame' = "none" /\ frame # "none"
      /\ frame = "try" => pc' = "run" /\ outer' = "none"
      /\ frame # "try" => pc' = ReturnFromLittle /\ outer' = outer
      /\ UNCHANGED <<client, alloc, marked, scanPtr, objectsAreMarked, vdb, incremental,
                     isFullGc>>
  BY DEF AbandonStoppedMark, MayStop, IndInv, ControlConsistent
<1>i. frame # "try" => incremental
  BY <1>2 DEF IndInv, ControlConsistent, TypeOK
<1>3. /\ ~incremental => markState' = "INVALID" /\ markStack' = {} /\ frame = "try"
      /\ incremental => markState' = markState /\ markStack' = markStack
  BY <1>i DEF AbandonStoppedMark
<1>p. /\ pc' \in {"run", "tryloop"}
      /\ pc' = "run" => outer' = "none"
      /\ pc' = "tryloop" => outer' # "none" /\ frame # "try"
      /\ outer' \in {outer, "none"}
      /\ reclaimList = {} \/ frame # "try"
  BY <1>2 DEF ReturnFromLittle, IndInv, ControlConsistent
<1>4. LiveKept' /\ MarkBitsConsistent'
  BY <1>1, <1>2, <1>p DEF IndInv, LiveKept, MarkBitsConsistent, alloc
<1>s. SweepSeesMarks'
  BY <1>1, <1>2, <1>p DEF IndInv, SweepSeesMarks, alloc
<1>5. UncollectableMarked' /\ BlocksConsistent'
  BY <1>2 DEF IndInv, UncollectableMarked, BlocksConsistent, UncollectableBlocks, KindOf, alloc
<1>6. StoresKept'
  BY <1>2 DEF IndInv, StoresKept, client
<1>7. StoppedConsistent'
  BY <1>p DEF StoppedConsistent
<1>8. CleanWhenIdle'
  BY <1>2, <1>3 DEF IndInv, CleanWhenIdle, vdb
<1>m. MarkerConsistent'
  <2>1. CASE incremental
    BY <1>2, <1>3, <2>1 DEF IndInv, MarkerConsistent, KindOf
  <2>2. CASE ~incremental
    <3>1. markState \in MarkStates \ {"NONE", "PUSH_RESCUERS"}
      BY <1>2, <1>3, <2>2 DEF IndInv, ControlConsistent, TypeOK
    <3> QED BY <1>2, <1>3, <2>2, <3>1 DEF IndInv, MarkerConsistent, KindOf, MarkStates
  <2> QED BY <2>1, <2>2
<1>9. Tricolour'
  <2>1. CASE incremental
    BY <1>1, <1>2, <1>3, <2>1 DEF IndInv, Tricolour, Ungreyed, KindOf, client, alloc, vdb
  <2>2. CASE ~incremental
    BY <1>3, <2>2 DEF Tricolour, Ungreyed
  <2> QED BY <2>1, <2>2
<1>10. ControlConsistent'
  BY <1>2, <1>3, <1>i, <1>p DEF IndInv, ControlConsistent, alloc
<1> QED BY <1>4, <1>s, <1>5, <1>6, <1>7, <1>8, <1>m, <1>9, <1>10 DEF IndInv

\* Marking is complete with the world stopped: the marked reachable objects
\* are closed, so nothing reachable is unmarked.
LEMMA MarkingComplete ==
  ASSUME IndInv, pc = "stopped", markState = "ROOTS_PUSHED", markStack = {}
  PROVE  Reachable \cup TLFreeLists \subseteq marked
<1>1. TypeOK /\ dirty = {} /\ roots \cup TLFreeLists \subseteq marked
  BY DEF IndInv, StoppedConsistent
<1>2. Reachable \cap marked \in SUBSET Obj /\ roots \subseteq Reachable \cap marked
  BY <1>1, ReachableFacts
<1>3. PermanentRoots \subseteq Reachable \cap marked
  BY <1>1, ReachableFacts DEF IndInv, UncollectableMarked, PermanentRoots
<1>4. ASSUME NEW x \in Reachable \cap marked, NEW g \in Field, KindOf(x) # "ptrfree",
             heap[x][g] # Null
      PROVE  heap[x][g] \in Reachable \cap marked
  <2>1. heap[x][g] \in Reachable
    BY <1>1, <1>4, ReachableFacts
  <2>2. heap[x][g] \in marked \/ Ungreyed(x, g)
    BY <1>4 DEF IndInv, Tricolour
  <2>3. <<x, g>> \in pend => heap[x][g] \in roots
    BY <1>4 DEF IndInv, StoresKept
  <2> QED BY <1>1, <2>1, <2>2, <2>3 DEF Ungreyed
<1>5. Closed(Reachable \cap marked)
  BY <1>2, <1>3, <1>4 DEF Closed, Targets
<1>6. Reachable \subseteq Reachable \cap marked
  BY <1>2, <1>5 DEF Reachable
<1> QED BY <1>1, <1>6

\* The end of marking with the world stopped establishes MarkBitsConsistent.
LEMMA StoppedMarkDoneInv ==
  ASSUME IndInv, TypeOK', StoppedMarkDone PROVE IndInv'
<1>1. Reachable' = Reachable
  BY ReachableUnchanged DEF StoppedMarkDone, client, alloc
<1>2. /\ pc = "stopped" /\ markState = "ROOTS_PUSHED" /\ markState' = "NONE"
      /\ markStack = {} /\ markStack' = {} /\ marked' = marked /\ pc' = "finish"
      /\ UNCHANGED <<scanPtr, objectsAreMarked, client, alloc, vdb, frame, stopFunc,
                     outer, incremental, policy>>
  BY DEF StoppedMarkDone, MarkSomeDone
<1>3. Reachable \cup TLFreeLists \subseteq marked
  BY <1>2, MarkingComplete
<1>4. LiveKept' /\ MarkBitsConsistent' /\ SweepSeesMarks'
  BY <1>1, <1>2, <1>3 DEF IndInv, LiveKept, MarkBitsConsistent, SweepSeesMarks, TLFreeLists, alloc
<1>5. UncollectableMarked' /\ BlocksConsistent'
  BY <1>2 DEF IndInv, UncollectableMarked, BlocksConsistent, UncollectableBlocks, KindOf, alloc
<1>6. StoresKept'
  BY <1>2 DEF IndInv, StoresKept, client
<1>7. StoppedConsistent'
  BY <1>2 DEF StoppedConsistent
<1>8. CleanWhenIdle' /\ MarkerConsistent'
  BY <1>1, <1>2, <1>3 DEF IndInv, CleanWhenIdle, MarkerConsistent, TLFreeLists, KindOf, alloc, vdb
<1>9. Tricolour'
  <2>1. TypeOK
    BY DEF IndInv
  <2> QED BY <1>1, <1>2, <1>3, <2>1, ReachableFacts DEF Tricolour, KindOf, client
<1>10. ControlConsistent'
  BY <1>2 DEF IndInv, ControlConsistent, alloc, policy
<1> QED BY <1>4, <1>5, <1>6, <1>7, <1>8, <1>9, <1>10 DEF IndInv

\* Sweeping is set up: reachable and thread-local objects keep their marks,
\* and no block that holds one is freed.
LEMMA FinishInv ==
  ASSUME IndInv, TypeOK', GC_finish_collection PROVE IndInv'
<1> DEFINE m == {o \in marked : where[o] # "free"}
           empty == {b \in Block : InUse(b) /\ m \cap ObjsIn(b) = {}}
<1>2. /\ pc = "finish" /\ marked' = m /\ freeBlk' = freeBlk \cup empty
      /\ where' = [o \in Obj |-> IF where[o] = "free" \/ BlockOf[o] \in empty
                                 THEN "none" ELSE where[o]]
      /\ reclaimList' \subseteq Block \ (freeBlk \cup empty)
      /\ isFullGc' = FALSE /\ frame' = "none"
      /\ frame = "try" => pc' = "run" /\ outer' = "none"
      /\ frame # "try" => pc' = ReturnFromLittle /\ outer' = outer
      /\ UNCHANGED <<client, markState, stack, scanPtr, objectsAreMarked, incremental>>
      /\ dirty' \in {dirty, {}}
  BY DEF GC_finish_collection, GC_read_dirty, vdb
<1>3. TypeOK /\ markState = "NONE" /\ Reachable \cup TLFreeLists \subseteq marked
  BY <1>2 DEF IndInv, ControlConsistent, MarkBitsConsistent
<1>r. Reachable \subseteq Obj
  BY <1>3, ReachableFacts
<1>m. Reachable \subseteq m /\ TLFreeLists \subseteq m
  BY <1>3, LiveFacts DEF TLFreeLists
<1>e. \A o \in Obj : o \in m => BlockOf[o] \notin empty
  BY DEF ObjsIn
<1>w. /\ \A o \in Obj : where'[o] \in {where[o], "none"}
      /\ \A o \in Obj : where[o] = "free" \/ BlockOf[o] \in empty => where'[o] = "none"
      /\ \A o \in Reachable : where'[o] = "used"
  BY <1>2, <1>m, <1>e, <1>r, LiveFacts
<1>1. Reachable' \subseteq Reachable
  <2>1. roots' \subseteq Reachable
    BY <1>2, <1>3, ReachableFacts DEF client
  <2>2. PermanentRoots' \subseteq Reachable
    BY <1>3, <1>w, ReachableFacts DEF PermanentRoots, KindOf
  <2> QED BY <1>2, <1>3, <1>r, <2>1, <2>2, ReachableFacts, ReachableStep DEF client
<1>t. TLFreeLists' \subseteq TLFreeLists
  BY <1>w DEF TLFreeLists
<1>p. /\ pc' \in {"run", "tryloop"}
      /\ pc' = "run" => outer' = "none"
      /\ pc' = "tryloop" => outer' # "none" /\ frame # "try"
      /\ outer' \in {outer, "none"} /\ frame # "none"
      /\ frame # "try" => incremental
  BY <1>2, <1>3 DEF ReturnFromLittle, IndInv, ControlConsistent, TypeOK
<1>4. LiveKept' /\ MarkBitsConsistent'
  BY <1>1, <1>w, <1>p DEF LiveKept, MarkBitsConsistent
<1>s. SweepSeesMarks'
  <2> SUFFICES ASSUME NEW o \in Obj, o \in Reachable' \/ where'[o] \in {"free", "tl"}
               PROVE  o \in m
    BY <1>2 DEF SweepSeesMarks
  <2>1. where'[o] # "free"
    BY <1>w
  <2>2. where'[o] = "tl" => o \in TLFreeLists'
    BY DEF TLFreeLists
  <2> QED BY <1>1, <1>m, <1>t, <2>1, <2>2
<1>5. UncollectableMarked'
  BY <1>2, <1>w DEF IndInv, UncollectableMarked, KindOf
<1>b. BlocksConsistent'
  <2>1. \A o \in Obj : BlockOf[o] \in freeBlk' => where'[o] = "none"
    BY <1>2, <1>w DEF IndInv, BlocksConsistent
  <2>2. reclaimList' \cap freeBlk' = {}
    BY <1>2
  <2>3. \A c \in UncollectableBlocks \ freeBlk' : \E o \in marked' : BlockOf[o] = c
    <3> SUFFICES ASSUME NEW c \in UncollectableBlocks \ freeBlk'
                 PROVE  \E o \in m : BlockOf[o] = c
      BY <1>2
    <3>1. m \cap ObjsIn(c) # {}
      BY <1>2 DEF InUse, UncollectableBlocks
    <3> QED BY <3>1 DEF ObjsIn
  <2>4. \A o \in Obj : where'[o] = "tl" => KindOf(o) # "uncollectable"
    BY <1>w DEF IndInv, BlocksConsistent
  <2> QED BY <2>1, <2>2, <2>3, <2>4 DEF BlocksConsistent, UncollectableBlocks, KindOf
<1>6. StoresKept'
  BY <1>2 DEF IndInv, StoresKept, client
<1>7. StoppedConsistent'
  BY <1>p DEF StoppedConsistent
<1>8. CleanWhenIdle'
  BY <1>1, <1>2, <1>m, <1>t DEF IndInv, CleanWhenIdle
<1>k. MarkerConsistent'
  BY <1>2 DEF IndInv, MarkerConsistent, KindOf, stack
<1>9. Tricolour'
  BY <1>1, <1>2, <1>3, <1>m, ReachableFacts DEF Tricolour, KindOf, client
<1>10. ControlConsistent'
  BY <1>2, <1>3, <1>p DEF IndInv, ControlConsistent
<1> QED BY <1>4, <1>s, <1>5, <1>b, <1>6, <1>7, <1>8, <1>k, <1>9, <1>10 DEF IndInv

\* Stores made before incremental mode was entered were not tracked, so a
\* full collection comes first unless everything reachable is marked.
LEMMA EnableInv ==
  ASSUME IndInv, TypeOK', GC_enable_incremental PROVE IndInv'
<1>1. Reachable' = Reachable
  BY ReachableUnchanged DEF GC_enable_incremental, client, alloc
<1>2. /\ pc = "run" /\ outer = "none" /\ frame = "none" /\ ~incremental /\ incremental' = TRUE
      /\ dirty = {} /\ dirty' = {} /\ markState \in {"NONE", "INVALID"}
      /\ UNCHANGED <<client, alloc, mark, frame, stopFunc, policy>>
      /\ bytesAllocd => /\ pc' \in {"tryloop", "tryfull"} /\ outer' = "enable"
                        /\ markState = "NONE" => pc' = "tryfull"
      /\ ~bytesAllocd => pc' = "run" /\ outer' = "none"
  BY DEF GC_enable_incremental, GC_read_dirty, vdb, IndInv, ControlConsistent, CleanWhenIdle,
       InProgress
<1>p. pc' \in {"run", "tryloop", "tryfull"}
  BY <1>2
<1>4. LiveKept' /\ MarkBitsConsistent' /\ SweepSeesMarks'
  BY <1>1, <1>2, <1>p DEF IndInv, LiveKept, MarkBitsConsistent, SweepSeesMarks, alloc, mark
<1>5. UncollectableMarked' /\ BlocksConsistent'
  BY <1>2 DEF IndInv, UncollectableMarked, BlocksConsistent, UncollectableBlocks, KindOf,
       alloc, mark
<1>6. StoresKept'
  BY <1>2 DEF IndInv, StoresKept, client
<1>7. StoppedConsistent'
  BY <1>p DEF StoppedConsistent
<1>8. CleanWhenIdle' /\ MarkerConsistent'
  BY <1>2 DEF IndInv, CleanWhenIdle, MarkerConsistent, KindOf, mark, stack
<1>9. Tricolour'
  <2> SUFFICES ASSUME NEW x \in Reachable \cap marked, NEW g \in Field,
                      KindOf(x) # "ptrfree", heap[x][g] # Null, markState = "NONE"
               PROVE  heap[x][g] \in marked \/ Ungreyed(x, g)'
    BY <1>1, <1>2 DEF Tricolour, KindOf, client, mark, Ungreyed
  <2>1. CASE bytesAllocd
    BY <1>2, <2>1 DEF Ungreyed
  <2>2. CASE ~bytesAllocd
    <3>1. Reachable \subseteq marked /\ TypeOK
      BY <1>2, <2>2 DEF IndInv, CleanWhenIdle
    <3> QED BY <3>1, ReachableFacts
  <2> QED BY <2>1, <2>2
<1>10. ControlConsistent'
  BY <1>2, <1>p DEF IndInv, ControlConsistent, alloc, mark, stack, policy
<1> QED BY <1>4, <1>5, <1>6, <1>7, <1>8, <1>9, <1>10 DEF IndInv

(***************************************************************************)
(* The theorems.                                                           *)
(***************************************************************************)
LEMMA InitInv == ASSUME Init PROVE IndInv
<1>1. TypeOK
  BY TypeCorrectInit
<1>2. Reachable = {}
  <2>1. Closed({})
    BY DEF Init, Closed, PermanentRoots
  <2> QED BY <2>1 DEF Reachable
<1>3. LiveKept /\ MarkBitsConsistent /\ SweepSeesMarks /\ UncollectableMarked
  BY <1>2 DEF Init, LiveKept, MarkBitsConsistent, SweepSeesMarks, UncollectableMarked
<1>4. BlocksConsistent
  BY DEF Init, BlocksConsistent, UncollectableBlocks
<1>5. StoresKept /\ Tricolour /\ StoppedConsistent
  BY <1>2 DEF Init, StoresKept, Tricolour, StoppedConsistent
<1>6. CleanWhenIdle
  BY <1>2 DEF Init, CleanWhenIdle, TLFreeLists
<1>7. MarkerConsistent /\ ControlConsistent
  BY DEF Init, MarkerConsistent, ControlConsistent
<1> QED BY <1>1, <1>3, <1>4, <1>5, <1>6, <1>7 DEF IndInv

\* Every step preserves IndInv.
LEMMA NextInv == ASSUME IndInv, Next PROVE IndInv'
<1>1. TypeOK'
  BY ClientType, AllocatorType, ControlType DEF Next, IndInv
<1>2. CASE Client
  BY <1>2, LoadInv, DropRootInv, StoreInv, DirtyInv, MallocInv, FreeInv, MallocManyInv
  DEF Client
<1>3. CASE Allocator
  BY <1>3, ReclaimInv, NewBlockInv, MallocManySweptInv DEF Allocator
<1>4. CASE Control
  <2>1. CASE GC_collect_a_little_inner
    <3>1. CASE incremental /\ ~InProgress
      <4>1. pc = "run" /\ GC_maybe_gc
        BY <2>1, <3>1 DEF GC_collect_a_little_inner
      <4> QED BY <1>1, <3>1, <4>1, MaybeFullInv, MaybePartialInv
    <3>2. CASE ~(incremental /\ ~InProgress)
      BY <1>1, <2>1, <3>2, CallersInv
    <3> QED BY <3>1, <3>2
  <2>2. CASE LittleMark \/ StoppedMark
    BY <1>1, <2>2, MarkSomeInv DEF LittleMark, StoppedMark
  <2>3. CASE \E b \in Block : TryReclaimAll(b)
    BY <2>3, ReclaimInv
  <2>4. CASE \/ LittleQuit \/ TryGiveUp \/ TryFinishCurrent
             \/ \E f \in StopFuncs : GC_try_to_collect_inner(f)
    BY <1>1, <2>4, CallersInv
  <2> QED BY <1>1, <1>4, <2>1, <2>2, <2>3, <2>4, LittleDoneInv, TryStartInv, StopWorldInv,
             AbandonInv, StoppedMarkDoneInv, FinishInv, EnableInv DEF Control
<1> QED BY <1>2, <1>3, <1>4 DEF Next

\* A stuttering step preserves IndInv.
LEMMA StutterInv == ASSUME IndInv, UNCHANGED vars PROVE IndInv'
<1>1. Reachable' = Reachable
  BY ReachableUnchanged DEF vars, client, alloc
<1>2. TypeOK'
  BY DEF IndInv, TypeOK, vars, client, alloc, mark, stack, vdb, ctl, policy
<1>4. LiveKept' /\ MarkBitsConsistent' /\ SweepSeesMarks'
  BY <1>1 DEF IndInv, LiveKept, MarkBitsConsistent, SweepSeesMarks, TLFreeLists, vars, alloc,
       mark, ctl
<1>5. UncollectableMarked' /\ BlocksConsistent'
  BY DEF IndInv, UncollectableMarked, BlocksConsistent, UncollectableBlocks, KindOf, vars,
       alloc, mark
<1>6. StoresKept' /\ StoppedConsistent'
  BY DEF IndInv, StoresKept, StoppedConsistent, TLFreeLists, vars, client, alloc, mark, vdb, ctl
<1>8. CleanWhenIdle' /\ MarkerConsistent'
  BY <1>1 DEF IndInv, CleanWhenIdle, MarkerConsistent, TLFreeLists, KindOf, vars, alloc,
       mark, stack, vdb, ctl
<1>9. Tricolour'
  BY <1>1 DEF IndInv, Tricolour, Ungreyed, KindOf, vars, client, alloc, mark, stack, vdb, ctl
<1>10. ControlConsistent'
  BY DEF IndInv, ControlConsistent, vars, alloc, mark, ctl, policy
<1> QED BY <1>2, <1>4, <1>5, <1>6, <1>8, <1>9, <1>10 DEF IndInv

\* IndInv holds in every state of every behaviour of the collector.
THEOREM InductiveInvariant == Spec => []IndInv
<1>1. Init => IndInv
  BY InitInv
<1>2. IndInv /\ [Next]_vars => IndInv'
  BY NextInv, StutterInv
<1> QED BY <1>1, <1>2, PTL DEF Spec

\* Safety of the collector: whatever the program can still reach is never on
\* a free list or in a freed block, in any mode, with any write barrier
\* timing, however the mark stack overflows and whichever collections are
\* abandoned.
THEOREM ReachableIsKept == Spec => []LiveKept
<1>1. IndInv => LiveKept
  BY DEF IndInv
<1> QED BY <1>1, InductiveInvariant, PTL

\* When marking has completed everything reachable and every object on a
\* thread-local free list is marked, although the world runs again.
THEOREM MarkingIsSound == Spec => []MarkBitsConsistent
<1>1. IndInv => MarkBitsConsistent
  BY DEF IndInv
<1> QED BY <1>1, InductiveInvariant, PTL

\* A block waiting to be swept has no cleared mark bit that sweeping would
\* take for garbage, and uncollectable objects keep their mark bits.
THEOREM SweepIsSound == Spec => [](SweepSeesMarks /\ UncollectableMarked)
<1>1. IndInv => SweepSeesMarks /\ UncollectableMarked
  BY DEF IndInv
<1> QED BY <1>1, InductiveInvariant, PTL

\* A thread-local free list is safe from the collector (TLListKept): sweeping,
\* block allocation and GC_finish_collection leave its objects where they are.
LEMMA TLStep ==
  ASSUME IndInv, Next, NEW o \in Obj, where[o] = "tl" PROVE where'[o] \in {"tl", "used"}
<1>1. TypeOK
  BY DEF IndInv
<1>s. ASSUME frame = "none", NEW b \in reclaimList PROVE o \notin Swept({b})
  BY <1>s DEF IndInv, SweepSeesMarks, Swept
<1>n. BlockOf[o] \notin freeBlk
  BY DEF IndInv, BlocksConsistent
<1>2. CASE Client
  BY <1>1, <1>2 DEF Client, Load, DropRoot, Store, GC_dirty, GC_malloc, GC_malloc_tl, GC_free,
       MayFree, GC_malloc_many, ToThread, alloc, TypeOK
<1>3. CASE Allocator
  <2>1. PICK b \in Block : \/ GC_continue_reclaim(b) \/ GC_new_hblk(b)
                           \/ GC_malloc_many_swept(b) \/ GC_malloc_many_fresh(b)
    BY <1>3 DEF Allocator
  <2>2. frame = "none"
    BY <2>1 DEF GC_continue_reclaim, GC_new_hblk, GC_malloc_many_swept, GC_malloc_many_fresh,
         IndInv, ControlConsistent
  <2>3. CASE GC_continue_reclaim(b)
    BY <1>s, <2>2, <2>3 DEF GC_continue_reclaim, GC_reclaim_generic, FreeObjects
  <2>4. CASE GC_malloc_many_swept(b) \/ GC_malloc_many_fresh(b)
    BY <2>4 DEF GC_malloc_many_swept, GC_malloc_many_fresh, ToThread
  <2>5. CASE GC_new_hblk(b)
    BY <1>n, <2>5 DEF GC_new_hblk, FreeObjects, ObjsIn
  <2> QED BY <2>1, <2>3, <2>4, <2>5
<1>4. CASE Control
  <2>1. CASE GC_collect_a_little_inner
    <3>1. CASE GC_maybe_gc
      <4>1. frame = "none"
        BY <2>1 DEF GC_collect_a_little_inner, IndInv, ControlConsistent
      <4>2. \A bs \in SUBSET reclaimList : o \notin Swept(bs)
        BY <4>1 DEF IndInv, SweepSeesMarks, Swept
      <4> QED BY <3>1, <4>2 DEF GC_maybe_gc, GC_reclaim_generic, FreeObjects
    <3> QED BY <2>1, <3>1 DEF GC_collect_a_little_inner, alloc
  <2>2. ASSUME NEW b \in Block, TryReclaimAll(b) PROVE where'[o] \in {"tl", "used"}
    <3>1. frame = "none" /\ b \in reclaimList
      BY <2>2 DEF TryReclaimAll, IndInv, ControlConsistent
    <3> QED BY <1>s, <2>2, <3>1 DEF TryReclaimAll, GC_reclaim_generic, FreeObjects
  <2>3. CASE GC_finish_collection
    <3>1. o \in marked
      BY <2>3 DEF GC_finish_collection, IndInv, MarkBitsConsistent, TLFreeLists
    <3> QED BY <2>3, <3>1 DEF GC_finish_collection, ObjsIn
  <2>4. CASE LittleMark \/ StoppedMark
    BY <2>4 DEF LittleMark, StoppedMark, GC_mark_some, alloc
  <2>5. CASE \/ LittleQuit \/ LittleDone \/ TryGiveUp \/ TryFinishCurrent \/ TryStart
             \/ \E f \in StopFuncs : GC_try_to_collect_inner(f)
             \/ StopWorld \/ AbandonStoppedMark \/ StoppedMarkDone \/ GC_enable_incremental
    BY <2>5 DEF LittleQuit, LittleDone, TryGiveUp, TryFinishCurrent, TryStart,
         GC_try_to_collect_inner, StopWorld, AbandonStoppedMark, StoppedMarkDone,
         GC_enable_incremental, alloc
  <2> QED BY <1>4, <2>1, <2>2, <2>3, <2>4, <2>5 DEF Control
<1> QED BY <1>2, <1>3, <1>4 DEF Next

\* No step of the collector takes an object off a thread-local free list.
THEOREM ThreadLocalListsKept == Spec => TLListKept
<1>1. IndInv /\ [Next]_vars
        => [\A o \in Obj : where[o] = "tl" => where'[o] \in {"tl", "used"}]_vars
  BY TLStep
<1> QED BY <1>1, InductiveInvariant, PTL DEF Spec, TLListKept

\* GC_allocobj's assertion: while a full collection is in progress there is
\* nothing left to sweep for an allocation.
THEOREM FullGcSweptFirst == Spec => []NothingToSweepInFullGc
<1>1. IndInv => NothingToSweepInFullGc
  BY DEF IndInv, ControlConsistent, NothingToSweepInFullGc
<1> QED BY <1>1, InductiveInvariant, PTL

(***************************************************************************)
(* No floating garbage: FloatInv is inductive relative to IndInv.          *)
(***************************************************************************)

\* ConservativelyReachable is closed itself.
LEMMA ConservativeClosed ==
  ASSUME TypeOK
  PROVE  /\ ConservativelyReachable \subseteq Obj
         /\ roots \subseteq ConservativelyReachable
         /\ PermanentRoots \subseteq ConservativelyReachable
         /\ \A o \in Junk : InUse(BlockOf[o]) => o \in ConservativelyReachable
         /\ \A o \in ConservativelyReachable : Targets(o) \subseteq ConservativelyReachable
<1>1. ConservativelyReachable \subseteq Obj
  BY DEF ConservativelyReachable
<1>2. roots \subseteq ConservativelyReachable /\ PermanentRoots \subseteq ConservativelyReachable
  BY DEF ConservativelyReachable, ConservativelyClosed, Closed, TypeOK, PermanentRoots
<1>3. \A o \in Junk : InUse(BlockOf[o]) => o \in ConservativelyReachable
  BY JunkIsObj DEF ConservativelyReachable, ConservativelyClosed
<1>4. ASSUME NEW o \in ConservativelyReachable, NEW t \in Targets(o)
      PROVE  t \in ConservativelyReachable
  <2>1. t \in Obj
    BY <1>1, <1>4 DEF Targets, TypeOK
  <2>2. ASSUME NEW S \in SUBSET Obj, ConservativelyClosed(S) PROVE t \in S
    BY <1>4, <2>2 DEF ConservativelyReachable, ConservativelyClosed, Closed
  <2> QED BY <2>1, <2>2 DEF ConservativelyReachable
<1> QED BY <1>1, <1>2, <1>3, <1>4

\* A step that leaves the client's data and the blocks alone leaves it alone.
LEMMA ConservativeUnchanged ==
  ASSUME UNCHANGED <<heap, roots, where, freeBlk>>
  PROVE  ConservativelyReachable' = ConservativelyReachable
BY DEF ConservativelyReachable, ConservativelyClosed, Closed, PermanentRoots, Targets, KindOf,
     InUse

\* The client and the allocator clear what they do not use.
LEMMA ClientFloat == ASSUME IndInv, FloatInv, Client PROVE FloatInv'
<1>1. TypeOK
  BY DEF IndInv
<1>2. UnusedCleared'
  <2>1. \A x \in roots : where[x] = "used"
    BY <1>1, ReachableClosed DEF IndInv, LiveKept, Closed
  <2> QED BY <1>1, <2>1 DEF FloatInv, UnusedCleared, InUse, Client, Load, DropRoot, Store, GC_dirty,
       GC_malloc, GC_malloc_tl, GC_free, GC_malloc_many, ToThread, alloc, client, mark, TypeOK
<1>3. UNCHANGED mark /\ UNCHANGED ctl
  BY <1>1 DEF Client, Load, DropRoot, Store, GC_dirty,
       GC_malloc, GC_malloc_tl, GC_free, GC_malloc_many
<1>4. pc # "stopped"
  BY DEF Client, Load, DropRoot, Store, GC_dirty,
       GC_malloc, GC_malloc_tl, GC_free, GC_malloc_many, WorldStopped
<1>5. TryMarksReachable'
  BY <1>3, <1>4 DEF FloatInv, TryMarksReachable, mark, ctl
<1> QED BY <1>2, <1>5 DEF FloatInv

LEMMA AllocatorFloat == ASSUME IndInv, FloatInv, Allocator PROVE FloatInv'
<1>1. TypeOK
  BY DEF IndInv
<1>2. PICK b \in Block : \/ GC_continue_reclaim(b) \/ GC_new_hblk(b)
                         \/ GC_malloc_many_swept(b) \/ GC_malloc_many_fresh(b)
  BY DEF Allocator
<1>3. pc = "run" /\ UNCHANGED ctl
  BY <1>2 DEF GC_continue_reclaim, GC_new_hblk, GC_malloc_many_swept, GC_malloc_many_fresh
<1>4. TryMarksReachable'
  BY <1>3 DEF TryMarksReachable, ctl
<1>5. UnusedCleared'
  <2>0. \A o \in Obj : BlockOf[o] \in reclaimList => InUse(BlockOf[o])
    BY DEF IndInv, BlocksConsistent, InUse
  <2>1. CASE GC_continue_reclaim(b) \/ GC_malloc_many_swept(b)
    BY <1>1, <2>0, <2>1, BlocksTyped DEF GC_continue_reclaim, GC_malloc_many_swept, GC_reclaim_generic,
       FreeObjects, ClearObjects, ToThread, Swept, SetHdrMarks, FloatInv, UnusedCleared, InUse,
       mark, TypeOK
  <2>2. CASE GC_new_hblk(b) \/ GC_malloc_many_fresh(b)
    BY <1>1, <2>2, BlocksTyped DEF GC_new_hblk, GC_malloc_many_fresh,
       FreeObjects, ClearObjects, ToThread, ObjsIn, SetHdrMarks, FloatInv, UnusedCleared, InUse,
       mark, TypeOK
  <2> QED BY <1>2, <2>1, <2>2
<1> QED BY <1>4, <1>5 DEF FloatInv

\* Nothing but what was there and what is pushed gets onto the stack.
LEMMA PushWordsAdds ==
  ASSUME NEW base, NEW P, NEW size, NEW state, NEW small, PushWords(base, P, size, state, small)
  PROVE  markStack' \subseteq base \cup P
BY DEF PushWords

\* One step of the marker marks objects of blocks with headers only and, in a
\* stop-the-world collection, what is conservatively reachable.
LEMMA MarkSomeFloat ==
  ASSUME IndInv, FloatInv, GC_mark_some, pc \in {"little", "stopped"} PROVE FloatInv'
<1>1. TypeOK /\ ConservativelyReachable' = ConservativelyReachable
  BY ConservativeUnchanged DEF IndInv, GC_mark_some, client, alloc
<1>u. UNCHANGED <<client, alloc, ctl>>
  BY DEF GC_mark_some
<1>w. \A S \in SUBSET Obj : \A e \in Words(S) : e[1] \in S /\ KindOf(e[1]) # "ptrfree"
  BY DEF Words
<1>2. ASSUME NEW e \in markStack, NEW small \in BOOLEAN, marked' = marked \cup Unmarked({heap[e[1]][e[2]]}),
             PushWords(markStack \ {e}, Words(Unmarked({heap[e[1]][e[2]]})), stackSize, markState, small)
      PROVE  FloatInv'
  <2> DEFINE new == Unmarked({heap[e[1]][e[2]]})
  <2>1. new \subseteq Obj /\ \A o \in new : InUse(BlockOf[o])
    BY DEF Unmarked
  <2>2. markStack' \subseteq markStack \cup Words(new)
    BY <1>2, PushWordsAdds
  <2>3. UnusedCleared'
    BY <1>u, <1>2, <2>1, BlocksTyped DEF FloatInv, UnusedCleared, InUse, client, alloc
  <2>4. ASSUME frame = "try", pc = "stopped"
        PROVE  /\ new \subseteq ConservativelyReachable
               /\ \A x \in markStack' : x[1] \in marked' /\ KindOf(x[1]) # "ptrfree"
    <3>1. /\ e[1] \in marked /\ KindOf(e[1]) # "ptrfree" /\ e[1] \in Obj /\ e[2] \in Field
          /\ \A x \in markStack : x[1] \in marked /\ KindOf(x[1]) # "ptrfree"
      BY <1>1, <2>4 DEF FloatInv, TryMarksReachable, TypeOK
    <3>2. CASE where[e[1]] = "used"
      <4>1. e[1] \in ConservativelyReachable
        BY <2>4, <3>1, <3>2 DEF FloatInv, TryMarksReachable
      <4>2. Targets(e[1]) \subseteq ConservativelyReachable
        BY <1>1, <4>1, ConservativeClosed
      <4> QED BY <1>w, <1>2, <2>1, <2>2, <3>1, <4>2, NullNotObj DEF Targets, Unmarked
    <3>3. CASE where[e[1]] # "used"
      <4>1. heap[e[1]] = Cleared
        BY <3>1, <3>3 DEF FloatInv, UnusedCleared
      <4>2. new = {}
        BY <3>1, <4>1, NullNotObj DEF Cleared, Unmarked
      <4> QED BY <1>w, <1>2, <2>2, <3>1, <4>2
    <3> QED BY <3>2, <3>3
  <2>5. TryMarksReachable'
    BY <1>1, <1>u, <1>2, <2>4 DEF FloatInv, TryMarksReachable, KindOf, alloc, ctl
  <2> QED BY <2>3, <2>5 DEF FloatInv
<1>3. ASSUME NEW size \in Nat, NEW small \in BOOLEAN, push_roots_and_advance(size, small)
      PROVE  FloatInv'
  <2> DEFINE new == Unmarked(roots \cup Junk)
  <2>1. new \subseteq Obj /\ \A o \in new : InUse(BlockOf[o])
    BY DEF Unmarked
  <2>2. markStack' \subseteq markStack \cup Words(new) /\ marked' = marked \cup new \cup TLMarks
    BY <1>3, PushWordsAdds DEF push_roots_and_advance
  <2>3. \A o \in TLMarks : o \in Obj /\ where[o] = "tl" /\ InUse(BlockOf[o])
    BY BlocksTyped DEF TLMarks, TLFreeLists, IndInv, BlocksConsistent, InUse
  <2>4. UnusedCleared'
    BY <1>u, <2>1, <2>2, <2>3 DEF FloatInv, UnusedCleared, InUse, client, alloc
  <2>5. new \subseteq ConservativelyReachable
    BY <1>1, <2>1, ConservativeClosed DEF Unmarked
  <2>6. TryMarksReachable'
    BY <1>1, <1>u, <1>w, <2>1, <2>2, <2>3, <2>5 DEF FloatInv, TryMarksReachable, KindOf, alloc, ctl
  <2> QED BY <2>4, <2>6 DEF FloatInv
<1>4. ASSUME NEW bs \in SUBSET Block, NEW size \in Nat, NEW state \in MarkStates, NEW small \in BOOLEAN,
             GC_push_marked(bs, size, state, small)
      PROVE  FloatInv'
  <2>1. PICK b \in Ahead(bs) : PushWords(markStack, Words(marked \cap ObjsIn(b)), size, state, small)
    BY <1>4 DEF GC_push_marked
  <2>2. markStack' \subseteq markStack \cup Words(marked \cap ObjsIn(b)) /\ marked' = marked
    BY <1>4, <2>1, PushWordsAdds DEF GC_push_marked
  <2>3. UnusedCleared'
    BY <1>u, <2>2 DEF FloatInv, UnusedCleared, InUse, client, alloc
  <2>4. \A e \in Words(marked \cap ObjsIn(b)) : e[1] \in marked /\ KindOf(e[1]) # "ptrfree"
    BY DEF Words
  <2>5. TryMarksReachable'
    BY <1>1, <1>u, <2>2, <2>4 DEF FloatInv, TryMarksReachable, KindOf, alloc, ctl
  <2> QED BY <2>3, <2>5 DEF FloatInv
<1>5. ASSUME UNCHANGED <<marked, markStack>> PROVE FloatInv'
  <2>1. UnusedCleared'
    BY <1>u, <1>5 DEF FloatInv, UnusedCleared, InUse, client, alloc
  <2>2. TryMarksReachable'
    BY <1>1, <1>u, <1>5 DEF FloatInv, TryMarksReachable, KindOf, alloc, ctl
  <2> QED BY <2>1, <2>2 DEF FloatInv
<1>6. \A size \in GrownSizes : size \in Nat
  BY <1>1, GrownSizesType DEF TypeOK
<1>7. grungy \subseteq Block /\ UncollectableBlocks \subseteq Block /\ ScanState \in MarkStates /\ stackSize \in Nat
      /\ tooSmall \in BOOLEAN
  BY <1>1 DEF TypeOK, UncollectableBlocks, ScanState, MarkStates
<1>8. ASSUME NEW small \in BOOLEAN, GC_mark_from(small) PROVE FloatInv'
  BY <1>2, <1>8 DEF GC_mark_from
<1>9. CASE MarkSomeRescuers
  BY <1>3, <1>4, <1>7, <1>8, <1>9 DEF MarkSomeRescuers, MarkStates
<1>10. CASE MarkSomeUncollectable
  BY <1>3, <1>4, <1>7, <1>8, <1>10 DEF MarkSomeUncollectable, MarkStates
<1>11. CASE MarkSomeRootsPushed \/ MarkSomeInvalidDrain
  BY <1>7, <1>8, <1>11 DEF MarkSomeRootsPushed, MarkSomeInvalidDrain
<1>12. CASE MarkSomeStartFull
  BY <1>5, <1>12 DEF MarkSomeStartFull, stack
<1>13. CASE MarkSomeInvalidScan
  <2>1. CASE UNCHANGED <<marked, markState, stack, objectsAreMarked>>
    BY <1>5, <2>1 DEF stack
  <2>2. CASE \E size \in IF ScanStarts THEN GrownSizes ELSE {stackSize} :
               \/ GC_push_marked(Block, size, ScanState, tooSmall /\ ~ScanStarts)
               \/ push_roots_and_advance(size, tooSmall /\ ~ScanStarts)
    <3>1. (tooSmall /\ ~ScanStarts) \in BOOLEAN
      BY <1>7 DEF ScanStarts
    <3> QED BY <1>3, <1>4, <1>6, <1>7, <2>2, <3>1
  <2> QED BY <1>13, <2>1, <2>2 DEF MarkSomeInvalidScan
<1> QED BY <1>9, <1>10, <1>11, <1>12, <1>13 DEF GC_mark_some

\* Collection control.
LEMMA ControlFloat == ASSUME IndInv, FloatInv, Control PROVE FloatInv'
<1>1. TypeOK
  BY DEF IndInv
<1>2. CASE LittleMark \/ StoppedMark
  BY <1>2, MarkSomeFloat DEF LittleMark, StoppedMark
<1>3. CASE GC_collect_a_little_inner
  <2>1. TryMarksReachable'
    BY <1>3 DEF GC_collect_a_little_inner, GC_maybe_gc, TryMarksReachable, IndInv, ControlConsistent
  <2>2. CASE GC_maybe_gc
    <3>1. \A o \in Obj : BlockOf[o] \in reclaimList => InUse(BlockOf[o])
      BY DEF IndInv, BlocksConsistent, InUse
    <3>2. ASSUME NEW bs \in SUBSET reclaimList, GC_reclaim_generic(bs),
                 GC_clear_marks(marked \cup SetHdrMarks(bs)), UNCHANGED freeBlk
          PROVE  UnusedCleared'
      <4>1. \A o \in marked' : o \in Obj /\ InUse(BlockOf[o])
        BY <1>1, <3>1, <3>2 DEF GC_clear_marks, SurvivingMarks, SetHdrMarks, FloatInv,
             UnusedCleared, TypeOK
      <4> QED BY <1>1, <3>2, <4>1 DEF GC_reclaim_generic,
             FreeObjects, ClearObjects, Swept, FloatInv, UnusedCleared, InUse, TypeOK
    <3> QED BY <2>1, <2>2, <3>2 DEF GC_maybe_gc, FloatInv, UnusedCleared, InUse, mark
  <2>3. CASE UNCHANGED <<client, alloc, mark>>
    BY <2>1, <2>3 DEF FloatInv, UnusedCleared, InUse, client, alloc, mark
  <2> QED BY <1>3, <2>2, <2>3 DEF GC_collect_a_little_inner
<1>4. ASSUME NEW b \in Block, TryReclaimAll(b) PROVE FloatInv'
  <2>1. \A o \in Obj : BlockOf[o] \in reclaimList => InUse(BlockOf[o])
    BY DEF IndInv, BlocksConsistent, InUse
  <2>2. UnusedCleared'
    BY <1>1, <1>4, <2>1, BlocksTyped DEF TryReclaimAll, GC_reclaim_generic, FreeObjects, ClearObjects,
       Swept, SetHdrMarks, FloatInv, UnusedCleared, InUse, TypeOK
  <2>3. TryMarksReachable'
    BY <1>4 DEF TryReclaimAll, TryMarksReachable, ctl
  <2> QED BY <2>2, <2>3 DEF FloatInv
<1>5. CASE \/ LittleQuit \/ LittleDone \/ TryGiveUp \/ TryFinishCurrent
           \/ \E f \in StopFuncs : GC_try_to_collect_inner(f)
           \/ AbandonStoppedMark \/ StoppedMarkDone \/ GC_enable_incremental
  <2>1. UnusedCleared'
    BY <1>5 DEF LittleQuit, LittleDone, TryGiveUp, TryFinishCurrent, MarkSomeDone,
       GC_try_to_collect_inner, AbandonStoppedMark, StoppedMarkDone, GC_enable_incremental,
       FloatInv, UnusedCleared, InUse, client, alloc, mark
  <2>2. TryMarksReachable'
    BY <1>5 DEF LittleQuit, LittleDone, TryGiveUp, TryFinishCurrent, MarkSomeDone,
       GC_try_to_collect_inner, AbandonStoppedMark, StoppedMarkDone, GC_enable_incremental,
       ReturnFromLittle, TryMarksReachable
  <2> QED BY <2>1, <2>2 DEF FloatInv
<1>6. CASE TryStart
  <2>1. UnusedCleared'
    BY <1>6 DEF TryStart, GC_clear_marks, SurvivingMarks, FloatInv, UnusedCleared, InUse, client, alloc
  <2>2. TryMarksReachable'
    BY <1>6 DEF TryStart, GC_clear_marks, TryMarksReachable
  <2> QED BY <2>1, <2>2 DEF FloatInv
<1>7. CASE StopWorld
  <2>1. UnusedCleared'
    BY <1>7 DEF StopWorld, FloatInv, UnusedCleared, InUse, client, alloc
  <2>2. ASSUME frame = "try"
        PROVE  /\ markStack = {}
               /\ \A o \in marked : where[o] = "used" => o \in ConservativelyReachable
    <3>1. ~objectsAreMarked
      BY <1>7, <2>2 DEF StopWorld, FloatInv, TryMarksReachable
    <3>2. markStack = {} /\ \A o \in marked : o \in Obj /\ KindOf(o) = "uncollectable"
      BY <3>1 DEF IndInv, MarkerConsistent
    <3> QED BY <1>1, <3>2, ConservativeClosed DEF PermanentRoots
  <2>3. ConservativelyReachable' = ConservativelyReachable
    BY <1>7, ConservativeUnchanged DEF StopWorld, client, alloc
  <2>4. TryMarksReachable'
    BY <1>7, <2>2, <2>3 DEF StopWorld, TryMarksReachable, alloc, stack
  <2> QED BY <2>1, <2>4 DEF FloatInv
<1>8. CASE GC_finish_collection
  <2>1. UnusedCleared'
    BY <1>1, <1>8, BlocksTyped DEF GC_finish_collection, FloatInv, UnusedCleared, InUse, ObjsIn, TypeOK, client
  <2>2. TryMarksReachable'
    BY <1>8 DEF GC_finish_collection, TryMarksReachable, ReturnFromLittle
  <2> QED BY <2>1, <2>2 DEF FloatInv
<1> QED BY <1>2, <1>3, <1>4, <1>5, <1>6, <1>7, <1>8 DEF Control

\* Every invariant of the collector, the ones for both arguments.
THEOREM CollectorInvariant == Spec => []CollectorInv
<1>1. Init => FloatInv
  BY DEF Init, FloatInv, UnusedCleared, TryMarksReachable
<1>2. IndInv /\ FloatInv /\ [Next]_vars => FloatInv'
  <2> SUFFICES ASSUME IndInv, FloatInv, [Next]_vars PROVE FloatInv'
    OBVIOUS
  <2>1. CASE UNCHANGED vars
    <3>1. ConservativelyReachable' = ConservativelyReachable
      BY <2>1, ConservativeUnchanged DEF vars, client, alloc
    <3> QED BY <2>1, <3>1 DEF FloatInv, UnusedCleared, TryMarksReachable, InUse, KindOf, vars, client,
         alloc, mark, stack, ctl
  <2> QED BY <2>1, ClientFloat, AllocatorFloat, ControlFloat DEF Next
<1> QED BY <1>1, <1>2, InductiveInvariant, PTL DEF Spec, CollectorInv

\* A stop-the-world collection retains no floating garbage: whatever earlier
\* collections left behind, all that it marks of what is in use is reachable,
\* but for integers that look like pointers.
THEOREM StopTheWorldIsExact == Spec => NoFloatingGarbage
<1>1. CollectorInv /\ [Next]_vars
        => [pc = "stopped" /\ pc' = "finish" /\ frame = "try"
              => \A o \in marked : where[o] = "used" => o \in ConservativelyReachable]_vars
  BY DEF CollectorInv, FloatInv, TryMarksReachable
<1> QED BY <1>1, CollectorInvariant, PTL DEF Spec, NoFloatingGarbage

(***************************************************************************)
(* HeapSections.  Pages and words.                                         *)
(***************************************************************************)

\* The address of a page.
Pg(i) == i * PageWords

\* Pages are in the order of their addresses.
LEMMA PageOrder ==
  /\ PageWords \in Nat \ {0} /\ NPages \in Nat \ {0} /\ W = Pg(NPages)
  /\ Pg(0) = 0 /\ Pg(1) = PageWords /\ Pg(2) = 2 * PageWords
  /\ \A i \in Int : Pg(i) \in Int /\ Pg(i + 1) = Pg(i) + PageWords /\ Pg(i - 1) = Pg(i) - PageWords
  /\ \A i \in Nat : Pg(i) \in Nat
  /\ \A i, j \in Int : /\ Pg(i + j) = Pg(i) + Pg(j)
                       /\ i < j <=> Pg(i) < Pg(j)
                       /\ i <= j <=> Pg(i) <= Pg(j)
  /\ W \in Nat \ {0}
  /\ \A i \in 0 .. NPages - 1 : /\ Pg(i) \in Nat /\ Pg(i + 1) \in Nat /\ Pg(i + 1) = Pg(i) + PageWords
                               /\ Pg(i + 1) <= W
<1>1. PageWords \in Nat \ {0} /\ NPages \in Nat \ {0} /\ W = Pg(NPages)
  BY SectionsAssumption DEF W, Pg
<1>2. Pg(0) = 0 /\ Pg(1) = PageWords /\ Pg(2) = 2 * PageWords
  BY <1>1 DEF Pg
<1>3. \A i \in Int : Pg(i) \in Int /\ Pg(i + 1) = Pg(i) + PageWords /\ Pg(i - 1) = Pg(i) - PageWords
  BY <1>1 DEF Pg
<1>4. \A i \in Nat : Pg(i) \in Nat
  BY <1>1 DEF Pg
<1>5. \A i, j \in Int : Pg(i + j) = Pg(i) + Pg(j)
  BY <1>1 DEF Pg
<1>6. ASSUME NEW i \in Int, NEW j \in Int, i < j PROVE Pg(i) < Pg(j)
  <2>1. PICK d \in Nat : j = i + 1 + d
    BY <1>6
  <2>2. d * PageWords >= 0 /\ j * PageWords = i * PageWords + PageWords + d * PageWords
    BY <1>1, <2>1
  <2> QED BY <1>1, <2>2 DEF Pg
<1>7. ASSUME NEW i \in Int, NEW j \in Int
      PROVE  (i < j <=> Pg(i) < Pg(j)) /\ (i <= j <=> Pg(i) <= Pg(j))
  <2>1. Pg(i) \in Int /\ Pg(j) \in Int
    BY <1>3
  <2>2. i < j => Pg(i) < Pg(j)
    BY <1>6
  <2>3. j < i => Pg(j) < Pg(i)
    BY <1>6
  <2>4. i = j => Pg(i) = Pg(j)
    OBVIOUS
  <2> HIDE DEF Pg
  <2> QED BY <2>1, <2>2, <2>3, <2>4
<1>8. W \in Nat \ {0}
  <2>1. Pg(0) < Pg(NPages) /\ Pg(NPages) \in Nat
    BY <1>1, <1>4, <1>7
  <2> QED BY <1>1, <1>2, <2>1
<1>9. ASSUME NEW i \in 0 .. NPages - 1
      PROVE  Pg(i) \in Nat /\ Pg(i + 1) \in Nat /\ Pg(i + 1) = Pg(i) + PageWords /\ Pg(i + 1) <= W
  <2>1. i \in Nat /\ i + 1 \in Nat /\ i \in Int /\ i + 1 \in Int /\ NPages \in Int /\ i + 1 <= NPages
    BY <1>1
  <2>2. Pg(i + 1) <= Pg(NPages)
    BY <2>1, <1>7
  <2> QED BY <1>1, <1>3, <1>4, <2>1, <2>2
<1> QED BY <1>1, <1>2, <1>3, <1>4, <1>5, <1>7, <1>8, <1>9

\* Division with a remainder.
LEMMA Dividing ==
  ASSUME NEW a \in Int, NEW b \in Nat \ {0}
  PROVE  a \div b \in Int /\ a % b \in 0 .. b - 1 /\ a = (a \div b) * b + (a % b)
<1>1. b > 0
  OBVIOUS
<1>2. a \div b \in Int
  BY <1>1
<1>3. a % b \in 0 .. b - 1
  BY <1>1
<1>4. a = b * (a \div b) + (a % b)
  BY <1>1
<1>5. b * (a \div b) = (a \div b) * b
  BY <1>2
<1> QED BY <1>2, <1>3, <1>4, <1>5

\* Addresses wrap around at the end.
LEMMA Wrapping ==
  ASSUME NEW a \in Nat, a <= W
  PROVE  a % W = IF a = W THEN 0 ELSE a
<1>1. W \in Nat \ {0}
  BY SectionsAssumption DEF W
<1>2. PICK q \in Int, r \in 0 .. W - 1 : q = a \div W /\ r = a % W /\ a = q * W + r
  <2>1. a \div W \in Int /\ a % W \in 0 .. W - 1 /\ a = (a \div W) * W + (a % W)
    BY <1>1, Dividing
  <2> QED BY <2>1, Zenon
<1>3. q < 2 /\ q > -1
  <2>1. q >= 2 => q * W >= 2 * W
    BY <1>1, <1>2
  <2>2. q <= -1 => q * W <= -W
    BY <1>1, <1>2
  <2> QED BY <1>1, <1>2, <2>1, <2>2
<1>4. q = 0 \/ q = 1
  BY <1>2, <1>3
<1>5. CASE q = 0
  BY <1>1, <1>2, <1>5
<1>6. CASE q = 1
  BY <1>1, <1>2, <1>6
<1> QED BY <1>4, <1>5, <1>6

\* The pages that a number of words needs.
LEMMA PagesForIs ==
  ASSUME NEW words \in Nat \ {0}
  PROVE  PagesFor(words) \in Nat \ {0} /\ words <= Pg(PagesFor(words))
<1>1. PageWords \in Nat \ {0}
  BY PageOrder
<1>2. PICK a \in Nat : a = words + PageWords - 1
  BY <1>1
<1>3. PICK q \in Int, r \in 0 .. PageWords - 1 : q = a \div PageWords /\ a = q * PageWords + r
  <2>1. /\ a \div PageWords \in Int /\ a % PageWords \in 0 .. PageWords - 1
        /\ a = (a \div PageWords) * PageWords + (a % PageWords)
    BY <1>1, Dividing
  <2> QED BY <2>1, Zenon
<1>4. words <= q * PageWords
  BY <1>1, <1>2, <1>3
<1>5. q > 0
  <2>1. q <= 0 => q * PageWords <= 0
    BY <1>1, <1>3
  <2> QED BY <1>1, <1>3, <1>4, <2>1
<1>6. PagesFor(words) = q
  BY <1>2, <1>3 DEF PagesFor
<1>7. words <= Pg(q) /\ q \in Nat \ {0}
  BY <1>3, <1>4, <1>5 DEF Pg
<1> QED BY <1>6, <1>7

\* The whole pages of a table are pages, inside it.
LEMMA WholePagesAre ==
  ASSUME NEW a \in Nat, NEW words \in Nat, WholePages(a, words).n # 0
  PROVE  \E k \in Nat, n \in Nat \ {0} :
           /\ WholePages(a, words) = [a |-> Pg(k), n |-> Pg(n)]
           /\ a <= Pg(k) /\ Pg(k + n) <= a + words
<1>1. PageWords \in Nat \ {0}
  BY PageOrder
<1>2. PICK q \in Int, d \in 0 .. PageWords - 1 : d = (-a) % PageWords /\ -a = q * PageWords + d
  <2>1. /\ (-a) \div PageWords \in Int /\ (-a) % PageWords \in 0 .. PageWords - 1
        /\ -a = ((-a) \div PageWords) * PageWords + ((-a) % PageWords)
    <3>1. -a \in Int
      OBVIOUS
    <3> QED BY <1>1, <3>1, Dividing
  <2> QED BY <2>1, Zenon
<1>3. PICK k \in Int : k = -q
  BY <1>2
<1>4. a + d = Pg(k)
  <2>1. k * PageWords = -(q * PageWords)
    BY <1>1, <1>2, <1>3
  <2>2. q * PageWords \in Int /\ a + d = -(q * PageWords)
    BY <1>1, <1>2
  <2> QED BY <2>1, <2>2 DEF Pg
<1>5. k \in Nat
  <2>1. Pg(0) <= Pg(k)
    <3>1. Pg(0) = 0
      BY PageOrder
    <3> QED BY <1>1, <1>2, <1>4, <3>1
  <2>2. 0 <= k
    BY <1>3, <2>1, PageOrder
  <2> QED BY <1>3, <2>2
<1>6. words > d /\ WholePages(a, words) = [a |-> a + d, n |-> ((words - d) \div PageWords) * PageWords]
  BY <1>2 DEF WholePages
<1>7. PICK n, r : n = (words - d) \div PageWords /\ r = (words - d) % PageWords /\ n \in Int
                    /\ r \in 0 .. PageWords - 1 /\ words - d = n * PageWords + r
  <2>1. words - d \in Int
    BY <1>2
  <2> QED BY <1>1, <2>1, Dividing
<1>8. WholePages(a, words) = [a |-> Pg(k), n |-> Pg(n)]
  BY <1>4, <1>6, <1>7 DEF Pg
<1>9. Pg(n) # 0 /\ Pg(n) \in Int /\ Pg(n) > -PageWords
  BY <1>1, <1>2, <1>6, <1>7, <1>8, PageOrder DEF Pg
<1>10. n \in Nat \ {0}
  <2>1. n # 0
    BY <1>9, PageOrder
  <2>2. n <= -1 => Pg(n) <= Pg(-1)
    <3>1. -1 \in Int
      OBVIOUS
    <3> QED BY <1>7, <3>1, PageOrder
  <2>3. Pg(-1) = -PageWords
    BY <1>1 DEF Pg
  <2>4. ~(n <= -1)
    BY <1>1, <1>9, <2>2, <2>3
  <2> QED BY <1>7, <2>1, <2>4
<1>11. Pg(k + n) <= a + words
  <2>1. Pg(k + n) = Pg(k) + Pg(n)
    BY <1>3, <1>7, PageOrder
  <2>2. Pg(n) <= words - d
    BY <1>1, <1>7, <1>2 DEF Pg
  <2>3. Pg(k) \in Int
    BY <1>3, PageOrder
  <2> QED BY <1>1, <1>2, <1>4, <1>9, <2>1, <2>2, <2>3
<1>12. a <= Pg(k)
  BY <1>1, <1>2, <1>4
<1> QED BY <1>5, <1>8, <1>10, <1>11, <1>12

(***************************************************************************)
(* Spans of words, <<first, behind the last>>.                             *)
(***************************************************************************)

\* A span has a word in the page.
Touches(i, v) == Pg(i) < v[2] /\ Pg(i + 1) > v[1]

\* No word is in both.
Apart(u, v) == u[2] <= u[1] \/ v[2] <= v[1] \/ u[2] <= v[1] \/ v[2] <= u[1]

\* The pages of the heap.
InHeap(m, i) == \E k \in DOMAIN m.sects : m.sects[k][1] <= Pg(i) /\ Pg(i) < m.sects[k][2]
HeapPages(m) == {i \in 0 .. NPages - 1 : InHeap(m, i)}

\* The span is memory that the system gave and that is not part of the heap.
Backed(m, v) ==
  /\ v \in Nat \X Nat
  /\ v[1] < v[2] =>
       /\ v[1] >= PageWords /\ v[2] <= W
       /\ \A i \in 0 .. NPages - 1 : Touches(i, v) => i \in m.got /\ ~InHeap(m, i)

\* GC_heap_sects, the scratch area, and another table.
ArrayOf(m) == <<m.arr, m.arr + m.cap * SectWords>>
ScratchOf(m) == <<m.sfree, m.send>>
TableOf(m) == <<m.table, m.table + m.words>>

\* What mem ranges over.
Memories ==
  [got : SUBSET (1 .. NPages - 1), sects : Seq(Nat \X Nat), cap : Nat, arr : Nat, sfree : Nat, send : Nat,
   table : Nat, words : Nat, heapsize : Nat, recycled : Nat, least : 0 .. WordMax, greatest : 0 .. WordMax,
   last : Nat, aborted : BOOLEAN]

\* The sections are disjoint runs of pages that the system gave and they make up
\* the heap; GC_heap_sects has room for them, and for two more when it has grown.
IsSection(s) == \E f, e \in 2 .. NPages - 1 : f < e /\ s = <<Pg(f), Pg(e)>>
SectionsOf(m) ==
  /\ \A k \in DOMAIN m.sects : IsSection(m.sects[k])
  /\ \A j, k \in DOMAIN m.sects : j # k => m.sects[j][2] <= m.sects[k][1] \/ m.sects[k][2] <= m.sects[j][1]
  /\ HeapPages(m) \subseteq m.got
  /\ m.heapsize = Pg(Cardinality(HeapPages(m)))
  /\ Len(m.sects) <= m.cap
TablesOf(m) ==
  /\ m.cap = 0 \/ m.cap >= 2
  /\ m.cap = 0 => m.arr = 0
  /\ m.sfree <= m.send /\ \E k \in 0 .. NPages : m.send = Pg(k)
  /\ Backed(m, ArrayOf(m)) /\ Backed(m, ScratchOf(m)) /\ Apart(ArrayOf(m), ScratchOf(m))

\* A span that is not used otherwise.
Kept(m, v) == Backed(m, v) /\ Apart(v, ArrayOf(m)) /\ Apart(v, ScratchOf(m))
Good(m) == m \in Memories /\ SectionsOf(m) /\ TablesOf(m)

\* The inductive invariant.
MemInv ==
  /\ Good(mem) /\ Kept(mem, TableOf(mem)) /\ (mem.words = 0 => mem.table = 0)
  /\ maxHeap \in HeapLimits /\ LimitButRecycled

\* The limits of the heap.
Plausible(m) ==
  /\ \A k \in DOMAIN m.sects : m.least <= m.sects[k][1] /\ m.sects[k][2] <= m.greatest
  /\ m.least = 0 => W = 1

\* The slop below a section never reaches exactly to address zero.
SlopsElsewhere == \A s \in Slops, i \in 1 .. NPages - 1 : (Pg(i) - s) % W # 0


(***************************************************************************)
(* Spans and pages.                                                        *)
(***************************************************************************)

\* A word is in a page.
LEMMA PageOfWord ==
  ASSUME NEW w \in Nat, w < W
  PROVE  \E j \in 0 .. NPages - 1 : Pg(j) <= w /\ w < Pg(j + 1)
<1>1. PageWords \in Nat \ {0} /\ NPages \in Nat \ {0} /\ W = Pg(NPages)
  BY PageOrder
<1>2. PICK q \in Int, r \in 0 .. PageWords - 1 : w = q * PageWords + r
  <2>1. /\ w \div PageWords \in Int /\ w % PageWords \in 0 .. PageWords - 1
        /\ w = (w \div PageWords) * PageWords + (w % PageWords)
    <3>1. w \in Int
      OBVIOUS
    <3> QED BY <1>1, <3>1, Dividing
  <2> QED BY <2>1, Zenon
<1>3. Pg(q) \in Int /\ Pg(q + 1) = Pg(q) + PageWords /\ w = Pg(q) + r
  BY <1>2, PageOrder DEF Pg
<1>4. Pg(q) <= w /\ w < Pg(q + 1)
  BY <1>1, <1>2, <1>3
<1>5. q < NPages
  <2>1. Pg(q) < Pg(NPages)
    <3>1. Pg(NPages) \in Nat /\ w < Pg(NPages)
      BY <1>1, PageOrder
    <3> QED BY <1>3, <1>4, <3>1
  <2> QED BY <1>1, <1>2, <2>1, PageOrder
<1>6. 0 <= q
  <2>1. Pg(0) < Pg(q + 1) /\ q + 1 \in Int
    <3>1. Pg(0) = 0
      BY PageOrder
    <3> QED BY <1>1, <1>2, <1>3, <1>4, <3>1
  <2>2. 0 < q + 1
    BY <2>1, PageOrder
  <2> QED BY <1>2, <2>2
<1>7. q \in 0 .. NPages - 1
  BY <1>1, <1>2, <1>5, <1>6
<1> QED BY <1>4, <1>7

\* Spans with no page in common are apart.
LEMMA ApartByPages ==
  ASSUME NEW u \in Nat \X Nat, NEW v \in Nat \X Nat, v[2] <= W,
         \A i \in 0 .. NPages - 1 : ~(Touches(i, u) /\ Touches(i, v))
  PROVE  Apart(u, v)
<1> SUFFICES ASSUME ~Apart(u, v) PROVE FALSE
  OBVIOUS
<1>1. PICK a \in Nat, b \in Nat : a = u[1] /\ b = u[2]
  OBVIOUS
<1>2. PICK c \in Nat, d \in Nat : c = v[1] /\ d = v[2]
  OBVIOUS
<1>3. a < b /\ c < d /\ c < b /\ a < d
  BY <1>1, <1>2 DEF Apart
<1>4. PICK w \in Nat : w >= a /\ w >= c /\ w < b /\ w < d
  BY <1>3
<1>0. W \in Nat
  BY PageOrder
<1>5. w < W
  BY <1>0, <1>2, <1>4
<1>6. PICK j \in 0 .. NPages - 1 : Pg(j) <= w /\ w < Pg(j + 1)
  BY <1>5, PageOfWord
<1>7. Pg(j) \in Nat /\ Pg(j + 1) \in Nat
  BY PageOrder
<1>8. Touches(j, u) /\ Touches(j, v)
  BY <1>1, <1>2, <1>4, <1>6, <1>7 DEF Touches
<1> QED BY <1>8

\* A part of a span.
Within(v, u) == u[1] <= v[1] /\ v[2] <= u[2]

\* A part of a span is apart from what the whole is apart from.
LEMMA ApartWithin ==
  ASSUME NEW u \in Nat \X Nat, NEW v \in Nat \X Nat, NEW w \in Nat \X Nat, Within(v, u), Apart(u, w)
  PROVE  Apart(v, w) /\ Apart(w, v)
<1>1. PICK a \in Nat, b \in Nat : a = u[1] /\ b = u[2]
  OBVIOUS
<1>2. PICK c \in Nat, d \in Nat : c = v[1] /\ d = v[2]
  OBVIOUS
<1>3. PICK x \in Nat, y \in Nat : x = w[1] /\ y = w[2]
  OBVIOUS
<1> QED BY <1>1, <1>2, <1>3 DEF Apart, Within

\* It does not matter in which order.
LEMMA ApartTurns == \A u, v : Apart(u, v) => Apart(v, u)
BY DEF Apart

\* A part of a span is memory outside of the heap if the whole is.
LEMMA BackedWithin ==
  ASSUME NEW m, NEW u, Backed(m, u), NEW v \in Nat \X Nat, Within(v, u)
  PROVE  Backed(m, v)
<1>1. PICK a \in Nat, b \in Nat : a = u[1] /\ b = u[2]
  BY DEF Backed
<1>2. PICK c \in Nat, d \in Nat : c = v[1] /\ d = v[2]
  OBVIOUS
<1>3. a <= c /\ d <= b
  BY <1>1, <1>2 DEF Within
<1>4. PageWords \in Nat /\ W \in Nat /\ \A i \in 0 .. NPages - 1 : Pg(i) \in Nat /\ Pg(i + 1) \in Nat
  BY PageOrder
<1> SUFFICES ASSUME c < d PROVE Backed(m, v)
  BY <1>2 DEF Backed
<1>5. a < b
  BY <1>3
<1>6. a >= PageWords /\ b <= W /\ \A i \in 0 .. NPages - 1 : Touches(i, u) => i \in m.got /\ ~InHeap(m, i)
  BY <1>1, <1>5 DEF Backed
<1>7. ASSUME NEW i \in 0 .. NPages - 1, Touches(i, v) PROVE Touches(i, u)
  BY <1>1, <1>2, <1>3, <1>4, <1>7 DEF Touches
<1>8. c >= PageWords /\ d <= W
  BY <1>3, <1>4, <1>6
<1> QED BY <1>2, <1>6, <1>7, <1>8 DEF Backed

\* A page inside a span is not touched by one that is apart.
LEMMA PageApart ==
  ASSUME NEW u \in Nat \X Nat, NEW v \in Nat \X Nat, Apart(u, v), v[1] < v[2], NEW i \in 0 .. NPages - 1,
         u[1] <= Pg(i), Pg(i + 1) <= u[2]
  PROVE  ~Touches(i, v)
<1>1. PICK a \in Nat, b \in Nat : a = u[1] /\ b = u[2]
  OBVIOUS
<1>2. PICK c \in Nat, d \in Nat : c = v[1] /\ d = v[2]
  OBVIOUS
<1>3. Pg(i) \in Int /\ Pg(i + 1) \in Int /\ Pg(i) < Pg(i + 1)
  BY PageOrder
<1> QED BY <1>1, <1>2, <1>3 DEF Apart, Touches

\* The memory changes in nothing that these depend on.
LEMMA BackedSame ==
  ASSUME NEW m, NEW x, x.got = m.got, x.sects = m.sects, NEW v
  PROVE  Backed(m, v) => Backed(x, v)
BY DEF Backed, InHeap

\* The types of the fields.
LEMMA MemoryFields ==
  ASSUME NEW m \in Memories
  PROVE  /\ m.got \in SUBSET (1 .. NPages - 1) /\ m.sects \in Seq(Nat \X Nat)
         /\ m.cap \in Nat /\ m.arr \in Nat /\ m.sfree \in Nat /\ m.send \in Nat /\ m.table \in Nat
         /\ m.words \in Nat /\ m.heapsize \in Nat /\ m.recycled \in Nat /\ m.last \in Nat /\ m.aborted \in BOOLEAN
         /\ m.least \in 0 .. WordMax /\ m.greatest \in 0 .. WordMax /\ m.least \in Nat /\ m.greatest \in Nat
         /\ WordMax = W - 1 /\ WordMax \in Nat
<1>1. WordMax = W - 1 /\ WordMax \in Nat
  <2>1. W \in Nat \ {0}
    BY PageOrder
  <2>2. WordMax = W - 1
    BY DEF WordMax
  <2> QED BY <2>1, <2>2
<1>2. m.least \in 0 .. WordMax /\ m.greatest \in 0 .. WordMax
  BY DEF Memories
<1>3. m.least \in Nat /\ m.greatest \in Nat
  BY <1>1, <1>2
<1>4. m.got \in SUBSET (1 .. NPages - 1) /\ m.sects \in Seq(Nat \X Nat)
  BY DEF Memories
<1>5. /\ m.cap \in Nat /\ m.arr \in Nat /\ m.sfree \in Nat /\ m.send \in Nat /\ m.table \in Nat
      /\ m.words \in Nat /\ m.heapsize \in Nat /\ m.recycled \in Nat /\ m.last \in Nat /\ m.aborted \in BOOLEAN
  BY DEF Memories
<1> QED BY <1>1, <1>2, <1>3, <1>4, <1>5

\* Nothing changes that the invariant speaks of.
Like(m, x) ==
  /\ x \in Memories /\ x.got = m.got /\ x.sects = m.sects /\ x.cap = m.cap /\ x.arr = m.arr
  /\ x.sfree = m.sfree /\ x.send = m.send /\ x.heapsize = m.heapsize

\* Then the invariant stays, and what is not used otherwise.
LEMMA GoodSame ==
  ASSUME NEW m, Good(m), NEW x, Like(m, x)
  PROVE  Good(x) /\ \A v : Kept(m, v) => Kept(x, v)
<1>1. x.got = m.got /\ x.sects = m.sects
  BY DEF Like
<1>2. \A v : Backed(m, v) => Backed(x, v)
  BY <1>1, BackedSame
<1>3. ArrayOf(x) = ArrayOf(m) /\ ScratchOf(x) = ScratchOf(m)
  BY DEF Like, ArrayOf, ScratchOf
<1>4. HeapPages(x) = HeapPages(m)
  BY <1>1 DEF HeapPages, InHeap
<1>5. SectionsOf(x)
  BY <1>1, <1>4 DEF Like, Good, SectionsOf
<1>6. TablesOf(x)
  BY <1>2, <1>3 DEF Like, Good, TablesOf
<1>7. Good(x)
  BY <1>5, <1>6 DEF Good, Like
<1>8. \A v : Kept(m, v) => Kept(x, v)
  BY <1>2, <1>3 DEF Kept
<1> QED BY <1>7, <1>8

(***************************************************************************)
(* A section is added.                                                     *)
(***************************************************************************)

\* n pages from page k.
Run(k, n) == <<Pg(k), Pg(k + n)>>

\* What stays when memory only moves between uses.
Others(m, x) == x.table = m.table /\ x.words = m.words

\* x is m with the pages f to e - 1 as a further section.
Longer(m, x, f, e) ==
  /\ x \in Memories /\ x.got = m.got /\ x.cap = m.cap /\ x.arr = m.arr /\ x.sfree = m.sfree /\ x.send = m.send
  /\ x.sects = Append(m.sects, <<Pg(f), Pg(e)>>) /\ x.heapsize = m.heapsize + (Pg(e) - Pg(f))
  /\ x.recycled = m.recycled /\ Others(m, x)

\* Pages that a section may have.
SectionAt(f, e) == f \in 2 .. NPages - 1 /\ e \in 2 .. NPages - 1 /\ f < e

\* The addresses of such pages.
LEMMA SectionFacts ==
  ASSUME NEW f, NEW e, SectionAt(f, e)
  PROVE  /\ f \in Nat /\ e \in Nat /\ Pg(f) \in Nat /\ Pg(e) \in Nat /\ Pg(f) < Pg(e) /\ Pg(e) < W
         /\ Pg(f) >= 2 /\ Pg(e) - Pg(f) \in Nat
<1>1. NPages \in Nat \ {0} /\ W = Pg(NPages) /\ PageWords \in Nat \ {0} /\ Pg(2) = 2 * PageWords
  BY PageOrder
<1>2. f \in Nat /\ e \in Nat /\ f \in Int /\ e \in Int /\ 2 \in Int /\ NPages \in Int
      /\ 2 <= f /\ f < e /\ e < NPages
  BY <1>1 DEF SectionAt
<1>3. Pg(f) \in Nat /\ Pg(e) \in Nat /\ Pg(f) < Pg(e) /\ Pg(e) < W /\ Pg(2) <= Pg(f)
  BY <1>1, <1>2, PageOrder
<1> QED BY <1>1, <1>2, <1>3

\* Section adds the section; the limits come to include it.
LEMMA SectionIs ==
  ASSUME NEW m \in Memories, NEW f, NEW e, SectionAt(f, e)
  PROVE  /\ Longer(m, Section(m, Pg(f), Pg(e)), f, e)
         /\ Plausible(m) => Plausible(Section(m, Pg(f), Pg(e)))
<1>1. /\ Pg(f) \in Nat /\ Pg(e) \in Nat /\ Pg(f) < Pg(e) /\ Pg(e) < W
      /\ Pg(f) >= 2 /\ Pg(e) - Pg(f) \in Nat /\ W \in Nat
  BY SectionFacts, PageOrder
<1>2. PICK p \in Nat, q \in Nat : p = Pg(f) /\ q = Pg(e) /\ p < q /\ q < W /\ p >= 2
  BY <1>1
<1>3. q % W = q
  BY <1>1, <1>2, Wrapping
<1>a. PICK least \in Nat, greatest \in Nat : least = m.least /\ greatest = m.greatest
  BY MemoryFields
<1>b. m.heapsize \in Nat /\ m.sects \in Seq(Nat \X Nat) /\ WordMax = W - 1 /\ WordMax \in Nat
      /\ least <= WordMax /\ greatest <= WordMax
  BY <1>a, MemoryFields
<1>4. PICK l \in Nat : l = LeastAfter(least, p) /\ l <= WordMax
  <2>1. LeastAfter(least, p) \in Nat /\ LeastAfter(least, p) <= WordMax
    BY <1>1, <1>2, <1>b DEF LeastAfter
  <2> QED BY <2>1, Zenon
<1>5. PICK g \in Nat : g = GreatestAfter(greatest, q) /\ g <= WordMax
  <2>1. GreatestAfter(greatest, q) \in Nat /\ GreatestAfter(greatest, q) <= WordMax
    BY <1>1, <1>2, <1>3, <1>b DEF GreatestAfter
  <2> QED BY <2>1, Zenon
<1>6. PICK h \in Nat : h = m.heapsize + (q - p) /\ h = m.heapsize + q - p
  <2>1. m.heapsize + (q - p) \in Nat /\ m.heapsize + (q - p) = m.heapsize + q - p
    BY <1>2, <1>b
  <2> QED BY <2>1, Zenon
<1>7. PICK s \in Seq(Nat \X Nat) : s = Append(m.sects, <<p, q>>)
  <2>1. <<p, q>> \in Nat \X Nat
    OBVIOUS
  <2>2. Append(m.sects, <<p, q>>) \in Seq(Nat \X Nat)
    BY <1>b, <2>1
  <2> QED BY <2>2, Zenon
<1>8. PICK x : x = Section(m, p, q)
  OBVIOUS
<1>9. x = [m EXCEPT !.sects = s, !.heapsize = h, !.least = l, !.greatest = g]
  BY <1>a, <1>4, <1>5, <1>6, <1>7, <1>8 DEF Section
<1>10. x \in Memories
  <2>1. l \in 0 .. WordMax /\ g \in 0 .. WordMax
    BY <1>b, <1>4, <1>5
  <2> QED BY <1>9, <2>1 DEF Memories
<1>11. /\ x.got = m.got /\ x.cap = m.cap /\ x.arr = m.arr /\ x.sfree = m.sfree /\ x.send = m.send
       /\ x.sects = s /\ x.heapsize = h /\ x.least = l /\ x.greatest = g
       /\ x.recycled = m.recycled /\ x.table = m.table /\ x.words = m.words
  BY <1>9 DEF Memories
<1>12. Longer(m, x, f, e)
  BY <1>2, <1>6, <1>7, <1>10, <1>11 DEF Longer, Others
<1>13. ASSUME Plausible(m) PROVE Plausible(x)
  <2>2. least # 0
    <3>1. least = 0 => W = 1
      BY <1>13, <1>a DEF Plausible
    <3> QED BY <1>1, <1>2, <3>1
  <2>3. l <= p /\ l <= least /\ l # 0
    BY <1>2, <1>4, <2>2 DEF LeastAfter
  <2>4. q <= g /\ greatest <= g
    BY <1>2, <1>3, <1>5 DEF GreatestAfter
  <2>5. ASSUME NEW k \in DOMAIN s PROVE l <= s[k][1] /\ s[k][2] <= g
    <3>1. CASE k \in DOMAIN m.sects
      <4>1. s[k] = m.sects[k] /\ m.sects[k] \in Nat \X Nat
        BY <1>2, <1>7, <1>b, <3>1
      <4>2. m.least <= m.sects[k][1] /\ m.sects[k][2] <= m.greatest
        BY <1>13, <3>1 DEF Plausible
      <4>3. PICK a \in Nat, b \in Nat : a = m.sects[k][1] /\ b = m.sects[k][2]
        BY <4>1
      <4>4. least <= a /\ b <= greatest
        BY <1>a, <4>2, <4>3
      <4>5. l <= a /\ b <= g
        BY <2>3, <2>4, <4>4
      <4> QED BY <4>1, <4>3, <4>5
    <3>2. CASE k \notin DOMAIN m.sects
      <4>1. k = Len(m.sects) + 1 /\ s[k] = <<p, q>>
        BY <1>2, <1>7, <1>b, <3>2
      <4> QED BY <2>3, <2>4, <4>1
    <3> QED BY <3>1, <3>2
  <2> QED BY <1>11, <2>3, <2>5 DEF Plausible
<1> QED BY <1>2, <1>8, <1>12, <1>13

\* The pages of the heap afterwards.
LEMMA SectionInHeap ==
  ASSUME NEW m \in Memories, NEW x, NEW f, NEW e, SectionAt(f, e), Longer(m, x, f, e), NEW i \in 0 .. NPages - 1
  PROVE  InHeap(x, i) <=> InHeap(m, i) \/ i \in f .. e - 1
<1>1. /\ f \in Nat /\ e \in Nat /\ i \in Nat /\ Pg(f) \in Nat /\ Pg(e) \in Nat
      /\ m.sects \in Seq(Nat \X Nat) /\ NPages \in Nat
  BY SectionFacts, MemoryFields, PageOrder
<1>2. PICK s \in Seq(Nat \X Nat) : s = m.sects
  BY <1>1
<1>3. x.sects = Append(s, <<Pg(f), Pg(e)>>)
  BY <1>2 DEF Longer
<1>4. PICK y : y = Append(s, <<Pg(f), Pg(e)>>)
  OBVIOUS
<1>5. /\ DOMAIN y = 1 .. Len(s) + 1 /\ DOMAIN s = 1 .. Len(s) /\ Len(s) \in Nat
      /\ \A k \in 1 .. Len(s) : y[k] = s[k]
      /\ y[Len(s) + 1] = <<Pg(f), Pg(e)>>
  <2>1. <<Pg(f), Pg(e)>> \in Nat \X Nat
    BY <1>1
  <2> QED BY <1>4, <2>1
<1>6. (Pg(f) <= Pg(i) /\ Pg(i) < Pg(e)) <=> i \in f .. e - 1
  <2>1. f \in Int /\ e \in Int /\ i \in Int
    BY <1>1
  <2>2. (f <= i <=> Pg(f) <= Pg(i)) /\ (i < e <=> Pg(i) < Pg(e))
    BY <2>1, PageOrder
  <2> QED BY <1>1, <2>2
<1>7. ASSUME InHeap(x, i) PROVE InHeap(m, i) \/ i \in f .. e - 1
  <2>1. PICK k \in 1 .. Len(s) + 1 : y[k][1] <= Pg(i) /\ Pg(i) < y[k][2]
    BY <1>3, <1>4, <1>5, <1>7 DEF InHeap
  <2>2. CASE k \in 1 .. Len(s)
    BY <1>2, <1>5, <2>1, <2>2 DEF InHeap
  <2>3. CASE k = Len(s) + 1
    BY <1>5, <1>6, <2>1, <2>3
  <2> QED BY <1>5, <2>2, <2>3
<1>8. ASSUME InHeap(m, i) PROVE InHeap(x, i)
  <2>1. PICK k \in 1 .. Len(s) : s[k][1] <= Pg(i) /\ Pg(i) < s[k][2]
    BY <1>2, <1>5, <1>8 DEF InHeap
  <2>2. k \in DOMAIN y /\ y[k] = s[k]
    BY <1>5
  <2> QED BY <1>3, <1>4, <2>1, <2>2 DEF InHeap
<1>9. ASSUME i \in f .. e - 1 PROVE InHeap(x, i)
  <2>1. Len(s) + 1 \in DOMAIN y
    BY <1>5
  <2> QED BY <1>3, <1>4, <1>5, <1>6, <1>9, <2>1 DEF InHeap
<1> QED BY <1>7, <1>8, <1>9

\* A span that is apart from the memory of the section stays out of the heap.
LEMMA SectionBacked ==
  ASSUME NEW m \in Memories, NEW x, NEW f, NEW e, SectionAt(f, e), Longer(m, x, f, e),
         NEW v \in Nat \X Nat, v[1] <= Pg(f), Pg(e) <= v[2], NEW u, Backed(m, u), Apart(v, u)
  PROVE  Backed(x, u)
<1>1. u \in Nat \X Nat
  BY DEF Backed
<1> SUFFICES ASSUME u[1] < u[2] PROVE Backed(x, u)
  BY <1>1 DEF Backed
<1>2. u[1] >= PageWords /\ u[2] <= W /\ \A i \in 0 .. NPages - 1 : Touches(i, u) => i \in m.got /\ ~InHeap(m, i)
  BY DEF Backed
<1>3. ASSUME NEW i \in 0 .. NPages - 1, Touches(i, u) PROVE i \in x.got /\ ~InHeap(x, i)
  <2>1. i \in m.got /\ ~InHeap(m, i) /\ x.got = m.got
    BY <1>2, <1>3 DEF Longer
  <2>2. ASSUME i \in f .. e - 1 PROVE FALSE
    <3>1. f \in Int /\ e \in Int /\ i \in Int /\ i + 1 \in Int /\ f <= i /\ i + 1 <= e
      BY <2>2, SectionFacts
    <3>2. Pg(f) <= Pg(i) /\ Pg(i + 1) <= Pg(e) /\ Pg(f) \in Int /\ Pg(e) \in Int /\ Pg(i) \in Int /\ Pg(i + 1) \in Int
      BY <3>1, PageOrder
    <3>3. PICK a \in Nat, b \in Nat : a = v[1] /\ b = v[2]
      OBVIOUS
    <3>4. a <= Pg(f) /\ Pg(e) <= b
      BY <3>3
    <3>5. a <= Pg(i) /\ Pg(i + 1) <= b
      BY <3>2, <3>4
    <3>6. v[1] <= Pg(i) /\ Pg(i + 1) <= v[2]
      BY <3>3, <3>5
    <3> QED BY <1>1, <1>3, <3>6, PageApart
  <2> QED BY <2>1, <2>2, SectionInHeap
<1> QED BY <1>1, <1>2, <1>3 DEF Backed

\* The sections stay disjoint and add up to GC_heapsize.
LEMMA SectionSections ==
  ASSUME NEW m, Good(m), NEW x, NEW f, NEW e, SectionAt(f, e), Longer(m, x, f, e), Len(m.sects) < m.cap,
         Backed(m, <<Pg(f), Pg(e)>>)
  PROVE  SectionsOf(x) /\ Len(x.sects) = Len(m.sects) + 1
<1>1. /\ m \in Memories /\ f \in Nat /\ e \in Nat /\ Pg(f) \in Nat /\ Pg(e) \in Nat /\ Pg(f) < Pg(e)
      /\ m.sects \in Seq(Nat \X Nat) /\ NPages \in Nat /\ m.cap \in Nat
  BY SectionFacts, MemoryFields, PageOrder DEF Good
<1>2. PICK s \in Seq(Nat \X Nat) : s = m.sects
  BY <1>1
<1>3. PICK y : y = x.sects /\ y = Append(s, <<Pg(f), Pg(e)>>)
  BY <1>2 DEF Longer
<1>4. /\ DOMAIN y = 1 .. Len(s) + 1 /\ DOMAIN s = 1 .. Len(s) /\ Len(s) \in Nat
      /\ \A k \in 1 .. Len(s) : y[k] = s[k]
      /\ y[Len(s) + 1] = <<Pg(f), Pg(e)>> /\ Len(y) = Len(s) + 1
  <2>1. <<Pg(f), Pg(e)>> \in Nat \X Nat
    BY <1>1
  <2> QED BY <1>3, <2>1
<1>5. ASSUME NEW i \in f .. e - 1 PROVE i \in 0 .. NPages - 1 /\ i \in m.got /\ ~InHeap(m, i)
  <2>1. i \in 0 .. NPages - 1 /\ i \in Int /\ f \in Int /\ e \in Int /\ i + 1 \in Int /\ f < i + 1 /\ i < e
    BY <1>1 DEF SectionAt
  <2>2. Pg(i) < Pg(e) /\ Pg(f) < Pg(i + 1) /\ Pg(i + 1) \in Int
    BY <2>1, PageOrder
  <2>3. Touches(i, <<Pg(f), Pg(e)>>)
    BY <1>1, <2>2 DEF Touches
  <2> QED BY <1>1, <2>1, <2>3 DEF Backed
<1>6. ASSUME NEW k \in 1 .. Len(s) PROVE IsSection(s[k]) /\ (s[k][2] <= Pg(f) \/ Pg(e) <= s[k][1])
  <2>1. IsSection(s[k])
    BY <1>2, <1>4 DEF Good, SectionsOf
  <2>2. PICK a \in 2 .. NPages - 1, b \in 2 .. NPages - 1 : a < b /\ s[k] = <<Pg(a), Pg(b)>>
    BY <2>1 DEF IsSection
  <2>3. a \in Int /\ b \in Int /\ f \in Int /\ e \in Int
    BY <1>1, <2>2
  <2>4. (b <= f <=> Pg(b) <= Pg(f)) /\ (e <= a <=> Pg(e) <= Pg(a))
    BY <2>3, PageOrder
  <2>5. ASSUME f < b, a < e PROVE FALSE
    <3>1. PICK i \in Int : a <= i /\ f <= i /\ i < b /\ i < e
      <4>1. CASE a <= f
        <5>1. a <= f /\ f <= f /\ f < b /\ f < e
          BY <2>5, <4>1 DEF SectionAt
        <5> QED BY <2>3, <5>1
      <4>2. CASE f < a
        <5>1. a <= a /\ f <= a /\ a < b /\ a < e
          BY <2>2, <2>3, <2>5, <4>2
        <5> QED BY <2>3, <5>1
      <4> QED BY <2>3, <4>1, <4>2
    <3>2. i \in f .. e - 1
      BY <2>3, <3>1
    <3>3. Pg(a) <= Pg(i) /\ Pg(i) < Pg(b)
      BY <2>3, <3>1, PageOrder
    <3>4. InHeap(m, i)
      <4>1. k \in DOMAIN m.sects /\ m.sects[k][1] = Pg(a) /\ m.sects[k][2] = Pg(b)
        BY <1>2, <1>4, <2>2
      <4> QED BY <3>3, <4>1 DEF InHeap
    <3> QED BY <1>5, <3>2, <3>4
  <2> QED BY <2>1, <2>2, <2>3, <2>4, <2>5
<1>7. \A k \in DOMAIN x.sects : IsSection(x.sects[k])
  <2>1. IsSection(<<Pg(f), Pg(e)>>)
    BY DEF IsSection, SectionAt
  <2> SUFFICES ASSUME NEW k \in 1 .. Len(s) + 1 PROVE IsSection(y[k])
    BY <1>3, <1>4
  <2>2. CASE k \in 1 .. Len(s)
    BY <1>4, <1>6, <2>2
  <2>3. CASE k = Len(s) + 1
    BY <1>4, <2>1, <2>3
  <2> QED BY <1>4, <2>2, <2>3
<1>8. \A j, k \in DOMAIN x.sects :
        j # k => x.sects[j][2] <= x.sects[k][1] \/ x.sects[k][2] <= x.sects[j][1]
  <2> SUFFICES ASSUME NEW j \in 1 .. Len(s) + 1, NEW k \in 1 .. Len(s) + 1, j # k
               PROVE  y[j][2] <= y[k][1] \/ y[k][2] <= y[j][1]
    BY <1>3, <1>4
  <2>1. CASE j \in 1 .. Len(s) /\ k \in 1 .. Len(s)
    <3>1. s[j][2] <= s[k][1] \/ s[k][2] <= s[j][1]
      BY <1>2, <1>4, <2>1 DEF Good, SectionsOf
    <3>2. y[j] = s[j] /\ y[k] = s[k]
      BY <1>4, <2>1
    <3> QED BY <3>1, <3>2
  <2>2. CASE j \in 1 .. Len(s) /\ k = Len(s) + 1
    <3>1. s[j][2] <= Pg(f) \/ Pg(e) <= s[j][1]
      BY <1>6, <2>2
    <3>2. y[j] = s[j] /\ y[k] = <<Pg(f), Pg(e)>>
      BY <1>4, <2>2
    <3>3. y[k][1] = Pg(f) /\ y[k][2] = Pg(e)
      BY <3>2
    <3> QED BY <3>1, <3>2, <3>3
  <2>3. CASE j = Len(s) + 1 /\ k \in 1 .. Len(s)
    <3>1. s[k][2] <= Pg(f) \/ Pg(e) <= s[k][1]
      BY <1>6, <2>3
    <3>2. y[k] = s[k] /\ y[j] = <<Pg(f), Pg(e)>>
      BY <1>4, <2>3
    <3>3. y[j][1] = Pg(f) /\ y[j][2] = Pg(e)
      BY <3>2
    <3> QED BY <3>1, <3>2, <3>3
  <2>4. (j \in 1 .. Len(s) \/ j = Len(s) + 1) /\ (k \in 1 .. Len(s) \/ k = Len(s) + 1)
    <3>1. Len(s) \in Nat
      BY <1>4
    <3> QED BY <3>1
  <2> QED BY <2>1, <2>2, <2>3, <2>4
<1>9. HeapPages(x) = HeapPages(m) \cup f .. e - 1
  <2>1. \A i \in 0 .. NPages - 1 : InHeap(x, i) <=> InHeap(m, i) \/ i \in f .. e - 1
    BY <1>1, SectionInHeap
  <2> QED BY <1>5, <2>1 DEF HeapPages
<1>10. HeapPages(x) \subseteq x.got
  <2>1. HeapPages(m) \subseteq m.got /\ x.got = m.got
    BY DEF Good, SectionsOf, Longer
  <2> QED BY <1>5, <1>9, <2>1
<1>11. x.heapsize = Pg(Cardinality(HeapPages(x)))
  <2>1. IsFiniteSet(0 .. NPages - 1) /\ IsFiniteSet(f .. e - 1) /\ Cardinality(f .. e - 1) = e - f
    <3>1. 0 \in Int /\ NPages - 1 \in Int /\ f \in Int /\ e - 1 \in Int
      BY <1>1
    <3>2. IsFiniteSet(0 .. NPages - 1) /\ IsFiniteSet(f .. e - 1)
      BY <3>1, FS_Interval
    <3>3. Cardinality(f .. e - 1) = IF f > e - 1 THEN 0 ELSE e - 1 - f + 1
      BY <3>1, FS_Interval
    <3>4. f < e
      BY DEF SectionAt
    <3> QED BY <1>1, <3>2, <3>3, <3>4
  <2>2. IsFiniteSet(HeapPages(m))
    <3>1. HeapPages(m) \subseteq 0 .. NPages - 1
      BY DEF HeapPages
    <3> QED BY <2>1, <3>1, FS_Subset
  <2>3. HeapPages(m) \cap f .. e - 1 = {}
    BY <1>5 DEF HeapPages
  <2>4. Cardinality(HeapPages(m)) \in Nat
    BY <2>2, FS_CardinalityType
  <2>5. Cardinality(HeapPages(x)) = Cardinality(HeapPages(m)) + (e - f)
    <3>1. Cardinality(HeapPages(m) \cup f .. e - 1)
            = Cardinality(HeapPages(m)) + Cardinality(f .. e - 1) - Cardinality(HeapPages(m) \cap f .. e - 1)
      BY <2>1, <2>2, FS_Union
    <3>2. Cardinality(HeapPages(m) \cap f .. e - 1) = 0
      BY <2>3, FS_EmptySet
    <3> QED BY <1>1, <1>9, <2>1, <2>4, <3>1, <3>2
  <2>6. PICK c \in Nat : c = Cardinality(HeapPages(m))
    BY <2>4
  <2>7. Pg(c + (e - f)) = Pg(c) + (Pg(e) - Pg(f)) /\ Pg(c) \in Int
    BY <1>1, <2>6, PageOrder DEF Pg
  <2>8. m.heapsize = Pg(c) /\ x.heapsize = m.heapsize + (Pg(e) - Pg(f))
    BY <2>6 DEF Good, SectionsOf, Longer
  <2> QED BY <2>5, <2>6, <2>7, <2>8
<1>12. Len(x.sects) = Len(m.sects) + 1 /\ Len(x.sects) <= x.cap
  BY <1>1, <1>2, <1>3, <1>4 DEF Longer
<1> QED BY <1>7, <1>8, <1>10, <1>11, <1>12 DEF SectionsOf

\* The section makes use of memory that is not used otherwise.
LEMMA SectionGood ==
  ASSUME NEW m, Good(m), NEW x, NEW f, NEW e, SectionAt(f, e), Longer(m, x, f, e), Len(m.sects) < m.cap,
         NEW v, Kept(m, v), v[1] <= Pg(f), Pg(e) <= v[2]
  PROVE  /\ Good(x) /\ Len(x.sects) = Len(m.sects) + 1
         /\ \A u : Kept(m, u) /\ Apart(u, v) => Kept(x, u)
<1>1. m \in Memories /\ v \in Nat \X Nat /\ Backed(m, v)
  BY DEF Good, Kept, Backed
<1>2. Backed(m, <<Pg(f), Pg(e)>>)
  <2>1. <<Pg(f), Pg(e)>> \in Nat \X Nat
    BY SectionFacts
  <2>2. Within(<<Pg(f), Pg(e)>>, v)
    BY DEF Within
  <2> QED BY <1>1, <2>1, <2>2, BackedWithin
<1>3. SectionsOf(x) /\ Len(x.sects) = Len(m.sects) + 1
  BY <1>2, SectionSections
<1>4. \A u : Backed(m, u) /\ Apart(u, v) => Backed(x, u)
  BY <1>1, SectionBacked, ApartTurns
<1>5. ArrayOf(x) = ArrayOf(m) /\ ScratchOf(x) = ScratchOf(m)
  BY DEF Longer, ArrayOf, ScratchOf
<1>6. \A u : Kept(m, u) /\ Apart(u, v) => Kept(x, u)
  BY <1>4, <1>5 DEF Kept
<1>7. TablesOf(x)
  <2>1. Apart(ArrayOf(m), v) /\ Apart(ScratchOf(m), v)
    BY ApartTurns DEF Kept
  <2>2. Backed(x, ArrayOf(x)) /\ Backed(x, ScratchOf(x))
    BY <1>4, <1>5, <2>1 DEF Good, TablesOf
  <2> QED BY <1>5, <2>2 DEF Good, TablesOf, Longer
<1>8. Good(x)
  BY <1>3, <1>7 DEF Good, Longer
<1> QED BY <1>3, <1>6, <1>8

\* The pages of a run that is not used otherwise.
LEMMA RunFacts ==
  ASSUME NEW m, NEW k \in Nat, NEW n \in Nat \ {0}, Backed(m, Run(k, n))
  PROVE  k >= 1 /\ k + n <= NPages /\ Pg(k) \in Nat /\ Pg(k + n) \in Nat /\ Pg(k + n) = Pg(k) + Pg(n)
<1>1. k \in Int /\ n \in Int /\ k + n \in Nat /\ k + n \in Int /\ k < k + n
  OBVIOUS
<1>2. Pg(k) \in Nat /\ Pg(k + n) \in Nat /\ Pg(k + n) = Pg(k) + Pg(n) /\ Pg(k) < Pg(k + n)
  BY <1>1, PageOrder
<1>3. Pg(k) >= PageWords /\ Pg(k + n) <= W
  BY <1>2 DEF Backed, Run
<1>4. NPages \in Nat /\ NPages \in Int /\ 1 \in Int /\ Pg(1) = PageWords /\ W = Pg(NPages) /\ PageWords \in Nat
  BY PageOrder
<1>5. 1 <= k
  <2>1. Pg(1) <= Pg(k)
    BY <1>2, <1>3, <1>4
  <2> QED BY <1>1, <1>4, <2>1, PageOrder
<1>6. k + n <= NPages
  BY <1>1, <1>3, <1>4, PageOrder
<1> QED BY <1>1, <1>2, <1>5, <1>6

\* The results of AddSection: nothing, or a section inside of the memory.
LEMMA AddSectionIs ==
  ASSUME NEW m, NEW k \in Nat, NEW n \in Nat \ {0}, Backed(m, Run(k, n)), NEW x \in AddSection(m, Pg(k), Pg(n))
  PROVE  \/ x = m
         \/ \E f, e : SectionAt(f, e) /\ x = Section(m, Pg(f), Pg(e)) /\ Pg(k) <= Pg(f) /\ Pg(e) <= Pg(k + n)
<1>1. k >= 1 /\ k + n <= NPages /\ Pg(k) \in Nat /\ Pg(k + n) \in Nat /\ Pg(k + n) = Pg(k) + Pg(n)
  BY RunFacts
<1>2. /\ NPages \in Nat \ {0} /\ W = Pg(NPages) /\ PageWords \in Nat \ {0} /\ W \in Nat \ {0}
      /\ Pg(1) = PageWords /\ Pg(2) = 2 * PageWords /\ Pg(NPages - 1) = W - PageWords
  BY PageOrder
<1>3. PICK f \in Nat : f = IF k = 1 THEN 2 ELSE k
  OBVIOUS
<1>4. PICK e \in Nat : e = IF k + n = NPages THEN NPages - 1 ELSE k + n
  <2>1. (IF k + n = NPages THEN NPages - 1 ELSE k + n) \in Nat
    BY <1>2
  <2> QED BY <2>1, Zenon
<1>5. Start(Pg(k)) = Pg(f)
  <2>1. k \in Int /\ 1 \in Int
    OBVIOUS
  <2>2. k <= 1 <=> Pg(k) <= PageWords
    <3>1. k <= 1 <=> Pg(k) <= Pg(1)
      BY <2>1, PageOrder
    <3> QED BY <1>2, <3>1
  <2> QED BY <1>1, <1>2, <1>3, <2>2 DEF Start
<1>6. EndUnwrapped(Pg(k), (Pg(k) + Pg(n)) % W) = Pg(e)
  <2>1. k \in Int /\ k + n \in Int /\ NPages \in Int /\ k < k + n
    BY <1>2
  <2>2. Pg(k) < Pg(k + n) /\ (k + n = NPages <=> Pg(k + n) = W) /\ Pg(k + n) <= W
    <3>1. Pg(k) < Pg(k + n) /\ Pg(k + n) <= Pg(NPages) /\ (k + n < NPages <=> Pg(k + n) < Pg(NPages))
      BY <1>1, <2>1, PageOrder
    <3> QED BY <1>1, <1>2, <3>1
  <2>3. (Pg(k) + Pg(n)) % W = IF Pg(k + n) = W THEN 0 ELSE Pg(k + n)
    BY <1>1, <2>2, Wrapping
  <2>4. CASE k + n = NPages
    BY <1>1, <1>2, <1>4, <2>2, <2>3, <2>4 DEF EndUnwrapped
  <2>5. CASE k + n # NPages
    BY <1>1, <1>2, <1>4, <2>2, <2>3, <2>5 DEF EndUnwrapped
  <2> QED BY <2>4, <2>5
<1>7. x \in IF Pg(f) >= Pg(e) THEN {m} ELSE {m, Section(m, Pg(f), Pg(e))}
  BY <1>5, <1>6 DEF AddSection
<1>8. ASSUME x # m
      PROVE  SectionAt(f, e) /\ x = Section(m, Pg(f), Pg(e)) /\ Pg(k) <= Pg(f) /\ Pg(e) <= Pg(k + n)
  <2>0. f \in Int /\ e \in Int /\ k \in Int /\ k + n \in Int
    BY <1>3, <1>4
  <2>1. f \in Int /\ e \in Int /\ k \in Int /\ k + n \in Int /\ Pg(f) \in Int /\ Pg(e) \in Int
    BY <2>0, PageOrder
  <2>2. x = Section(m, Pg(f), Pg(e)) /\ Pg(f) < Pg(e)
    BY <1>7, <1>8, <2>1
  <2>3. f < e
    BY <2>1, <2>2, PageOrder
  <2>4. f >= 2 /\ e <= NPages - 1 /\ k <= f /\ e <= k + n
    BY <1>1, <1>2, <1>3, <1>4
  <2>5. SectionAt(f, e)
    BY <1>2, <2>3, <2>4 DEF SectionAt
  <2>6. Pg(k) <= Pg(f) /\ Pg(e) <= Pg(k + n)
    BY <2>1, <2>4, PageOrder
  <2> QED BY <2>2, <2>5, <2>6
<1> QED BY <1>8

\* What adding n pages at v to the heap does.
Added(m, x, v, n) ==
  /\ Good(x) /\ Others(m, x) /\ \A u : Kept(m, u) /\ Apart(u, v) => Kept(x, u)
  /\ x.recycled >= m.recycled /\ x.heapsize >= m.heapsize
  /\ x.heapsize + m.recycled <= m.heapsize + x.recycled + Pg(n)
  /\ Plausible(m) => Plausible(x)
\* What AddSection leaves alone.
SectionOnly(m, x) ==
  /\ x.got = m.got /\ x.cap = m.cap /\ x.arr = m.arr /\ x.sfree = m.sfree /\ x.send = m.send
  /\ x.recycled = m.recycled /\ (Len(x.sects) = Len(m.sects) \/ Len(x.sects) = Len(m.sects) + 1)

\* Adding memory to the heap when GC_heap_sects has room.
LEMMA AddSectionAdds ==
  ASSUME NEW m, Good(m), Len(m.sects) < m.cap, NEW k \in Nat, NEW n \in Nat \ {0}, Kept(m, Run(k, n)),
         NEW x \in AddSection(m, Pg(k), Pg(n))
  PROVE  Added(m, x, Run(k, n), n) /\ SectionOnly(m, x)
<1>1. Backed(m, Run(k, n)) /\ m \in Memories
  BY DEF Kept, Good
<1>2. m.heapsize \in Nat /\ m.recycled \in Nat
  BY <1>1, MemoryFields
<1>3. Pg(k) \in Nat /\ Pg(k + n) \in Nat /\ Pg(n) \in Nat /\ Pg(k + n) = Pg(k) + Pg(n)
  BY <1>1, RunFacts, PageOrder
<1>4. CASE x = m
  <2>1. Good(m) /\ Others(m, m) /\ SectionOnly(m, m) /\ \A u : Kept(m, u) /\ Apart(u, Run(k, n)) => Kept(m, u)
    BY DEF Others, SectionOnly
  <2>2. /\ m.recycled >= m.recycled /\ m.heapsize >= m.heapsize
        /\ m.heapsize + m.recycled <= m.heapsize + m.recycled + Pg(n)
    BY <1>2, <1>3
  <2> QED BY <1>4, <2>1, <2>2 DEF Added
<1>5. ASSUME NEW f, NEW e, SectionAt(f, e), x = Section(m, Pg(f), Pg(e)), Pg(k) <= Pg(f), Pg(e) <= Pg(k + n)
      PROVE  Added(m, x, Run(k, n), n) /\ SectionOnly(m, x)
  <2>1. Longer(m, x, f, e) /\ (Plausible(m) => Plausible(x))
    BY <1>1, <1>5, SectionIs
  <2>2. Run(k, n)[1] <= Pg(f) /\ Pg(e) <= Run(k, n)[2]
    BY <1>5 DEF Run
  <2>3. /\ Good(x) /\ Len(x.sects) = Len(m.sects) + 1
        /\ \A u : Kept(m, u) /\ Apart(u, Run(k, n)) => Kept(x, u)
    BY <1>5, <2>1, <2>2, SectionGood
  <2>4. Pg(f) \in Nat /\ Pg(e) \in Nat /\ Pg(f) < Pg(e)
    BY <1>5, SectionFacts
  <2>5. x.heapsize = m.heapsize + (Pg(e) - Pg(f)) /\ x.recycled = m.recycled
    BY <2>1 DEF Longer
  <2>6. /\ x.recycled >= m.recycled /\ x.heapsize >= m.heapsize
        /\ x.heapsize + m.recycled <= m.heapsize + x.recycled + Pg(n)
    <3>1. PICK a \in Nat, b \in Nat, c \in Nat, d \in Nat : a = Pg(f) /\ b = Pg(e) /\ c = Pg(k) /\ d = Pg(n)
      BY <1>3, <2>4
    <3>2. a < b /\ c <= a /\ b <= c + d
      BY <1>3, <1>5, <2>4, <3>1
    <3>3. x.heapsize = m.heapsize + (b - a)
      BY <2>5, <3>1
    <3>4. x.heapsize >= m.heapsize /\ x.heapsize <= m.heapsize + d
      BY <1>2, <3>2, <3>3
    <3>5. x.heapsize \in Nat
      BY <1>2, <3>2, <3>3
    <3>6. x.recycled = m.recycled
      BY <2>5
    <3> QED BY <1>2, <3>1, <3>4, <3>5, <3>6
  <2>7. Others(m, x) /\ SectionOnly(m, x)
    BY <2>1, <2>3 DEF Longer, SectionOnly
  <2> QED BY <2>1, <2>3, <2>6, <2>7 DEF Added
<1> QED BY <1>1, <1>4, <1>5, AddSectionIs

(***************************************************************************)
(* Memory from the system and from the scratch area.                       *)
(***************************************************************************)

\* A span that is not part of the scratch area.
Free(m, v) == Backed(m, v) /\ Apart(v, ScratchOf(m))

\* x differs from m at most in what memory there is and in the scratch area.
Tables(m, x) ==
  /\ x \in Memories /\ x.sects = m.sects /\ x.cap = m.cap /\ x.arr = m.arr /\ Others(m, x)
  /\ x.heapsize = m.heapsize /\ x.recycled = m.recycled
  /\ x.least = m.least /\ x.greatest = m.greatest /\ x.last = m.last

\* The heap is the same, and has room for it in GC_heap_sects.
LEMMA SectionsSame ==
  ASSUME NEW m, SectionsOf(m), NEW x, x.sects = m.sects, x.heapsize = m.heapsize, m.got \subseteq x.got,
         Len(m.sects) <= x.cap
  PROVE  SectionsOf(x) /\ \A v : Backed(m, v) => Backed(x, v)
<1>1. HeapPages(x) = HeapPages(m) /\ \A i : InHeap(x, i) <=> InHeap(m, i)
  BY DEF HeapPages, InHeap
<1>2. \A v : Backed(m, v) => Backed(x, v)
  BY <1>1 DEF Backed
<1>3. /\ \A k \in DOMAIN x.sects : IsSection(x.sects[k])
      /\ \A j, k \in DOMAIN x.sects : j # k => x.sects[j][2] <= x.sects[k][1] \/ x.sects[k][2] <= x.sects[j][1]
  BY DEF SectionsOf
<1>4. HeapPages(x) \subseteq x.got /\ x.heapsize = Pg(Cardinality(HeapPages(x))) /\ Len(x.sects) <= x.cap
  BY <1>1 DEF SectionsOf
<1> QED BY <1>2, <1>3, <1>4 DEF SectionsOf

\* The system's pages i to i + n - 1 are new.
NewPages(m, i, n) == i \in 1 .. NPages - n /\ i .. i + n - 1 \cap m.got = {}

\* New pages are not part of the heap, and apart from everything.
LEMMA FreshRun ==
  ASSUME NEW m, Good(m), NEW n \in Nat \ {0}, NEW i, NewPages(m, i, n), NEW x, SectionsOf(x), x.sects = m.sects,
         i .. i + n - 1 \subseteq x.got
  PROVE  i \in Nat /\ Backed(x, Run(i, n)) /\ \A v : Backed(m, v) => Apart(v, Run(i, n))
<1>1. NPages \in Nat /\ NPages \in Int /\ PageWords \in Nat /\ W \in Nat /\ W = Pg(NPages) /\ Pg(1) = PageWords
  BY PageOrder
<1>2. i \in Nat /\ i \in Int /\ i + n \in Nat /\ i + n \in Int /\ 1 <= i /\ i < i + n /\ i + n <= NPages /\ 1 \in Int
  BY <1>1 DEF NewPages
<1>3. Pg(i) \in Nat /\ Pg(i + n) \in Nat /\ PageWords <= Pg(i) /\ Pg(i) < Pg(i + n) /\ Pg(i + n) <= W
  <2>1. Pg(i) \in Nat /\ Pg(i + n) \in Nat
    BY <1>2, PageOrder
  <2>2. Pg(1) <= Pg(i) /\ Pg(i) < Pg(i + n) /\ Pg(i + n) <= Pg(NPages)
    BY <1>1, <1>2, PageOrder
  <2> QED BY <1>1, <2>1, <2>2
<1>4. ASSUME NEW j \in 0 .. NPages - 1, Touches(j, Run(i, n))
      PROVE  j \in i .. i + n - 1 /\ j \notin m.got
  <2>1. Pg(j) < Pg(i + n) /\ Pg(i) < Pg(j + 1)
    <3>1. Pg(j) \in Nat /\ Pg(j + 1) \in Nat
      BY PageOrder
    <3>2. Pg(j) < Pg(i + n) /\ Pg(j + 1) > Pg(i)
      BY <1>4 DEF Touches, Run
    <3> QED BY <1>3, <3>1, <3>2
  <2>2. j \in Int /\ j + 1 \in Int
    BY <1>1
  <2>3. j < i + n /\ i < j + 1
    BY <1>2, <2>1, <2>2, PageOrder
  <2>4. j \in i .. i + n - 1
    BY <1>2, <2>2, <2>3
  <2> QED BY <2>4 DEF NewPages
<1>5. Backed(x, Run(i, n))
  <2>1. ASSUME NEW j \in 0 .. NPages - 1, Touches(j, Run(i, n)) PROVE j \in x.got /\ ~InHeap(x, j)
    <3>1. j \in x.got /\ j \notin m.got
      BY <1>4, <2>1
    <3>2. HeapPages(m) \subseteq m.got
      BY DEF Good, SectionsOf
    <3>3. ~InHeap(m, j)
      BY <3>1, <3>2 DEF HeapPages
    <3> QED BY <3>1, <3>3 DEF InHeap
  <2>2. Run(i, n) \in Nat \X Nat /\ Run(i, n)[1] = Pg(i) /\ Run(i, n)[2] = Pg(i + n)
    BY <1>3 DEF Run
  <2> QED BY <1>3, <2>1, <2>2 DEF Backed
<1>6. ASSUME NEW v, Backed(m, v) PROVE Apart(v, Run(i, n))
  <2>1. v \in Nat \X Nat /\ Run(i, n) \in Nat \X Nat /\ Run(i, n)[2] <= W
    BY <1>3, <1>6 DEF Backed, Run
  <2>2. CASE v[1] < v[2]
    <3>1. \A j \in 0 .. NPages - 1 : ~(Touches(j, v) /\ Touches(j, Run(i, n)))
      BY <1>4, <1>6, <2>2 DEF Backed
    <3> QED BY <2>1, <3>1, ApartByPages
  <2>3. CASE ~(v[1] < v[2])
    <3>1. PICK a \in Nat, b \in Nat : a = v[1] /\ b = v[2]
      BY <2>1
    <3>2. v[2] <= v[1]
      BY <2>3, <3>1
    <3> QED BY <3>2 DEF Apart
  <2> QED BY <2>2, <2>3
<1> QED BY <1>2, <1>5, <1>6

\* GET_MEM refuses, or gives pages that nothing else uses.
Gives(m, g, n) ==
  \E i : /\ NewPages(m, i, n) /\ i \in Nat \ {0} /\ g.a = Pg(i) /\ g.a # 0
         /\ Good(g.m) /\ Tables(m, g.m) /\ g.m.sfree = m.sfree /\ g.m.send = m.send
         /\ Kept(g.m, Run(i, n))
         /\ \A v : Backed(m, v) => Backed(g.m, v) /\ Apart(v, Run(i, n))

\* What GET_MEM returns.
LEMMA GetMem ==
  ASSUME NEW m, Good(m), NEW n \in Nat \ {0}, NEW g \in GET_MEM(m, n)
  PROVE  (g.a = 0 /\ g.m = m) \/ Gives(m, g, n)
<1>1. CASE g = [m |-> m, a |-> 0]
  BY <1>1
<1>2. CASE g # [m |-> m, a |-> 0]
  <2>1. PICK i \in {k \in 1 .. NPages - n : k .. k + n - 1 \cap m.got = {}} :
          g = [m |-> [m EXCEPT !.got = @ \cup i .. i + n - 1], a |-> i * PageWords]
    BY <1>2 DEF GET_MEM
  <2>2. NewPages(m, i, n)
    BY <2>1 DEF NewPages
  <2>3. NPages \in Nat
    BY PageOrder
  <2>4. m.got \in SUBSET (1 .. NPages - 1) /\ m \in Memories
    BY MemoryFields DEF Good
  <2>5. PICK s \in SUBSET (1 .. NPages - 1) : s = m.got \cup i .. i + n - 1
    <3>1. i .. i + n - 1 \subseteq 1 .. NPages - 1
      BY <2>1, <2>3
    <3>2. m.got \cup i .. i + n - 1 \in SUBSET (1 .. NPages - 1)
      BY <2>4, <3>1
    <3> QED BY <3>2, Zenon
  <2>6. PICK x : x = [m EXCEPT !.got = s]
    OBVIOUS
  <2>7. g.m = x /\ g.a = Pg(i)
    BY <2>1, <2>5, <2>6 DEF Pg
  <2>8. /\ x \in Memories /\ x.got = s /\ x.sfree = m.sfree /\ x.send = m.send
        /\ Tables(m, x)
    <3>1. x \in Memories
      BY <2>4, <2>6 DEF Memories
    <3>2. /\ x.got = s /\ x.sfree = m.sfree /\ x.send = m.send
          /\ x.sects = m.sects /\ x.cap = m.cap /\ x.arr = m.arr /\ x.table = m.table /\ x.words = m.words
          /\ x.heapsize = m.heapsize /\ x.recycled = m.recycled
          /\ x.least = m.least /\ x.greatest = m.greatest /\ x.last = m.last
      BY <2>4, <2>6 DEF Memories
    <3> QED BY <3>1, <3>2 DEF Tables, Others
  <2>9. SectionsOf(x) /\ \A v : Backed(m, v) => Backed(x, v)
    <3>1. x.sects = m.sects /\ x.heapsize = m.heapsize /\ m.got \subseteq x.got /\ x.cap = m.cap
      BY <2>5, <2>8 DEF Tables
    <3>2. SectionsOf(m) /\ Len(m.sects) <= x.cap
      BY <3>1 DEF Good, SectionsOf
    <3> QED BY <3>1, <3>2, SectionsSame
  <2>10. i \in Nat /\ Backed(x, Run(i, n)) /\ \A v : Backed(m, v) => Apart(v, Run(i, n))
    <3>1. x.sects = m.sects /\ i .. i + n - 1 \subseteq x.got
      BY <2>5, <2>8 DEF Tables
    <3> QED BY <2>2, <2>9, <3>1, FreshRun
  <2>11. ArrayOf(x) = ArrayOf(m) /\ ScratchOf(x) = ScratchOf(m)
    BY <2>8 DEF Tables, ArrayOf, ScratchOf
  <2>12. TablesOf(x)
    BY <2>8, <2>9, <2>11 DEF Good, TablesOf, Tables
  <2>13. Good(x)
    BY <2>8, <2>9, <2>12 DEF Good
  <2>14. Kept(x, Run(i, n))
    <3>1. Backed(m, ArrayOf(m)) /\ Backed(m, ScratchOf(m))
      BY DEF Good, TablesOf
    <3>2. Apart(ArrayOf(m), Run(i, n)) /\ Apart(ScratchOf(m), Run(i, n))
      BY <2>10, <3>1
    <3> QED BY <2>10, <2>11, <3>2, ApartTurns DEF Kept
  <2>15. i \in Nat \ {0} /\ Pg(i) # 0
    <3>1. i \in Nat \ {0}
      BY <2>1, <2>3
    <3>2. 0 \in Int /\ i \in Int /\ 0 < i /\ Pg(0) = 0
      BY <3>1, PageOrder
    <3>3. Pg(0) < Pg(i) /\ Pg(i) \in Int
      BY <3>2, PageOrder
    <3> QED BY <3>1, <3>2, <3>3
  <2> QED BY <2>2, <2>7, <2>8, <2>9, <2>10, <2>13, <2>14, <2>15 DEF Gives
<1> QED BY <1>1, <1>2

\* Memory for a table: words words at g.a, which nothing else uses.
WordsAt(a, words) == <<a, a + words>>
ScratchGives(m, g, words) ==
  /\ g.a \in Nat \ {0} /\ Good(g.m) /\ Tables(m, g.m) /\ Kept(g.m, WordsAt(g.a, words))
  /\ \A u : Free(m, u) => Free(g.m, u) /\ Apart(u, WordsAt(g.a, words))

\* Memory taken from the scratch area.
LEMMA TakeScratch ==
  ASSUME NEW m, Good(m), NEW words \in Nat \ {0}, words <= m.send - m.sfree
  PROVE  ScratchGives(m, FromScratch(m, words), words)
<1>1. m \in Memories /\ m.sfree \in Nat /\ m.send \in Nat /\ PageWords \in Nat \ {0}
  BY MemoryFields, PageOrder DEF Good
<1>2. PICK a \in Nat, b \in Nat : a = m.sfree /\ b = m.send
  BY <1>1
<1>3. a + words <= b /\ a < b /\ a + words \in Nat /\ a < a + words
  BY <1>2
<1>4. PICK x : x = [m EXCEPT !.sfree = a + words]
  OBVIOUS
<1>5. FromScratch(m, words) = [m |-> x, a |-> a]
  BY <1>2, <1>4 DEF FromScratch
<1>6. x \in Memories /\ Tables(m, x) /\ x.got = m.got /\ x.sfree = a + words /\ x.send = b
  <2>1. x \in Memories
    BY <1>1, <1>3, <1>4 DEF Memories
  <2>2. /\ x.got = m.got /\ x.sfree = a + words /\ x.send = m.send
        /\ x.sects = m.sects /\ x.cap = m.cap /\ x.arr = m.arr /\ x.table = m.table /\ x.words = m.words
        /\ x.heapsize = m.heapsize /\ x.recycled = m.recycled
        /\ x.least = m.least /\ x.greatest = m.greatest /\ x.last = m.last
    BY <1>1, <1>4 DEF Memories
  <2> QED BY <1>2, <2>1, <2>2 DEF Tables, Others
<1>7. SectionsOf(x) /\ \A u : Backed(m, u) => Backed(x, u)
  <2>1. x.sects = m.sects /\ x.heapsize = m.heapsize /\ m.got \subseteq x.got /\ x.cap = m.cap
    BY <1>6 DEF Tables
  <2>2. SectionsOf(m) /\ Len(m.sects) <= x.cap
    BY <2>1 DEF Good, SectionsOf
  <2> QED BY <2>1, <2>2, SectionsSame
<1>8. PICK v : v = WordsAt(a, words)
  OBVIOUS
<1>9. /\ ScratchOf(m) \in Nat \X Nat /\ ScratchOf(x) \in Nat \X Nat /\ v \in Nat \X Nat
      /\ Within(v, ScratchOf(m)) /\ Within(ScratchOf(x), ScratchOf(m)) /\ Apart(v, ScratchOf(x))
  <2>1. ScratchOf(m) = <<a, b>> /\ ScratchOf(x) = <<a + words, b>> /\ v = <<a, a + words>>
    BY <1>2, <1>6, <1>8 DEF ScratchOf, WordsAt
  <2> QED BY <1>3, <2>1 DEF Within, Apart
<1>10. Backed(m, ScratchOf(m)) /\ Backed(m, ArrayOf(m)) /\ Apart(ArrayOf(m), ScratchOf(m)) /\ ArrayOf(x) = ArrayOf(m)
  BY <1>6 DEF Good, TablesOf, Tables, ArrayOf
<1>11. ASSUME NEW u, Free(m, u) PROVE Free(x, u) /\ Apart(u, v)
  <2>1. u \in Nat \X Nat /\ Backed(x, u) /\ Apart(ScratchOf(m), u)
    BY <1>7, <1>11, ApartTurns DEF Free, Backed
  <2>2. Apart(u, v) /\ Apart(u, ScratchOf(x))
    BY <1>9, <2>1, ApartWithin
  <2> QED BY <2>1, <2>2 DEF Free
<1>12. Backed(x, v) /\ Backed(x, ScratchOf(x))
  BY <1>7, <1>9, <1>10, BackedWithin
<1>13. Free(m, ArrayOf(m))
  BY <1>10 DEF Free
<1>14. Free(x, ArrayOf(x)) /\ Apart(ArrayOf(x), v)
  BY <1>10, <1>11, <1>13
<1>15. Kept(x, v)
  BY <1>9, <1>12, <1>14, ApartTurns DEF Kept
<1>16. Good(x)
  <2>1. x.sfree <= x.send /\ x.send = m.send
    BY <1>2, <1>3, <1>6
  <2>2. TablesOf(x)
    BY <1>6, <1>10, <1>12, <1>14, <2>1 DEF Good, TablesOf, Tables, Free
  <2> QED BY <1>6, <1>7, <2>2 DEF Good
<1>17. a # 0
  <2>1. ScratchOf(m)[1] = a /\ ScratchOf(m)[2] = b
    BY <1>2 DEF ScratchOf
  <2>2. a >= PageWords
    BY <1>3, <1>10, <2>1 DEF Backed
  <2> QED BY <1>1, <2>2
<1> QED BY <1>5, <1>6, <1>8, <1>11, <1>15, <1>16, <1>17 DEF ScratchGives

\* Memory taken from the system for one table.
LEMMA TakePages ==
  ASSUME NEW m, Good(m), NEW words \in Nat \ {0}, NEW n \in Nat \ {0}, words <= Pg(n), NEW g, Gives(m, g, n)
  PROVE  ScratchGives(m, g, words)
<1>1. PICK i : /\ NewPages(m, i, n) /\ i \in Nat \ {0} /\ g.a = Pg(i) /\ g.a # 0
               /\ Good(g.m) /\ Tables(m, g.m) /\ g.m.sfree = m.sfree /\ g.m.send = m.send
               /\ Kept(g.m, Run(i, n))
               /\ \A v : Backed(m, v) => Backed(g.m, v) /\ Apart(v, Run(i, n))
  BY DEF Gives
<1>2. i \in Nat /\ i \in Int /\ n \in Int
  BY <1>1
<1>3. Pg(i) \in Nat /\ Pg(n) \in Nat /\ Pg(i + n) = Pg(i) + Pg(n)
  BY <1>2, PageOrder
<1>4. PICK v : v = WordsAt(g.a, words)
  OBVIOUS
<1>5. v \in Nat \X Nat /\ Run(i, n) \in Nat \X Nat /\ Within(v, Run(i, n))
  <2>1. v = <<Pg(i), Pg(i) + words>> /\ Run(i, n) = <<Pg(i), Pg(i) + Pg(n)>>
    BY <1>1, <1>3, <1>4 DEF WordsAt, Run
  <2> QED BY <1>3, <2>1 DEF Within
<1>6. ScratchOf(g.m) = ScratchOf(m)
  BY <1>1 DEF ScratchOf
<1>7. ASSUME NEW u, Free(m, u) PROVE Free(g.m, u) /\ Apart(u, v)
  <2>1. Backed(g.m, u) /\ Apart(Run(i, n), u) /\ u \in Nat \X Nat
    BY <1>1, <1>7, ApartTurns DEF Free, Backed
  <2> QED BY <1>5, <1>6, <1>7, <2>1, ApartWithin DEF Free
<1>8. Kept(g.m, v)
  <2>1. Backed(g.m, Run(i, n)) /\ Apart(Run(i, n), ArrayOf(g.m)) /\ Apart(Run(i, n), ScratchOf(g.m))
    BY <1>1 DEF Kept
  <2>2. ArrayOf(g.m) \in Nat \X Nat /\ ScratchOf(g.m) \in Nat \X Nat
    BY <1>1 DEF Good, TablesOf, Backed
  <2> QED BY <1>5, <2>1, <2>2, BackedWithin, ApartWithin DEF Kept
<1> QED BY <1>1, <1>3, <1>4, <1>7, <1>8 DEF ScratchGives

\* A new scratch area.
LEMMA FreshScratch ==
  ASSUME NEW m, Good(m), NEW g, Gives(m, g, LeastIncrement), LeastIncrement \in Nat \ {0}
  PROVE  LET y == NewScratch(g)
         IN /\ Good(y) /\ Tables(m, y) /\ y.send - y.sfree = LeastIncrement * PageWords
            /\ \A u : Free(m, u) => Free(y, u)
<1> DEFINE n == LeastIncrement
<1>1. PICK i : /\ NewPages(m, i, n) /\ i \in Nat \ {0} /\ g.a = Pg(i) /\ g.a # 0
               /\ Good(g.m) /\ Tables(m, g.m) /\ g.m.sfree = m.sfree /\ g.m.send = m.send
               /\ Kept(g.m, Run(i, n))
               /\ \A v : Backed(m, v) => Backed(g.m, v) /\ Apart(v, Run(i, n))
  BY DEF Gives
<1>2. i \in Nat /\ i \in Int /\ n \in Int /\ i + n \in Nat /\ NPages \in Nat
  BY <1>1, PageOrder
<1>3. /\ Pg(i) \in Nat /\ Pg(n) \in Nat /\ Pg(i + n) = Pg(i) + Pg(n) /\ Pg(i + n) \in Nat
      /\ Pg(n) = LeastIncrement * PageWords
  <2>1. Pg(i) \in Nat /\ Pg(n) \in Nat /\ Pg(i + n) = Pg(i) + Pg(n) /\ Pg(i + n) \in Nat
    BY <1>2, PageOrder
  <2> QED BY <2>1 DEF Pg
<1>4. PICK a \in Nat, b \in Nat : a = Pg(i) /\ b = Pg(i + n)
  BY <1>3
<1>5. PICK y : y = [g.m EXCEPT !.sfree = a, !.send = b]
  OBVIOUS
<1>6. NewScratch(g) = y
  BY <1>1, <1>3, <1>4, <1>5 DEF NewScratch
<1>7. y \in Memories /\ Tables(m, y) /\ y.got = g.m.got /\ y.sfree = a /\ y.send = b /\ Tables(g.m, y)
  <2>0. g.m \in Memories
    BY <1>1 DEF Good
  <2>1. y \in Memories
    BY <1>5, <2>0 DEF Memories
  <2>2. /\ y.got = g.m.got /\ y.sfree = a /\ y.send = b
        /\ y.sects = g.m.sects /\ y.cap = g.m.cap /\ y.arr = g.m.arr /\ y.table = g.m.table /\ y.words = g.m.words
        /\ y.heapsize = g.m.heapsize /\ y.recycled = g.m.recycled
        /\ y.least = g.m.least /\ y.greatest = g.m.greatest /\ y.last = g.m.last
    BY <1>5, <2>0 DEF Memories
  <2> QED BY <1>1, <2>1, <2>2 DEF Tables, Others
<1>8. SectionsOf(y) /\ \A u : Backed(g.m, u) => Backed(y, u)
  <2>1. y.sects = g.m.sects /\ y.heapsize = g.m.heapsize /\ g.m.got \subseteq y.got /\ y.cap = g.m.cap
    BY <1>7 DEF Tables
  <2>2. SectionsOf(g.m) /\ Len(g.m.sects) <= y.cap
    BY <1>1, <2>1 DEF Good, SectionsOf
  <2> QED BY <2>1, <2>2, SectionsSame
<1>9. ScratchOf(y) = Run(i, n) /\ ArrayOf(y) = ArrayOf(g.m)
  BY <1>4, <1>7 DEF ScratchOf, ArrayOf, Run, Tables
<1>10. \A u : Free(m, u) => Free(y, u)
  BY <1>1, <1>8, <1>9 DEF Free
<1>11. Backed(y, ScratchOf(y)) /\ Backed(y, ArrayOf(y)) /\ Apart(ArrayOf(y), ScratchOf(y))
  BY <1>1, <1>8, <1>9, ApartTurns DEF Kept, Good, TablesOf
<1>12. y.sfree <= y.send /\ \E k \in 0 .. NPages : y.send = Pg(k)
  <2>1. i + n \in 0 .. NPages
    BY <1>1, <1>2 DEF NewPages
  <2> QED BY <1>3, <1>4, <1>7, <2>1
<1>13. TablesOf(y)
  BY <1>1, <1>7, <1>11, <1>12 DEF Good, TablesOf, Tables
<1>14. y.send - y.sfree = LeastIncrement * PageWords
  BY <1>3, <1>4, <1>7
<1> QED BY <1>6, <1>7, <1>8, <1>10, <1>13, <1>14 DEF Good

\* What GC_scratch_alloc returns.
LEMMA ScratchAlloc ==
  ASSUME NEW m, Good(m), NEW words \in Nat \ {0}, NEW g \in GC_scratch_alloc(m, words)
  PROVE  (g.a = 0 /\ g.m = m) \/ ScratchGives(m, g, words)
<1>1. m.sfree \in Nat /\ m.send \in Nat
  BY MemoryFields DEF Good
<1>2. ASSUME NEW h \in GET_MEM(m, PagesFor(words)) PROVE (h.a = 0 /\ h.m = m) \/ ScratchGives(m, h, words)
  <2>1. PagesFor(words) \in Nat \ {0} /\ words <= Pg(PagesFor(words))
    BY PagesForIs
  <2>2. (h.a = 0 /\ h.m = m) \/ Gives(m, h, PagesFor(words))
    BY <2>1, GetMem
  <2> QED BY <2>1, <2>2, TakePages
<1>3. CASE words <= m.send - m.sfree
  <2>1. g = FromScratch(m, words)
    BY <1>3 DEF GC_scratch_alloc
  <2> QED BY <1>3, <2>1, TakeScratch
<1>4. CASE ~(words <= m.send - m.sfree) /\ words >= LeastIncrement * PageWords
  <2>1. g \in GET_MEM(m, PagesFor(words))
    BY <1>4 DEF GC_scratch_alloc
  <2> QED BY <1>2, <2>1
<1>5. CASE ~(words <= m.send - m.sfree) /\ ~(words >= LeastIncrement * PageWords)
  <2>1. PICK h \in GET_MEM(m, LeastIncrement) :
          g \in IF h.a = 0 THEN GET_MEM(m, PagesFor(words)) ELSE {FromScratch(NewScratch(h), words)}
    BY <1>5 DEF GC_scratch_alloc
  <2>2. CASE h.a = 0
    BY <1>2, <2>1, <2>2
  <2>3. CASE h.a # 0
    <3>1. LeastIncrement \in Nat \ {0} /\ PageWords \in Nat
      BY SectionsAssumption
    <3>2. Gives(m, h, LeastIncrement)
      BY <2>1, <2>3, <3>1, GetMem
    <3>3. PICK y : y = NewScratch(h)
      OBVIOUS
    <3>4. /\ Good(y) /\ Tables(m, y) /\ y.send - y.sfree = LeastIncrement * PageWords
          /\ \A u : Free(m, u) => Free(y, u)
      BY <3>1, <3>2, <3>3, FreshScratch
    <3>5. words <= y.send - y.sfree
      <4>1. LeastIncrement * PageWords \in Nat
        BY <3>1
      <4> QED BY <1>5, <3>4, <4>1
    <3>6. g = FromScratch(y, words)
      BY <2>1, <2>3, <3>3
    <3>7. ScratchGives(y, g, words)
      BY <3>4, <3>5, <3>6, TakeScratch
    <3>8. Tables(m, g.m)
      BY <3>4, <3>7 DEF ScratchGives, Tables, Others
    <3> QED BY <3>4, <3>7, <3>8 DEF ScratchGives
  <2> QED BY <2>2, <2>3
<1> QED BY <1>3, <1>4, <1>5

(***************************************************************************)
(* GC_add_to_heap.                                                         *)
(***************************************************************************)

\* A larger GC_heap_sects, in memory of its own; the old one is free.
Larger(m, x) ==
  /\ Good(x) /\ x.cap >= Len(m.sects) + 2 /\ x.sects = m.sects /\ Others(m, x)
  /\ x.heapsize = m.heapsize /\ x.recycled = m.recycled
  /\ x.least = m.least /\ x.greatest = m.greatest
  /\ \A u : Free(m, u) => Kept(x, u)

\* The new array is in use from now on.
LEMMA InstallArray ==
  ASSUME NEW m, Good(m), NEW cap \in Nat, cap >= Len(m.sects) + 2,
         NEW g, ScratchGives(m, g, cap * SectWords), NEW x, x = [g.m EXCEPT !.cap = cap, !.arr = g.a]
  PROVE  Larger(m, x)
<1>1. PICK h : h = g.m
  OBVIOUS
<1>2. PICK a \in Nat : a = g.a
  BY DEF ScratchGives
<1>3. /\ h \in Memories /\ Good(h) /\ Tables(m, h) /\ Kept(h, WordsAt(a, cap * SectWords))
      /\ \A u : Free(m, u) => Free(h, u) /\ Apart(u, WordsAt(a, cap * SectWords))
  BY <1>1, <1>2 DEF ScratchGives, Good
<1>4. x = [h EXCEPT !.cap = cap, !.arr = a]
  BY <1>1, <1>2
<1>5. x \in Memories
  BY <1>3, <1>4 DEF Memories
<1>6. /\ x.got = h.got /\ x.sects = h.sects /\ x.cap = cap /\ x.arr = a /\ x.sfree = h.sfree /\ x.send = h.send
      /\ x.table = h.table /\ x.words = h.words /\ x.heapsize = h.heapsize /\ x.recycled = h.recycled
      /\ x.least = h.least /\ x.greatest = h.greatest
  BY <1>3, <1>4 DEF Memories
<1>7. m.sects \in Seq(Nat \X Nat) /\ h.sects = m.sects /\ Len(m.sects) \in Nat
  BY <1>3, MemoryFields DEF Good, Tables
<1>8. SectionsOf(x) /\ \A u : Backed(h, u) => Backed(x, u)
  <2>1. x.sects = h.sects /\ x.heapsize = h.heapsize /\ h.got \subseteq x.got
    BY <1>6
  <2>2. SectionsOf(h) /\ Len(h.sects) <= x.cap
    BY <1>3, <1>6, <1>7 DEF Good
  <2> QED BY <2>1, <2>2, SectionsSame
<1>9. ArrayOf(x) = WordsAt(a, cap * SectWords) /\ ScratchOf(x) = ScratchOf(h)
  BY <1>6 DEF ArrayOf, ScratchOf, WordsAt
<1>10. Backed(x, ArrayOf(x)) /\ Backed(x, ScratchOf(x)) /\ Apart(ArrayOf(x), ScratchOf(x))
  BY <1>3, <1>8, <1>9 DEF Kept, Good, TablesOf
<1>11. cap >= 2
  BY <1>7
<1>12. TablesOf(x)
  <2>1. x.sfree <= x.send /\ \E k \in 0 .. NPages : x.send = Pg(k)
    BY <1>3, <1>6 DEF Good, TablesOf
  <2>2. x.cap >= 2 /\ x.cap # 0
    BY <1>6, <1>11
  <2> QED BY <1>10, <2>1, <2>2 DEF TablesOf
<1>13. \A u : Free(m, u) => Kept(x, u)
  BY <1>3, <1>8, <1>9 DEF Free, Kept
<1>14. x.cap >= Len(m.sects) + 2
  BY <1>6
<1>15. /\ x.sects = m.sects /\ Others(m, x) /\ x.heapsize = m.heapsize /\ x.recycled = m.recycled
       /\ x.least = m.least /\ x.greatest = m.greatest
  BY <1>3, <1>6 DEF Tables, Others
<1> QED BY <1>5, <1>8, <1>12, <1>13, <1>14, <1>15 DEF Larger, Good

\* GC_scratch_alloc returns records.
LEMMA ScratchShape ==
  ASSUME NEW m, NEW words, NEW g \in GC_scratch_alloc(m, words)
  PROVE  g = [m |-> g.m, a |-> g.a]
<1>1. \A x, n : \A h \in GET_MEM(x, n) : h = [m |-> h.m, a |-> h.a]
  BY DEF GET_MEM
<1>2. \A x : FromScratch(x, words) = [m |-> FromScratch(x, words).m, a |-> FromScratch(x, words).a]
  BY DEF FromScratch
<1> QED BY <1>1, <1>2 DEF GC_scratch_alloc

\* What GrowSects returns: it has room for two more sections at least.
LEMMA GrowSectsIs ==
  ASSUME NEW m, Good(m), ~(Len(m.sects) < m.cap), NEW t \in GrowSects(m)
  PROVE  t.a = 0 \/ Larger(m, t.m)
<1>1. PICK n \in Nat : n = Len(m.sects) /\ (n = 0 \/ n >= 2)
  <2>1. m.cap \in Nat /\ m.sects \in Seq(Nat \X Nat) /\ Len(m.sects) \in Nat
    BY MemoryFields DEF Good
  <2>2. Len(m.sects) <= m.cap /\ (m.cap = 0 \/ m.cap >= 2)
    BY DEF Good, SectionsOf, TablesOf
  <2> QED BY <2>1, <2>2
<1>2. FirstCapacity \in Nat /\ FirstCapacity >= 2 /\ SectWords \in Nat \ {0}
  BY SectionsAssumption
<1> DEFINE Try(cap) == {[g EXCEPT !.m.cap = cap, !.m.arr = g.a] : g \in GC_scratch_alloc(m, cap * SectWords)}
<1>3. ASSUME NEW cap \in Nat, cap >= n + 2, NEW y \in Try(cap) PROVE y.a = 0 \/ Larger(m, y.m)
  <2>1. PICK g \in GC_scratch_alloc(m, cap * SectWords) : y = [g EXCEPT !.m.cap = cap, !.m.arr = g.a]
    BY <1>3
  <2>2. cap * SectWords \in Nat \ {0}
    <3> HIDE DEF Try
    <3>1. cap \in Nat \ {0}
      BY <1>1, <1>3
    <3> QED BY <1>2, <3>1
  <2>3. (g.a = 0 /\ g.m = m) \/ ScratchGives(m, g, cap * SectWords)
    BY <2>1, <2>2, ScratchAlloc
  <2>4. g = [m |-> g.m, a |-> g.a]
    BY <2>1, ScratchShape
  <2>5. PICK h, a : g = [m |-> h, a |-> a] /\ h = g.m /\ a = g.a
    BY <2>4
  <2>6. y.a = a /\ y.m = [h EXCEPT !.cap = cap, !.arr = a]
    BY <2>1, <2>5
  <2>7. CASE a = 0
    BY <2>6, <2>7
  <2>8. CASE a # 0
    <3>1. ScratchGives(m, g, cap * SectWords)
      BY <2>3, <2>5, <2>8
    <3>2. y.m = [g.m EXCEPT !.cap = cap, !.arr = g.a] /\ cap >= Len(m.sects) + 2
      BY <1>1, <1>3, <2>5, <2>6
    <3> QED BY <3>1, <3>2, InstallArray
  <2> QED BY <2>7, <2>8
<1>4. PICK big \in Nat : big = (IF n > 0 THEN 2 * n ELSE FirstCapacity) /\ big >= n + 2
  <2>1. (IF n > 0 THEN 2 * n ELSE FirstCapacity) \in Nat /\ (IF n > 0 THEN 2 * n ELSE FirstCapacity) >= n + 2
    BY <1>1, <1>2
  <2> QED BY <2>1, Zenon
<1>5. Sufficient(n) \in Nat /\ Sufficient(n) >= n + 2
  BY <1>1, <1>2 DEF Sufficient
<1>6. PICK y \in Try(big) : t \in IF y.a # 0 THEN {y} ELSE Try(Sufficient(n))
  <2>1. PICK y \in Try(IF Len(m.sects) > 0 THEN 2 * Len(m.sects) ELSE FirstCapacity) :
          t \in IF y.a # 0 THEN {y} ELSE Try(Sufficient(Len(m.sects)))
    BY Zenon DEF GrowSects
  <2> HIDE DEF Try
  <2> QED BY <1>1, <1>4, <2>1, Zenon
<1> HIDE DEF Try
<1>7. CASE y.a # 0
  <2>1. t = y
    BY <1>6, <1>7
  <2> QED BY <1>3, <1>4, <1>6, <2>1
<1>8. CASE y.a = 0
  <2>1. t \in Try(Sufficient(n))
    BY <1>6, <1>8
  <2> QED BY <1>3, <1>5, <2>1
<1> QED BY <1>7, <1>8

\* Memory that a table no longer needs.
LEMMA RecycledRun ==
  ASSUME NEW m, NEW a \in Nat, NEW words \in Nat, WholePages(a, words).n # 0
  PROVE  \E k \in Nat, n \in Nat \ {0} :
           /\ WholePages(a, words) = [a |-> Pg(k), n |-> Pg(n)]
           /\ Kept(m, WordsAt(a, words)) /\ Good(m) => Kept(m, Run(k, n))
           /\ \A u \in Nat \X Nat : Apart(u, WordsAt(a, words)) => Apart(u, Run(k, n))
<1>1. PICK k \in Nat, n \in Nat \ {0} :
           /\ WholePages(a, words) = [a |-> Pg(k), n |-> Pg(n)]
           /\ a <= Pg(k) /\ Pg(k + n) <= a + words
  BY WholePagesAre
<1>2. Pg(k) \in Nat /\ Pg(k + n) \in Nat
  <2>1. k + n \in Nat
    OBVIOUS
  <2> QED BY <2>1, PageOrder
<1>3. WordsAt(a, words) \in Nat \X Nat /\ Run(k, n) \in Nat \X Nat /\ Within(Run(k, n), WordsAt(a, words))
  BY <1>1, <1>2 DEF WordsAt, Run, Within
<1>4. ASSUME NEW u \in Nat \X Nat, Apart(u, WordsAt(a, words)) PROVE Apart(u, Run(k, n))
  BY <1>3, <1>4, ApartTurns, ApartWithin
<1>5. ASSUME Kept(m, WordsAt(a, words)), Good(m) PROVE Kept(m, Run(k, n))
  <2>1. ArrayOf(m) \in Nat \X Nat /\ ScratchOf(m) \in Nat \X Nat
    BY <1>5 DEF Good, TablesOf, Backed
  <2>2. Backed(m, Run(k, n))
    BY <1>3, <1>5, BackedWithin DEF Kept
  <2>3. Apart(Run(k, n), ArrayOf(m)) /\ Apart(Run(k, n), ScratchOf(m))
    BY <1>3, <1>5, <2>1, ApartWithin DEF Kept
  <2> QED BY <2>2, <2>3 DEF Kept
<1> QED BY <1>1, <1>4, <1>5

\* What was added is counted as recycled.
Counted(m, y, x) == x = [y EXCEPT !.recycled = @ + y.heapsize - m.heapsize]
Returned(m, x, v) ==
  /\ Good(x) /\ Others(m, x) /\ \A u : Kept(m, u) /\ Apart(u, v) => Kept(x, u)
  /\ x.recycled >= m.recycled /\ x.heapsize >= m.heapsize
  /\ x.heapsize + m.recycled <= m.heapsize + x.recycled
  /\ Plausible(m) => Plausible(x)

\* Then the heap has not grown but by what was recycled.
LEMMA CountRecycled ==
  ASSUME NEW m, m \in Memories, NEW y, NEW v, NEW n \in Nat, Added(m, y, v, n),
         NEW x, Counted(m, y, x)
  PROVE  Returned(m, x, v)
<1>1. y \in Memories /\ Good(y)
  BY DEF Added, Good
<1>2. y.recycled \in Nat /\ y.heapsize \in Nat /\ m.recycled \in Nat /\ m.heapsize \in Nat
  BY <1>1, MemoryFields
<1>3. y.heapsize >= m.heapsize /\ y.recycled >= m.recycled
  BY DEF Added
<1>4. PICK r \in Nat : r = y.recycled + y.heapsize - m.heapsize
  <2>1. y.recycled + y.heapsize - m.heapsize \in Nat
    BY <1>2, <1>3
  <2> QED BY <2>1, Zenon
<1>5. x = [y EXCEPT !.recycled = r]
  BY <1>1, <1>4 DEF Memories, Counted
<1>6. x \in Memories
  BY <1>1, <1>5 DEF Memories
<1>7. Like(y, x) /\ x.recycled = r /\ Others(y, x) /\ x.least = y.least /\ x.greatest = y.greatest
  BY <1>1, <1>5, <1>6 DEF Like, Others, Memories
<1>8. Good(x) /\ \A u : Kept(y, u) => Kept(x, u)
  BY <1>1, <1>7, GoodSame
<1>9. Others(m, x)
  BY <1>7 DEF Others, Added
<1>10. Plausible(y) => Plausible(x)
  BY <1>7 DEF Plausible, Like
<1>11. /\ x.recycled >= m.recycled /\ x.heapsize >= m.heapsize
       /\ x.heapsize + m.recycled <= m.heapsize + x.recycled
  <2>1. x.heapsize = y.heapsize /\ x.recycled = r
    BY <1>7 DEF Like
  <2> QED BY <1>2, <1>3, <1>4, <2>1
<1> QED BY <1>8, <1>9, <1>10, <1>11 DEF Added, Returned

\* m itself, or m in the state after an abort.
LEMMA AbortedSame ==
  ASSUME NEW m, Good(m), NEW v, NEW n \in Nat, NEW x, x = [m EXCEPT !.aborted = TRUE]
  PROVE  Added(m, x, v, n)
<1>1. m \in Memories /\ m.heapsize \in Nat /\ m.recycled \in Nat /\ Pg(n) \in Nat
  BY MemoryFields, PageOrder DEF Good
<1>2. x \in Memories
  BY <1>1 DEF Memories
<1>3. Like(m, x) /\ x.recycled = m.recycled /\ Others(m, x) /\ x.least = m.least /\ x.greatest = m.greatest
  BY <1>1, <1>2 DEF Like, Others, Memories
<1>4. Good(x) /\ \A u : Kept(m, u) => Kept(x, u)
  BY <1>3, GoodSame
<1>5. Plausible(m) => Plausible(x)
  BY <1>3 DEF Plausible, Like
<1>6. /\ x.recycled >= m.recycled /\ x.heapsize >= m.heapsize
      /\ x.heapsize + m.recycled <= m.heapsize + x.recycled + Pg(n)
  <2>1. x.heapsize = m.heapsize /\ x.recycled = m.recycled
    BY <1>3 DEF Like
  <2> QED BY <1>1, <2>1
<1> QED BY <1>3, <1>4, <1>5, <1>6 DEF Added

\* Adding memory to the heap, with a larger GC_heap_sects if there is no room.
LEMMA AddToHeapAdds ==
  ASSUME NEW m, Good(m), NEW k \in Nat, NEW n \in Nat \ {0}, Kept(m, Run(k, n)),
         NEW x \in AddToHeap(m, Pg(k), Pg(n))
  PROVE  Added(m, x, Run(k, n), n)
<1>1. CASE Len(m.sects) < m.cap
  <2>1. x \in AddSection(m, Pg(k), Pg(n))
    BY <1>1 DEF AddToHeap
  <2> QED BY <1>1, <2>1, AddSectionAdds
<1>2. CASE ~(Len(m.sects) < m.cap)
  <2>1. PICK t \in GrowSects(m) :
          x \in IF t.a = 0 THEN {[m EXCEPT !.aborted = TRUE]}
                ELSE UNION {IF m.cap > 0 /\ Len(y.sects) > Len(m.sects)
                            THEN Recycled(y, WholePages(m.arr, m.cap * SectWords), AddSection)
                            ELSE {y} : y \in AddSection(t.m, Pg(k), Pg(n))}
    BY <1>2 DEF AddToHeap
  <2>2. CASE t.a = 0
    <3>1. x = [m EXCEPT !.aborted = TRUE]
      BY <2>1, <2>2
    <3> QED BY <3>1, AbortedSame
  <2>3. CASE t.a # 0
    <3>1. PICK h : h = t.m /\ Larger(m, h)
      BY <1>2, <2>1, <2>3, GrowSectsIs
    <3>2. PICK y \in AddSection(h, Pg(k), Pg(n)) :
            x \in IF m.cap > 0 /\ Len(y.sects) > Len(m.sects)
                  THEN Recycled(y, WholePages(m.arr, m.cap * SectWords), AddSection)
                  ELSE {y}
      BY <2>1, <2>3, <3>1
    <3>3. \A u : Kept(m, u) => Kept(h, u)
      BY <3>1 DEF Kept, Free, Larger
    <3>4. /\ m \in Memories /\ h \in Memories /\ m.sects \in Seq(Nat \X Nat) /\ m.heapsize \in Nat /\ m.recycled \in Nat
          /\ h.cap \in Nat /\ m.arr \in Nat /\ m.cap \in Nat
      BY <3>1, MemoryFields DEF Good, Larger
    <3>5. Good(h) /\ Kept(h, Run(k, n)) /\ Len(h.sects) < h.cap /\ Len(m.sects) \in Nat /\ h.sects = m.sects
      <4>1. h.cap >= Len(m.sects) + 2 /\ h.sects = m.sects
        BY <3>1 DEF Larger
      <4>2. Len(m.sects) \in Nat
        BY <3>4
      <4>3. Len(h.sects) < h.cap
        BY <3>4, <4>1, <4>2
      <4> QED BY <3>1, <3>3, <4>1, <4>2, <4>3 DEF Larger
    <3>6. Added(h, y, Run(k, n), n) /\ SectionOnly(h, y)
      BY <3>2, <3>5, AddSectionAdds
    <3>7. Added(m, y, Run(k, n), n)
      <4>1. Good(y) /\ Others(m, y) /\ \A u : Kept(m, u) /\ Apart(u, Run(k, n)) => Kept(y, u)
        BY <3>1, <3>3, <3>6 DEF Added, Larger, Others
      <4>2. h.recycled = m.recycled /\ h.heapsize = m.heapsize
        BY <3>1 DEF Larger
      <4>3. /\ y.recycled >= m.recycled /\ y.heapsize >= m.heapsize
            /\ y.heapsize + m.recycled <= m.heapsize + y.recycled + Pg(n)
        BY <3>6, <4>2 DEF Added
      <4>4. Plausible(m) => Plausible(h)
        BY <3>1 DEF Larger, Plausible
      <4> QED BY <3>6, <4>1, <4>3, <4>4 DEF Added
    <3>8. CASE x = y
      BY <3>7, <3>8
    <3>9. CASE x # y
      <4>1. x \in Recycled(y, WholePages(m.arr, m.cap * SectWords), AddSection)
        BY <3>2, <3>9
      <4>2. PICK r : r = WholePages(m.arr, m.cap * SectWords)
        OBVIOUS
      <4>3. r.n # 0 /\ x \in {[z EXCEPT !.recycled = @ + z.heapsize - y.heapsize] : z \in AddSection(y, r.a, r.n)}
        BY <3>9, <4>1, <4>2 DEF Recycled
      <4>4. m.cap * SectWords \in Nat
        BY <3>4, SectionsAssumption
      <4>5. PICK j \in Nat, q \in Nat \ {0} :
              /\ r = [a |-> Pg(j), n |-> Pg(q)]
              /\ Kept(y, WordsAt(m.arr, m.cap * SectWords)) /\ Good(y) => Kept(y, Run(j, q))
              /\ \A u \in Nat \X Nat : Apart(u, WordsAt(m.arr, m.cap * SectWords)) => Apart(u, Run(j, q))
        BY <3>4, <4>2, <4>3, <4>4, RecycledRun
      <4>6. WordsAt(m.arr, m.cap * SectWords) = ArrayOf(m)
        BY DEF WordsAt, ArrayOf
      <4>7. PICK z \in AddSection(y, Pg(j), Pg(q)) : x = [z EXCEPT !.recycled = @ + z.heapsize - y.heapsize]
        BY <4>3, <4>5
      <4>8. Kept(y, ArrayOf(m))
        <5>1. Free(m, ArrayOf(m))
          BY DEF Free, Good, TablesOf
        <5>2. Kept(h, ArrayOf(m)) /\ Apart(ArrayOf(m), Run(k, n))
          BY <3>1, <5>1, ApartTurns DEF Larger, Kept
        <5> QED BY <3>6, <5>2 DEF Added
      <4>9. Good(y) /\ Kept(y, Run(j, q)) /\ y \in Memories
        BY <3>7, <4>5, <4>6, <4>8 DEF Added, Good
      <4>10. Len(y.sects) < y.cap
        <5>1. y.cap = h.cap /\ (Len(y.sects) = Len(m.sects) \/ Len(y.sects) = Len(m.sects) + 1)
          BY <3>5, <3>6 DEF SectionOnly
        <5>2. h.cap >= Len(m.sects) + 2
          BY <3>1 DEF Larger
        <5> QED BY <3>4, <3>5, <5>1, <5>2
      <4>11. Added(y, z, Run(j, q), q)
        BY <4>7, <4>9, <4>10, AddSectionAdds
      <4>12. /\ Good(x) /\ Others(y, x) /\ \A u : Kept(y, u) /\ Apart(u, Run(j, q)) => Kept(x, u)
             /\ x.recycled >= y.recycled /\ x.heapsize >= y.heapsize
             /\ x.heapsize + y.recycled <= y.heapsize + x.recycled
             /\ Plausible(y) => Plausible(x)
        <5>1. Counted(y, z, x) /\ q \in Nat
          BY <4>7 DEF Counted
        <5>2. Returned(y, x, Run(j, q))
          BY <4>9, <4>11, <5>1, CountRecycled
        <5> QED BY <5>2 DEF Returned
      <4>13. ASSUME NEW u, Kept(m, u), Apart(u, Run(k, n)) PROVE Kept(x, u)
        <5>1. Kept(y, u) /\ u \in Nat \X Nat /\ Apart(u, ArrayOf(m))
          BY <3>7, <4>13 DEF Added, Kept, Backed
        <5> QED BY <4>5, <4>6, <4>12, <5>1
      <4>14. Good(x) /\ Others(m, x) /\ (Plausible(m) => Plausible(x))
        BY <3>7, <4>12 DEF Added, Others
      <4>15. x \in Memories /\ x.heapsize \in Nat /\ x.recycled \in Nat /\ y.heapsize \in Nat /\ y.recycled \in Nat
             /\ Pg(n) \in Nat
        BY <4>9, <4>14, MemoryFields, PageOrder DEF Good
      <4>16. /\ y.recycled >= m.recycled /\ y.heapsize >= m.heapsize
             /\ y.heapsize + m.recycled <= m.heapsize + y.recycled + Pg(n)
        BY <3>7 DEF Added
      <4>17. /\ x.recycled >= m.recycled /\ x.heapsize >= m.heapsize
             /\ x.heapsize + m.recycled <= m.heapsize + x.recycled + Pg(n)
        <5>1. PICK a \in Nat, b \in Nat, c \in Nat, d \in Nat :
                a = x.recycled /\ b = y.recycled /\ c = x.heapsize /\ d = y.heapsize
          BY <4>15
        <5>2. a >= b /\ c >= d /\ c + b <= d + a
          BY <4>12, <5>1
        <5>3. b >= m.recycled /\ d >= m.heapsize /\ d + m.recycled <= m.heapsize + b + Pg(n)
          BY <4>16, <5>1
        <5>4. a >= m.recycled /\ c >= m.heapsize /\ c + m.recycled <= m.heapsize + a + Pg(n)
          <6>1. PICK e \in Nat, f \in Nat, p \in Nat : e = m.recycled /\ f = m.heapsize /\ p = Pg(n)
            BY <3>4, <4>15
          <6>2. b >= e /\ d >= f /\ d + e <= f + b + p
            BY <5>3, <6>1
          <6>3. a >= e /\ c >= f /\ c + e <= f + a + p
            BY <5>2, <6>2
          <6> QED BY <6>1, <6>3
        <5> QED BY <5>1, <5>4
      <4> QED BY <4>13, <4>14, <4>17 DEF Added
    <3> QED BY <3>8, <3>9
  <2> QED BY <2>2, <2>3
<1> QED BY <1>1, <1>2

\* A table that is no longer needed.
LEMMA RecycleIs ==
  ASSUME NEW m, Good(m), NEW a \in Nat, NEW words \in Nat, Kept(m, WordsAt(a, words)),
         NEW x \in GC_scratch_recycle_inner(m, a, words)
  PROVE  Returned(m, x, WordsAt(a, words))
<1>1. m \in Memories /\ m.heapsize \in Nat /\ m.recycled \in Nat
  BY MemoryFields DEF Good
<1>2. PICK r : r = WholePages(a, words)
  OBVIOUS
<1>3. CASE x = m
  BY <1>1, <1>3 DEF Others, Returned
<1>4. CASE x # m
  <2>1. r.n # 0 /\ x \in {[z EXCEPT !.recycled = @ + z.heapsize - m.heapsize] : z \in AddToHeap(m, r.a, r.n)}
    BY <1>2, <1>4 DEF GC_scratch_recycle_inner, Recycled
  <2>2. PICK j \in Nat, q \in Nat \ {0} :
          /\ r = [a |-> Pg(j), n |-> Pg(q)]
          /\ Kept(m, WordsAt(a, words)) /\ Good(m) => Kept(m, Run(j, q))
          /\ \A u \in Nat \X Nat : Apart(u, WordsAt(a, words)) => Apart(u, Run(j, q))
    BY <1>2, <2>1, RecycledRun
  <2>3. PICK z \in AddToHeap(m, Pg(j), Pg(q)) : x = [z EXCEPT !.recycled = @ + z.heapsize - m.heapsize]
    BY <2>1, <2>2
  <2>4. Added(m, z, Run(j, q), q)
    BY <2>2, <2>3, AddToHeapAdds
  <2>5. Returned(m, x, Run(j, q))
    <3>1. Counted(m, z, x) /\ q \in Nat
      BY <2>3 DEF Counted
    <3> QED BY <1>1, <2>4, <3>1, CountRecycled
  <2>6. ASSUME NEW u, Kept(m, u), Apart(u, WordsAt(a, words)) PROVE Kept(x, u)
    <3>1. u \in Nat \X Nat
      BY <2>6 DEF Kept, Backed
    <3> QED BY <2>2, <2>5, <2>6, <3>1 DEF Returned
  <2> QED BY <2>5, <2>6 DEF Returned
<1> QED BY <1>3, <1>4

(***************************************************************************)
(* The heap grows.                                                         *)
(***************************************************************************)

\* Only the limits are adjusted.
Adjusted(m, x) ==
  Like(m, x) /\ Others(m, x) /\ x.recycled = m.recycled /\ (SlopsElsewhere /\ Plausible(m) => Plausible(x))

\* What Generous does.
LEMMA GenerousIs ==
  ASSUME NEW m \in Memories, NEW i \in 1 .. NPages - 1, NEW bytes \in Nat, NEW slop \in Slops
  PROVE  Adjusted(m, Generous(m, Pg(i), bytes, slop))
<1>1. W \in Nat \ {0} /\ slop \in Nat /\ NPages \in Nat /\ i \in Nat
  BY PageOrder, SectionsAssumption
<1>2. PICK space \in Nat : space = Pg(i)
  BY <1>1, PageOrder
<1>3. (space + bytes + slop) % W \in 0 .. W - 1 /\ (space - slop) % W \in 0 .. W - 1
  <2>1. space + bytes + slop \in Int /\ space - slop \in Int
    BY <1>1
  <2> QED BY <1>1, <2>1, Dividing
<1>4. PICK above \in 0 .. WordMax, below \in 0 .. WordMax :
        above = (space + bytes + slop) % W /\ below = (space - slop) % W
  <2>1. (space + bytes + slop) % W \in 0 .. WordMax /\ (space - slop) % W \in 0 .. WordMax
    BY <1>3 DEF WordMax
  <2> QED BY <2>1, Zenon
<1>5. WordMax \in Nat /\ WordMax = W - 1 /\ m.least \in Nat /\ m.greatest \in Nat
      /\ above \in Nat /\ below \in Nat
  <2>1. WordMax \in Nat /\ WordMax = W - 1 /\ m.least \in Nat /\ m.greatest \in Nat
    BY MemoryFields
  <2> QED BY <2>1
<1>6. PICK y : y = IF GrowsUp(m, space)
                   THEN IF above > space /\ m.greatest < above THEN [m EXCEPT !.greatest = above] ELSE m
                   ELSE IF below < space /\ m.least > below THEN [m EXCEPT !.least = below] ELSE m
  OBVIOUS
<1>7. PICK x : x = Generous(m, Pg(i), bytes, slop) /\ x = [y EXCEPT !.last = space]
  BY <1>2, <1>4, <1>6 DEF Generous
<1>8. \/ y = m
      \/ m.greatest < above /\ y = [m EXCEPT !.greatest = above]
      \/ m.least > below /\ y = [m EXCEPT !.least = below]
  BY <1>6
<1>9. SlopsElsewhere => below # 0
  BY <1>2, <1>4 DEF SlopsElsewhere
<1>10. y \in Memories
  BY <1>8 DEF Memories
<1>11. /\ y.got = m.got /\ y.sects = m.sects /\ y.cap = m.cap /\ y.arr = m.arr /\ y.sfree = m.sfree
       /\ y.send = m.send /\ y.heapsize = m.heapsize /\ y.table = m.table /\ y.words = m.words
       /\ y.recycled = m.recycled
  BY <1>8 DEF Memories
<1>12. \/ y.least = m.least /\ y.greatest = m.greatest
       \/ y.least = m.least /\ y.greatest = above /\ m.greatest < above
       \/ y.least = below /\ y.greatest = m.greatest /\ m.least > below
  BY <1>8 DEF Memories
<1>13. x \in Memories
  BY <1>7, <1>10 DEF Memories
<1>14. /\ x.got = y.got /\ x.sects = y.sects /\ x.cap = y.cap /\ x.arr = y.arr /\ x.sfree = y.sfree
       /\ x.send = y.send /\ x.heapsize = y.heapsize /\ x.table = y.table /\ x.words = y.words
       /\ x.recycled = y.recycled /\ x.least = y.least /\ x.greatest = y.greatest
  BY <1>7, <1>10 DEF Memories
<1>15. Like(m, x) /\ Others(m, x) /\ x.recycled = m.recycled
  BY <1>11, <1>13, <1>14 DEF Like, Others
<1>16. ASSUME SlopsElsewhere, Plausible(m) PROVE Plausible(x)
  <2>1. PICK l \in Nat, g \in Nat : l = x.least /\ g = x.greatest
    BY <1>13, MemoryFields
  <2>2. l <= m.least /\ m.greatest <= g /\ (l = m.least \/ l # 0)
    BY <1>5, <1>9, <1>12, <1>14, <1>16, <2>1
  <2>3. ASSUME NEW k \in DOMAIN m.sects PROVE l <= m.sects[k][1] /\ m.sects[k][2] <= g
    <3>1. m.sects \in Seq(Nat \X Nat)
      BY MemoryFields
    <3>2. m.sects[k] \in Nat \X Nat
      BY <3>1
    <3>3. PICK a \in Nat, b \in Nat : a = m.sects[k][1] /\ b = m.sects[k][2]
      BY <3>2
    <3>4. m.least <= a /\ b <= m.greatest
      BY <1>16, <3>3 DEF Plausible
    <3>5. l <= a /\ b <= g
      BY <1>5, <2>2, <3>4
    <3> QED BY <3>3, <3>5
  <2>4. l = 0 => W = 1
    BY <1>16, <2>2 DEF Plausible
  <2>5. x.sects = m.sects
    BY <1>11, <1>14
  <2> QED BY <2>1, <2>3, <2>4, <2>5 DEF Plausible
<1> QED BY <1>7, <1>15, <1>16 DEF Adjusted

\* The invariant, with the limits.
SecInv == MemInv /\ (SlopsElsewhere => Plausible(mem))

\* A larger heap.
LEMMA GrowHeapStep ==
  ASSUME SecInv, GrowHeap
  PROVE  SecInv'
<1>1. PICK n \in Increments, slop \in Slops : \E r \in GC_expand_hp_inner(mem, n, slop) : r.ok /\ mem' = r.m
  BY DEF GrowHeap
<1>2. PICK r \in GC_expand_hp_inner(mem, n, slop) : r.ok /\ mem' = r.m
  BY <1>1
<1>3. n \in Nat /\ slop \in Nat /\ PageWords \in Nat \ {0}
  BY SectionsAssumption
<1>4. PICK b \in Nat \ {0} : b = AtLeastOne(n)
  BY <1>3 DEF AtLeastOne
<1>5. PICK m : m = mem
  OBVIOUS
<1>6. /\ Good(m) /\ Kept(m, TableOf(m)) /\ (m.words = 0 => m.table = 0)
      /\ maxHeap \in HeapLimits /\ (maxHeap # 0 => m.heapsize <= maxHeap + m.recycled)
      /\ (SlopsElsewhere => Plausible(m))
  BY <1>5 DEF SecInv, MemInv, LimitButRecycled
<1>7. b * PageWords = Pg(b)
  BY DEF Pg
<1>8. ~ExceedsLimit(m, Pg(b))
  BY <1>2, <1>4, <1>5, <1>7 DEF GC_expand_hp_inner
<1>9. PICK g \in GET_MEM(m, b) :
        r \in IF g.a = 0 THEN {[ok |-> FALSE, m |-> m]}
              ELSE {[ok |-> TRUE, m |-> x] : x \in AddToHeap(Generous(g.m, g.a, Pg(b), slop), g.a, Pg(b))}
  BY <1>2, <1>4, <1>5, <1>7, <1>8 DEF GC_expand_hp_inner
<1>10. g.a # 0
  BY <1>2, <1>9
<1>11. PICK x \in AddToHeap(Generous(g.m, g.a, Pg(b), slop), g.a, Pg(b)) : mem' = x
  BY <1>2, <1>9, <1>10
<1>12. Gives(m, g, b)
  BY <1>6, <1>9, <1>10, GetMem
<1>13. PICK i : /\ NewPages(m, i, b) /\ i \in Nat \ {0} /\ g.a = Pg(i) /\ g.a # 0
                /\ Good(g.m) /\ Tables(m, g.m) /\ g.m.sfree = m.sfree /\ g.m.send = m.send
                /\ Kept(g.m, Run(i, b))
                /\ \A v : Backed(m, v) => Backed(g.m, v) /\ Apart(v, Run(i, b))
  BY <1>12 DEF Gives
<1>14. PICK h : h = Generous(g.m, Pg(i), Pg(b), slop)
  OBVIOUS
<1>15. Adjusted(g.m, h)
  <2>1. NPages \in Nat /\ Pg(b) \in Nat
    BY PageOrder
  <2>2. i \in 1 .. NPages - 1
    BY <1>13, <2>1 DEF NewPages
  <2> QED BY <1>13, <1>14, <2>1, <2>2, GenerousIs DEF Good
<1>16. Good(h) /\ \A u : Kept(g.m, u) => Kept(h, u)
  BY <1>13, <1>15, GoodSame DEF Adjusted
<1>17. Added(h, x, Run(i, b), b)
  <2>1. Kept(h, Run(i, b)) /\ i \in Nat /\ x \in AddToHeap(h, Pg(i), Pg(b))
    BY <1>11, <1>13, <1>14, <1>16
  <2> QED BY <1>16, <2>1, AddToHeapAdds
<1>18. Kept(x, TableOf(m))
  <2>1. ArrayOf(g.m) = ArrayOf(m) /\ ScratchOf(g.m) = ScratchOf(m)
    BY <1>13 DEF Tables, ArrayOf, ScratchOf
  <2>2. Kept(g.m, TableOf(m)) /\ Apart(TableOf(m), Run(i, b))
    BY <1>6, <1>13, <2>1 DEF Kept
  <2> QED BY <1>16, <1>17, <2>2 DEF Added
<1>19. x.table = m.table /\ x.words = m.words /\ h.heapsize = m.heapsize /\ h.recycled = m.recycled
  BY <1>13, <1>15, <1>17 DEF Added, Others, Adjusted, Tables, Like
<1>20. TableOf(x) = TableOf(m)
  BY <1>19 DEF TableOf
<1>21. SlopsElsewhere => Plausible(x)
  <2>1. Plausible(m) => Plausible(g.m)
    BY <1>13 DEF Tables, Plausible
  <2> QED BY <1>6, <1>15, <1>17, <2>1 DEF Adjusted, Added
<1>22. maxHeap # 0 => x.heapsize <= maxHeap + x.recycled
  <2>1. /\ m.heapsize \in Nat /\ m.recycled \in Nat /\ x.heapsize \in Nat /\ x.recycled \in Nat /\ Pg(b) \in Nat
        /\ maxHeap \in Nat
    BY <1>6, <1>17, MemoryFields, PageOrder, SectionsAssumption DEF Good, Added
  <2>2. x.heapsize + m.recycled <= m.heapsize + x.recycled + Pg(b)
    BY <1>17, <1>19 DEF Added
  <2>3. maxHeap # 0 => Pg(b) <= maxHeap /\ m.heapsize <= maxHeap - Pg(b)
    BY <1>8, <2>1 DEF ExceedsLimit
  <2>4. PICK c \in Nat, d \in Nat, p \in Nat, q \in Nat, z \in Nat :
          c = m.heapsize /\ d = m.recycled /\ p = x.heapsize /\ q = x.recycled /\ z = Pg(b)
    BY <2>1
  <2>5. p + d <= c + q + z /\ (maxHeap # 0 => z <= maxHeap /\ c <= maxHeap - z)
    BY <2>2, <2>3, <2>4
  <2>6. maxHeap # 0 => p <= maxHeap + q
    BY <2>1, <2>5
  <2> QED BY <2>4, <2>6
<1>23. maxHeap' = maxHeap /\ mem' = x
  BY <1>11 DEF GrowHeap
<1>24. Good(x) /\ Kept(x, TableOf(x)) /\ (x.words = 0 => x.table = 0)
  BY <1>6, <1>17, <1>18, <1>19, <1>20 DEF Added
<1>25. /\ Good(mem') /\ Kept(mem', TableOf(mem'))
       /\ (mem'.words = 0 => mem'.table = 0) /\ (SlopsElsewhere => Plausible(mem'))
  BY <1>21, <1>23, <1>24
<1>26. MemInv'
  BY <1>6, <1>22, <1>23, <1>25 DEF MemInv, LimitButRecycled
<1> QED BY <1>25, <1>26 DEF SecInv

(***************************************************************************)
(* A larger table replaces one, which is recycled.                         *)
(***************************************************************************)

\* A larger mark stack.
LEMMA MarkStackStep ==
  ASSUME SecInv, alloc_mark_stack
  PROVE  SecInv'
<1>1. PICK m : m = mem
  OBVIOUS
<1>2. /\ Good(m) /\ Kept(m, TableOf(m)) /\ (m.words = 0 => m.table = 0)
      /\ maxHeap \in HeapLimits /\ (maxHeap # 0 => m.heapsize <= maxHeap + m.recycled)
      /\ (SlopsElsewhere => Plausible(m))
  BY <1>1 DEF SecInv, MemInv, LimitButRecycled
<1>3. PICK words \in {w \in TableWords : w > m.words} :
        \E g \in GC_scratch_alloc(m, words) :
           IF g.a = 0 THEN m.words = 0 /\ mem' = [m EXCEPT !.aborted = TRUE]
           ELSE \E x \in IF m.words = 0 THEN {g.m} ELSE GC_scratch_recycle_inner(g.m, m.table, m.words) :
                   mem' = [x EXCEPT !.table = g.a, !.words = words]
  BY <1>1 DEF alloc_mark_stack
<1>4. PICK g \in GC_scratch_alloc(m, words) :
        IF g.a = 0 THEN m.words = 0 /\ mem' = [m EXCEPT !.aborted = TRUE]
        ELSE \E x \in IF m.words = 0 THEN {g.m} ELSE GC_scratch_recycle_inner(g.m, m.table, m.words) :
                mem' = [x EXCEPT !.table = g.a, !.words = words]
  BY <1>3
<1>5. words \in Nat \ {0}
  BY <1>3, SectionsAssumption
<1>6. /\ m \in Memories /\ m.heapsize \in Nat /\ m.recycled \in Nat /\ m.table \in Nat /\ m.words \in Nat
      /\ maxHeap \in Nat
  BY <1>2, MemoryFields, SectionsAssumption DEF Good
<1>7. maxHeap' = maxHeap
  BY DEF alloc_mark_stack
<1>8. ASSUME NEW z, mem' = z, Good(z), Kept(z, TableOf(z)), z.words = 0 => z.table = 0,
             maxHeap # 0 => z.heapsize <= maxHeap + z.recycled, SlopsElsewhere => Plausible(z)
      PROVE  SecInv'
  <2>1. /\ Good(mem') /\ Kept(mem', TableOf(mem')) /\ (mem'.words = 0 => mem'.table = 0)
        /\ (SlopsElsewhere => Plausible(mem'))
    BY <1>8
  <2>2. MemInv'
    BY <1>2, <1>7, <1>8, <2>1 DEF MemInv, LimitButRecycled
  <2> QED BY <2>1, <2>2 DEF SecInv
<1>9. CASE g.a = 0
  <2>1. PICK z : z = [m EXCEPT !.aborted = TRUE] /\ mem' = z
    BY <1>4, <1>9
  <2>2. /\ z \in Memories /\ Like(m, z) /\ z.recycled = m.recycled /\ Others(m, z)
        /\ z.least = m.least /\ z.greatest = m.greatest
    <3>1. z \in Memories
      BY <1>6, <2>1 DEF Memories
    <3> QED BY <1>6, <2>1, <3>1 DEF Like, Others, Memories
  <2>3. Good(z) /\ Kept(z, TableOf(m))
    BY <1>2, <2>2, GoodSame
  <2>4. /\ TableOf(z) = TableOf(m) /\ (z.words = 0 => z.table = 0)
        /\ z.heapsize = m.heapsize /\ (Plausible(m) => Plausible(z))
    BY <1>2, <2>2 DEF TableOf, Others, Like, Plausible
  <2> QED BY <1>2, <1>8, <2>1, <2>2, <2>3, <2>4
<1>10. CASE g.a # 0
  <2>1. PICK x \in IF m.words = 0 THEN {g.m} ELSE GC_scratch_recycle_inner(g.m, m.table, m.words) :
          mem' = [x EXCEPT !.table = g.a, !.words = words]
    BY <1>4, <1>10
  <2>2. ScratchGives(m, g, words)
    BY <1>2, <1>4, <1>5, <1>10, ScratchAlloc
  <2>3. PICK a, h : a \in Nat /\ a = g.a /\ h = g.m
    BY <2>2 DEF ScratchGives
  <2>4. /\ a \in Nat /\ a # 0 /\ Good(h) /\ Tables(m, h) /\ Kept(h, WordsAt(a, words))
        /\ \A u : Free(m, u) => Free(h, u) /\ Apart(u, WordsAt(a, words))
    BY <2>2, <2>3 DEF ScratchGives
  <2>5. Returned(h, x, WordsAt(m.table, m.words)) /\ Kept(x, WordsAt(a, words))
    <3>1. CASE m.words = 0
      <4>1. x = h
        BY <2>1, <2>3, <3>1
      <4>2. h.recycled \in Nat /\ h.heapsize \in Nat
        BY <2>4, MemoryFields DEF Good
      <4> QED BY <2>4, <4>1, <4>2 DEF Returned, Others
    <3>2. CASE m.words # 0
      <4>1. x \in GC_scratch_recycle_inner(h, m.table, m.words)
        BY <2>1, <2>3, <3>2
      <4>2. WordsAt(m.table, m.words) = TableOf(m)
        BY DEF WordsAt, TableOf
      <4>3. Free(m, TableOf(m)) /\ Apart(TableOf(m), ArrayOf(m)) /\ ArrayOf(h) = ArrayOf(m)
        BY <1>2, <2>4 DEF Kept, Free, ArrayOf, Tables
      <4>4. Kept(h, WordsAt(m.table, m.words)) /\ Apart(WordsAt(a, words), WordsAt(m.table, m.words))
        BY <2>4, <4>2, <4>3, ApartTurns DEF Kept, Free
      <4>5. Returned(h, x, WordsAt(m.table, m.words))
        BY <1>6, <2>4, <4>1, <4>4, RecycleIs
      <4> QED BY <2>4, <4>4, <4>5 DEF Returned
    <3> QED BY <3>1, <3>2
  <2>6. PICK z : mem' = z /\ z = [x EXCEPT !.table = a, !.words = words]
    BY <2>1, <2>3
  <2>7. x \in Memories /\ Good(x)
    BY <2>5 DEF Returned, Good
  <2>8. z \in Memories
    BY <1>5, <2>4, <2>6, <2>7 DEF Memories
  <2>9. /\ Like(x, z) /\ z.recycled = x.recycled /\ z.table = a /\ z.words = words
        /\ z.least = x.least /\ z.greatest = x.greatest
    BY <2>6, <2>7, <2>8 DEF Like, Memories
  <2>10. Good(z) /\ Kept(z, WordsAt(a, words))
    BY <2>5, <2>7, <2>9, GoodSame
  <2>11. TableOf(z) = WordsAt(a, words)
    BY <2>9 DEF TableOf, WordsAt
  <2>12. SlopsElsewhere => Plausible(z)
    <3>1. Plausible(m) => Plausible(h)
      BY <2>4 DEF Tables, Plausible
    <3>2. Plausible(h) => Plausible(x)
      BY <2>5 DEF Returned
    <3>3. Plausible(x) => Plausible(z)
      BY <2>9 DEF Like, Plausible
    <3> QED BY <1>2, <3>1, <3>2, <3>3
  <2>13. maxHeap # 0 => z.heapsize <= maxHeap + z.recycled
    <3>1. h.heapsize = m.heapsize /\ h.recycled = m.recycled /\ z.heapsize = x.heapsize /\ z.recycled = x.recycled
      BY <2>4, <2>9 DEF Tables, Like
    <3>2. x.heapsize + m.recycled <= m.heapsize + x.recycled
      BY <2>5, <3>1 DEF Returned
    <3>3. PICK b \in Nat, c \in Nat, d \in Nat, e \in Nat :
            b = x.heapsize /\ c = x.recycled /\ d = m.heapsize /\ e = m.recycled
      BY <1>6, <2>7, MemoryFields
    <3>4. b + e <= d + c /\ (maxHeap # 0 => d <= maxHeap + e)
      BY <1>2, <3>2, <3>3
    <3>5. maxHeap # 0 => b <= maxHeap + c
      BY <1>6, <3>4
    <3> QED BY <3>1, <3>3, <3>5
  <2>14. z.words = 0 => z.table = 0
    BY <1>5, <2>9
  <2> QED BY <1>8, <2>6, <2>10, <2>11, <2>12, <2>13, <2>14
<1> QED BY <1>9, <1>10

\* The invariant holds at the start.
LEMMA SectionsInitial == SectionsInit => SecInv
<1> SUFFICES ASSUME SectionsInit PROVE SecInv
  OBVIOUS
<1>1. PICK m : m = mem /\
        m = [got |-> {}, sects |-> <<>>, cap |-> 0, arr |-> 0, sfree |-> 0, send |-> 0,
             table |-> 0, words |-> 0, heapsize |-> 0, recycled |-> 0,
             least |-> WordMax, greatest |-> 0, last |-> 0, aborted |-> FALSE]
  BY DEF SectionsInit
<1>2. W \in Nat \ {0} /\ WordMax = W - 1 /\ NPages \in Nat /\ Pg(0) = 0
  BY PageOrder DEF WordMax
<1>3. WordMax \in 0 .. WordMax /\ 0 \in 0 .. WordMax
  BY <1>2
<1>4. m \in Memories
  <2>1. <<>> \in Seq(Nat \X Nat) /\ {} \in SUBSET (1 .. NPages - 1) /\ 0 \in Nat /\ FALSE \in BOOLEAN
    OBVIOUS
  <2> HIDE DEF WordMax
  <2> QED BY <1>1, <1>3, <2>1 DEF Memories
<1>5. /\ m.got = {} /\ m.sects = <<>> /\ m.cap = 0 /\ m.arr = 0 /\ m.sfree = 0 /\ m.send = 0 /\ m.table = 0
      /\ m.words = 0 /\ m.heapsize = 0 /\ m.recycled = 0 /\ m.least = WordMax
  BY <1>1
<1>6. HeapPages(m) = {} /\ DOMAIN m.sects = {} /\ Len(m.sects) = 0
  BY <1>5 DEF HeapPages, InHeap
<1>7. Cardinality(HeapPages(m)) = 0
  BY <1>6, FS_EmptySet
<1>8. SectionsOf(m)
  BY <1>2, <1>5, <1>6, <1>7 DEF SectionsOf
<1>9. 0 * SectWords = 0
  BY SectionsAssumption
<1>10. ArrayOf(m) = <<0, 0>> /\ ScratchOf(m) = <<0, 0>> /\ TableOf(m) = <<0, 0>>
  BY <1>5, <1>9 DEF ArrayOf, ScratchOf, TableOf
<1>11. Backed(m, <<0, 0>>) /\ Apart(<<0, 0>>, <<0, 0>>)
  BY DEF Backed, Apart
<1>12. 0 \in 0 .. NPages
  BY <1>2
<1>13. TablesOf(m)
  BY <1>2, <1>5, <1>10, <1>11, <1>12 DEF TablesOf
<1>14. Good(m) /\ Kept(m, TableOf(m))
  BY <1>4, <1>8, <1>10, <1>11, <1>13 DEF Good, Kept
<1>15. Plausible(m)
  BY <1>2, <1>5, <1>6 DEF Plausible
<1>16. maxHeap \in HeapLimits /\ maxHeap \in Nat
  BY SectionsAssumption DEF SectionsInit
<1>17. maxHeap # 0 => m.heapsize <= maxHeap + m.recycled
  BY <1>5, <1>16
<1> QED BY <1>1, <1>5, <1>14, <1>15, <1>16, <1>17 DEF SecInv, MemInv, LimitButRecycled

\* Every step keeps it.
LEMMA SectionsStep == SecInv /\ [SectionsNext]_sectionVars => SecInv'
<1> SUFFICES ASSUME SecInv, [SectionsNext]_sectionVars PROVE SecInv'
  OBVIOUS
<1>1. CASE GrowHeap
  BY <1>1, GrowHeapStep
<1>2. CASE alloc_mark_stack
  BY <1>2, MarkStackStep
<1>3. CASE UNCHANGED sectionVars
  <2>1. mem' = mem /\ maxHeap' = maxHeap
    BY <1>3 DEF sectionVars
  <2> QED BY <2>1 DEF SecInv, MemInv, LimitButRecycled
<1> QED BY <1>1, <1>2, <1>3 DEF SectionsNext

(***************************************************************************)
(* What follows from the invariant.                                        *)
(***************************************************************************)

\* What the runs check of sections and tables.
LEMMA MemInvOwned == MemInv => SectionsTypeOK /\ SectionsOwned
<1> SUFFICES ASSUME MemInv PROVE SectionsTypeOK /\ SectionsOwned
  OBVIOUS
<1>1. PICK m : m = mem
  OBVIOUS
<1>2. Good(m) /\ m \in Memories /\ SectionsOf(m) /\ TablesOf(m) /\ Kept(m, TableOf(m)) /\ (m.words = 0 => m.table = 0)
  BY <1>1 DEF MemInv, Good
<1>3. /\ m.sects \in Seq(Nat \X Nat) /\ m.cap \in Nat /\ m.arr \in Nat /\ m.sfree \in Nat /\ m.send \in Nat
      /\ m.table \in Nat /\ m.words \in Nat /\ m.got \in SUBSET (1 .. NPages - 1)
      /\ m.least \in 0 .. WordMax /\ m.greatest \in 0 .. WordMax /\ WordMax = W - 1
  BY <1>2, MemoryFields
<1>4. ASSUME NEW k \in DOMAIN m.sects
      PROVE  /\ m.sects[k] \in (1 .. WordMax) \X (1 .. WordMax)
             /\ \E a, b \in Nat : m.sects[k] = <<a, b>> /\ a < b
  <2>1. PICK f \in 2 .. NPages - 1, e \in 2 .. NPages - 1 : f < e /\ m.sects[k] = <<Pg(f), Pg(e)>>
    BY <1>2 DEF SectionsOf, IsSection
  <2>2. SectionAt(f, e)
    BY <2>1 DEF SectionAt
  <2>3. Pg(f) \in Nat /\ Pg(e) \in Nat /\ Pg(f) < Pg(e) /\ Pg(e) < W /\ Pg(f) >= 2 /\ W \in Nat
    BY <2>2, SectionFacts, PageOrder
  <2>4. Pg(f) \in 1 .. WordMax /\ Pg(e) \in 1 .. WordMax
    <3>1. WordMax = W - 1
      BY <1>3
    <3>2. PICK a \in Nat, b \in Nat : a = Pg(f) /\ b = Pg(e) /\ a < b /\ b < W /\ a >= 2
      BY <2>3
    <3>3. a \in 1 .. W - 1 /\ b \in 1 .. W - 1
      BY <2>3, <3>2
    <3> QED BY <3>1, <3>2, <3>3
  <2> QED BY <2>1, <2>3, <2>4
<1>5. SectionsTypeOK
  <2>1. mem.sfree <= mem.send /\ Len(mem.sects) <= mem.cap /\ maxHeap \in HeapLimits
    BY <1>1, <1>2 DEF TablesOf, SectionsOf, MemInv
  <2> QED BY <1>1, <1>3, <1>4, <2>1 DEF SectionsTypeOK
<1> DEFINE pages == {SectionPages(s[1], s[2] - s[1]) : s \in Range(m.sects)}
<1>6. ASSUME NEW i PROVE i \in UNION pages <=> i \in HeapPages(m)
  <2>1. i \in UNION pages <=> \E k \in DOMAIN m.sects : i \in SectionPages(m.sects[k][1], m.sects[k][2] - m.sects[k][1])
    BY DEF Range
  <2>2. ASSUME NEW k \in DOMAIN m.sects
        PROVE  i \in SectionPages(m.sects[k][1], m.sects[k][2] - m.sects[k][1])
                 <=> i \in 0 .. NPages - 1 /\ m.sects[k][1] <= Pg(i) /\ Pg(i) < m.sects[k][2]
    <3>1. PICK a \in Nat, b \in Nat : m.sects[k] = <<a, b>>
      BY <1>4
    <3>2. i \in SectionPages(a, b - a) <=> i \in 0 .. NPages - 1 /\ i * PageWords >= a /\ i * PageWords < a + (b - a)
      BY DEF SectionPages
    <3>3. ASSUME i \in 0 .. NPages - 1
          PROVE  (i * PageWords >= a /\ i * PageWords < a + (b - a)) <=> (a <= Pg(i) /\ Pg(i) < b)
      <4>1. Pg(i) \in Nat /\ Pg(i) = i * PageWords
        BY <3>3, PageOrder DEF Pg
      <4> QED BY <4>1
    <3>4. i \in SectionPages(a, b - a) <=> i \in 0 .. NPages - 1 /\ a <= Pg(i) /\ Pg(i) < b
      BY <3>2, <3>3
    <3>5. m.sects[k][1] = a /\ m.sects[k][2] = b
      BY <3>1
    <3> QED BY <3>4, <3>5
  <2> QED BY <2>1, <2>2 DEF HeapPages, InHeap
<1>7. UNION pages = HeapPages(m)
  BY <1>6
<1> HIDE DEF pages
<1> DEFINE inTables == {i \in 0 .. NPages - 1 :
                          \/ i * PageWords < m.arr + m.cap * SectWords /\ (i + 1) * PageWords > m.arr
                          \/ i * PageWords < m.table + m.words /\ (i + 1) * PageWords > m.table
                          \/ i * PageWords < m.send /\ (i + 1) * PageWords > m.sfree}
<1>8. ASSUME m.cap > 0, NEW i \in 0 .. NPages - 1, i \in inTables PROVE ~InHeap(m, i)
  <2>1. Pg(i) \in Nat /\ Pg(i + 1) \in Nat /\ Pg(i) = i * PageWords /\ Pg(i + 1) = (i + 1) * PageWords
    BY PageOrder DEF Pg
  <2>2. ASSUME NEW v, Backed(m, v), v[1] < v[2], Touches(i, v) PROVE ~InHeap(m, i)
    BY <2>2 DEF Backed
  <2>3. CASE Pg(i) < m.arr + m.cap * SectWords /\ Pg(i + 1) > m.arr
    <3>1. PICK c \in Nat \ {0} : c = m.cap * SectWords
      <4>1. SectWords \in Nat \ {0} /\ m.cap \in Nat \ {0}
        BY <1>3, <1>8, SectionsAssumption
      <4>2. m.cap * SectWords \in Nat \ {0}
        BY <4>1
      <4> QED BY <4>2, Zenon
    <3>2. ArrayOf(m) = <<m.arr, m.arr + c>> /\ m.arr < m.arr + c
      BY <1>3, <3>1 DEF ArrayOf
    <3>3. Touches(i, ArrayOf(m)) /\ ArrayOf(m)[1] < ArrayOf(m)[2] /\ Backed(m, ArrayOf(m))
      BY <1>2, <2>3, <3>1, <3>2 DEF Touches, TablesOf
    <3> QED BY <2>2, <3>3
  <2>4. CASE Pg(i) < m.table + m.words /\ Pg(i + 1) > m.table
    <3>1. m.words # 0
      BY <1>2, <2>1, <2>4
    <3>2. Touches(i, TableOf(m)) /\ TableOf(m)[1] < TableOf(m)[2] /\ Backed(m, TableOf(m))
      BY <1>2, <1>3, <2>4, <3>1 DEF Touches, TableOf, Kept
    <3> QED BY <2>2, <3>2
  <2>5. CASE Pg(i) < m.send /\ Pg(i + 1) > m.sfree
    <3>1. m.sfree <= m.send
      BY <1>2 DEF TablesOf
    <3>2. PICK k \in 0 .. NPages : m.send = Pg(k)
      BY <1>2 DEF TablesOf
    <3>3. m.sfree # m.send
      <4> SUFFICES ASSUME m.sfree = m.send PROVE FALSE
        OBVIOUS
      <4>1. i \in Int /\ i + 1 \in Int /\ k \in Int
        BY PageOrder
      <4>2. Pg(i) < Pg(k) /\ Pg(k) < Pg(i + 1)
        BY <1>3, <2>1, <2>5, <3>2
      <4>3. i < k /\ k < i + 1
        BY <4>1, <4>2, PageOrder
      <4> QED BY <4>1, <4>3
    <3>4. Touches(i, ScratchOf(m)) /\ ScratchOf(m)[1] < ScratchOf(m)[2] /\ Backed(m, ScratchOf(m))
      BY <1>2, <1>3, <2>5, <3>1, <3>3 DEF Touches, ScratchOf, TablesOf
    <3> QED BY <2>2, <3>4
  <2> QED BY <1>8, <2>1, <2>3, <2>4, <2>5
<1>9. m.cap > 0 => (UNION pages) \cap inTables = {}
  <2> HIDE DEF inTables
  <2>1. \A i \in HeapPages(m) : i \in 0 .. NPages - 1 /\ InHeap(m, i)
    BY DEF HeapPages
  <2> SUFFICES ASSUME m.cap > 0, NEW i, i \in UNION pages, i \in inTables PROVE FALSE
    OBVIOUS
  <2>2. i \in 0 .. NPages - 1 /\ InHeap(m, i)
    BY <1>7, <2>1
  <2> QED BY <1>8, <2>2
<1>10. \A i, j \in DOMAIN m.sects : i # j => m.sects[i][2] <= m.sects[j][1] \/ m.sects[j][2] <= m.sects[i][1]
  BY <1>2 DEF SectionsOf
<1>11. UNION pages \subseteq m.got /\ Cardinality(UNION pages) * PageWords = m.heapsize
  BY <1>2, <1>7 DEF SectionsOf, Pg
<1>12. SectionsOwned
  BY <1>1, <1>9, <1>10, <1>11, Zenon DEF SectionsOwned, pages
<1> QED BY <1>5, <1>12

\* What they check of the limits.
LEMMA PlausibleIs == Plausible(mem) => HeapPlausible
BY DEF Plausible, HeapPlausible

(***************************************************************************)
(* Heap sections are disjoint memory that the system gave and that no      *)
(* table uses, they add up to GC_heapsize, GC_heap_sects has room for them *)
(* and GC_max_heapsize is exceeded at most by recycled tables: wherever    *)
(* the system places memory, whatever it refuses, with sizes and address   *)
(* spaces of any kind, although a section may be added while the array it  *)
(* is entered in is replaced and becomes part of the heap itself.          *)
(***************************************************************************)
THEOREM SectionsAreOwned == SectionsSpec => [](SectionsTypeOK /\ SectionsOwned /\ LimitButRecycled)
<1>1. SecInv => SectionsTypeOK /\ SectionsOwned /\ LimitButRecycled
  BY MemInvOwned DEF SecInv, MemInv
<1> QED BY <1>1, SectionsInitial, SectionsStep, PTL DEF SectionsSpec

(***************************************************************************)
(* If expansion_slop never reaches from a section to exactly address zero, *)
(* which GC_add_to_heap takes for "no limit yet", the heap lies between    *)
(* the plausible addresses as well, in whatever order sections come and    *)
(* however the limits were moved for black listing.                        *)
(***************************************************************************)
THEOREM SectionsArePlausible ==
  ASSUME SlopsElsewhere
  PROVE  SectionsSpec => []SectionsSound
<1>1. SecInv => SectionsSound
  BY MemInvOwned, PlausibleIs DEF SecInv, MemInv, SectionsSound
<1> QED BY <1>1, SectionsInitial, SectionsStep, PTL DEF SectionsSpec
=============================================================================
