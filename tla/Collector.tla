----------------------------- MODULE Collector -----------------------------
(***************************************************************************)
(* The collector proper: the client program and its write barrier, object  *)
(* allocation with lazy sweeping, the GC_mark_some state machine, and the  *)
(* control of full, partial (generational), stop-the-world and incremental *)
(* collections (mark.c, alloc.c, reclaim.c, malloc.c, mark_rts.c).         *)
(*                                                                         *)
(* Threads that hold the allocation lock run one at a time, so everything  *)
(* done under it is one process whose position is pc; the client's loads,  *)
(* stores and thread-local allocations take no lock and interleave with it *)
(* whenever the world is not stopped.  Marking is sequential here          *)
(* (GC_parallel is false); ParallelMark.tla has the parallel marker.       *)
(* The write barrier is the weakest one, the manual one (GC_manual_vdb):   *)
(* only GC_dirty sets a dirty bit.  No finalizers are registered.          *)
(***************************************************************************)
EXTENDS Integers, FiniteSets

CONSTANTS Obj,        \* the object slots of the heap
          Field,      \* the pointer-sized words of an object
          Null,       \* the value of a cleared word
          NBlocks,    \* heap blocks (struct hblk), numbered by address
          BlockOf,    \* HBLKPTR: the block of an object
          Kind,       \* hb_obj_kind; a block keeps its kind when it is reused
          InitStack,  \* INITIAL_MARK_STACK_SIZE
          MaxStack,   \* bound on the growth of the mark stack
          FullFreq,   \* GC_full_freq
          MaxPrior,   \* max_prior_attempts
          StartIncremental, \* GC_enable_incremental was called before GC_init
          StopFuncs,  \* the stop functions of the program's own collections
          Frees,      \* the program calls GC_free
          TLKinds,    \* the kinds with thread-local free lists
          Junk,       \* objects that integers in the root area happen to address
          MaxRoots,   \* bound on the pointers the program holds at a time
          MaxPend     \* bound on stores in flight (threads inside a store)

Block == 1..NBlocks
Kinds == {"normal", "ptrfree", "uncollectable"}

ASSUME NullNotObj == Null \notin Obj
ASSUME SizesAreNat == /\ NBlocks \in Nat \ {0}
                      /\ InitStack \in Nat \ {0}
                      /\ MaxStack \in Nat
                      /\ FullFreq \in Nat
                      /\ MaxPrior \in Nat
                      /\ MaxRoots \in Nat
                      /\ MaxPend \in Nat
ASSUME BlocksTyped == BlockOf \in [Obj -> Block] /\ Kind \in [Block -> Kinds]
ASSUME ObjFinite == IsFiniteSet(Obj) /\ IsFiniteSet(Field)
ASSUME ProgramTyped == /\ StartIncremental \in BOOLEAN /\ Frees \in BOOLEAN
                       /\ StopFuncs \subseteq {"never", "client"}
ASSUME TLKindsAreKinds == TLKinds \subseteq Kinds \ {"uncollectable"}
ASSUME NonEmpty == Field # {} /\ \A b \in Block : \E o \in Obj : BlockOf[o] = b
ASSUME JunkIsObj == Junk \subseteq Obj

VARIABLES
  \* the client program
  heap,         \* heap[o][f]: the word f of object o
  roots,        \* the objects its static data, stacks and registers point to
  pend,         \* words stored to but not yet reported with GC_dirty
  \* the allocator
  where,        \* "used" by the client, on a "free" list, on a thread-local
                \*   free list ("tl"), or on none of them ("none")
  freeBlk,      \* blocks without a header (HBLK_IS_FREE)
  reclaimList,  \* blocks on an ok_reclaim_list, waiting to be swept
  bytesAllocd,  \* GC_bytes_allocd > 0
  \* the marker
  marked,       \* the mark bits
  markState,    \* GC_mark_state
  markStack,    \* the words still to be scanned
  stackSize,    \* GC_mark_stack_size
  tooSmall,     \* GC_mark_stack_too_small
  scanPtr,      \* GC_scan_ptr: a block number, 0 for NULL
  objectsAreMarked, \* GC_objects_are_marked
  \* virtual dirty bits
  dirty, grungy,    \* GC_dirty_pages, GC_grungy_pages
  \* collection control
  pc,           \* where the holder of the allocation lock is
  frame,        \* the caller of GC_stopped_mark
  stopFunc,     \* the stop_func of GC_stopped_mark
  outer,        \* the stop_func of the active GC_try_to_collect_inner, if any
  incremental,  \* GC_incremental
  isFullGc, needFullGc, nPartialGcs, nAttempts

client == <<heap, roots, pend>>
alloc  == <<where, freeBlk, reclaimList, bytesAllocd>>
stack  == <<markStack, stackSize, tooSmall>>
mark   == <<marked, markState, stack, scanPtr, objectsAreMarked>>
vdb    == <<dirty, grungy>>
policy == <<isFullGc, needFullGc, nPartialGcs, nAttempts>>
ctl    == <<pc, frame, stopFunc, outer, incremental>>
vars   == <<client, alloc, mark, vdb, ctl, policy>>

Cleared == [f \in Field |-> Null]
ObjsIn(b) == {o \in Obj : BlockOf[o] = b}
KindOf(o) == Kind[BlockOf[o]]
InUse(b) == b \notin freeBlk
\* GC_world_stopped, between STOP_WORLD and START_WORLD
WorldStopped == pc = "stopped"
InProgress == markState # "NONE"             \* GC_collection_in_progress

(***************************************************************************)
(* What the client can still get at.  Closed(S) says that S holds every    *)
(* root and every target of its members; Reachable is the least such set.  *)
(***************************************************************************)
Targets(o) == IF KindOf(o) = "ptrfree" THEN {}
              ELSE {heap[o][f] : f \in Field} \ {Null}
PermanentRoots == {o \in Obj : where[o] = "used" /\ KindOf(o) = "uncollectable"}
Closed(S) == /\ roots \subseteq S
             /\ PermanentRoots \subseteq S
             /\ \A o \in S : Targets(o) \subseteq S
Reachable == {o \in Obj : \A S \in SUBSET Obj : o \in S \/ ~Closed(S)}

-----------------------------------------------------------------------------
Init ==
  /\ heap = [o \in Obj |-> Cleared]
  /\ roots = {}
  /\ pend = {}
  /\ where = [o \in Obj |-> "none"]
  /\ freeBlk = Block
  /\ reclaimList = {}
  /\ bytesAllocd = FALSE
  /\ marked = {}
  /\ markState = "NONE"
  /\ markStack = {}
  /\ stackSize = InitStack
  /\ tooSmall = FALSE
  /\ scanPtr = 0
  /\ objectsAreMarked = FALSE
  /\ dirty = {}
  /\ grungy = {}
  /\ pc = "run"
  /\ frame = "none"
  /\ stopFunc = "never"
  /\ outer = "none"
  /\ incremental = StartIncremental
  /\ isFullGc = FALSE
  /\ needFullGc = FALSE
  /\ nPartialGcs = 0
  /\ nAttempts = 0

-----------------------------------------------------------------------------
(***************************************************************************)
(* The client program.                                                     *)
(***************************************************************************)

\* Values the client's registers must keep until GC_dirty has returned:
\* the object stored to, and (REACHABLE_AFTER_DIRTY) the value stored.
KeptByStores == {e[1] : e \in pend}
                  \cup ({heap[e[1]][e[2]] : e \in pend} \ {Null})

\* The program copies a pointer out of an object it can reach.
Load(o, f) ==
  /\ ~WorldStopped
  /\ o \in roots
  /\ KindOf(o) # "ptrfree"
  /\ heap[o][f] # Null
  /\ Cardinality(roots) < MaxRoots
  /\ roots' = roots \cup {heap[o][f]}
  /\ UNCHANGED <<heap, pend, alloc, mark, vdb, ctl, policy>>

\* The program forgets a pointer.
DropRoot(o) ==
  /\ ~WorldStopped
  /\ o \in roots \ KeptByStores
  /\ roots' = roots \ {o}
  /\ UNCHANGED <<heap, pend, alloc, mark, vdb, ctl, policy>>

\* GC_ptr_store_and_dirty: the assignment itself
Store(o, f, v) ==
  /\ ~WorldStopped
  /\ o \in roots
  /\ v \in roots \cup {Null}
  /\ KindOf(o) # "ptrfree"
  /\ <<o, f>> \notin pend
  /\ Cardinality(pend) < MaxPend
  /\ heap' = [heap EXCEPT ![o][f] = v]
  /\ pend' = pend \cup {<<o, f>>}
  /\ UNCHANGED <<roots, alloc, mark, vdb, ctl, policy>>

\* mutant: the barrier of an object that is already marked is skipped
GC_dirty_skipped(o, f) ==
  /\ ~WorldStopped
  /\ <<o, f>> \in pend
  /\ pend' = pend \ {<<o, f>>}
  /\ dirty' = IF incremental /\ o \notin marked THEN dirty \cup {BlockOf[o]}
                                              ELSE dirty
  /\ UNCHANGED <<heap, roots, grungy, alloc, mark, ctl, policy>>

\* ... and the GC_dirty(p) that follows it
GC_dirty(o, f) ==
  /\ ~WorldStopped
  /\ <<o, f>> \in pend
  /\ pend' = pend \ {<<o, f>>}
  /\ dirty' = IF incremental THEN dirty \cup {BlockOf[o]} ELSE dirty
  /\ UNCHANGED <<heap, roots, grungy, alloc, mark, ctl, policy>>

\* Allocation of the small object at the head of a global free list.
GC_malloc(o) ==
  /\ pc = "run"
  /\ where[o] = "free"
  /\ Cardinality(roots) < MaxRoots
  /\ where' = [where EXCEPT ![o] = "used"]
  /\ heap' = [heap EXCEPT ![o] = Cleared]
  /\ roots' = roots \cup {o}
  /\ bytesAllocd' = TRUE
  /\ UNCHANGED <<pend, freeBlk, reclaimList, mark, vdb, ctl, policy>>

\* GC_generic_malloc_many gives a thread a list of objects of kind k.  With a
\* manual write barrier (GC_manual_vdb) it is a list of one; otherwise it is a
\* block swept for the purpose, else a prefix of the global free list, else
\* the objects of a fresh block.
ToThread(S) == where' = [o \in Obj |-> IF o \in S THEN "tl" ELSE where[o]]
NoneToSweep(k) == \A c \in reclaimList : Kind[c] # k
GC_malloc_many(k) ==
  /\ pc = "run"
  /\ k \in TLKinds
  /\ \E S \in SUBSET {o \in Obj : where[o] = "free" /\ KindOf(o) = k} :
       /\ S # {}
       /\ IF incremental THEN Cardinality(S) = 1 ELSE NoneToSweep(k)
       /\ ToThread(S)
  /\ bytesAllocd' = TRUE
  /\ UNCHANGED <<client, freeBlk, reclaimList, mark, vdb, ctl, policy>>

\* GC_FAST_MALLOC_GRANS: lock-free allocation from a thread-local list.
GC_malloc_tl(o) ==
  /\ ~WorldStopped
  /\ where[o] = "tl"
  /\ Cardinality(roots) < MaxRoots
  /\ where' = [where EXCEPT ![o] = "used"]
  /\ heap' = [heap EXCEPT ![o] = Cleared]
  /\ roots' = roots \cup {o}
  /\ UNCHANGED <<pend, freeBlk, reclaimList, bytesAllocd, mark, vdb, ctl, policy>>

\* The client frees only an object that nothing it can reach points to.
MayFree(o) == /\ o \in roots \ KeptByStores
              /\ where[o] = "used"
              /\ \A x \in Reachable : o \notin Targets(x)

\* GC_free of a small object; its mark bit stays as it is.
GC_free(o) ==
  /\ pc = "run"
  /\ Frees
  /\ MayFree(o)
  /\ roots' = roots \ {o}
  /\ heap' = [heap EXCEPT ![o] = Cleared]
  /\ where' = [where EXCEPT ![o] = "free"]
  /\ UNCHANGED <<pend, freeBlk, reclaimList, bytesAllocd, mark, vdb, ctl, policy>>

-----------------------------------------------------------------------------
(***************************************************************************)
(* Sweeping and block allocation.                                          *)
(***************************************************************************)

\* GC_reclaim_generic on the blocks bs: their unmarked objects go to a free
\* list, cleared; an uncollectable block gets all its mark bits back.
Swept(bs) == {o \in Obj : BlockOf[o] \in bs /\ o \notin marked}
FreeObjects(S) == [o \in Obj |-> IF o \in S THEN "free" ELSE where[o]]
ClearObjects(S) == [o \in Obj |-> IF o \in S THEN Cleared ELSE heap[o]]
SetHdrMarksNever(bs) == {}    \* mutant: GC_set_hdr_marks is not called
SetHdrMarks(bs) == {o \in Obj : BlockOf[o] \in bs /\ KindOf(o) = "uncollectable"}
GC_reclaim_generic(bs) ==
  /\ where' = FreeObjects(Swept(bs))
  /\ heap' = ClearObjects(Swept(bs))

FreeListEmpty(k) == \A o \in Obj : KindOf(o) = k => where[o] # "free"

\* One block of GC_continue_reclaim, called by GC_allocobj.
GC_continue_reclaim(b) ==
  /\ pc = "run"
  /\ b \in reclaimList
  /\ FreeListEmpty(Kind[b])
  /\ GC_reclaim_generic({b})
  /\ marked' = marked \cup SetHdrMarks({b})
  /\ reclaimList' = reclaimList \ {b}
  /\ UNCHANGED <<roots, pend, freeBlk, bytesAllocd, markState, stack, scanPtr,
                 objectsAreMarked, vdb, ctl, policy>>

\* GC_new_hblk: the objects of a fresh block form the new free list.
GC_new_hblk(b) ==
  /\ pc = "run"
  /\ b \in freeBlk
  /\ FreeListEmpty(Kind[b])
  /\ NoneToSweep(Kind[b])
  /\ freeBlk' = freeBlk \ {b}
  /\ where' = FreeObjects(ObjsIn(b))
  /\ heap' = ClearObjects(ObjsIn(b))
  /\ marked' = marked \cup SetHdrMarks({b})
  /\ UNCHANGED <<roots, pend, reclaimList, bytesAllocd, markState, stack,
                 scanPtr, objectsAreMarked, vdb, ctl, policy>>

\* GC_generic_malloc_many sweeps the block b, ...
GC_malloc_many_swept(b) ==
  /\ pc = "run"
  /\ ~incremental
  /\ Kind[b] \in TLKinds
  /\ b \in reclaimList
  /\ ToThread(Swept({b}))
  /\ heap' = ClearObjects(Swept({b}))
  /\ reclaimList' = reclaimList \ {b}
  /\ bytesAllocd' = (bytesAllocd \/ Swept({b}) # {})
  /\ UNCHANGED <<roots, pend, freeBlk, mark, vdb, ctl, policy>>

\* ... or takes a fresh one.
GC_malloc_many_fresh(b) ==
  /\ pc = "run"
  /\ ~incremental
  /\ Kind[b] \in TLKinds
  /\ b \in freeBlk
  /\ FreeListEmpty(Kind[b])
  /\ NoneToSweep(Kind[b])
  /\ freeBlk' = freeBlk \ {b}
  /\ ToThread(ObjsIn(b))
  /\ heap' = ClearObjects(ObjsIn(b))
  /\ bytesAllocd' = TRUE
  /\ UNCHANGED <<roots, pend, reclaimList, mark, vdb, ctl, policy>>

-----------------------------------------------------------------------------
(***************************************************************************)
(* The marker.                                                             *)
(***************************************************************************)
Words(S) == {o \in S : KindOf(o) # "ptrfree"} \X Field

\* The words P are pushed onto the stack base of the given size.  When they
\* do not fit, GC_signal_mark_stack_overflow drops entries and invalidates
\* the mark state.
PushWords(base, P, size, state, small) ==
  /\ stackSize' = size
  /\ \/ /\ Cardinality(base) + Cardinality(P) <= size
        /\ markStack' = base \cup P
        /\ markState' = state
        /\ tooSmall' = small
     \/ /\ Cardinality(base) + Cardinality(P) > size
        /\ \E kept \in SUBSET (base \cup P) :
             /\ Cardinality(kept) < size
             /\ markStack' = kept
        /\ markState' = "INVALID"
        /\ tooSmall' = TRUE

\* PUSH_CONTENTS: the members of S that are not yet marked and lie in an
\* allocated block.
Unmarked(S) == {o \in S \cap Obj : o \notin marked /\ InUse(BlockOf[o])}

\* One word of GC_mark_from (its credit may run out after any of them).
GC_mark_from(small) ==
  \E e \in markStack :
    LET new == Unmarked({heap[e[1]][e[2]]})
    IN /\ marked' = marked \cup new
       /\ PushWords(markStack \ {e}, Words(new), stackSize, markState, small)
       /\ objectsAreMarked' = TRUE
       /\ UNCHANGED scanPtr

\* GC_push_roots and push_roots_and_advance: static data, stacks, registers
\* and, only with the world stopped, the thread-local free lists.
TLFreeLists == {o \in Obj : where[o] = "tl"}
TLMarksNever == {}            \* mutant: thread-local lists are not marked
TLMarks == IF WorldStopped THEN TLFreeLists ELSE {}
push_roots_and_advance(size, small) ==
  /\ marked' = marked \cup Unmarked(roots \cup Junk) \cup TLMarks
  /\ PushWords(markStack, Words(Unmarked(roots \cup Junk)), size,
               "ROOTS_PUSHED", small)
  /\ objectsAreMarked' = TRUE
  /\ scanPtr' = 0

\* The allocated blocks among bs that GC_scan_ptr has not passed.
Ahead(bs) == {b \in bs : InUse(b) /\ b >= scanPtr}

Past(b) == b + 1

\* GC_push_marked on the next block ahead.
GC_push_marked(bs, size, state, small) ==
  \E b \in Ahead(bs) :
    LET words == Words(marked \cap ObjsIn(b))
    IN /\ \A c \in Ahead(bs) : b <= c
       /\ PushWords(markStack, words, size, state, small)
       /\ objectsAreMarked' = (objectsAreMarked \/ words # {})
       /\ scanPtr' = Past(b)
       /\ UNCHANGED marked

\* case MS_PUSH_RESCUERS
MarkSomeRescuers ==
  /\ markState = "PUSH_RESCUERS"
  /\ IF Cardinality(markStack) > stackSize - InitStack \div 2
     THEN GC_mark_from(TRUE)
     ELSE \/ GC_push_marked(grungy, stackSize, "PUSH_RESCUERS", tooSmall)
          \/ Ahead(grungy) = {} /\ push_roots_and_advance(stackSize, tooSmall)

\* case MS_PUSH_UNCOLLECTABLE
UncollectableBlocks == {b \in Block : Kind[b] = "uncollectable"}
MarkSomeUncollectable ==
  /\ markState = "PUSH_UNCOLLECTABLE"
  /\ IF Cardinality(markStack) > stackSize \div 4
     THEN GC_mark_from(tooSmall)
     ELSE \/ GC_push_marked(UncollectableBlocks, stackSize,
                            "PUSH_UNCOLLECTABLE", tooSmall)
          \/ /\ Ahead(UncollectableBlocks) = {}
             /\ push_roots_and_advance(stackSize, tooSmall)

\* case MS_ROOTS_PUSHED, with work left
MarkSomeRootsPushed ==
  /\ markState = "ROOTS_PUSHED"
  /\ GC_mark_from(tooSmall)

\* alloc_mark_stack(2*GC_mark_stack_size), which may fail to get memory
GrownSizes == IF tooSmall /\ 2 * stackSize <= MaxStack
              THEN {stackSize, 2 * stackSize} ELSE {stackSize}

\* cases MS_INVALID and MS_PARTIALLY_INVALID: nothing is marked yet, ...
MarkSomeStartFull ==
  /\ markState \in {"INVALID", "PARTIALLY_INVALID"}
  /\ ~objectsAreMarked
  /\ markState' = "PUSH_UNCOLLECTABLE"
  /\ UNCHANGED <<marked, stack, scanPtr, objectsAreMarked>>

\* ... the mark stack is not empty, ...
MarkSomeInvalidDrain ==
  /\ markState \in {"INVALID", "PARTIALLY_INVALID"}
  /\ objectsAreMarked
  /\ GC_mark_from(tooSmall)

\* ... a scan of the heap for marked objects starts or goes on, or ends (the
\* roots are pushed unless the stack overflowed since the scan started).
ScanStarts == markState = "INVALID" /\ scanPtr = 0
ScanState == IF ScanStarts THEN "PARTIALLY_INVALID" ELSE markState
MarkSomeInvalidScan ==
  /\ markState \in {"INVALID", "PARTIALLY_INVALID"}
  /\ objectsAreMarked
  /\ markStack = {}
  /\ \/ \E size \in IF ScanStarts THEN GrownSizes ELSE {stackSize} :
          LET small == tooSmall /\ ~ScanStarts
          IN \/ GC_push_marked(Block, size, ScanState, small)
             \/ /\ Ahead(Block) = {}
                /\ ScanState = "PARTIALLY_INVALID"
                /\ push_roots_and_advance(size, small)
     \/ /\ Ahead(Block) = {}
        /\ ScanState = "INVALID"
        /\ scanPtr' = 0
        /\ UNCHANGED <<marked, markState, stack, objectsAreMarked>>

\* A call of GC_mark_some that returns FALSE.
GC_mark_some ==
  /\ \/ MarkSomeRescuers
     \/ MarkSomeUncollectable
     \/ MarkSomeRootsPushed
     \/ MarkSomeStartFull
     \/ MarkSomeInvalidDrain
     \/ MarkSomeInvalidScan
  /\ UNCHANGED <<client, alloc, vdb, ctl, policy>>

\* A call that returns TRUE: the mark phase is over.
MarkSomeDone ==
  /\ markState = "ROOTS_PUSHED"
  /\ markStack = {}
  /\ markState' = "NONE"
  /\ stackSize' \in GrownSizes
  /\ tooSmall' = FALSE
  /\ UNCHANGED <<marked, markStack, scanPtr, objectsAreMarked>>

-----------------------------------------------------------------------------
(***************************************************************************)
(* Collection control.                                                     *)
(***************************************************************************)

\* mutant: the bits to look at are those of the cycle before
GC_read_dirty_stale(output_unneeded) == UNCHANGED grungy /\ dirty' = {}

\* The manual GC_read_dirty: the bits set so far become the ones to look at.
GC_read_dirty(output_unneeded) ==
  /\ grungy' = IF output_unneeded THEN grungy ELSE dirty
  /\ dirty' = {}

\* mutant: the mark bits of one more block survive
SurvivingMarksOfBlock1(m) == {o \in m : KindOf(o) = "uncollectable"
                                         \/ BlockOf[o] = 1}
SurvivingMarks(m) == {o \in m : KindOf(o) = "uncollectable"}

\* GC_clear_marks: uncollectable blocks keep their mark bits.
GC_clear_marks(m) ==
  /\ marked' = SurvivingMarks(m)
  /\ objectsAreMarked' = FALSE
  /\ markState' = "INVALID"
  /\ scanPtr' = 0

MayStop(f) == f # "never"

\* GC_reclaim_all(0, TRUE) empties the reclaim lists, whatever it sweeps.
OnlySweptLeave(bs) == reclaimList \ bs   \* mutant: old blocks stay listed
ReclaimListAfter(bs) == {}

\* The choice of GC_maybe_gc in incremental mode, up to its GC_stopped_mark:
\* a full collection disposes of the reclaim lists (sweeping the blocks swept
\* in the last cycle, dropping the rest) and clears the mark bits.
GC_maybe_gc ==
  /\ pc' = "stopping"
  /\ frame' = "maybe"
  /\ stopFunc' = "timeout"
  /\ \/ /\ needFullGc \/ nPartialGcs >= FullFreq
        /\ \E bs \in SUBSET reclaimList :
             /\ GC_reclaim_generic(bs)
             /\ reclaimList' = ReclaimListAfter(bs)
             /\ GC_clear_marks(marked \cup SetHdrMarks(bs))
        /\ nPartialGcs' = 0
        /\ isFullGc' = TRUE
        /\ UNCHANGED stack
     \/ /\ ~(needFullGc \/ nPartialGcs >= FullFreq)
        /\ nPartialGcs' = nPartialGcs + 1
        /\ UNCHANGED <<heap, where, reclaimList, isFullGc, mark>>
  /\ UNCHANGED <<roots, pend, freeBlk, bytesAllocd, vdb, outer, incremental,
                 needFullGc, nAttempts>>

\* GC_collect_a_little_inner as called by an allocation: it goes on with the
\* collection in progress, or starts one if enough has been allocated.
GC_collect_a_little_inner ==
  /\ pc = "run"
  /\ \/ /\ incremental /\ InProgress
        /\ pc' = "little"
        /\ UNCHANGED <<client, alloc, mark, vdb, frame, stopFunc, outer,
                       incremental, policy>>
     \/ /\ incremental /\ ~InProgress
        /\ GC_maybe_gc
     \/ /\ ~incremental                     \* GC_gcollect_inner
        /\ pc' = "tryfull"
        /\ outer' = "never"
        /\ UNCHANGED <<client, alloc, mark, vdb, frame, stopFunc, incremental,
                       policy>>

ReturnFromLittle == IF outer = "none" THEN "run" ELSE "tryloop"

\* ... it has done its share of GC_mark_some calls without finishing
LittleQuit ==
  /\ pc = "little"
  /\ pc' = ReturnFromLittle
  /\ UNCHANGED <<client, alloc, mark, vdb, frame, stopFunc, outer, incremental,
                 policy>>

LittleMark == pc = "little" /\ GC_mark_some

\* GC_n_attempts < max_prior_attempts ? GC_timeout_stop_func : GC_never_stop_func
LittleStopFunc == IF nAttempts < MaxPrior THEN "timeout" ELSE "never"

\* ... the mark phase is over: follow up with the world stopped
LittleDone ==
  /\ pc = "little"
  /\ MarkSomeDone
  /\ pc' = "stopping"
  /\ frame' = "little"
  /\ stopFunc' = LittleStopFunc
  /\ UNCHANGED <<client, alloc, vdb, outer, incremental, policy>>

\* GC_try_to_collect_inner, from GC_gcollect, GC_try_to_collect or
\* GC_collect_or_expand
GC_try_to_collect_inner(f) ==
  /\ pc = "run"
  /\ pc' = IF incremental /\ InProgress THEN "tryloop" ELSE "tryfull"
  /\ outer' = f
  /\ UNCHANGED <<client, alloc, mark, vdb, frame, stopFunc, incremental, policy>>

\* Stop_func said so before anything was changed: still consistent.
TryGiveUp ==
  /\ \/ pc = "tryloop" /\ InProgress
     \/ pc = "tryfull" /\ reclaimList # {}
  /\ outer = "client"
  /\ pc' = "run"
  /\ outer' = "none"
  /\ UNCHANGED <<client, alloc, mark, vdb, frame, stopFunc, incremental, policy>>

\* while (GC_collection_in_progress()) GC_collect_a_little_inner(1)
TryFinishCurrent ==
  /\ pc = "tryloop"
  /\ pc' = IF InProgress THEN "little" ELSE "tryfull"
  /\ UNCHANGED <<client, alloc, mark, vdb, frame, stopFunc, outer, incremental,
                 policy>>

\* One block of GC_reclaim_all(stop_func, FALSE).
TryReclaimAll(b) ==
  /\ pc = "tryfull"
  /\ outer = "client"
  /\ b \in reclaimList
  /\ GC_reclaim_generic({b})
  /\ marked' = marked \cup SetHdrMarks({b})
  /\ reclaimList' = reclaimList \ {b}
  /\ UNCHANGED <<roots, pend, freeBlk, bytesAllocd, markState, stack, scanPtr,
                 objectsAreMarked, vdb, ctl, policy>>

\* A collection that cannot be stopped leaves the reclaim lists alone.
SweptBeforeClear == outer = "client" => reclaimList = {}
TryStart ==
  /\ pc = "tryfull"
  /\ SweptBeforeClear
  /\ markStack' = {}                        \* GC_invalidate_mark_state
  /\ GC_clear_marks(marked)
  /\ isFullGc' = TRUE
  /\ pc' = "stopping"
  /\ frame' = "try"
  /\ stopFunc' = IF outer = "client" THEN "client" ELSE "never"
  /\ UNCHANGED <<client, alloc, stackSize, tooSmall, vdb, outer, incremental,
                 needFullGc, nPartialGcs, nAttempts>>

\* GC_stopped_mark: STOP_WORLD and GC_initiate_gc
StopWorld ==
  /\ pc = "stopping"
  /\ pc' = "stopped"
  /\ IF incremental THEN GC_read_dirty(markState = "INVALID") ELSE UNCHANGED vdb
  /\ markState' = IF markState = "NONE" THEN "PUSH_RESCUERS" ELSE markState
  /\ scanPtr' = 0
  /\ UNCHANGED <<client, alloc, marked, stack, objectsAreMarked, frame,
                 stopFunc, outer, incremental, policy>>

StoppedMark == pc = "stopped" /\ GC_mark_some

\* GC_n_attempts++, except for the first stop of a full collection
NotCounted == nAttempts       \* mutant: attempts are not counted
AttemptsCounted == IF frame = "little" \/ (frame = "maybe" /\ ~isFullGc)
                   THEN nAttempts + 1 ELSE nAttempts

\* The stop function returned TRUE: START_WORLD, and the caller's reaction.
AbandonStoppedMark ==
  /\ pc = "stopped"
  /\ MayStop(stopFunc)
  /\ IF frame = "try" /\ ~incremental
     THEN markState' = "INVALID" /\ markStack' = {}
     ELSE UNCHANGED <<markState, markStack>>
  /\ nAttempts' = AttemptsCounted
  /\ pc' = IF frame = "try" THEN "run" ELSE ReturnFromLittle
  /\ outer' = IF frame = "try" THEN "none" ELSE outer
  /\ frame' = "none"
  /\ stopFunc' = "never"
  /\ UNCHANGED <<client, alloc, marked, stackSize, tooSmall, scanPtr,
                 objectsAreMarked, vdb, incremental,
                 isFullGc, needFullGc, nPartialGcs>>

\* Marking is complete: START_WORLD.
StoppedMarkDone ==
  /\ pc = "stopped"
  /\ MarkSomeDone
  /\ pc' = "finish"
  /\ UNCHANGED <<client, alloc, vdb, frame, stopFunc, outer, incremental, policy>>

\* GC_finish_collection: free-list objects lose their mark bits, the free
\* lists are dropped (GC_start_reclaim), blocks without a mark are freed, and
\* blocks worth it are enqueued for sweeping (GC_reclaim_block).
NearlyFull(b, m) == Cardinality(m \cap ObjsIn(b)) > (Cardinality(ObjsIn(b)) * 7) \div 8
GC_finish_collection ==
  LET m == {o \in marked : where[o] # "free"}
      empty == {b \in Block : InUse(b) /\ m \cap ObjsIn(b) = {}}
  IN /\ pc = "finish"
     /\ marked' = m
     /\ freeBlk' = freeBlk \cup empty
     /\ where' = [o \in Obj |-> IF where[o] = "free" \/ BlockOf[o] \in empty
                                THEN "none" ELSE where[o]]
     /\ reclaimList' = {b \in Block \ (freeBlk \cup empty) : ~NearlyFull(b, m)}
     /\ needFullGc' \in IF isFullGc THEN {FALSE} ELSE BOOLEAN
     /\ isFullGc' = FALSE
     /\ nAttempts' = 0
     /\ bytesAllocd' = FALSE
     /\ pc' = IF frame = "try" THEN "run" ELSE ReturnFromLittle
     /\ outer' = IF frame = "try" THEN "none" ELSE outer
     /\ frame' = "none"
     /\ stopFunc' = "never"
     /\ IF outer = "enable" /\ frame = "try" THEN GC_read_dirty(FALSE) ELSE UNCHANGED vdb
     /\ UNCHANGED <<client, markState, stack, scanPtr, objectsAreMarked,
                    incremental, nPartialGcs>>

\* GC_enable_incremental on an initialized collector: a full collection if
\* anything was allocated since the last one, then GC_read_dirty.
GC_enable_incremental ==
  /\ pc = "run"
  /\ ~incremental
  /\ incremental' = TRUE
  /\ IF bytesAllocd
     THEN /\ pc' = IF InProgress THEN "tryloop" ELSE "tryfull"
          /\ outer' = "enable"
          /\ UNCHANGED vdb
     ELSE /\ GC_read_dirty(FALSE)
          /\ UNCHANGED <<pc, outer>>
  /\ UNCHANGED <<client, alloc, mark, frame, stopFunc, policy>>

-----------------------------------------------------------------------------
Client ==
  \/ \E o \in Obj, f \in Field : Load(o, f) \/ GC_dirty(o, f)
  \/ \E o \in Obj, f \in Field, v \in Obj \cup {Null} : Store(o, f, v)
  \/ \E o \in Obj : DropRoot(o) \/ GC_malloc(o) \/ GC_malloc_tl(o) \/ GC_free(o)
  \/ \E k \in Kinds : GC_malloc_many(k)

Allocator == \E b \in Block : \/ GC_continue_reclaim(b) \/ GC_new_hblk(b)
                             \/ GC_malloc_many_swept(b) \/ GC_malloc_many_fresh(b)

Control ==
  \/ GC_collect_a_little_inner \/ LittleQuit \/ LittleMark \/ LittleDone
  \/ \E f \in StopFuncs : GC_try_to_collect_inner(f)
  \/ TryGiveUp \/ TryFinishCurrent \/ TryStart
  \/ \E b \in Block : TryReclaimAll(b)
  \/ StopWorld \/ StoppedMark \/ AbandonStoppedMark \/ StoppedMarkDone
  \/ GC_finish_collection
  \/ GC_enable_incremental

Next == Client \/ Allocator \/ Control

Spec == Init /\ [][Next]_vars

-----------------------------------------------------------------------------
(***************************************************************************)
(* Properties.                                                             *)
(***************************************************************************)
MarkStates == {"NONE", "PUSH_RESCUERS", "PUSH_UNCOLLECTABLE", "ROOTS_PUSHED",
               "PARTIALLY_INVALID", "INVALID"}

\* Every variable has its type (the C declarations, plus the bounds).
TypeOK ==
  /\ heap \in [Obj -> [Field -> Obj \cup {Null}]]
  /\ roots \subseteq Obj
  /\ pend \subseteq Obj \X Field
  /\ where \in [Obj -> {"used", "free", "tl", "none"}]
  /\ freeBlk \subseteq Block
  /\ reclaimList \subseteq Block
  /\ bytesAllocd \in BOOLEAN
  /\ marked \subseteq Obj
  /\ markState \in MarkStates
  /\ markStack \subseteq Obj \X Field
  /\ stackSize \in Nat
  /\ tooSmall \in BOOLEAN
  /\ scanPtr \in 0..(NBlocks + 1)
  /\ objectsAreMarked \in BOOLEAN
  /\ dirty \subseteq Block /\ grungy \subseteq Block
  /\ pc \in {"run", "little", "tryloop", "tryfull", "stopping", "stopped", "finish"}
  /\ frame \in {"none", "maybe", "little", "try"}
  /\ stopFunc \in {"never", "timeout", "client"}
  /\ outer \in {"none", "never", "client", "enable"}
  /\ incremental \in BOOLEAN /\ isFullGc \in BOOLEAN /\ needFullGc \in BOOLEAN
  /\ nPartialGcs \in Nat /\ nAttempts \in Nat

\* The collector never takes away an object the program can still reach:
\* whatever is reachable is neither on a free list nor in a freed block.
LiveKept == \A o \in Reachable : where[o] = "used"

\* GC_finish_collection "assumes mark bits are consistent": when marking has
\* completed, everything reachable, and every object a thread may allocate
\* without the lock, is marked, although the world is running again.
MarkBitsConsistent ==
  pc = "finish" => Reachable \cup TLFreeLists \subseteq marked

\* Sweep routines don't see cleared mark bits (GC_try_to_collect_inner): an
\* object of a block still to be swept that is reachable, or already on some
\* free list, is marked, so that GC_continue_reclaim neither takes it away nor
\* links it twice.  Only a collection that cannot be stopped is exempt.
SweepSeesMarks ==
  frame # "try" => \A o \in Obj : /\ BlockOf[o] \in reclaimList
                                  /\ o \in Reachable \/ where[o] \in {"free", "tl"}
                                  => o \in marked

\* GC_allocobj asserts that nothing is left to sweep while a full collection
\* is in progress.
NothingToSweepInFullGc == isFullGc /\ pc = "run" => reclaimList = {}

\* GC_generic_malloc_uncollectable asserts that what it returns is marked, and
\* it stays so: an uncollectable object is a root for as long as it is used.
UncollectableMarked ==
  \A o \in Obj : where[o] \in {"used", "free"} /\ KindOf(o) = "uncollectable"
                   => o \in marked

\* No step of the collector takes an object off a thread-local free list.
TLListKept ==
  [][\A o \in Obj : where[o] = "tl" => where'[o] \in {"tl", "used"}]_vars

\* What the marker may take for reachable: Reachable, plus what is reached
\* from integers that look like pointers and from the uncollectable free lists.
ConservativelyClosed(S) ==
  /\ Closed(S)
  /\ {o \in Junk : InUse(BlockOf[o])} \subseteq S
ConservativelyReachable ==
  {o \in Obj : \A S \in SUBSET Obj : ConservativelyClosed(S) => o \in S}

\* A full stop-the-world collection retains no floating garbage: at the end
\* of marking every marked object the client once got is (conservatively)
\* reachable, whatever happened in earlier, partial or abandoned collections.
NoFloatingGarbage ==
  [][pc = "stopped" /\ pc' = "finish" /\ frame = "try"
       => \A o \in marked : where[o] = "used" => o \in ConservativelyReachable]_vars

(***************************************************************************)
(* The inductive invariant behind LiveKept and MarkBitsConsistent.         *)
(***************************************************************************)

\* Blocks without a header hold nothing, and are not waiting to be swept.
BlocksConsistent ==
  /\ \A o \in Obj : BlockOf[o] \in freeBlk => where[o] = "none"
  /\ reclaimList \cap freeBlk = {}
  /\ \A b \in UncollectableBlocks \ freeBlk : \E o \in marked : BlockOf[o] = b
  /\ \A o \in Obj : where[o] = "tl" => KindOf(o) # "uncollectable"

\* The registers keep what a store in flight needs.
StoresKept == \A e \in pend : /\ e[1] \in roots
                              /\ heap[e[1]][e[2]] \in roots \cup {Null}

\* The tricolour invariant of an incremental collector without a read barrier:
\* a word of a marked reachable object that points to an unmarked one is still
\* to be looked at, because it is on the mark stack, was stored to since the
\* last GC_read_dirty, or lies in a block the current heap scan has yet to
\* reach.  MS_INVALID promises nothing.
Ungreyed(o, f) ==
  \/ <<o, f>> \in markStack
  \/ <<o, f>> \in pend
  \/ BlockOf[o] \in dirty
  \/ markState = "INVALID"
  \/ markState = "PARTIALLY_INVALID" /\ BlockOf[o] >= scanPtr
  \/ markState = "PUSH_RESCUERS" /\ BlockOf[o] \in grungy /\ BlockOf[o] >= scanPtr
  \/ /\ markState = "PUSH_UNCOLLECTABLE"
     /\ KindOf(o) = "uncollectable" /\ BlockOf[o] >= scanPtr
  \/ ~incremental /\ markState = "NONE" /\ bytesAllocd
  \/ outer = "enable" /\ pc = "tryfull"
Tricolour ==
  \A o \in Reachable \cap marked, f \in Field :
    KindOf(o) # "ptrfree" /\ heap[o][f] # Null
      => heap[o][f] \in marked \/ Ungreyed(o, f)

\* With the world stopped, nothing is dirty, and once the roots are pushed
\* they and the thread-local free lists are marked.
StoppedConsistent ==
  pc = "stopped" => /\ dirty = {}
                    /\ markState = "ROOTS_PUSHED" => roots \cup TLFreeLists \subseteq marked

\* Outside of incremental mode nothing tracks stores: if nothing has been
\* allocated since the last collection, everything reachable is marked.
CleanWhenIdle ==
  /\ ~incremental => dirty = {}
  /\ ~incremental /\ markState = "NONE" /\ ~bytesAllocd
       => Reachable \cup TLFreeLists \subseteq marked

\* What the marker's state says of the mark bits and the stack.
MarkerConsistent ==
  /\ markState = "NONE" => markStack = {}
  /\ ~objectsAreMarked => /\ marked \subseteq {o \in Obj : KindOf(o) = "uncollectable"}
                          /\ markStack = {}
                          /\ markState \notin {"PARTIALLY_INVALID", "ROOTS_PUSHED"}
                          /\ markState \in {"INVALID", "PUSH_UNCOLLECTABLE"}
                               => scanPtr = 0

\* Which callers are active where.
ControlConsistent ==
  /\ frame = "none" <=> pc \notin {"stopping", "stopped", "finish"}
  /\ pc = "run" => outer = "none"
  /\ pc \in {"tryfull", "tryloop"} \/ frame = "try" => outer # "none"
  /\ frame = "try" /\ stopFunc # "never" => reclaimList = {}
  /\ frame = "try" => (stopFunc = "never" <=> outer # "client")
  /\ frame \in {"maybe", "little"} \/ pc \in {"little", "tryloop"}
       \/ outer = "enable" => incremental
  /\ frame = "maybe" => outer = "none"
  /\ pc = "stopping" => markState \in {"NONE", "INVALID"}
  /\ pc = "stopping" /\ frame = "try" => markState = "INVALID"
  /\ pc = "stopped" => markState # "NONE"
  /\ pc = "stopped" /\ frame = "try" => markState # "PUSH_RESCUERS"
  /\ pc = "finish" => markState = "NONE"
  /\ ~incremental /\ pc # "stopped" => markState \in {"NONE", "INVALID"}
  /\ isFullGc /\ frame # "try" => reclaimList = {}

\* The inductive invariant: what every step of client, marker and collection
\* control preserves, and from which the other invariants follow.
IndInv ==
  /\ TypeOK /\ LiveKept /\ MarkBitsConsistent /\ SweepSeesMarks
  /\ UncollectableMarked /\ BlocksConsistent /\ StoresKept /\ Tricolour
  /\ StoppedConsistent /\ CleanWhenIdle /\ MarkerConsistent /\ ControlConsistent

(***************************************************************************)
(* The inductive invariant behind NoFloatingGarbage, next to IndInv.       *)
(***************************************************************************)

\* Mark bits are those of blocks with headers, and an object there that the
\* client does not use is cleared, so that nothing is reached through it.
UnusedCleared ==
  \A o \in Obj : /\ o \in marked => InUse(BlockOf[o])
                 /\ InUse(BlockOf[o]) /\ where[o] # "used" => heap[o] = Cleared

\* A stop-the-world collection starts with no marks but those of uncollectable
\* objects, and what it marks is conservatively reachable or not in use.
TryMarksReachable ==
  frame = "try" =>
    /\ pc = "stopping" => ~objectsAreMarked
    /\ pc = "stopped" =>
         /\ \A o \in marked : where[o] = "used" => o \in ConservativelyReachable
         /\ \A e \in markStack : e[1] \in marked /\ KindOf(e[1]) # "ptrfree"

FloatInv == UnusedCleared /\ TryMarksReachable

\* The inductive invariants of both arguments: what is reachable is kept, and
\* what a stop-the-world collection keeps is reachable.
CollectorInv == IndInv /\ FloatInv

(***************************************************************************)
(* Liveness.  The holder of the lock keeps running; the client keeps       *)
(* allocating, so that GC_collect_a_little_inner is called again and again *)
(* and, GC_deficit being worn down by every call, gets to mark.            *)
(***************************************************************************)
Fairness ==
  /\ WF_vars(StopWorld \/ GC_finish_collection \/ TryStart \/ TryFinishCurrent)
  /\ WF_vars(StoppedMark \/ StoppedMarkDone)
  /\ WF_vars(\E b \in Block : TryReclaimAll(b))
  /\ SF_vars(GC_collect_a_little_inner)
  /\ SF_vars(LittleMark \/ LittleDone)
FairSpec == Spec /\ Fairness

\* A collection begun incrementally is completed, however often its attempts
\* to mark with the world stopped time out.
CollectionCompletes == incremental /\ InProgress ~> pc = "finish"
=============================================================================
