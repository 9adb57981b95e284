------------------------------ MODULE HeapGrowth ------------------------------
(***************************************************************************)
(* When the collector collects and when it asks the system for memory      *)
(* (alloc.c, the end of GC_init in misc.c, GC_alloc_large in malloc.c).    *)
(*                                                                         *)
(* An allocation that finds no free block calls GC_collect_or_expand until *)
(* it succeeds or gives up.  The pacing (GC_should_collect and the         *)
(* counters it reads) decides between a collection and a larger heap.      *)
(* Collector models what a collection does to objects, HeapBlocks where    *)
(* blocks are placed and HeapSections where memory comes from; here blocks *)
(* are only counted.                                                       *)
(*                                                                         *)
(* The allocation lock is held from the first attempt to the result, so    *)
(* the program moves only between two calls.                               *)
(***************************************************************************)
EXTENDS Integers

CONSTANTS
    SystemBlocks,        \* blocks that the system can give
    HBLKSIZE,            \* words in a block
    InitialBlocks,       \* GC_INITIAL_HEAP_SIZE, in blocks
    MINHINCR, MAXHINCR,  \* least and usual greatest heap increment, in blocks
    BlackListSlop,       \* 2 * divHBLKSZ(BL_LIMIT)
    RootWords,           \* GC_root_size and the stacks, in words
    FreeSpaceDivisor,    \* GC_free_space_divisor
    PerFinalizer,        \* GC_allocd_bytes_per_finalizer
    Wanted,              \* numbers of blocks the program asks for
    MaxFreed,            \* bound on the words freed explicitly in a cycle
    GrowthConfigs        \* settings of the collector, one chosen at the start

ASSUME GrowthAssumption ==
    /\ {HBLKSIZE, MINHINCR, FreeSpaceDivisor} \subseteq Nat \ {0}
    /\ MAXHINCR \in Nat /\ MAXHINCR >= MINHINCR
    /\ {SystemBlocks, InitialBlocks, BlackListSlop, RootWords, PerFinalizer, MaxFreed} \subseteq Nat
    /\ Wanted \subseteq Nat \ {0}
    /\ GrowthConfigs \subseteq
         [incremental : BOOLEAN, dontGc : BOOLEAN, dontExpand : BOOLEAN,
          disableAuto : BOOLEAN, max : Nat, retries : Nat]

VARIABLES
    size,     \* GC_heapsize and the blocks the system has left
    pace,     \* the counters behind GC_should_collect and GC_collect_or_expand
    use,      \* how many blocks of the heap are in which use
    call,     \* the allocation in progress
    gconf     \* the settings

growthVars == <<size, pace, use, call, gconf>>

------------------------------------------------------------------------------
(* Pacing *)

\* The threshold for a heap with inUse words in use.
min_bytes_allocd(inUse) ==
    LET scan  == (2 * inUse + RootWords) \div FreeSpaceDivisor
        least == IF gconf.incremental THEN scan \div 2 ELSE scan
    IN IF least > 1 THEN least ELSE 1

GC_adj_bytes_allocd(p) ==
    LET counted == p.allocd - p.freed + p.finalized
    IN IF counted < p.allocd \div 8 THEN p.allocd \div 8 ELSE counted

\* lastMin is computed by the first call after a collection, and is 0 before any.
GC_should_collect(p) ==
    /\ ~gconf.disableAuto
    /\ p.grown \/ GC_adj_bytes_allocd(p) >= p.lastMin

------------------------------------------------------------------------------
(* A collection, as the heap's size and the counters see it *)

\* GC_finalize revives unreachable objects that have a finalizer and queues them.
UseAfterGc(u) == [u EXCEPT !.free = @ + u.junk, !.junk = 0,
                           !.live = @ + u.doomed, !.doomed = 0]

PaceAfterGc(p, u) ==
    [p EXCEPT !.allocd = 0, !.freed = 0, !.finalized = u.doomed * HBLKSIZE, !.grown = FALSE,
              !.lastMin = min_bytes_allocd((u.live + u.fin + u.doomed) * HBLKSIZE)]

\* Entries of the finalizer table.
GC_fo_entries(u) == u.fin + u.doomed

------------------------------------------------------------------------------
(* The heap grows *)

ExceedsLimit(bytes) ==
    /\ gconf.max # 0
    /\ gconf.max < bytes \/ size.heap > gconf.max - bytes

(***************************************************************************)
(* The results of GC_expand_hp_inner(n).  The system may refuse the        *)
(* memory.  GC_add_to_heap may lose the first or last block or, without a  *)
(* header, all of them, and GC_expand_hp_inner succeeds all the same.      *)
(***************************************************************************)
AtLeastOne(n) == IF n = 0 THEN 1 ELSE n
GC_expand_hp_inner(n) ==
    LET k == AtLeastOne(n)
    IN {[ok |-> FALSE, s |-> size]}
         \cup {[ok |-> TRUE, s |-> [heap |-> size.heap + i * HBLKSIZE, left |-> size.left - k]]
                 : i \in IF ExceedsLimit(k * HBLKSIZE) \/ k > size.left THEN {} ELSE {0, k - 1, k}}

\* blocks_to_get in GC_collect_or_expand.
BlocksToGet(needed, ignoreOffPage) ==
    LET usual == (size.heap - pace.unmapAt) \div (HBLKSIZE * FreeSpaceDivisor) + needed
        slop  == IF ignoreOffPage THEN 4 ELSE IF BlackListSlop > needed THEN needed ELSE BlackListSlop
        sized == IF usual > MAXHINCR
                 THEN IF needed + slop > MAXHINCR THEN needed + slop ELSE MAXHINCR
                 ELSE IF usual < MINHINCR THEN MINHINCR ELSE usual
        room  == (gconf.max - size.heap) \div HBLKSIZE
    IN IF gconf.max > size.heap /\ sized > room
       THEN IF room > needed THEN room ELSE needed
       ELSE sized

\* The heap is to grow by n blocks, or by the needed ones if that fails.
Expansions(n, needed) ==
    GC_expand_hp_inner(n)
      \cup IF n = needed THEN {} ELSE GC_expand_hp_inner(needed)

PaceGrown(p, ok) == IF ok THEN [p EXCEPT !.grown = TRUE] ELSE p

\* What an expansion adds to the free blocks.
WithMemory(s) == [use EXCEPT !.free = @ + (s.heap - size.heap) \div HBLKSIZE]

------------------------------------------------------------------------------
NoCall(pc) == [pc |-> pc, kind |-> "small", need |-> 1, retry |-> FALSE, clean |-> TRUE]

GrowthInit ==
    /\ size = [heap |-> 0, left |-> SystemBlocks]
    /\ pace = [allocd |-> 0, freed |-> 0, finalized |-> 0, grown |-> TRUE, lastMin |-> 0,
               lastFo |-> 0, lastFin |-> 0, fail |-> 0, unmapAt |-> 0]
    /\ use = [free |-> 0, live |-> 0, fin |-> 0, junk |-> 0, doomed |-> 0]
    /\ call = NoCall("start")
    /\ gconf \in GrowthConfigs

\* The results of a collection that is not stopped: nothing if GC_dont_gc is set.
Collected(p, u) == IF gconf.dontGc THEN [p |-> p, u |-> u] ELSE [p |-> PaceAfterGc(p, u), u |-> UseAfterGc(u)]

GC_init ==
    /\ call.pc = "start"
    /\ \E r \in IF InitialBlocks = 0 THEN {[ok |-> TRUE, s |-> size]}
                ELSE GC_expand_hp_inner(InitialBlocks),
          precollect \in {TRUE, gconf.incremental} :
         LET u == WithMemory(r.s)
             c == IF precollect THEN Collected(PaceGrown(pace, r.ok), u) ELSE [p |-> PaceGrown(pace, r.ok), u |-> u]
         IN /\ size' = r.s
            /\ pace' = c.p /\ use' = c.u
            /\ call' = NoCall(IF r.ok THEN "idle" ELSE "exited")
    /\ UNCHANGED gconf

------------------------------------------------------------------------------
(* Allocation *)

\* A little marking, which may complete an incremental collection.
MayComplete == IF gconf.incremental /\ ~gconf.dontGc THEN BOOLEAN ELSE {FALSE}

\* GC_malloc and the others reach GC_allocobj or GC_alloc_large with the lock.
Allocate ==
    /\ call.pc = "idle"
    /\ \E kind \in {"small", "large", "offPage"}, n \in Wanted, done \in MayComplete :
         /\ kind = "small" => n = 1
         /\ call' = [call EXCEPT !.pc = "try", !.kind = kind, !.need = n, !.retry = FALSE,
                                 !.clean = pace.fail = 0]
         /\ pace' = IF done THEN PaceAfterGc(pace, use) ELSE pace
         /\ use' = IF done THEN UseAfterGc(use) ELSE use
    /\ UNCHANGED <<size, gconf>>

\* GC_allochblk, or a free list, has what is needed.
Succeed ==
    /\ call.pc = "try" /\ use.free >= call.need
    /\ use' = [use EXCEPT !.free = @ - call.need, !.live = @ + call.need]
    /\ pace' = [pace EXCEPT !.allocd = @ + call.need * HBLKSIZE, !.fail = 0]
    /\ call' = NoCall("idle")
    /\ UNCHANGED <<size, gconf>>

\* Nothing is free, or the free blocks are not in a row, or are black listed.
NotFound ==
    /\ call.pc = "try"
    /\ use.free < call.need \/ call.need > 1
    /\ call' = [call EXCEPT !.pc = "more"]
    /\ UNCHANGED <<size, pace, use, gconf>>

ManyFinalizers ==
    /\ GC_fo_entries(use) > pace.lastFo
    /\ pace.lastFin # 0 \/ pace.finalized # 0
    /\ (GC_fo_entries(use) - pace.lastFo) * PerFinalizer > pace.allocd

CollectsFirst ==
    /\ ~gconf.incremental /\ ~gconf.dontGc
    /\ \/ gconf.dontExpand /\ pace.allocd > 0
       \/ ManyFinalizers
       \/ GC_should_collect(pace)

\* GC_default_stop_func may stop the collection, GC_never_stop_func does not.
MayBeStopped == pace.allocd > 0 /\ (~gconf.dontExpand \/ ~call.retry)

FinalizersSeen(p, u) == [p EXCEPT !.lastFo = GC_fo_entries(u), !.lastFin = p.finalized]
Again == [call EXCEPT !.pc = "try", !.retry = TRUE]

CollectFirst ==
    /\ call.pc = "more" /\ CollectsFirst
    /\ \/ /\ use' = UseAfterGc(use)
          /\ pace' = FinalizersSeen(PaceAfterGc(pace, use), UseAfterGc(use))
       \/ /\ MayBeStopped /\ ~call.retry
          /\ pace' = FinalizersSeen(pace, use)
          /\ UNCHANGED use
    /\ call' = Again
    /\ UNCHANGED <<size, gconf>>

\* The collection was not tried (FALSE), or was stopped although this is a retry.
StoppedBefore == IF CollectsFirst THEN {s \in {TRUE} : MayBeStopped /\ call.retry} ELSE {FALSE}

\* GC_fail_count; beyond GC_max_retries its value makes no difference.
Counted(fail) == IF fail > gconf.retries THEN fail ELSE fail + 1

\* mutated form: one attempt less
GiveUpEarly(stopped) == ~stopped /\ pace.fail + 1 >= gconf.retries
GiveUp(stopped) == ~stopped /\ pace.fail >= gconf.retries

Expand ==
    /\ call.pc = "more"
    /\ \E stopped \in StoppedBefore,
          r \in Expansions(BlocksToGet(call.need, call.kind = "offPage"), call.need) :
         /\ size' = r.s
         /\ \/ /\ r.ok
               /\ pace' = PaceGrown(pace, TRUE)
               /\ use' = WithMemory(r.s)
               /\ call' = Again
            \/ /\ ~r.ok /\ ~GiveUp(stopped)
               /\ pace' = Collected([pace EXCEPT !.fail = IF stopped THEN @ ELSE Counted(@)], use).p
               /\ use' = Collected(pace, use).u
               /\ call' = Again
            \/ /\ ~r.ok /\ GiveUp(stopped)
               /\ pace' = [pace EXCEPT !.fail = Counted(@)]
               /\ call' = NoCall("idle")
               /\ UNCHANGED use
    /\ UNCHANGED gconf

------------------------------------------------------------------------------
(* The program between two allocations *)

RegisterFinalizer ==
    /\ call.pc = "idle" /\ use.live > 0 /\ GC_fo_entries(use) = 0
    /\ use' = [use EXCEPT !.live = @ - 1, !.fin = @ + 1]
    /\ UNCHANGED <<size, pace, call, gconf>>

Drop ==
    /\ call.pc = "idle"
    /\ \/ use.live > 0 /\ use' = [use EXCEPT !.live = @ - 1, !.junk = @ + 1]
       \/ use.fin > 0 /\ use' = [use EXCEPT !.fin = @ - 1, !.doomed = @ + 1]
    /\ UNCHANGED <<size, pace, call, gconf>>

GC_free ==
    /\ call.pc = "idle" /\ use.live > 0 /\ pace.freed + HBLKSIZE <= MaxFreed
    /\ use' = [use EXCEPT !.live = @ - 1, !.free = @ + 1]
    /\ pace' = [pace EXCEPT !.freed = @ + HBLKSIZE]
    /\ UNCHANGED <<size, call, gconf>>

\* GC_gcollect (which the stop function may stop) and GC_gcollect_and_unmap.
GC_try_to_collect_general ==
    /\ call.pc = "idle"
    /\ \E unmap \in BOOLEAN, stopped \in BOOLEAN :
         LET p == IF unmap THEN [pace EXCEPT !.unmapAt = size.heap] ELSE pace
             c == IF stopped THEN [p |-> p, u |-> use] ELSE Collected(p, use)
         IN /\ unmap => ~stopped
            /\ pace' = c.p /\ use' = c.u
    /\ UNCHANGED <<size, call, gconf>>

GC_expand_hp ==
    /\ call.pc = "idle"
    /\ \E n \in Wanted : \E r \in GC_expand_hp_inner(n) :
         /\ r.ok
         /\ size' = r.s /\ use' = WithMemory(r.s) /\ pace' = PaceGrown(pace, TRUE)
    /\ UNCHANGED <<call, gconf>>

GrowthNext ==
    \/ GC_init
    \/ Allocate \/ Succeed \/ NotFound \/ CollectFirst \/ Expand
    \/ RegisterFinalizer \/ Drop \/ GC_free
    \/ GC_try_to_collect_general \/ GC_expand_hp

\* The thread that allocates goes on.
GrowthFairness == WF_growthVars(Succeed \/ NotFound \/ CollectFirst \/ Expand)

GrowthSpec == GrowthInit /\ [][GrowthNext]_growthVars /\ GrowthFairness

------------------------------------------------------------------------------
(* Properties *)

\* The counters have their types, and the blocks add up to the heap.
GrowthTypeOK ==
    /\ call.pc \in {"start", "idle", "try", "more", "exited"}
    /\ call.need \in Wanted \cup {1} /\ call.retry \in BOOLEAN
    /\ pace.allocd \in 0 .. size.heap + MaxFreed
    /\ pace.freed \in 0 .. MaxFreed /\ pace.fail \in 0 .. gconf.retries + 1
    /\ pace.unmapAt \in 0 .. size.heap /\ size.left \in 0 .. SystemBlocks
    /\ size.heap = (use.free + use.live + use.fin + use.junk + use.doomed) * HBLKSIZE

(***************************************************************************)
(* With GC_max_retries set, an allocation after one that succeeded returns *)
(* NULL only when no garbage is left: at least one collection that nobody  *)
(* may stop comes between the last refusal of memory and NULL, whatever    *)
(* the stop function and the pacing did before.                            *)
(***************************************************************************)
NullWhenFull ==
    [][(call.pc = "more" /\ call'.pc = "idle" /\ call.clean /\ gconf.retries > 0 /\ ~gconf.dontGc)
         => use.junk = 0]_growthVars

(***************************************************************************)
(* Every allocation returns: the loop of GC_allocobj and GC_alloc_large    *)
(* around GC_collect_or_expand ends, with memory or NULL, in all settings, *)
(* although the stop function may stop collections, finalization counts as *)
(* allocation and a collection may free nothing.                           *)
(***************************************************************************)
AllocReturns == (call.pc \in {"try", "more"}) ~> (call.pc = "idle")
=============================================================================
