----------------------------- MODULE DebugHeap -----------------------------
(* Objects with debugging information (dbg_mlc.c) and the leak finder         *)
(* (reclaim.c): guard words around what the client asked for, lists of        *)
(* smashed and of leaked objects that the collector fills with the lock and   *)
(* that are printed later without it.  Sizes are in words.                    *)
EXTENDS Integers, Sequences, FiniteSets, SequencesExt

CONSTANTS
  DbThread, NDbg,            \* threads; objects are 1..NDbg
  BodyWords,                 \* words of an object after its header
  DbSizes,                   \* sizes that clients ask for
  DbModes,                   \* subset of {"plain", "leak", "delay"}
  MAX_SMASHED, MAX_LEAKED,
  MaxErrors, MaxDbGcs        \* bounds: errors of the client, collections

DbObj == 1..NDbg
ASSUME DebugAssumption ==
  /\ \A n \in DbSizes : n \in 0..(BodyWords - 1)
  /\ MAX_SMASHED >= 1 /\ MAX_LEAKED >= 1

VARIABLES
  dbMode,       \* GC_find_leak ("leak"), with GC_findleak_delay_free ("delay")
  mem,          \* each object's oh_sz and oh_sf, and its body
  used,         \* objects that are on no free list
  held,         \* objects the client can reach
  kept,         \* objects of an uncollectable kind
  smashed, nSmashed,     \* GC_smashed, GC_n_smashed
  dbLeaked,              \* GC_leaked
  haveErrors, printing,  \* GC_have_errors, printing_errors
  pr,           \* where each thread is in printing, with its copy of GC_leaked
  log           \* what happened: frees, client errors, overlaps, reports
dbgLists == <<smashed, nSmashed, dbLeaked, haveErrors, printing, pr>>
debugVars == <<dbMode, mem, used, held, kept, dbgLists, log>>

PrIdle == [pc |-> "idle", i |-> 0, leaked |-> <<>>, errors |-> FALSE]
\* The body after GC_free or a sweep: cleared.
Cleared == [sz |-> 0, sf |-> FALSE, w |-> [k \in 0..(BodyWords - 1) |-> "data"]]
GcSize == BodyWords + 1     \* an oh_sz no client asks for

DebugInit ==
  /\ dbMode \in DbModes /\ mem = [o \in DbObj |-> Cleared]
  /\ used = {} /\ held = {} /\ kept = {}
  /\ smashed = [i \in 0..(MAX_SMASHED - 1) |-> 0] /\ nSmashed = 0
  /\ dbLeaked = <<>> /\ haveErrors = FALSE /\ printing = FALSE
  /\ pr = [t \in DbThread |-> PrIdle]
  /\ log = [frees |-> [o \in DbObj |-> 0], bad |-> {}, late |-> {}, nbad |-> 0, gcs |-> 0,
            overlap |-> FALSE, overflow |-> FALSE, crash |-> FALSE]

-----------------------------------------------------------------------------
Guarded(lb) == [k \in 0..(BodyWords - 1) |-> IF k \in {lb, BodyWords - 1} THEN "end" ELSE "data"]
GC_store_debug_info_inner(lb) == [sz |-> lb, sf |-> TRUE, w |-> Guarded(lb)]

\* 1: an object with debugging information, -1: one that was deallocated.
GC_has_other_debug_info(m) ==
  IF ~m.sf /\ m.w[BodyWords - 1] # "end" THEN 0 ELSE IF m.sz = GcSize THEN -1 ELSE 1
\* GC_check_annotated_obj: whether there is a clobbered location.
Clobbered(m) ==
  m.sz + 1 > BodyWords \/ ~m.sf \/ m.w[BodyWords - 1] # "end" \/ m.w[m.sz] # "end"

\* GC_debug_malloc and its relatives, for a collectable and an uncollectable kind.
Allocated(o, lb, unc) ==
  /\ o \notin used
  /\ mem' = [mem EXCEPT ![o] = GC_store_debug_info_inner(lb)]
  /\ used' = used \cup {o} /\ kept' = IF unc THEN kept \cup {o} ELSE kept \ {o}
GC_debug_malloc(o, lb, unc) ==
  /\ Allocated(o, lb, unc) /\ held' = held \cup {o}
  /\ log' = [log EXCEPT !.frees[o] = 0, !.bad = @ \ {o}, !.late = @ \ {o}]
  /\ UNCHANGED <<dbMode, dbgLists>>

\* GC_free: the object is cleared and put in a free list.
FreedAtOnce(o) ==
  /\ mem' = [mem EXCEPT ![o] = Cleared] /\ used' = used \ {o} /\ kept' = kept \ {o}
FreedMarker == [k \in 0..(BodyWords - 1) |-> "freed"]
FreedBefore(o) == Clobbered(mem[o]) /\ mem[o].sz = GcSize
\* GC_debug_free.  The memory stays until the next collection, unless the
\* kind is uncollectable or leaks are looked for without a delay.
GC_debug_free(o) ==
  /\ o \in used /\ o \in held
  /\ haveErrors' = (haveErrors \/ Clobbered(mem[o]))
  /\ IF FreedBefore(o) THEN UNCHANGED <<mem, used, held, kept, log>>
     ELSE /\ log' = [log EXCEPT !.frees[o] = @ + 1]
          /\ \/ /\ dbMode = "leak" \/ o \in kept
                /\ FreedAtOnce(o) /\ held' = held \ {o}
             \/ /\ dbMode # "leak" /\ o \notin kept
                /\ mem' = [mem EXCEPT ![o] = [@ EXCEPT !.sz = GcSize, !.w = FreedMarker]]
                /\ UNCHANGED <<used, held, kept>>
  /\ UNCHANGED <<dbMode, smashed, nSmashed, dbLeaked, printing, pr>>
\* GC_debug_realloc: a new object and, if there was memory for it, no old one.
GC_debug_realloc(o, new, lb) ==
  /\ o \in used /\ o \in held /\ new \notin used /\ mem[o].sz # GcSize /\ ~Clobbered(mem[o])
  /\ \E m \in {[mem EXCEPT ![new] = GC_store_debug_info_inner(lb)]} :
       \/ /\ dbMode = "leak" \/ o \in kept
          /\ mem' = [m EXCEPT ![o] = Cleared]
          /\ used' = (used \cup {new}) \ {o}
          /\ kept' = IF o \in kept THEN (kept \cup {new}) \ {o} ELSE kept \ {new}
       \/ /\ dbMode # "leak" /\ o \notin kept
          /\ mem' = [m EXCEPT ![o] = [@ EXCEPT !.sz = GcSize, !.w = FreedMarker]]
          /\ used' = used \cup {new} /\ kept' = kept \ {new}
  /\ held' = (held \cup {new}) \ {o}
  /\ log' = [log EXCEPT !.frees[o] = @ + 1, !.frees[new] = 0, !.bad = @ \ {new},
                        !.late = @ \ {new}]
  /\ UNCHANGED <<dbMode, dbgLists>>

\* The client: stores beyond the end, before the start, or after GC_debug_free.
StoreBad(o, k) ==
  /\ o \in used \cap held /\ log.nbad < MaxErrors
  /\ \/ mem[o].sz # GcSize /\ k \in mem[o].sz..(BodyWords - 1)
     \/ mem[o].sz = GcSize /\ k \in 0..(BodyWords - 1)
  /\ mem' = [mem EXCEPT ![o].w[k] = "data"]
  /\ log' = [log EXCEPT !.nbad = @ + 1, !.bad = IF mem[o].sz # GcSize THEN @ \cup {o} ELSE @,
                        !.late = IF mem[o].sz = GcSize THEN @ \cup {o} ELSE @]
  /\ UNCHANGED <<dbMode, used, held, kept, dbgLists>>
StoreBefore(o) ==
  /\ o \in used \cap held /\ log.nbad < MaxErrors /\ mem[o].sz # GcSize /\ mem[o].sf
  /\ mem' = [mem EXCEPT ![o].sf = FALSE]
  /\ log' = [log EXCEPT !.nbad = @ + 1, !.bad = @ \cup {o}]
  /\ UNCHANGED <<dbMode, used, held, kept, dbgLists>>
Forget(o) ==
  /\ o \in held /\ held' = held \ {o} /\ UNCHANGED <<dbMode, mem, used, kept, dbgLists, log>>

-----------------------------------------------------------------------------
\* The collector, with the lock.  x: the lists and the mark bits.
GC_add_smashed(x, o) ==
  [x EXCEPT !.sm[x.n] = o, !.n = IF x.n < MAX_SMASHED - 1 THEN @ + 1 ELSE @,
            !.over = @ \/ x.n = MAX_SMASHED - 1, !.err = TRUE]
GC_check_heap_block(x, o) ==
  IF o \in x.marks /\ GC_has_other_debug_info(mem[o]) > 0 /\ Clobbered(mem[o])
  THEN GC_add_smashed(x, o) ELSE x
AlteredAfterFree(m) == \E k \in 0..(BodyWords - 1) : m.w[k] # "freed"
GC_add_leaked(x, o) ==
  [x EXCEPT !.err = TRUE, !.lk = IF Len(@) < MAX_LEAKED THEN Append(@, o) ELSE @,
            !.marks = IF Len(x.lk) < MAX_LEAKED THEN @ \cup {o} ELSE @]
GC_check_leaked(o) == GC_has_other_debug_info(mem[o]) >= 0
GC_reclaim_check(x, o) ==
  IF dbMode = "plain" \/ o \in x.marks \/ o \notin used THEN x
  ELSE IF dbMode = "delay" /\ ~GC_check_leaked(o)
  THEN IF AlteredAfterFree(mem[o])
       THEN GC_add_smashed([x EXCEPT !.marks = @ \cup {o}], o) ELSE x
  ELSE GC_add_leaked(x, o)

\* GC_stopped_mark checks the heap, GC_finish_collection looks for leaks and
\* sweeps.  The lists, and the copies of them on threads' stacks, are roots.
Roots_ == held \cup kept \cup ToSet(dbLeaked) \cup {smashed[i] : i \in DOMAIN smashed}
            \cup UNION {ToSet(pr[t].leaked) : t \in DbThread}
DbgCollect ==
  /\ log.gcs < MaxDbGcs
  /\ \E x \in {FoldLeft(GC_reclaim_check,
                        FoldLeft(GC_check_heap_block,
                                 [sm |-> smashed, n |-> nSmashed, lk |-> dbLeaked, err |-> haveErrors,
                                  marks |-> Roots_ \cap used, over |-> log.overflow],
                                 [o \in 1..NDbg |-> o]), [o \in 1..NDbg |-> o])} :
       /\ smashed' = x.sm /\ nSmashed' = x.n /\ dbLeaked' = x.lk /\ haveErrors' = x.err
       /\ used' = used \cap x.marks
       /\ mem' = [o \in DbObj |-> IF o \in used \ x.marks THEN Cleared ELSE mem[o]]
       /\ log' = [log EXCEPT !.gcs = @ + 1, !.overflow = x.over,
                             !.overlap = @ \/ (\E t \in DbThread : pr[t].pc = "smash")]
  /\ UNCHANGED <<dbMode, held, kept, printing, pr>>

-----------------------------------------------------------------------------
\* Printing, without the lock but for GC_print_all_errors's start and end.
Overlap(t) == [log EXCEPT !.overlap = @ \/ (\E u \in DbThread \ {t} : pr[u].pc = "smash")]
ListTaken == <<>>
NobodyPrints == ~printing
GC_print_all_errors(t) ==
  /\ pr[t].pc = "idle" /\ haveErrors /\ NobodyPrints
  /\ printing' = TRUE
  /\ pr' = [pr EXCEPT ![t] = [pc |-> "smash", i |-> 0, leaked |-> dbLeaked, errors |-> TRUE]]
  /\ dbLeaked' = ListTaken /\ log' = Overlap(t)
  /\ UNCHANGED <<dbMode, mem, used, held, kept, smashed, nSmashed, haveErrors>>
\* GC_try_to_collect_general prints the smashed objects only.
PrintBeforeCollect(t) ==
  /\ pr[t].pc = "idle" /\ nSmashed > 0
  /\ pr' = [pr EXCEPT ![t] = [PrIdle EXCEPT !.pc = "smash"]]
  /\ log' = Overlap(t)
  /\ UNCHANGED <<dbMode, mem, used, held, kept, smashed, nSmashed, dbLeaked, haveErrors, printing>>
\* GC_print_all_smashed_proc: one object, or the end of the list.
NoneLeft == 0
GC_print_all_smashed(t) ==
  /\ pr[t].pc = "smash" /\ ~log.crash
  /\ \/ /\ pr[t].i < nSmashed
        /\ log' = [log EXCEPT !.crash = smashed[pr[t].i] = 0]
        /\ smashed' = [smashed EXCEPT ![pr[t].i] = 0]
        /\ pr' = [pr EXCEPT ![t].i = @ + 1]
        /\ UNCHANGED nSmashed
     \/ /\ pr[t].i >= nSmashed
        /\ nSmashed' = NoneLeft
        /\ pr' = [pr EXCEPT ![t] = IF pr[t].errors THEN [@ EXCEPT !.pc = "leaks"] ELSE PrIdle]
        /\ UNCHANGED <<smashed, log>>
  /\ UNCHANGED <<dbMode, mem, used, held, kept, dbLeaked, haveErrors, printing>>
PrintLeaked(t) ==
  /\ pr[t].pc = "leaks"
  /\ \/ /\ pr[t].leaked # <<>>
        /\ FreedAtOnce(Head(pr[t].leaked))
        /\ log' = [log EXCEPT !.frees[Head(pr[t].leaked)] = @ + 1]
        /\ pr' = [pr EXCEPT ![t].leaked = Tail(@)]
        /\ UNCHANGED printing
     \/ /\ pr[t].leaked = <<>>
        /\ printing' = FALSE /\ pr' = [pr EXCEPT ![t] = PrIdle]
        /\ UNCHANGED <<mem, used, kept, log>>
  /\ UNCHANGED <<dbMode, held, smashed, nSmashed, dbLeaked, haveErrors>>

DebugNext ==
  \/ \E o \in DbObj, lb \in DbSizes, unc \in BOOLEAN : GC_debug_malloc(o, lb, unc)
  \/ \E o, new \in DbObj, lb \in DbSizes : GC_debug_realloc(o, new, lb)
  \/ \E o \in DbObj : \/ GC_debug_free(o) \/ StoreBefore(o) \/ Forget(o)
                      \/ \E k \in 0..(BodyWords - 1) : StoreBad(o, k)
  \/ DbgCollect
  \/ \E t \in DbThread : \/ GC_print_all_errors(t) \/ PrintBeforeCollect(t)
                         \/ GC_print_all_smashed(t) \/ PrintLeaked(t)
DebugSpec == DebugInit /\ [][DebugNext]_debugVars

-----------------------------------------------------------------------------
\* Types; what is listed is in use; one thread at most prints errors.
DebugTypeOK ==
  /\ nSmashed \in 0..(MAX_SMASHED - 1) /\ Len(dbLeaked) <= MAX_LEAKED
  /\ held \subseteq used /\ kept \subseteq used
  /\ Cardinality({t \in DbThread : pr[t].errors}) = IF printing THEN 1 ELSE 0

DbListed == dbLeaked \o FoldSet(LAMBDA t, s : s \o pr[t].leaked, <<>>, DbThread)
\* An object whose guard words are intact is deallocated once, by the client or
\* as a leak, although the client calls GC_debug_free again and leaks are
\* printed while others collect; and what is listed as a leak is in use, once,
\* and is an object the client lost and did not free.
FreedOnce ==
  /\ \A o \in DbObj \ log.bad : log.frees[o] <= 1
  /\ IsInjective(DbListed)
  /\ \A o \in ToSet(DbListed) : o \in used \ held /\ (o \in log.bad \/ log.frees[o] = 0)

Damaged(o) ==
  /\ o \in log.bad /\ mem[o].sz # GcSize /\ GC_has_other_debug_info(mem[o]) # 0
  /\ mem[o] # GC_store_debug_info_inner(mem[o].sz)
ChangedLate(o) == dbMode = "delay" /\ o \in log.late /\ GC_has_other_debug_info(mem[o]) # 0
\* A collection lists exactly the objects in use whose guard words are
\* overwritten, as long as one of the two that mark such objects is left, and
\* those to be reclaimed that were changed after GC_debug_free; unless there
\* are more than fit in the list.
SmashedFound ==
  [][log'.gcs > log.gcs /\ ~log'.overflow =>
       {smashed'[i] : i \in nSmashed..(nSmashed' - 1)} =
         {o \in used : IF o \in Roots_ THEN Damaged(o) ELSE ChangedLate(o)}]_debugVars

\* While no other thread prints or collects, a thread that prints the smashed
\* objects meets no empty entry.
NoEmptyEntry == log.overlap \/ ~log.crash

\* "Print all objects on the list.  Clear the list."
SmashedCleared == nSmashed = 0 /\ ~log.overlap => \A i \in DOMAIN smashed : smashed[i] = 0

\* The lists of errors hold real objects, each dealt with once.
DebugSound == DebugTypeOK /\ FreedOnce /\ NoEmptyEntry
=============================================================================
