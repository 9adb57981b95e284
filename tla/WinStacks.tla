----------------------------- MODULE WinStacks ------------------------------
(* Finding stacks on Windows (win32_threads.c): the hot end of a thread's    *)
(* stack is found with VirtualQuery, one page at a time, starting from the   *)
(* minimum known from the last collection, with the last answer cached; and  *)
(* the walk over the address space that finds the data of DLLs must leave    *)
(* these stacks out (dyn_load.c, GC_cond_add_roots).                         *)
EXTENDS Integers, Sequences, FiniteSets, FiniteSetsExt

CONSTANTS
  Pages,        \* what each page of the address space is: an area of AreaOf's
                \* range, "data" (MEM_IMAGE), "heap" or "free"
  PageSize,     \* words of a page
  StkThread,    \* registered threads
  StkSelf,      \* the one that collects
  AreaOf,       \* the stack each starts on
  Private,      \* MEM_PRIVATE sections are roots as well (values)
  StackGcs      \* bound: collections

NPg == Len(Pages)
Pg == 0 .. NPg - 1
What(p) == Pages[p + 1]
AreaPages(a) == { p \in Pg : What(p) = a }
Areas == { Pages[i] : i \in 1 .. NPg } \ {"data", "heap", "free"}
ADDR_LIMIT == NPg * PageSize
Word == 0 .. ADDR_LIMIT - 1
StackPage(s) == s \div PageSize
Top(a) == (Max(AreaPages(a)) + 1) * PageSize - 1

ASSUME WinStacksAssumption ==
  /\ PageSize \in Nat \ {0} /\ StkSelf \in StkThread /\ Private \subseteq BOOLEAN /\ StackGcs \in Nat
  /\ \A t \in StkThread : AreaOf[t] \in Areas

VARIABLES
  memPrivate,       \* the configuration
  committed,        \* the lowest page of each area that is readable and writable
  area,             \* the area each thread runs on
  sp,               \* stack pointers
  stack_end,
  last_stack_min,
  sect,             \* traced_stack_sect, or 0
  last_info,        \* the cache: last_address and the answer of VirtualQuery
  pushed,           \* words the last GC_push_every_stack pushed
  roots,            \* words the last GC_register_dynamic_libraries added
  stage, stackGcs

winStackVars == <<memPrivate, committed, area, sp, stack_end, last_stack_min, sect, last_info,
                  pushed, roots, stage, stackGcs>>
knownVars == <<last_stack_min, last_info, pushed, roots, stage, stackGcs>>

\* The protection of a page: a guard page is below the committed pages of a stack.
InStack(p) == What(p) \in Areas
ReadWrite(p) == \/ What(p) \in {"data", "heap"}
                \/ InStack(p) /\ p >= committed[What(p)]
VirtualQuery(s) == [at |-> s, base |-> StackPage(s) * PageSize,
                    rw |-> s \in Word /\ ReadWrite(StackPage(s))]

WinStacksInit ==
  /\ memPrivate \in Private
  /\ committed = [a \in Areas |-> Max(AreaPages(a))]
  /\ area = AreaOf
  /\ stack_end = [t \in StkThread |-> Top(AreaOf[t])]
  /\ sp = [t \in StkThread |-> stack_end[t] - 1]
  /\ last_stack_min = [t \in StkThread |-> ADDR_LIMIT]
  /\ sect = [t \in StkThread |-> 0]
  /\ last_info = [at |-> -1, base |-> -1, rw |-> FALSE]
  /\ pushed = {} /\ roots = {} /\ stage = "run" /\ stackGcs = 0

-----------------------------------------------------------------------------
\* The threads.  A stack grows when its guard page is touched; the pointer may
\* be moved into the guard page before that.
Moving(t, s) ==
  /\ stage = "run" /\ s \in Word /\ s < stack_end[t]
  /\ What(StackPage(s)) = area[t] /\ StackPage(s) >= committed[area[t]] - 1
  /\ sect[t] # 0 => s < sect[t]
MoveSp(t, s) ==
  /\ Moving(t, s) /\ s # sp[t]
  /\ t = StkSelf => StackPage(s) >= committed[area[t]]
  /\ sp' = [sp EXCEPT ![t] = s]
  /\ UNCHANGED <<memPrivate, committed, area, stack_end, sect, knownVars>>
TouchGuard(t) ==
  /\ stage = "run"
  /\ StackPage(sp[t]) < committed[area[t]] \/ t = StkSelf
  /\ committed[area[t]] - 1 > Min(AreaPages(area[t]))
  /\ committed' = [committed EXCEPT ![area[t]] = @ - 1]
  /\ UNCHANGED <<memPrivate, area, sp, stack_end, sect, knownVars>>

\* GC_call_with_gc_active on the stack of GC_do_blocking, and its end.
EnterSect(t) ==
  /\ stage = "run" /\ sect[t] = 0 /\ StackPage(sp[t]) >= committed[area[t]]
  /\ Moving(t, sp[t] - 1)
  /\ StackPage(sp[t] - 1) >= committed[area[t]]
  /\ sect' = [sect EXCEPT ![t] = sp[t]] /\ sp' = [sp EXCEPT ![t] = @ - 1]
  /\ UNCHANGED <<memPrivate, committed, area, stack_end, knownVars>>
LeaveSect(t) ==
  /\ stage = "run" /\ sect[t] # 0
  /\ sect' = [sect EXCEPT ![t] = 0] /\ sp' = [sp EXCEPT ![t] = sect[t]]
  /\ UNCHANGED <<memPrivate, committed, area, stack_end, knownVars>>

\* A coroutine: GC_set_stackbottom to a stack no other thread is on.
MinReset(t) == [last_stack_min EXCEPT ![t] = ADDR_LIMIT]
GC_set_stackbottom(t, a) ==
  /\ stage = "run" /\ sect[t] = 0 /\ a \in Areas /\ \A u \in StkThread : area[u] # a
  /\ area' = [area EXCEPT ![t] = a]
  /\ stack_end' = [stack_end EXCEPT ![t] = Top(a)]
  /\ sp' = [sp EXCEPT ![t] = Top(a) - 1]
  /\ last_stack_min' = MinReset(t)
  /\ UNCHANGED <<memPrivate, committed, sect, last_info, pushed, roots, stage, stackGcs>>

-----------------------------------------------------------------------------
\* The cached query, and GC_get_stack_min: down from the page of s while the
\* page below may belong to a stack.
Cached(s, c) == IF s = c.at THEN c ELSE VirtualQuery(s)
LowestFrom(p) == Min({ q \in 0 .. p : \A r \in q .. p - 1 : ReadWrite(r) })
GC_get_stack_min(s, c) ==
  LET bottom == LowestFrom(StackPage(Cached(s, c).base)) * PageSize
  IN  [min |-> bottom, info |-> VirtualQuery(bottom - 1)]

\* The part of GC_push_stack_for that finds stack_min; k is what is known:
\* last_stack_min of the thread and the cache.
FirstMin(t, c) ==
  LET m == GC_get_stack_min(IF sect[t] # 0 THEN sect[t] ELSE stack_end[t], c)
  IN  [min |-> m.min, known |-> m.min, info |-> m.info]
AdjustedMin(t, m) == IF sect[t] # 0 /\ m > sect[t] THEN sect[t] ELSE m
Probe(t, m, c) ==
  IF ~c.rw
  THEN LET g == GC_get_stack_min(stack_end[t], c) IN [min |-> g.min, known |-> g.min, info |-> g.info]
  ELSE IF sp[t] < c.base \/ sp[t] >= stack_end[t]
       THEN LET g == GC_get_stack_min(m, c) IN [min |-> g.min, known |-> g.min, info |-> g.info]
       ELSE [min |-> c.base, known |-> c.base, info |-> c]
LaterMin(t, m, c) ==
  IF sp[t] < stack_end[t] /\ sp[t] >= m THEN [min |-> sp[t], known |-> m, info |-> c]
  ELSE Probe(t, m, Cached(IF t = StkSelf /\ sp[t] < m THEN sp[t] ELSE m, c))
StackMin(t, k) ==
  IF k.mins[t] = ADDR_LIMIT THEN FirstMin(t, k.info)
                            ELSE LaterMin(t, AdjustedMin(t, k.mins[t]), k.info)
GC_push_stack_for(t, k) ==
  LET m == StackMin(t, k)
  IN  [mins |-> [k.mins EXCEPT ![t] = m.known], info |-> m.info,
       words |-> k.words \union (IF sp[t] >= m.min /\ sp[t] < stack_end[t] THEN sp[t] .. stack_end[t] - 1
                                                                         ELSE m.min .. stack_end[t] - 1)]

RECURSIVE PushEach(_, _)
PushEach(S, k) ==
  IF S = {} THEN k
  ELSE LET t == CHOOSE t \in S : TRUE IN PushEach(S \ {t}, GC_push_stack_for(t, k))
GC_push_every_stack ==
  /\ stage = "push"
  /\ \E k \in {PushEach(StkThread, [mins |-> last_stack_min, info |-> last_info, words |-> {}])} :
       /\ last_stack_min' = k.mins /\ last_info' = k.info /\ pushed' = k.words
  /\ stage' = "pushed"
  /\ UNCHANGED <<memPrivate, committed, area, sp, stack_end, sect, roots, stackGcs>>

-----------------------------------------------------------------------------
\* GC_get_next_stack: the lowest stack that ends above start.
AboveOn(start) == { t \in StkThread : stack_end[t] > start }
NextOwner(start) == CHOOSE t \in AboveOn(start) : \A u \in AboveOn(start) : stack_end[t] <= stack_end[u]
NoStack(k) == [lo |-> ADDR_LIMIT, hi |-> ADDR_LIMIT, k |-> k]
ProbeStack(t, m, c, k) ==
  LET from == Cached(m, c)
      g == IF m = ADDR_LIMIT THEN GC_get_stack_min(stack_end[t], c)
           ELSE IF from.rw THEN GC_get_stack_min(m, from) ELSE GC_get_stack_min(stack_end[t], from)
  IN  [lo |-> g.min, hi |-> stack_end[t],
       k |-> [k EXCEPT !.mins = [@ EXCEPT ![t] = g.min], !.info = g.info]]
GC_get_next_stack(start, limit, k) ==
  IF AboveOn(start) = {} THEN NoStack(k)
  ELSE LET t == NextOwner(start)
           c == IF stack_end[t] > limit THEN Cached(limit, k.info) ELSE k.info
       IN  IF stack_end[t] > limit /\ ~c.rw
           THEN [lo |-> ADDR_LIMIT, hi |-> stack_end[t], k |-> [k EXCEPT !.info = c]]
           ELSE ProbeStack(t, k.mins[t], c, k)

\* GC_cond_add_roots(base, limit): what lies between the stacks.
RECURSIVE GC_cond_add_roots(_, _, _)
GC_cond_add_roots(base, limit, k) ==
  LET n == GC_get_next_stack(base, limit, k)
  IN  IF n.lo >= limit
      THEN [n.k EXCEPT !.words = @ \union base .. limit - 1]
      ELSE GC_cond_add_roots(n.hi, limit, [n.k EXCEPT !.words = @ \union base .. n.lo - 1])

\* GC_register_dynamic_libraries: maximal runs of writable pages that are not heap.
Writable(p) == What(p) = "data" \/ (memPrivate /\ InStack(p) /\ ReadWrite(p))
RunFrom(p) == { q \in p .. NPg - 1 : \A r \in p .. q : Writable(r) }
RunStarts == { p \in Pg : Writable(p) /\ (p = 0 \/ ~Writable(p - 1)) }
RECURSIVE RegisterFrom(_, _)
RegisterFrom(S, k) ==
  IF S = {} THEN k
  ELSE RegisterFrom(S \ {Min(S)},
         GC_cond_add_roots(Min(S) * PageSize, (Max(RunFrom(Min(S))) + 1) * PageSize, k))
RegisterLibraries ==
  /\ stage = "run" /\ stackGcs < StackGcs
  /\ \A t \in StkThread : t = StkSelf => StackPage(sp[t]) >= committed[area[t]]
  /\ \E k \in {RegisterFrom(RunStarts, [mins |-> last_stack_min, info |-> last_info, words |-> {}])} :
       /\ last_stack_min' = k.mins /\ last_info' = k.info /\ roots' = k.words
  /\ stage' = "push" /\ stackGcs' = stackGcs + 1
  /\ UNCHANGED <<memPrivate, committed, area, sp, stack_end, sect, pushed>>
ResumeThreads ==
  /\ stage = "pushed" /\ stage' = "run"
  /\ pushed' = {} /\ roots' = {}
  /\ UNCHANGED <<memPrivate, committed, area, sp, stack_end, last_stack_min, sect, last_info, stackGcs>>

WinStacksNext ==
  \/ \E t \in StkThread :
       \/ TouchGuard(t) \/ EnterSect(t) \/ LeaveSect(t)
       \/ \E s \in Word : MoveSp(t, s)
       \/ \E a \in Areas : GC_set_stackbottom(t, a)
  \/ RegisterLibraries \/ GC_push_every_stack \/ ResumeThreads

WinStacksSpec == WinStacksInit /\ [][WinStacksNext]_winStackVars

-----------------------------------------------------------------------------
\* Types; a stack pointer is below the cold end of its stack.
WinStacksTypeOK ==
  /\ \A t \in StkThread : /\ sp[t] \in Word /\ stack_end[t] \in Word /\ sp[t] < stack_end[t]
                          /\ last_stack_min[t] \in 1 .. ADDR_LIMIT
  /\ roots \subseteq Word /\ pushed \subseteq Word
  /\ stage \in {"run", "push", "pushed"}

LiveWords(t) == { s \in sp[t] .. stack_end[t] - 1 : ReadWrite(StackPage(s)) }
\* Whatever is known from earlier collections, the stack of every thread is
\* pushed from its stack pointer on, and no page is read that is not mapped.
StackPushed ==
  stage = "pushed" =>
    /\ \A t \in StkThread : LiveWords(t) \subseteq pushed
    /\ \A s \in pushed : ReadWrite(StackPage(s))

\* Every word of a DLL's data is a root, and no word of a registered thread's
\* stack is taken for one; nothing unmapped is.
StacksNotRoots ==
  stage \in {"push", "pushed"} =>
    /\ \A s \in Word : What(StackPage(s)) = "data" => s \in roots
    /\ \A t \in StkThread : \A s \in roots : What(StackPage(s)) = area[t] => s >= stack_end[t]
    /\ \A s \in roots : ReadWrite(StackPage(s))

\* Stacks are scanned as stacks, whole, and as nothing else.
WinStacksSound == WinStacksTypeOK /\ StackPushed /\ StacksNotRoots
=============================================================================
