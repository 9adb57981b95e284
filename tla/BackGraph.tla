----------------------------- MODULE BackGraph -----------------------------
(* The backwards points-to graph (backgraph.c), which finds chains of        *)
(* unreachable objects that grow.  It is built when the world is stopped,     *)
(* used before the sweep, and printed and reset much later, without the       *)
(* lock in between: in GC_notify_or_invoke_finalizers.  By then objects of    *)
(* the graph may be swept and allocated again, and there may have been        *)
(* another collection.                                                        *)
EXTENDS Integers, Sequences, FiniteSets, FiniteSetsExt, SequencesExt

CONSTANTS
  NObj,                   \* objects are 1..NObj, in the order of their addresses
  MAX_IN, MAX_BACK_EDGE_STRUCTS,
  Graphs,                 \* heaps to start from: functions from objects to sets
  Luckies,                \* sets of objects for which GOT_LUCKY_NUMBER may hold
  MaxBgGcs, MaxChanges    \* bounds: collections, changes by the client

BgObj == 1..NObj
ASSUME BackGraphAssumption == NObj >= 1 /\ MAX_IN >= 1 /\ \A G \in Graphs : DOMAIN G = BgObj

VARIABLES
  ptrs,         \* what each object points to; object 1 is the root
  bgLive,       \* objects with debugging information: not on a free list
  bgMarks,      \* mark bits of the last collection
  g,            \* back pointers, back_edges structures and their free list
  bgc,          \* GC_gc_no, GC_max_height, GC_max_max_height, GC_deepest_obj
  changes,      \* steps of the client so far
  ghost         \* edges at the last build to objects that are not swept; lost
                \* structures; whether collections were late (two without
                \* statistics between them); wild reads; the longest chain
backVars == <<ptrs, bgLive, bgMarks, g, bgc, changes, ghost>>

HEIGHT_UNKNOWN == -2
HEIGHT_IN_PROGRESS == -1
NoPtr == [kind |-> "none", to |-> 0]
One(p) == [kind |-> "one", to |-> p]
Many(s) == [kind |-> "many", to |-> s]
NeverUsed == [n |-> 0, retain |-> FALSE, height |-> 0, gcNo |-> 0,
              edges |-> [i \in 1..MAX_IN |-> 0], cont |-> 0]

BackInit ==
  /\ ptrs \in Graphs /\ bgLive = BgObj /\ bgMarks = {}
  /\ g = [bg |-> [o \in BgObj |-> NoPtr], st |-> [s \in 0..MAX_BACK_EDGE_STRUCTS |-> NeverUsed],
          avail |-> 0, n |-> 0, new |-> 0, aborted |-> FALSE]
  /\ bgc = [no |-> 1, max |-> 0, maxMax |-> 0, deepest |-> 0, printed |-> TRUE]
  /\ changes = 0
  /\ ghost = [built |-> {}, lost |-> {}, late |-> FALSE, wild |-> FALSE, longest |-> 0]

-----------------------------------------------------------------------------
\* The structures.  x is a value of g.
new_back_edges(x) ==
  IF x.avail # 0
  THEN [x EXCEPT !.avail = x.st[x.avail].cont, !.st[x.avail].cont = 0, !.new = x.avail]
  ELSE IF x.n >= MAX_BACK_EDGE_STRUCTS - 1 THEN [x EXCEPT !.new = 0, !.aborted = TRUE]
  ELSE [x EXCEPT !.n = @ + 1, !.new = x.n + 1]
RECURSIVE LastOf(_, _)
LastOf(x, s) == IF x.st[s].cont = 0 THEN s ELSE LastOf(x, x.st[s].cont)
deallocate_back_edges(x, s) == [x EXCEPT !.st[LastOf(x, s)].cont = x.avail, !.avail = s]

ensure_struct(x, o, gcNo) ==
  LET old == x.bg[o]
      y == new_back_edges(x)
  IN  IF old.kind = "many" THEN x
      ELSE [y EXCEPT !.bg[o] = Many(y.new),
                     !.st[y.new] = [@ EXCEPT !.n = IF old.kind = "none" THEN 0 ELSE 1,
                                             !.edges[1] = IF old.kind = "none" THEN @ ELSE old.to,
                                             !.retain = FALSE, !.height = HEIGHT_UNKNOWN,
                                             !.gcNo = gcNo - 1]]

RECURSIVE EdgeAt(_, _, _)
EdgeAt(x, s, k) ==
  IF k > MAX_IN THEN EdgeAt(x, x.st[s].cont, k - MAX_IN) ELSE x.st[s].edges[k]
Preds(x, o) ==
  CASE x.bg[o].kind = "none" -> <<>>
    [] x.bg[o].kind = "one"  -> <<x.bg[o].to>>
    [] x.bg[o].kind = "many" -> [k \in 1..x.st[x.bg[o].to].n |-> EdgeAt(x, x.bg[o].to, k)]

AddCont(x, s, p) ==
  LET y == new_back_edges(x)
  IN  [y EXCEPT !.st[s].cont = y.new, !.st[y.new].edges[1] = p]
\* Edge number i + 1 of a list that goes on from structure s.
RECURSIVE AddIn(_, _, _, _)
AddIn(x, s, i, p) ==
  IF i > MAX_IN THEN AddIn(x, x.st[s].cont, i - MAX_IN, p)
  ELSE IF i = MAX_IN THEN AddCont(x, s, p)
  ELSE [x EXCEPT !.st[s].edges[i + 1] = p]
add_edge(x, p, q, lucky) ==
  IF q \notin bgLive \/ p \notin bgLive THEN x
  ELSE IF x.bg[q].kind = "none"
  THEN LET y == [x EXCEPT !.bg[q] = One(p)]
       IN  IF q \in lucky THEN ensure_struct(y, q, bgc.no) ELSE y
  ELSE IF \E k \in DOMAIN Preds(x, q) : Preds(x, q)[k] = p THEN x
  ELSE LET y == ensure_struct(x, q, bgc.no)
           s == y.bg[q].to
           z == AddIn(y, s, y.st[s].n, p)
       IN  [z EXCEPT !.st[s].n = @ + 1]

\* Edges in the order in which GC_apply_to_each_object meets them.
EdgesInOrder ==
  LET E == {<<p, q>> \in BgObj \X BgObj : p \in bgLive /\ q \in ptrs[p]}
  IN  SetToSortSeq(E, LAMBDA a, b : a[1] * (NObj + 1) + a[2] < b[1] * (NObj + 1) + b[2])
GC_build_back_graph(lucky) ==
  FoldLeft(LAMBDA x, e : add_edge(x, e[1], e[2], lucky), g, EdgesInOrder)

-----------------------------------------------------------------------------
\* Heights.  w has the graph, the objects in progress, the value, and whether
\* the link of a free object was taken for a back pointer.
Walk(x) == [x |-> x, prog |-> {}, val |-> 0, wild |-> FALSE]
Higher(result, h) == IF h >= result THEN h + 1 ELSE result

Measured(x, s, h, gcNo) == [x EXCEPT !.st[s].height = h, !.st[s].gcNo = gcNo]

RECURSIVE backwards_height(_, _, _)
RECURSIVE HighestPred(_, _, _, _)
\* Predecessors in the sequence ps; w.val is the result so far.
HighestPred(w, ps, result, gcNo) ==
  IF ps = <<>> THEN [w EXCEPT !.val = result]
  ELSE LET r == backwards_height(w, Head(ps), gcNo)
       IN  HighestPred(r, Tail(ps), Higher(result, r.val), gcNo)
backwards_height(w, p, gcNo) ==
  IF p \notin bgLive THEN [w EXCEPT !.wild = TRUE, !.val = 0]
  ELSE LET b == w.x.bg[p]
           be == w.x.st[b.to]
       IN  CASE b.kind = "none" -> [w EXCEPT !.val = 1]
             [] b.kind = "one" ->
                  IF p \in w.prog THEN [w EXCEPT !.val = 0]
                  ELSE LET r == backwards_height([w EXCEPT !.prog = @ \cup {p}], b.to, gcNo)
                       IN  [r EXCEPT !.prog = @ \ {p}, !.val = @ + 1]
             [] b.kind = "many" ->
                  IF be.height >= 0 /\ be.gcNo = gcNo THEN [w EXCEPT !.val = be.height]
                  ELSE IF be.height = HEIGHT_IN_PROGRESS THEN [w EXCEPT !.val = 0]
                  ELSE LET r == HighestPred([w EXCEPT !.x.st[b.to].height = HEIGHT_IN_PROGRESS],
                                            Preds(w.x, p), IF be.height > 0 THEN be.height ELSE 1, gcNo)
                       IN  [r EXCEPT !.x = Measured(@, b.to, r.val, gcNo)]

\* u: the walk, with GC_max_height and GC_deepest_obj.
RECURSIVE BestPred(_, _, _, _)
BestPred(u, ps, marks, gcNo) ==
  IF ps = <<>> THEN u
  ELSE IF Head(ps) \in marks \/ Head(ps) \notin bgLive THEN BestPred(u, Tail(ps), marks, gcNo)
  ELSE LET r == backwards_height(u.w, Head(ps), gcNo)
       IN  BestPred([u EXCEPT !.w = r,
                              !.h = IF r.val > u.h THEN r.val ELSE @,
                              !.obj = IF r.val > u.h THEN Head(ps) ELSE @], Tail(ps), marks, gcNo)
Remembered(x, p, h, gcNo) ==
  LET y == ensure_struct(x, p, gcNo)
  IN  [y EXCEPT !.st[y.bg[p].to] = [@ EXCEPT !.retain = TRUE, !.height = h, !.gcNo = gcNo]]
update_max_height(u, p, marks, gcNo) ==
  IF p \notin marks \/ p \notin bgLive THEN u
  ELSE LET x == u.w.x
           old == IF x.bg[p].kind = "many" /\ x.st[x.bg[p].to].height # HEIGHT_UNKNOWN
                  THEN x.st[x.bg[p].to].height ELSE 0
           r == BestPred([u EXCEPT !.h = old, !.obj = 0], Preds(x, p), marks, gcNo)
           s == IF r.h > 0 THEN [r EXCEPT !.w.x = Remembered(@, p, r.h, gcNo)] ELSE r
       IN  IF s.h > s.max THEN [s EXCEPT !.max = s.h, !.deepest = s.obj] ELSE s
\* GC_max_height is cleared, GC_deepest_obj is not.
GC_traverse_back_graph(x, marks, gcNo) ==
  FoldLeft(LAMBDA u, p : update_max_height(u, p, marks, gcNo),
           [w |-> Walk(x), h |-> 0, obj |-> 0, max |-> 0, deepest |-> bgc.deepest],
           [p \in 1..NObj |-> p])

-----------------------------------------------------------------------------
RECURSIVE ReachFrom(_)
ReachFrom(S) ==
  LET T == S \cup UNION {ptrs[o] : o \in S} IN IF T = S THEN S ELSE ReachFrom(T)
Reachable == ReachFrom({1})

\* The longest path of unreachable objects to a reachable one, if they form
\* no cycle, from the heap and not from the back graph.
RECURSIVE PathTo(_)
PathTo(o) == 1 + Max({0} \cup {PathTo(p) : p \in {q \in bgLive \ Reachable : o \in ptrs[q]}})
RECURSIVE Above(_)
Above(S) ==
  LET T == S \cup {q \in bgLive \ Reachable : ptrs[q] \cap S # {}}
  IN  IF T = S THEN S ELSE Above(T)
Acyclic == \A o \in bgLive \ Reachable :
             o \notin Above({q \in bgLive \ Reachable : o \in ptrs[q]})
Longest ==
  IF Acyclic
  THEN Max({0} \cup {PathTo(p) : p \in {q \in bgLive \ Reachable : ptrs[q] \cap Reachable # {}}})
  ELSE 0

\* A collection: GC_stopped_mark builds the graph and marks,
\* GC_finish_collection traverses the graph.
\* mutated form: the object that will be printed is not kept
NotMarked(marks, deepest) == marks
KeepDeepest(marks, deepest) == marks \cup ({deepest} \ {0})
BgCollect(lucky) ==
  /\ bgc.no <= MaxBgGcs /\ ~ghost.wild /\ ~g.aborted
  /\ \E x \in {GC_build_back_graph(lucky)} :
       \E u \in {GC_traverse_back_graph(x, Reachable, bgc.no + 1)} :
         /\ g' = u.w.x
         /\ bgMarks' = KeepDeepest(Reachable, u.deepest)
         /\ bgc' = [bgc EXCEPT !.no = @ + 1, !.max = u.max, !.deepest = u.deepest, !.printed = FALSE]
         /\ ghost' = [ghost EXCEPT !.built = {<<p, q>> \in bgLive \X bgLive : q \in ptrs[p]},
                                   !.late = @ \/ ~bgc.printed, !.wild = u.w.wild,
                                   !.longest = Longest]
  /\ UNCHANGED <<ptrs, bgLive, changes>>

\* GC_print_back_graph_stats.  The object is printed with the lock released.
ForOneCycle(x, s) == [x EXCEPT !.st[s].n = 0, !.st[s].retain = FALSE]
reset_back_edge(x, p) ==
  LET s == x.bg[p].to
      cont == x.st[s].cont
      short == IF cont = 0 THEN x ELSE [deallocate_back_edges(x, cont) EXCEPT !.st[s].cont = 0]
  IN  IF p \notin bgLive THEN x
      ELSE IF x.bg[p].kind # "many" THEN [x EXCEPT !.bg[p] = NoPtr]
      ELSE IF ~x.st[s].retain THEN [deallocate_back_edges(x, s) EXCEPT !.bg[p] = NoPtr]
      ELSE ForOneCycle(short, s)
GC_print_back_graph_stats ==
  /\ bgc.no > 1 /\ ~ghost.wild /\ ~g.aborted
  /\ bgc' = [bgc EXCEPT !.maxMax = IF bgc.max > @ THEN bgc.max ELSE @,
                        !.deepest = 0, !.printed = TRUE]
  /\ g' = FoldLeft(LAMBDA x, p : reset_back_edge(x, p), g, [p \in 1..NObj |-> p])
  /\ UNCHANGED <<ptrs, bgLive, bgMarks, changes, ghost>>

-----------------------------------------------------------------------------
RECURSIVE ChainOf(_)
ChainOf(s) == IF s = 0 THEN <<>> ELSE <<s>> \o ChainOf(g.st[s].cont)
Owned(o) == IF g.bg[o].kind = "many" THEN ToSet(ChainOf(g.bg[o].to)) ELSE {}
\* The link of the free list takes the place of the back pointer.
OnFreeList(o) ==
  /\ bgLive' = bgLive \ {o} /\ ptrs' = [ptrs EXCEPT ![o] = {}]
  /\ g' = [g EXCEPT !.bg[o] = NoPtr]
  /\ ghost' = [ghost EXCEPT !.lost = @ \cup Owned(o), !.built = {e \in @ : e[2] # o}]
Swept(o) ==
  /\ bgc.no > 1 /\ o \in bgLive \ bgMarks /\ o \notin Reachable /\ ~ghost.wild
  /\ OnFreeList(o) /\ UNCHANGED <<bgMarks, bgc, changes>>
\* store_debug_info: the object is new, and marked if it is allocated from a
\* block that is swept.
NewObject(p, o) ==
  /\ changes < MaxChanges /\ ~ghost.wild
  /\ o \notin bgLive /\ p \in Reachable
  /\ bgLive' = bgLive \cup {o} /\ ptrs' = [ptrs EXCEPT ![p] = @ \cup {o}]
  /\ bgMarks' = bgMarks \cup {o} /\ changes' = changes + 1
  /\ UNCHANGED <<g, bgc, ghost>>
DropPointer(p, o) ==
  /\ changes < MaxChanges /\ ~ghost.wild
  /\ p \in Reachable /\ o \in ptrs[p]
  /\ ptrs' = [ptrs EXCEPT ![p] = @ \ {o}] /\ changes' = changes + 1
  /\ UNCHANGED <<bgLive, bgMarks, g, bgc, ghost>>

BackNext ==
  \/ \E lucky \in Luckies : BgCollect(lucky)
  \/ GC_print_back_graph_stats
  \/ \E o \in BgObj : Swept(o)
  \/ \E p, o \in BgObj : NewObject(p, o) \/ DropPointer(p, o)
BackSpec == BackInit /\ [][BackNext]_backVars

-----------------------------------------------------------------------------
\* Types; and no height is left in progress.
BackTypeOK ==
  /\ g.n \in 0..(MAX_BACK_EDGE_STRUCTS - 1) /\ g.avail \in 0..g.n
  /\ \A o \in BgObj : g.bg[o].kind = "many" => g.bg[o].to \in 1..g.n
  /\ \A s \in 1..g.n : g.st[s].height # HEIGHT_IN_PROGRESS

\* Every structure ever used is either in the free list, or belongs to one
\* object, or is one of those that were lost with an object that was swept
\* before the statistics; and an object has as many as its edges need.
StructsAccounted ==
  LET free == ToSet(ChainOf(g.avail))
  IN  /\ \A s \in 1..g.n :
           Cardinality({o \in BgObj : s \in Owned(o)})
             + (IF s \in free THEN 1 ELSE 0) + (IF s \in ghost.lost THEN 1 ELSE 0) = 1
      /\ \A o \in BgObj : g.bg[o].kind = "many" =>
           LET n == g.st[g.bg[o].to].n
           IN  Cardinality(Owned(o)) = IF n = 0 THEN 1 ELSE (n + MAX_IN - 1) \div MAX_IN

BackEdges == {<<p, q>> \in BgObj \X bgLive : p \in ToSet(Preds(g, q))}
\* After a collection the back graph has every pointer between objects, once,
\* and only those unless the last graph was not reset.
GraphExact ==
  ~bgc.printed =>
    /\ ghost.built \subseteq BackEdges
    /\ ghost.late \/ BackEdges \subseteq ghost.built
    /\ \A q \in bgLive : IsInjective(Preds(g, q))

\* If every collection is followed by its statistics: no free object is taken
\* for a node of the graph, the structures that are kept are those of marked
\* objects, and the object that is printed is known and was not reclaimed.
StatsSafe ==
  ~ghost.late =>
    /\ ~ghost.wild
    /\ \A o \in bgLive : g.bg[o].kind = "many" /\ g.st[g.bg[o].to].retain =>
         o \in bgMarks /\ ~bgc.printed
    /\ ~bgc.printed /\ bgc.max > bgc.maxMax => bgc.deepest \in bgLive

\* The height that is reported is at least the length of the longest chain of
\* unreachable objects, if these form no cycle.
HeightReported == ~bgc.printed => bgc.max >= ghost.longest

\* The graph is right, its structures are accounted for, and what is reported
\* of it is about objects that exist.
BackSound ==
  BackTypeOK /\ StructsAccounted /\ GraphExact /\ StatsSafe /\ HeightReported
=============================================================================
