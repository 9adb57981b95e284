------------------------------ MODULE Finalize ------------------------------
(***************************************************************************)
(* Finalizers, disappearing links and toggle references (finalize.c).      *)
(*                                                                         *)
(* A collection is two steps of the holder of the allocation lock: the     *)
(* mark phase, with the world stopped, and GC_finalize with the sweep that *)
(* follows it, with the world running again.  In between the program goes  *)
(* on loading, storing and dropping pointers; everything else it does here *)
(* needs the lock.  A link is a word that holds a hidden pointer, in an    *)
(* object or outside of the heap, and that the program reveals only with   *)
(* the lock held.  The three tables are sets of entries.                   *)
(***************************************************************************)
EXTENDS Naturals, FiniteSets, Sequences, Functions

CONSTANTS
  Obj, Null,
  ShortLink, LongLink,   \* the words that may be registered as links
  Home,        \* the object that a link lies in, or Null
  FinalizerKinds,   \* the kinds of finalizers in use: fo_mark_proc
  Java,        \* GC_java_finalization
  Overflows,   \* the mark stack may overflow in GC_mark_fo
  Junk,        \* objects that integers among the roots may address
  Thread,      \* the threads that invoke finalizers
  MaxRoots,    \* bound on the objects the program holds
  MaxEntries   \* bound on the entries of the tables

Link == ShortLink \cup LongLink
FoKinds == {"normal", "ignore_self", "no_order", "unreachable"}
ASSUME KindsAssumption ==
  /\ FinalizerKinds \subseteq FoKinds
  \* GC_register_finalizer_unreachable asserts GC_java_finalization; the other
  \* kind is for "Java implementations" only.
  /\ ~Java => FinalizerKinds \subseteq {"normal", "ignore_self"}
  /\ Home \in [Link -> Obj \cup {Null}] /\ Null \notin Obj

VARIABLES
  alive,       \* the objects that are allocated
  field,       \* the pointer in each of them
  roots,       \* the objects the program has a pointer to
  value,       \* what each link holds, hidden
  dl, ll,      \* the entries of GC_dl_hashtbl and GC_ll_hashtbl
  fo,          \* the entries of the table of finalizers
  queue,       \* GC_fnlz_roots.finalize_now
  curr,        \* curr_fo in each thread's GC_invoke_finalizers
  toggle,      \* GC_toggleref_arr
  pend,        \* a registration in GC_oom_fn, without the lock
  marked,      \* the mark bits
  pc           \* "run", or "finalize" between the mark phase and GC_finalize

heap == <<alive, field, roots>>
links == <<value, dl, ll>>
final == <<fo, queue, curr>>
gc == <<marked, pc>>
vars == <<heap, links, final, toggle, pend, gc>>

NoFo == [obj |-> Null, kind |-> "normal"]
Nothing == [table |-> "none", entry |-> NoFo]
ObjectsOf(entries) == {e.obj : e \in entries}

Init ==
  /\ alive = {} /\ field = [o \in Obj |-> Null] /\ roots = {}
  /\ value = [l \in Link |-> Null] /\ dl = {} /\ ll = {}
  /\ fo = {} /\ queue = <<>> /\ curr = [t \in Thread |-> NoFo]
  /\ toggle = {} /\ pend = Nothing
  /\ marked = {} /\ pc = "run"

-----------------------------------------------------------------------------
(***************************************************************************)
(* Reachability.                                                           *)
(***************************************************************************)
Targets(o) == {field[o]} \ {Null}
From(S) == {o \in Obj : \A C \in SUBSET Obj :
              S \subseteq C /\ (\A p \in C : Targets(p) \subseteq C) => o \in C}

\* What the program holds; GC_invoke_finalizers and a registration in progress
\* have their arguments on the stack.
Held == (roots \cup ObjectsOf(Range(curr)) \cup {pend.entry.obj}
           \cup IF pend.table = "link" THEN {Home[pend.entry.link]} ELSE {}) \ {Null}
\* The objects awaiting finalization are no longer hidden, and roots too
\* (GC_push_finalizer_structures).
Queued == ObjectsOf(Range(queue))

-----------------------------------------------------------------------------
(***************************************************************************)
(* The program, without the lock.                                          *)
(***************************************************************************)
Load(o) ==
  /\ field[o] # Null
  /\ roots' = roots \cup {field[o]}
  /\ UNCHANGED <<alive, field, links, final, toggle, pend, gc>>
Store(o, v) ==
  /\ field' = [field EXCEPT ![o] = v]
  /\ UNCHANGED <<alive, roots, links, final, toggle, pend, gc>>
Drop(o) ==
  /\ roots' = roots \ {o}
  /\ UNCHANGED <<alive, field, links, final, toggle, pend, gc>>

\* With the lock: a new object, cleared, and the object that a link refers to.
Alloc(o) ==
  /\ pc = "run"
  /\ o \notin alive
  /\ alive' = alive \cup {o}
  /\ roots' = roots \cup {o}
  /\ field' = [field EXCEPT ![o] = Null]
  /\ value' = [l \in Link |-> IF Home[l] = o THEN Null ELSE value[l]]
  /\ UNCHANGED <<dl, ll, final, toggle, pend, gc>>
HasWord(l) == Home[l] \in roots \cup {Null}
Reveal(l) ==
  /\ pc = "run"
  /\ HasWord(l)
  /\ value[l] # Null
  /\ roots' = roots \cup {value[l]}
  /\ UNCHANGED <<alive, field, links, final, toggle, pend, gc>>

-----------------------------------------------------------------------------
(***************************************************************************)
(* Disappearing links.                                                     *)
(***************************************************************************)
EntriesOf(table, l) == {e \in table : e.link = l}

\* An entry for this link is given another object, or a new one is added.
AddDl(table, new) == table \cup {new}  \* mutant: does not look for it
PutDl(table, new) == (table \ EntriesOf(table, new.link)) \cup {new}

\* The program hides the pointer in the word that it registers.
SetLink(new) ==
  /\ value' = [value EXCEPT ![new.link] = new.obj]
  /\ IF new.link \in ShortLink THEN dl' = PutDl(dl, new) /\ UNCHANGED ll
                               ELSE ll' = PutDl(ll, new) /\ UNCHANGED dl
GC_register_disappearing_link_inner(l, o) ==
  /\ pc = "run"
  /\ HasWord(l) /\ o \in roots
  /\ SetLink([link |-> l, obj |-> o])
  /\ UNCHANGED <<heap, final, toggle, pend, gc>>

\* There is no memory for a new entry: GC_oom_fn is called without the lock.
RegisterLinkOom(l, o) ==
  /\ pc = "run" /\ pend = Nothing
  /\ HasWord(l) /\ o \in roots
  /\ EntriesOf(dl \cup ll, l) = {}
  /\ pend' = [table |-> "link", entry |-> [link |-> l, obj |-> o]]
  /\ UNCHANGED <<heap, links, final, toggle, gc>>

GC_unregister_disappearing_link(l) ==
  /\ pc = "run"
  /\ HasWord(l)
  /\ \E e \in EntriesOf(dl \cup ll, l) : dl' = dl \ {e} /\ ll' = ll \ {e}
  /\ value' = [value EXCEPT ![l] = Null]
  /\ UNCHANGED <<heap, final, toggle, pend, gc>>

\* The program moves a link whose object it holds, and its content.
Moved(table, l, new) ==
  {IF e.link = l THEN [e EXCEPT !.link = new] ELSE e : e \in table}
GC_move_disappearing_link_inner(l, new) ==
  /\ pc = "run"
  /\ HasWord(l) /\ HasWord(new) /\ value[l] \in roots
  /\ l \in ShortLink <=> new \in ShortLink
  /\ EntriesOf(dl \cup ll, l) # {} /\ EntriesOf(dl \cup ll, new) = {}
  /\ value' = [value EXCEPT ![new] = value[l], ![l] = Null]
  /\ dl' = Moved(dl, l, new) /\ ll' = Moved(ll, l, new)
  /\ UNCHANGED <<heap, final, toggle, pend, gc>>

-----------------------------------------------------------------------------
(***************************************************************************)
(* Registration of finalizers and toggle references.                       *)
(***************************************************************************)
PutFo(table, new) == {e \in table : e.obj # new.obj} \cup {new}

GC_register_finalizer_inner(o, kind) ==
  /\ pc = "run"
  /\ o \in roots
  /\ fo' = PutFo(fo, [obj |-> o, kind |-> kind])
  /\ UNCHANGED <<heap, links, queue, curr, toggle, pend, gc>>
RemoveFinalizer(o) ==
  /\ pc = "run"
  /\ o \in roots \cap ObjectsOf(fo)
  /\ fo' = {e \in fo : e.obj # o}
  /\ UNCHANGED <<heap, links, queue, curr, toggle, pend, gc>>
RegisterFinalizerOom(o, kind) ==
  /\ pc = "run" /\ pend = Nothing
  /\ o \in roots \ ObjectsOf(fo)
  /\ pend' = [table |-> "fo", entry |-> [obj |-> o, kind |-> kind]]
  /\ UNCHANGED <<heap, links, final, toggle, gc>>

\* GC_oom_fn returns: the table is looked up again, ...
OomFnReturns ==
  /\ pc = "run"
  /\ pend # Nothing
  /\ IF pend.table = "fo"
     THEN fo' = PutFo(fo, pend.entry) /\ UNCHANGED links
     ELSE SetLink(pend.entry) /\ UNCHANGED fo
  /\ roots' = roots \cup {pend.entry.obj}
  /\ pend' = Nothing
  /\ UNCHANGED <<alive, field, queue, curr, toggle, gc>>
\* ... or nothing is registered (GC_NO_MEMORY).
NoMemory ==
  /\ pend # Nothing
  /\ pend' = Nothing
  /\ UNCHANGED <<heap, links, final, toggle, gc>>

GC_toggleref_add(o, strong) ==
  /\ pc = "run"
  /\ o \in roots
  /\ toggle' = toggle \cup {[obj |-> o, strong |-> strong]}
  /\ UNCHANGED <<heap, links, final, pend, gc>>

-----------------------------------------------------------------------------
(***************************************************************************)
(* A collection.                                                           *)
(***************************************************************************)

\* GC_process_togglerefs: the callback drops a reference, or makes it strong
\* or weak.
GC_process_togglerefs ==
  \E keep \in SUBSET toggle, strong \in SUBSET Obj :
    toggle' = {[e EXCEPT !.strong = e.obj \in strong] : e \in keep}

\* The mark phase.  False pointers may keep more than what is reachable.
Mark ==
  /\ pc = "run"
  /\ GC_process_togglerefs
  /\ \E extra \in SUBSET (Junk \cap alive) : marked' = From(Held \cup Queued \cup extra)
  /\ pc' = "finalize"
  /\ UNCHANGED <<heap, links, final, pend>>

\* What the mark procedures push: fo_mark_proc.
Pushed(e) ==
  CASE e.kind = "ignore_self" -> Targets(e.obj) \ {e.obj}
    [] e.kind = "no_order" -> {}
    [] OTHER -> Targets(e.obj)

\* GC_mark_fo for some objects: all that is reachable from what the mark
\* procedures push, S, is marked besides M.  If the mark stack overflows,
\* entries are dropped and what is below them may stay unmarked.
GC_mark_fo(M, S) ==
  LET all == M \cup From(S)
  IN IF Overflows THEN {M1 \in SUBSET all : M \cup S \subseteq M1} ELSE {all}

WeakOnly == marked            \* mutant: strong references are not marked
\* GC_mark_togglerefs
MarkTogglerefs == marked \cup From({e.obj : e \in {x \in toggle : x.strong}})

\* mutant: a link to an object with a finalizer is left to the finalizer
DisappearLate(table, M) == {e \in table : e.obj \notin M \cup ObjectsOf(fo)}
\* GC_make_disappearing_links_disappear
Disappear(table, M) == {e \in table : e.obj \notin M}
Dangling(table, M) == {e \in table : Home[e.link] \notin M \cup {Null}}
Cleared(S) == [l \in Link |-> IF l \in {e.link : e \in S} THEN Null ELSE value[l]]

\* The entries of a list in any order (that of the hash table), and positions in
\* theirs.
Arranged(S) == {q \in [1..Cardinality(S) -> S] : Range(q) = S}
InOrder(K) == {g \in Arranged(K) : \A i, j \in DOMAIN g : i < j => g[i] < g[j]}

\* GC_finalize, and the sweep that follows.  M is what is marked when entries
\* for unmarked objects are moved to the queue.
Unmarked(entries, M) == {e \in entries : e.obj \notin M}
OfKind(entries, kinds) == {e \in entries : e.kind \in kinds}
Waiting(M) == Range(queue) \cup Unmarked(fo, M)
Hard(M) == OfKind(Waiting(M), {"unreachable"})
\* With GC_java_finalization the objects are marked only now, and all that is
\* reachable from the ones without order with them.
MarkEnqueued(M) == M \cup ObjectsOf(IF Java THEN Waiting(M) \ Hard(M) ELSE Unmarked(fo, M))
NoOrder(M) ==
  IF Java THEN UNION {Targets(e.obj) : e \in Unmarked(OfKind(Waiting(M), {"no_order"}), M)} ELSE {}
\* Unreachable ones that were marked after all go back to the table.
Requeue(M, revived) ==
  /\ fo' = (fo \ Unmarked(fo, M)) \cup revived
  /\ \E new \in Arranged(Unmarked(fo, M)) :
     LET all == new \o queue
     IN \E kept \in InOrder({i \in DOMAIN all : all[i] \notin revived}) :
          queue' = [i \in DOMAIN kept |-> all[kept[i]]]
GC_finalize ==
  /\ pc = "finalize"
  /\ \E M2 \in GC_mark_fo(MarkTogglerefs, UNION {Pushed(e) : e \in Unmarked(fo, MarkTogglerefs)}) :
     \E M4 \in GC_mark_fo(MarkEnqueued(M2), NoOrder(M2)) :
     LET short == Disappear(dl, MarkTogglerefs)
         M5 == M4 \cup ObjectsOf(Hard(M2))
         long == Disappear(ll, M5)
         dangling == Dangling(dl \cup ll, M5)
     IN /\ Requeue(M2, {e \in Hard(M2) : e.obj \in M4})
        /\ dl' = dl \ (short \cup dangling)
        /\ ll' = ll \ (long \cup dangling)
        /\ value' = Cleared(short \cup long \cup dangling)
        /\ toggle' = {e \in toggle : e.strong \/ e.obj \in M5}
        /\ alive' = alive \cap M5
        /\ field' = [o \in Obj |-> IF o \in M5 THEN field[o] ELSE Null]
  /\ marked' = {} /\ pc' = "run"
  /\ UNCHANGED <<roots, curr, pend>>

-----------------------------------------------------------------------------
(***************************************************************************)
(* GC_invoke_finalizers.                                                   *)
(***************************************************************************)

\* An entry is taken off the queue with the lock held, ...
TakeFinalizer(t) ==
  /\ pc = "run"
  /\ curr[t] = NoFo
  /\ queue # <<>>
  /\ curr' = [curr EXCEPT ![t] = Head(queue)]
  /\ queue' = Tail(queue)
  /\ UNCHANGED <<heap, links, fo, toggle, pend, gc>>
\* ... and its finalizer called without it: it may bring the object back.
RunFinalizer(t) ==
  /\ curr[t] # NoFo
  /\ roots' = roots \cup {curr[t].obj}
  /\ curr' = [curr EXCEPT ![t] = NoFo]
  /\ UNCHANGED <<alive, field, links, fo, queue, toggle, pend, gc>>

\* GC_finalize_all: all finalizers are enqueued, and then invoked.
GC_enqueue_all_finalizers ==
  /\ pc = "run"
  /\ fo # {}
  /\ \E q \in Arranged(fo) : queue' = q \o queue
  /\ fo' = {}
  /\ UNCHANGED <<heap, links, curr, toggle, pend, gc>>

-----------------------------------------------------------------------------
Client ==
  \/ \E o \in roots : Load(o) \/ Drop(o) \/ \E v \in roots \cup {Null} : Store(o, v)
  \/ \E o \in Obj : Alloc(o)
  \/ \E l \in Link :
       \/ Reveal(l) \/ GC_unregister_disappearing_link(l)
       \/ \E o \in roots : GC_register_disappearing_link_inner(l, o) \/ RegisterLinkOom(l, o)
       \/ \E new \in Link : GC_move_disappearing_link_inner(l, new)
  \/ \E o \in roots :
       \/ RemoveFinalizer(o)
       \/ \E k \in FinalizerKinds : GC_register_finalizer_inner(o, k) \/ RegisterFinalizerOom(o, k)
       \/ \E strong \in BOOLEAN : GC_toggleref_add(o, strong)
  \/ OomFnReturns \/ NoMemory
  \/ \E t \in Thread : TakeFinalizer(t) \/ RunFinalizer(t)
  \/ GC_enqueue_all_finalizers

Entries == Cardinality(dl) + Cardinality(ll) + Cardinality(fo) + Len(queue)
             + Cardinality(toggle) + Cardinality({t \in Thread : curr[t] # NoFo})
             + (IF pend = Nothing THEN 0 ELSE 1)
Bounded == Cardinality(roots) <= MaxRoots /\ Entries <= MaxEntries
Next == (Client /\ Bounded') \/ Mark \/ GC_finalize

Spec == Init /\ [][Next]_vars

-----------------------------------------------------------------------------
(***************************************************************************)
(* Properties.                                                             *)
(***************************************************************************)

Entry == [obj : Obj, kind : FinalizerKinds]
LinkEntry == [link : Link, obj : Obj]
\* Every variable has its type.
TypeOK ==
  /\ alive \subseteq Obj /\ roots \subseteq Obj /\ marked \subseteq Obj
  /\ field \in [Obj -> Obj \cup {Null}] /\ value \in [Link -> Obj \cup {Null}]
  /\ dl \subseteq LinkEntry /\ ll \subseteq LinkEntry
  /\ fo \subseteq Entry /\ queue \in Seq(Entry)
  /\ curr \in [Thread -> Entry \cup {NoFo}]
  /\ toggle \subseteq [obj : Obj, strong : BOOLEAN]
  /\ pend \in {Nothing} \cup [table : {"fo"}, entry : Entry]
               \cup [table : {"link"}, entry : LinkEntry]
  /\ pc \in {"run", "finalize"}

\* Nothing is freed that the program, an object awaiting finalization, a
\* finalizer about to run or a strong toggle reference can reach.
QueuedKept ==
  From(Held \cup Queued \cup {e.obj : e \in {x \in toggle : x.strong}}) \subseteq alive

\* The tables never refer to memory that was freed: links lie in live objects
\* (the collector would write to others), finalizers and weak references are
\* for live ones; and no link has two entries.
TablesSafe ==
  /\ \A e \in dl \cup ll : e.obj \in alive /\ Home[e.link] \in alive \cup {Null}
  /\ \A l \in Link : Cardinality(EntriesOf(dl \cup ll, l)) <= 1
  /\ ObjectsOf(fo) \subseteq alive
  /\ ObjectsOf(toggle) \subseteq alive

\* gc.h: "All but the last finalizer registered for an object is ignored."
OneFinalizer == Cardinality(ObjectsOf(fo)) = Cardinality(fo)

\* A link that was registered holds a pointer to a live object or is NULL.
WeakSafe ==
  \A l \in Link : Home[l] \in alive \cup {Null} => value[l] \in alive \cup {Null}

Enqueued == Range(queue') \ Range(queue)
Collected == pc = "finalize" /\ pc' = "run"
\* The objects that a collection enqueues were unreachable, reach none of the
\* others that it enqueues (but for no_order), nor themselves; and one
\* registered "unreachable" is not reached even from a no_order one.
OrderKept ==
  [][Collected => \A e \in Enqueued :
       /\ e.obj \notin From(Held \cup Queued)
       /\ e.kind # "no_order" =>
            From(Pushed(e)) \cap ObjectsOf(Enqueued) = {}
       /\ e.kind = "unreachable" =>
            \A d \in Enqueued \ {e} : e.obj \notin From({d.obj})]_vars

\* Short links are cleared before anything reachable from their object is
\* finalized; long links not before the object is really gone.
LinkOrder ==
  [][Collected =>
       /\ \A e \in dl' : From({e.obj}) \cap ObjectsOf(Enqueued) = {}
       /\ \A e \in ll \ ll' : e.obj \notin alive' \/ Home[e.link] \notin alive' \cup {Null}]_vars

(***************************************************************************)
(* The inductive invariant behind them, as long as no mark stack overflows *)
(* in GC_finalize.                                                         *)
(***************************************************************************)

\* No object in use points to memory that was freed, even if only a link or a
\* table still leads to it: its finalizer may bring it back.
AliveClosed == \A o \in alive : Targets(o) \subseteq alive
AllAlive == Held \cup Queued \subseteq alive

\* What was marked stays closed, and has all that the program can get hold of,
\* until GC_finalize runs with the world started again.
MarkedClosed ==
  pc = "finalize" =>
    /\ marked \subseteq alive /\ Held \cup Queued \subseteq marked
    /\ \A o \in marked : Targets(o) \subseteq marked

\* A link that holds something has an entry that knows it, and only one, in the
\* table it belongs to.
LinksKnown ==
  /\ \A l \in Link : value[l] # Null /\ Home[l] \in alive \cup {Null} =>
       \E e \in dl \cup ll : e.link = l /\ e.obj = value[l]
  /\ \A e \in dl : e.link \in ShortLink
  /\ \A e \in ll : e.link \notin ShortLink
  /\ \A e, d \in dl \cup ll : e.link = d.link => e = d

\* The tables and the links: entries, and what registered links hold, are never
\* about memory that was freed.
TablesSound ==
  /\ TypeOK /\ TablesSafe /\ WeakSafe
  /\ AliveClosed /\ AllAlive /\ MarkedClosed /\ LinksKnown

\* One collection deals with its finalizers and its links in the documented
\* order.
FinalizeOrder == OrderKept /\ LinkOrder
=============================================================================
