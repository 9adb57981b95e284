--------------------------- MODULE FinalizeProofs ---------------------------
(* QueuedKept, TablesSound and FinalizeOrder hold for any number of objects, *)
(* links and threads as long as no mark stack overflows in GC_finalize       *)
(* (~Overflows; the run final_overflow shows what happens then).             *)
EXTENDS Finalize, FiniteSetTheorems, TLAPS

\* What single steps preserve.  The tables are finite, so they can be arranged.
EntriesAlive ==
  /\ \A e \in dl \cup ll : e.obj \in alive /\ Home[e.link] \in alive \cup {Null}
  /\ \A e \in fo : e.obj \in alive
  /\ \A e \in toggle : e.obj \in alive
FInv ==
  /\ TypeOK /\ EntriesAlive /\ IsFiniteSet(fo)
  /\ AliveClosed /\ AllAlive /\ MarkedClosed /\ LinksKnown

-----------------------------------------------------------------------------
(* What is reachable from a set. *)

\* From(S) contains S, is closed, and lies in every closed set that contains S.
LEMMA FromContains ==
  ASSUME NEW S \in SUBSET Obj
  PROVE  S \subseteq From(S) /\ From(S) \subseteq Obj
BY DEF From

LEMMA FromClosed ==
  ASSUME TypeOK, NEW S, NEW o \in From(S)
  PROVE  Targets(o) \subseteq From(S)
<1>1. Targets(o) \subseteq Obj
  BY DEF TypeOK, From, Targets
<1>2. ASSUME NEW p \in Targets(o), NEW C \in SUBSET Obj, S \subseteq C,
             \A x \in C : Targets(x) \subseteq C
      PROVE  p \in C
  <2>1. o \in C
    BY <1>2 DEF From
  <2> QED
    BY <2>1, <1>2
<1> QED
  BY <1>1, <1>2 DEF From

LEMMA FromLeast ==
  ASSUME NEW S, NEW C \in SUBSET Obj, S \subseteq C, \A x \in C : Targets(x) \subseteq C
  PROVE  From(S) \subseteq C
BY DEF From

-----------------------------------------------------------------------------
(* What the program holds, as a function of the variables it depends on. *)
HeldOf(r, c, p) ==
  (r \cup ObjectsOf(Range(c)) \cup {p.entry.obj}
     \cup IF p.table = "link" THEN {Home[p.entry.link]} ELSE {}) \ {Null}

LEMMA HeldIs ==
  Held = HeldOf(roots, curr, pend) /\ Held' = HeldOf(roots', curr', pend')
BY DEF Held, HeldOf

LEMMA HeldWithin ==
  ASSUME NEW r, NEW c, NEW p, NEW S,
         \A x \in r : x = Null \/ x \in S,
         \A t \in DOMAIN c : c[t].obj = Null \/ c[t].obj \in S,
         p.entry.obj = Null \/ p.entry.obj \in S,
         p.table = "link" => Home[p.entry.link] = Null \/ Home[p.entry.link] \in S
  PROVE  HeldOf(r, c, p) \subseteq S
BY DEF HeldOf, ObjectsOf, Range

LEMMA HeldHas ==
  ASSUME NEW r, NEW c, NEW p
  PROVE  /\ \A x \in r : x # Null => x \in HeldOf(r, c, p)
         /\ \A t \in DOMAIN c : c[t].obj # Null => c[t].obj \in HeldOf(r, c, p)
         /\ p.entry.obj # Null => p.entry.obj \in HeldOf(r, c, p)
         /\ p.table = "link" /\ Home[p.entry.link] # Null => Home[p.entry.link] \in HeldOf(r, c, p)
BY DEF HeldOf, ObjectsOf, Range

LEMMA HeldGrows ==
  ASSUME NEW r, NEW c, NEW p, NEW s, NEW X, s \subseteq r \cup X
  PROVE  HeldOf(s, c, p) \subseteq HeldOf(r, c, p) \cup X
BY DEF HeldOf

\* The types of the record in GC_oom_fn and of the entries in use.
LEMMA PendTyped ==
  ASSUME TypeOK
  PROVE  /\ \/ pend = Nothing
            \/ pend.table = "fo" /\ pend.entry \in Entry
            \/ pend.table = "link" /\ pend.entry \in LinkEntry
         /\ Nothing.table = "none" /\ Nothing.entry.obj = Null
<1>1. pend = Nothing \/ pend \in [table : {"fo"}, entry : Entry]
                     \/ pend \in [table : {"link"}, entry : LinkEntry]
  BY DEF TypeOK
<1>2. Nothing.table = "none" /\ Nothing.entry.obj = Null
  BY DEF Nothing, NoFo
<1>3. ASSUME pend \in [table : {"fo"}, entry : Entry]
      PROVE  pend.table = "fo" /\ pend.entry \in Entry
  BY <1>3
<1>4. ASSUME pend \in [table : {"link"}, entry : LinkEntry]
      PROVE  pend.table = "link" /\ pend.entry \in LinkEntry
  BY <1>4
<1> QED
  BY <1>1, <1>2, <1>3, <1>4

LEMMA HeldAlive ==
  ASSUME FInv
  PROVE  /\ \A o \in roots : o \in alive /\ o \in Held
         /\ \A t \in Thread : curr[t] = NoFo \/ curr[t].obj \in Held
         /\ pend # Nothing => pend.entry.obj \in Held
         /\ pend.table = "link" => Home[pend.entry.link] \in Held \cup {Null}
         /\ Held \subseteq alive
<1>1. TypeOK /\ AllAlive
  BY DEF FInv
<1>n. Null \notin Obj
  BY KindsAssumption
<1>2. roots \subseteq Obj /\ DOMAIN curr = Thread /\ \A t \in Thread : curr[t] = NoFo \/ curr[t] \in Entry
  BY <1>1 DEF TypeOK
<1>3. pend # Nothing => pend.entry.obj \in Obj
  BY <1>1, PendTyped DEF Entry, LinkEntry
<1>4. \A t \in Thread : curr[t] = NoFo \/ curr[t].obj \in Obj
  BY <1>2 DEF Entry
<1>5. Held = HeldOf(roots, curr, pend)
  BY HeldIs
<1>6. Held \subseteq alive
  BY <1>1 DEF AllAlive
<1> QED
  BY <1>2, <1>3, <1>4, <1>5, <1>6, <1>n, HeldHas

-----------------------------------------------------------------------------
(* Frames. *)
LEMMA GraphStays ==
  ASSUME FInv, UNCHANGED <<alive, field, marked, pc>>,
         Held' \cup Queued' \subseteq alive,
         pc = "finalize" => Held' \cup Queued' \subseteq marked
  PROVE  AliveClosed' /\ AllAlive' /\ MarkedClosed'
<1>1. AliveClosed /\ MarkedClosed
  BY DEF FInv
<1>2. \A o : Targets(o)' = Targets(o)
  BY DEF Targets
<1>3. AliveClosed'
  BY <1>1, <1>2 DEF AliveClosed
<1>4. MarkedClosed'
  BY <1>1, <1>2 DEF MarkedClosed
<1> QED
  BY <1>3, <1>4 DEF AllAlive

LEMMA TablesStay ==
  ASSUME FInv, UNCHANGED <<alive, value, dl, ll, fo, toggle>>
  PROVE  EntriesAlive' /\ LinksKnown' /\ IsFiniteSet(fo)'
BY DEF FInv, EntriesAlive, LinksKnown

LEMMA QueueStays ==
  ASSUME queue' = queue
  PROVE  Queued' = Queued
BY DEF Queued

LEMMA QueuedAlive ==
  ASSUME FInv
  PROVE  /\ Queued \subseteq alive
         /\ pc = "finalize" => Held \cup Queued \subseteq marked
BY DEF FInv, AllAlive, MarkedClosed

\* The graph stays, and what is held stays or shrinks: the rest is typing.
LEMMA HeldShrinks ==
  ASSUME FInv, UNCHANGED <<alive, field, marked, pc, queue>>, Held' \subseteq Held
  PROVE  AliveClosed' /\ AllAlive' /\ MarkedClosed'
BY GraphStays, QueueStays, QueuedAlive, HeldAlive

-----------------------------------------------------------------------------
(* The program. *)
LEMMA KeepLoad ==
  ASSUME FInv, NEW o \in roots, Load(o)
  PROVE  FInv'
<1>t. TypeOK /\ AliveClosed /\ MarkedClosed
  BY DEF FInv
<1>f. UNCHANGED <<alive, field, value, dl, ll, fo, queue, curr, toggle, pend, marked, pc>>
  BY DEF Load, links, final, gc
<1>r. roots' = roots \cup {field[o]} /\ field[o] # Null
  BY DEF Load
<1>o. o \in Obj /\ o \in Held /\ o \in alive
  BY <1>t, HeldAlive DEF TypeOK
<1>x. field[o] \in Targets(o) /\ field[o] \in Obj
  BY <1>o, <1>r, <1>t DEF Targets, TypeOK
<1>1. TypeOK'
  BY <1>f, <1>r, <1>x, <1>t DEF TypeOK
<1>2. Held' \subseteq Held \cup {field[o]}
  BY <1>f, <1>r, HeldIs, HeldGrows
<1>3. field[o] \in alive /\ (pc = "finalize" => field[o] \in marked)
  BY <1>x, <1>o, <1>t DEF AliveClosed, MarkedClosed
<1>4. Held' \cup Queued' \subseteq alive /\ (pc = "finalize" => Held' \cup Queued' \subseteq marked)
  BY <1>2, <1>3, <1>f, QueueStays, QueuedAlive, HeldAlive
<1>5. AliveClosed' /\ AllAlive' /\ MarkedClosed'
  BY <1>4, <1>f, GraphStays
<1>6. EntriesAlive' /\ LinksKnown' /\ IsFiniteSet(fo)'
  BY <1>f, TablesStay
<1> QED
  BY <1>1, <1>5, <1>6 DEF FInv

LEMMA KeepDrop ==
  ASSUME FInv, NEW o \in roots, Drop(o)
  PROVE  FInv'
<1>t. TypeOK /\ EntriesAlive /\ AliveClosed /\ MarkedClosed /\ LinksKnown
  BY DEF FInv
<1>f. UNCHANGED <<alive, field, value, dl, ll, fo, queue, curr, toggle, pend, marked, pc>>
  BY DEF Drop, heap, links, final, gc
<1>r. roots' = roots \ {o}
  BY DEF Drop
<1>1. TypeOK'
  BY <1>f, <1>r, <1>t DEF TypeOK
<1>2. Held' \subseteq Held \cup {}
  BY <1>f, <1>r, HeldIs, HeldGrows
<1>3. AliveClosed' /\ AllAlive' /\ MarkedClosed'
  BY <1>2, <1>f, HeldShrinks
<1>4. EntriesAlive' /\ LinksKnown' /\ IsFiniteSet(fo)'
  BY <1>f, TablesStay
<1> QED
  BY <1>1, <1>3, <1>4 DEF FInv

\* A pointer is stored that the program holds, into an object that it holds:
\* both are alive and, in between mark phase and GC_finalize, marked.
LEMMA KeepStore ==
  ASSUME FInv, NEW o \in roots, NEW v \in roots \cup {Null}, Store(o, v)
  PROVE  FInv'
<1>t. TypeOK /\ EntriesAlive /\ AliveClosed /\ MarkedClosed /\ LinksKnown
  BY DEF FInv
<1>f. UNCHANGED <<alive, roots, value, dl, ll, fo, queue, curr, toggle, pend, marked, pc>>
  BY DEF Store, heap, links, final, gc
<1>r. field' = [field EXCEPT ![o] = v]
  BY DEF Store
<1>1. TypeOK'
  BY <1>f, <1>r, <1>t DEF TypeOK
<1>2. Held' = Held /\ Queued' = Queued
  BY <1>f, HeldIs, QueueStays
<1>3. \A x \in Obj : Targets(x)' \subseteq Targets(x) \cup (roots \cap Targets(x)')
  BY <1>r, <1>t DEF Targets, TypeOK
<1>4. roots \subseteq alive /\ roots \subseteq Held
  BY HeldAlive
<1>5. alive \subseteq Obj /\ marked \subseteq Obj
  BY <1>t DEF TypeOK
<1>6. AliveClosed'
  BY <1>3, <1>4, <1>5, <1>f, <1>t DEF AliveClosed
<1>7. MarkedClosed'
  <2> SUFFICES ASSUME pc = "finalize"
              PROVE  /\ marked \subseteq alive /\ Held \cup Queued \subseteq marked
                     /\ \A x \in marked : Targets(x)' \subseteq marked
    BY <1>2, <1>f DEF MarkedClosed
  <2>1. /\ marked \subseteq alive /\ Held \cup Queued \subseteq marked
        /\ \A x \in marked : Targets(x) \subseteq marked
    BY <1>t DEF MarkedClosed
  <2> QED
    BY <2>1, <1>3, <1>4, <1>5
<1>8. AllAlive'
  BY <1>2, <1>f DEF AllAlive, FInv
<1>9. EntriesAlive' /\ LinksKnown' /\ IsFiniteSet(fo)'
  BY <1>f, TablesStay
<1> QED
  BY <1>1, <1>6, <1>7, <1>8, <1>9 DEF FInv

\* A new object is cleared, and no table knows a link in it yet.
LEMMA KeepAlloc ==
  ASSUME FInv, NEW o \in Obj, Alloc(o)
  PROVE  FInv'
<1>t. TypeOK /\ EntriesAlive /\ AliveClosed /\ MarkedClosed /\ LinksKnown
  BY DEF FInv
<1>f. UNCHANGED <<dl, ll, fo, queue, curr, toggle, pend, marked, pc>>
  BY DEF Alloc, final, gc
<1>r. /\ pc = "run" /\ o \notin alive /\ alive' = alive \cup {o} /\ roots' = roots \cup {o}
      /\ field' = [field EXCEPT ![o] = Null]
      /\ value' = [l \in Link |-> IF Home[l] = o THEN Null ELSE value[l]]
  BY DEF Alloc
<1>n. Null \notin Obj /\ Home \in [Link -> Obj \cup {Null}]
  BY KindsAssumption
<1>1. TypeOK'
  BY <1>f, <1>r, <1>t DEF TypeOK
<1>2. Held' \subseteq Held \cup {o}
  BY <1>f, <1>r, HeldIs, HeldGrows
<1>3. AllAlive'
  BY <1>2, <1>r, <1>f, QueueStays, QueuedAlive, HeldAlive DEF AllAlive
<1>4. AliveClosed'
  <2>1. \A x \in alive : Targets(x)' = Targets(x)
    BY <1>r, <1>t DEF Targets, TypeOK
  <2>2. Targets(o)' = {}
    BY <1>r, <1>t DEF Targets, TypeOK
  <2> QED
    BY <2>1, <2>2, <1>r, <1>t DEF AliveClosed
<1>5. MarkedClosed'
  BY <1>r, <1>f DEF MarkedClosed
<1>6. EntriesAlive'
  BY <1>r, <1>f, <1>t DEF EntriesAlive
<1>7. LinksKnown'
  <2>1. ASSUME NEW l \in Link, value'[l] # Null, Home[l] \in alive' \cup {Null}
        PROVE  \E e \in dl \cup ll : e.link = l /\ e.obj = value'[l]
    <3>1. Home[l] # o /\ value'[l] = value[l]
      BY <2>1, <1>r
    <3>2. Home[l] \in alive \cup {Null}
      BY <3>1, <2>1, <1>r
    <3> QED
      BY <3>1, <3>2, <2>1, <1>t DEF LinksKnown
  <2> QED
    BY <2>1, <1>f, <1>t DEF LinksKnown
<1>8. IsFiniteSet(fo)'
  BY <1>f DEF FInv
<1> QED
  BY <1>1, <1>3, <1>4, <1>5, <1>6, <1>7, <1>8 DEF FInv

LEMMA KeepReveal ==
  ASSUME FInv, NEW l \in Link, Reveal(l)
  PROVE  FInv'
<1>t. TypeOK /\ EntriesAlive /\ AliveClosed /\ MarkedClosed /\ LinksKnown
  BY DEF FInv
<1>f. UNCHANGED <<alive, field, value, dl, ll, fo, queue, curr, toggle, pend, marked, pc>>
  BY DEF Reveal, heap, links, final, gc
<1>r. pc = "run" /\ Home[l] \in roots \cup {Null} /\ value[l] # Null /\ roots' = roots \cup {value[l]}
  BY DEF Reveal, HasWord
<1>v. value[l] \in alive
  <2>1. Home[l] \in alive \cup {Null}
    BY <1>r, HeldAlive
  <2>2. PICK e \in dl \cup ll : e.link = l /\ e.obj = value[l]
    BY <2>1, <1>r, <1>t DEF LinksKnown
  <2> QED
    BY <2>2, <1>t DEF EntriesAlive
<1>1. TypeOK'
  BY <1>f, <1>r, <1>v, <1>t DEF TypeOK
<1>2. Held' \subseteq Held \cup {value[l]}
  BY <1>f, <1>r, HeldIs, HeldGrows
<1>3. Held' \cup Queued' \subseteq alive
  BY <1>2, <1>v, <1>f, QueueStays, QueuedAlive, HeldAlive
<1>4. AliveClosed' /\ AllAlive' /\ MarkedClosed'
  BY <1>3, <1>f, <1>r, GraphStays
<1>5. EntriesAlive' /\ LinksKnown' /\ IsFiniteSet(fo)'
  BY <1>f, TablesStay
<1> QED
  BY <1>1, <1>4, <1>5 DEF FInv

-----------------------------------------------------------------------------
(* Links. *)

\* Registering a link replaces the entry it had, in the one table it can be in.
LEMMA KeepSetLink ==
  ASSUME FInv, NEW new \in LinkEntry, new.obj \in alive, Home[new.link] \in alive \cup {Null},
         SetLink(new), UNCHANGED <<alive, toggle>>, \A e \in fo' : e.obj \in alive
  PROVE  /\ EntriesAlive' /\ LinksKnown'
         /\ value' \in [Link -> Obj \cup {Null}] /\ dl' \subseteq LinkEntry /\ ll' \subseteq LinkEntry
<1>t. TypeOK /\ EntriesAlive /\ AliveClosed /\ MarkedClosed /\ LinksKnown
  BY DEF FInv
<1>r. value' = [value EXCEPT ![new.link] = new.obj]
  BY DEF SetLink
<1>w. value \in [Link -> Obj \cup {Null}] /\ dl \subseteq LinkEntry /\ ll \subseteq LinkEntry
  BY <1>t DEF TypeOK
<1>l. new.link \in Link /\ new.obj \in Obj
  BY DEF LinkEntry
<1>v. value' \in [Link -> Obj \cup {Null}]
  BY <1>r, <1>l, <1>w
<1>d. /\ \A e : e \in dl' \cup ll' <=> e = new \/ (e \in dl \cup ll /\ e.link # new.link)
      /\ dl' \subseteq dl \cup {new} /\ ll' \subseteq ll \cup {new}
      /\ new.link \in ShortLink => ll' = ll
      /\ new.link \notin ShortLink => dl' = dl
  <2>1. CASE new.link \in ShortLink
    <3>1. dl' = (dl \ {e \in dl : e.link = new.link}) \cup {new} /\ ll' = ll
      BY <2>1 DEF SetLink, PutDl, EntriesOf
    <3>2. \A e \in ll : e.link # new.link
      BY <2>1, <1>t DEF LinksKnown
    <3> QED
      BY <3>1, <3>2, <2>1
  <2>2. CASE new.link \notin ShortLink
    <3>1. ll' = (ll \ {e \in ll : e.link = new.link}) \cup {new} /\ dl' = dl
      BY <2>2 DEF SetLink, PutDl, EntriesOf
    <3>2. \A e \in dl : e.link # new.link
      BY <2>2, <1>t DEF LinksKnown
    <3> QED
      BY <3>1, <3>2, <2>2
  <2> QED
    BY <2>1, <2>2
<1>1. EntriesAlive'
  BY <1>d, <1>t DEF EntriesAlive
<1>2. LinksKnown'
  <2>1. ASSUME NEW l \in Link, value'[l] # Null, Home[l] \in alive' \cup {Null}
        PROVE  \E e \in dl' \cup ll' : e.link = l /\ e.obj = value'[l]
    <3>1. CASE l = new.link
      BY <3>1, <1>d, <1>r, <1>w
    <3>2. CASE l # new.link
      <4>1. value'[l] = value[l]
        BY <3>2, <1>r, <1>w
      <4>2. PICK e \in dl \cup ll : e.link = l /\ e.obj = value[l]
        BY <4>1, <2>1, <1>t DEF LinksKnown
      <4> QED
        BY <4>1, <4>2, <3>2, <1>d
    <3> QED
      BY <3>1, <3>2
  <2>2. \A e \in dl' : e.link \in ShortLink
    BY <1>d, <1>t DEF LinksKnown
  <2>3. \A e \in ll' : e.link \notin ShortLink
    BY <1>d, <1>t DEF LinksKnown
  <2>4. \A e, d \in dl' \cup ll' : e.link = d.link => e = d
    BY <1>d, <1>t DEF LinksKnown
  <2> QED
    BY <2>1, <2>2, <2>3, <2>4 DEF LinksKnown
<1> QED
  BY <1>1, <1>2, <1>v, <1>d, <1>w

LEMMA KeepGC_register_disappearing_link_inner ==
  ASSUME FInv, NEW l \in Link, NEW o \in roots, GC_register_disappearing_link_inner(l, o)
  PROVE  FInv'
<1>t. TypeOK /\ EntriesAlive /\ AliveClosed /\ MarkedClosed /\ LinksKnown
  BY DEF FInv
<1>f. UNCHANGED <<alive, field, roots, fo, queue, curr, toggle, pend, marked, pc>>
  BY DEF GC_register_disappearing_link_inner, heap, links, final, gc
<1>r. pc = "run" /\ Home[l] \in roots \cup {Null} /\ SetLink([link |-> l, obj |-> o])
  BY DEF GC_register_disappearing_link_inner, HasWord
<1>o. roots \subseteq alive /\ roots \subseteq Obj
  BY <1>t, HeldAlive DEF TypeOK
<1>p. [link |-> l, obj |-> o] \in LinkEntry
  BY <1>o DEF LinkEntry
<1>1. /\ EntriesAlive' /\ LinksKnown'
      /\ value' \in [Link -> Obj \cup {Null}] /\ dl' \subseteq LinkEntry /\ ll' \subseteq LinkEntry
  <2>1. \A e \in fo' : e.obj \in alive
    BY <1>f, <1>t DEF EntriesAlive
  <2> QED
    BY <2>1, <1>f, <1>r, <1>o, <1>p, KeepSetLink
<1>2. TypeOK'
  BY <1>1, <1>f, <1>t DEF TypeOK
<1>3. Held' = Held
  BY <1>f, HeldIs
<1>4. AliveClosed' /\ AllAlive' /\ MarkedClosed'
  BY <1>3, <1>f, HeldShrinks
<1>5. IsFiniteSet(fo)'
  BY <1>f DEF FInv
<1> QED
  BY <1>1, <1>2, <1>4, <1>5 DEF FInv

LEMMA KeepGC_unregister_disappearing_link ==
  ASSUME FInv, NEW l \in Link, GC_unregister_disappearing_link(l)
  PROVE  FInv'
<1>t. TypeOK /\ EntriesAlive /\ AliveClosed /\ MarkedClosed /\ LinksKnown
  BY DEF FInv
<1>f. UNCHANGED <<alive, field, roots, fo, queue, curr, toggle, pend, marked, pc>>
  BY DEF GC_unregister_disappearing_link, heap, links, final, gc
<1>r. value' = [value EXCEPT ![l] = Null]
  BY DEF GC_unregister_disappearing_link
<1>e. PICK e \in dl \cup ll : e.link = l /\ dl' = dl \ {e} /\ ll' = ll \ {e}
  BY DEF GC_unregister_disappearing_link, EntriesOf
<1>w. value \in [Link -> Obj \cup {Null}]
  BY <1>t DEF TypeOK
<1>1. EntriesAlive'
  BY <1>e, <1>f, <1>t DEF EntriesAlive
<1>2. LinksKnown'
  <2>1. ASSUME NEW k \in Link, value'[k] # Null, Home[k] \in alive' \cup {Null}
        PROVE  \E d \in dl' \cup ll' : d.link = k /\ d.obj = value'[k]
    <3>1. k # l /\ value'[k] = value[k]
      BY <2>1, <1>r, <1>w
    <3>2. PICK d \in dl \cup ll : d.link = k /\ d.obj = value[k]
      BY <3>1, <2>1, <1>f, <1>t DEF LinksKnown
    <3> QED
      BY <3>1, <3>2, <1>e
  <2> QED
    BY <2>1, <1>e, <1>t DEF LinksKnown
<1>3. TypeOK'
  BY <1>r, <1>e, <1>f, <1>t DEF TypeOK
<1>4. Held' = Held
  BY <1>f, HeldIs
<1>5. AliveClosed' /\ AllAlive' /\ MarkedClosed'
  BY <1>4, <1>f, HeldShrinks
<1>6. IsFiniteSet(fo)'
  BY <1>f DEF FInv
<1> QED
  BY <1>1, <1>2, <1>3, <1>5, <1>6 DEF FInv

\* A moved link takes its one entry along.
MovedEntry(e, l, new) == IF e.link = l THEN [link |-> new, obj |-> e.obj] ELSE e
LEMMA MovedIs ==
  ASSUME NEW table \in SUBSET LinkEntry, NEW l, NEW new \in Link
  PROVE  Moved(table, l, new) = {MovedEntry(e, l, new) : e \in table}
<1>1. \A e \in table : [e EXCEPT !.link = new] = [link |-> new, obj |-> e.obj]
  BY DEF LinkEntry
<1> QED
  BY <1>1 DEF Moved, MovedEntry

LEMMA KeepGC_move_disappearing_link_inner ==
  ASSUME FInv, NEW l \in Link, NEW new \in Link, GC_move_disappearing_link_inner(l, new)
  PROVE  FInv'
<1>t. TypeOK /\ EntriesAlive /\ AliveClosed /\ MarkedClosed /\ LinksKnown
  BY DEF FInv
<1>f. UNCHANGED <<alive, field, roots, fo, queue, curr, toggle, pend, marked, pc>>
  BY DEF GC_move_disappearing_link_inner, heap, links, final, gc
<1>r. /\ Home[l] \in roots \cup {Null} /\ Home[new] \in roots \cup {Null}
      /\ l \in ShortLink <=> new \in ShortLink
      /\ value' = [value EXCEPT ![new] = value[l], ![l] = Null]
      /\ dl' = Moved(dl, l, new) /\ ll' = Moved(ll, l, new)
  BY DEF GC_move_disappearing_link_inner, HasWord
<1>n. l # new /\ \A e \in dl \cup ll : e.link # new
  BY DEF GC_move_disappearing_link_inner, EntriesOf
<1>w. value \in [Link -> Obj \cup {Null}] /\ dl \subseteq LinkEntry /\ ll \subseteq LinkEntry
  BY <1>t DEF TypeOK
<1>h. Home[l] \in alive \cup {Null} /\ Home[new] \in alive \cup {Null}
  BY <1>r, HeldAlive
<1>d. dl' = {MovedEntry(e, l, new) : e \in dl} /\ ll' = {MovedEntry(e, l, new) : e \in ll}
  BY <1>r, <1>w, MovedIs
<1>m. \A e \in LinkEntry : /\ MovedEntry(e, l, new) \in LinkEntry
                           /\ MovedEntry(e, l, new).obj = e.obj
                           /\ e.link = l => MovedEntry(e, l, new).link = new
                           /\ e.link # l => MovedEntry(e, l, new) = e
  BY DEF MovedEntry, LinkEntry
<1>1. EntriesAlive'
  <2>1. \A e \in dl' \cup ll' : e.obj \in alive /\ Home[e.link] \in alive \cup {Null}
    BY <1>d, <1>m, <1>w, <1>h, <1>t DEF EntriesAlive
  <2> QED
    BY <2>1, <1>f, <1>t DEF EntriesAlive
<1>2. LinksKnown'
  <2>1. ASSUME NEW k \in Link, value'[k] # Null, Home[k] \in alive' \cup {Null}
        PROVE  \E d \in dl' \cup ll' : d.link = k /\ d.obj = value'[k]
    <3>1. k # l
      BY <2>1, <1>r, <1>w
    <3>2. CASE k = new
      <4>1. value'[k] = value[l]
        BY <3>2, <1>r, <1>w, <1>n
      <4>2. PICK e \in dl \cup ll : e.link = l /\ e.obj = value[l]
        BY <4>1, <2>1, <1>h, <1>t DEF LinksKnown
      <4>3. MovedEntry(e, l, new) \in dl' \cup ll'
        BY <4>2, <1>d
      <4>4. MovedEntry(e, l, new).link = k /\ MovedEntry(e, l, new).obj = value'[k]
        BY <4>1, <4>2, <3>2, <1>m, <1>w
      <4> QED
        BY <4>3, <4>4
    <3>3. CASE k # new
      <4>1. value'[k] = value[k]
        BY <3>1, <3>3, <1>r, <1>w
      <4>2. PICK e \in dl \cup ll : e.link = k /\ e.obj = value[k]
        BY <4>1, <2>1, <1>f, <1>t DEF LinksKnown
      <4>3. MovedEntry(e, l, new) = e
        BY <4>2, <3>1, <1>m, <1>w
      <4>4. e \in dl' \cup ll'
        BY <4>2, <4>3, <1>d
      <4> QED
        BY <4>1, <4>2, <4>4
    <3> QED
      BY <3>2, <3>3
  <2>2. \A e \in dl' : e.link \in ShortLink
    BY <1>d, <1>m, <1>w, <1>r, <1>t DEF LinksKnown
  <2>3. \A e \in ll' : e.link \notin ShortLink
    BY <1>d, <1>m, <1>w, <1>r, <1>t DEF LinksKnown
  <2>4. ASSUME NEW x \in dl' \cup ll', NEW y \in dl' \cup ll', x.link = y.link
        PROVE  x = y
    <3>1. PICK e \in dl \cup ll : x = MovedEntry(e, l, new)
      BY <1>d
    <3>2. PICK d \in dl \cup ll : y = MovedEntry(d, l, new)
      BY <1>d
    <3>3. e \in LinkEntry /\ d \in LinkEntry /\ e.link # new /\ d.link # new
      BY <3>1, <3>2, <1>w, <1>n
    <3>4. e.link = d.link
      BY <3>1, <3>2, <3>3, <2>4, <1>m
    <3> QED
      BY <3>1, <3>2, <3>4, <1>t DEF LinksKnown
  <2> QED
    BY <2>1, <2>2, <2>3, <2>4 DEF LinksKnown
<1>3. TypeOK'
  <2>1. dl' \subseteq LinkEntry /\ ll' \subseteq LinkEntry
    BY <1>d, <1>m, <1>w
  <2>2. value' \in [Link -> Obj \cup {Null}]
    BY <1>r, <1>w
  <2> QED
    BY <2>1, <2>2, <1>f, <1>t DEF TypeOK
<1>4. Held' = Held
  BY <1>f, HeldIs
<1>5. AliveClosed' /\ AllAlive' /\ MarkedClosed'
  BY <1>4, <1>f, HeldShrinks
<1>6. IsFiniteSet(fo)'
  BY <1>f DEF FInv
<1> QED
  BY <1>1, <1>2, <1>3, <1>5, <1>6 DEF FInv

-----------------------------------------------------------------------------
(* Registrations. *)
LEMMA KeepRegisterLinkOom ==
  ASSUME FInv, NEW l \in Link, NEW o \in roots, RegisterLinkOom(l, o)
  PROVE  FInv'
<1>t. TypeOK /\ EntriesAlive /\ AliveClosed /\ MarkedClosed /\ LinksKnown
  BY DEF FInv
<1>f. UNCHANGED <<alive, field, roots, value, dl, ll, fo, queue, curr, toggle, marked, pc>>
  BY DEF RegisterLinkOom, heap, links, final, gc
<1>r. /\ pc = "run" /\ Home[l] \in roots \cup {Null}
      /\ pend' = [table |-> "link", entry |-> [link |-> l, obj |-> o]]
  BY DEF RegisterLinkOom, HasWord
<1>o. roots \subseteq Obj /\ roots \subseteq Held
  BY <1>t, HeldAlive DEF TypeOK
<1>p. /\ pend'.table = "link" /\ pend'.entry.obj = o /\ pend'.entry.link = l
      /\ pend' \in [table : {"link"}, entry : LinkEntry]
  BY <1>r, <1>o DEF LinkEntry
<1>1. TypeOK'
  BY <1>f, <1>p, <1>t DEF TypeOK
<1>2. Held' \subseteq Held
  <2>1. DOMAIN curr = Thread
    BY <1>t DEF TypeOK
  <2>2. \A t \in DOMAIN curr : curr[t].obj = Null \/ curr[t].obj \in Held
    BY HeldIs, HeldHas
  <2>3. \A x \in roots : x = Null \/ x \in Held
    BY <1>o
  <2>4. HeldOf(roots, curr, pend') \subseteq Held
    BY <2>2, <2>3, <1>p, <1>o, <1>r, HeldWithin
  <2> QED
    BY <2>4, <1>f, HeldIs
<1>3. AliveClosed' /\ AllAlive' /\ MarkedClosed'
  BY <1>2, <1>f, HeldShrinks
<1>4. EntriesAlive' /\ LinksKnown' /\ IsFiniteSet(fo)'
  BY <1>f, TablesStay
<1> QED
  BY <1>1, <1>3, <1>4 DEF FInv

LEMMA KeepRegisterFinalizerOom ==
  ASSUME FInv, NEW o \in roots, NEW k \in FinalizerKinds, RegisterFinalizerOom(o, k)
  PROVE  FInv'
<1>t. TypeOK /\ EntriesAlive /\ AliveClosed /\ MarkedClosed /\ LinksKnown
  BY DEF FInv
<1>f. UNCHANGED <<alive, field, roots, value, dl, ll, fo, queue, curr, toggle, marked, pc>>
  BY DEF RegisterFinalizerOom, heap, links, final, gc
<1>r. pc = "run" /\ pend' = [table |-> "fo", entry |-> [obj |-> o, kind |-> k]]
  BY DEF RegisterFinalizerOom
<1>o. roots \subseteq Obj /\ roots \subseteq Held
  BY <1>t, HeldAlive DEF TypeOK
<1>p. /\ pend'.table # "link" /\ pend'.entry.obj = o
      /\ pend' \in [table : {"fo"}, entry : Entry]
  BY <1>r, <1>o DEF Entry
<1>1. TypeOK'
  BY <1>f, <1>p, <1>t DEF TypeOK
<1>2. Held' \subseteq Held
  <2>2. \A t \in DOMAIN curr : curr[t].obj = Null \/ curr[t].obj \in Held
    BY HeldIs, HeldHas
  <2>3. \A x \in roots : x = Null \/ x \in Held
    BY <1>o
  <2>4. HeldOf(roots, curr, pend') \subseteq Held
    BY <2>2, <2>3, <1>p, <1>o, <1>r, HeldWithin
  <2> QED
    BY <2>4, <1>f, HeldIs
<1>3. AliveClosed' /\ AllAlive' /\ MarkedClosed'
  BY <1>2, <1>f, HeldShrinks
<1>4. EntriesAlive' /\ LinksKnown' /\ IsFiniteSet(fo)'
  BY <1>f, TablesStay
<1> QED
  BY <1>1, <1>3, <1>4 DEF FInv

LEMMA FiniteFo ==
  ASSUME IsFiniteSet(fo), NEW new
  PROVE  IsFiniteSet(PutFo(fo, new)) /\ \A o : IsFiniteSet({e \in fo : e.obj # o})
<1>1. \A o : IsFiniteSet({e \in fo : e.obj # o})
  BY FS_Subset
<1> QED
  BY <1>1, FS_AddElement DEF PutFo

LEMMA KeepGC_register_finalizer_inner ==
  ASSUME FInv, NEW o \in roots, NEW k \in FinalizerKinds, GC_register_finalizer_inner(o, k)
  PROVE  FInv'
<1>t. TypeOK /\ EntriesAlive /\ AliveClosed /\ MarkedClosed /\ LinksKnown
  BY DEF FInv
<1>f. UNCHANGED <<alive, field, roots, value, dl, ll, queue, curr, toggle, pend, marked, pc>>
  BY DEF GC_register_finalizer_inner, heap, links, final, gc
<1>r. fo' = PutFo(fo, [obj |-> o, kind |-> k])
  BY DEF GC_register_finalizer_inner
<1>o. o \in Obj /\ o \in alive
  BY <1>t, HeldAlive DEF TypeOK
<1>p. [obj |-> o, kind |-> k] \in Entry /\ [obj |-> o, kind |-> k].obj = o
  BY <1>o DEF Entry
<1>q. fo' \subseteq fo \cup {[obj |-> o, kind |-> k]}
  BY <1>r DEF PutFo
<1>1. TypeOK'
  BY <1>f, <1>q, <1>p, <1>t DEF TypeOK
<1>2. Held' = Held
  BY <1>f, HeldIs
<1>3. AliveClosed' /\ AllAlive' /\ MarkedClosed'
  BY <1>2, <1>f, HeldShrinks
<1>4. EntriesAlive'
  BY <1>f, <1>q, <1>p, <1>o, <1>t DEF EntriesAlive
<1>5. LinksKnown'
  BY <1>f, <1>t DEF LinksKnown
<1>6. IsFiniteSet(fo)'
  BY <1>r, FiniteFo DEF FInv
<1> QED
  BY <1>1, <1>3, <1>4, <1>5, <1>6 DEF FInv

LEMMA KeepRemoveFinalizer ==
  ASSUME FInv, NEW o \in roots, RemoveFinalizer(o)
  PROVE  FInv'
<1>t. TypeOK /\ EntriesAlive /\ AliveClosed /\ MarkedClosed /\ LinksKnown
  BY DEF FInv
<1>f. UNCHANGED <<alive, field, roots, value, dl, ll, queue, curr, toggle, pend, marked, pc>>
  BY DEF RemoveFinalizer, heap, links, final, gc
<1>r. fo' = {e \in fo : e.obj # o}
  BY DEF RemoveFinalizer
<1>1. TypeOK'
  BY <1>f, <1>r, <1>t DEF TypeOK
<1>2. Held' = Held
  BY <1>f, HeldIs
<1>3. AliveClosed' /\ AllAlive' /\ MarkedClosed'
  BY <1>2, <1>f, HeldShrinks
<1>4. EntriesAlive'
  BY <1>f, <1>r, <1>t DEF EntriesAlive
<1>5. LinksKnown'
  BY <1>f, <1>t DEF LinksKnown
<1>6. IsFiniteSet(fo)'
  BY <1>r, FiniteFo DEF FInv
<1> QED
  BY <1>1, <1>3, <1>4, <1>5, <1>6 DEF FInv

LEMMA HeldWithoutPend ==
  ASSUME NEW r, NEW c, NEW p
  PROVE  HeldOf(r, c, Nothing) \subseteq HeldOf(r, c, p)
BY DEF HeldOf, Nothing, NoFo

LEMMA KeepNoMemory ==
  ASSUME FInv, NoMemory
  PROVE  FInv'
<1>t. TypeOK /\ EntriesAlive /\ AliveClosed /\ MarkedClosed /\ LinksKnown
  BY DEF FInv
<1>f. UNCHANGED <<alive, field, roots, value, dl, ll, fo, queue, curr, toggle, marked, pc>>
  BY DEF NoMemory, heap, links, final, gc
<1>r. pend' = Nothing
  BY DEF NoMemory
<1>1. TypeOK'
  BY <1>f, <1>r, <1>t DEF TypeOK
<1>2. Held' \subseteq Held
  BY <1>f, <1>r, HeldIs, HeldWithoutPend
<1>3. AliveClosed' /\ AllAlive' /\ MarkedClosed'
  BY <1>2, <1>f, HeldShrinks
<1>4. EntriesAlive' /\ LinksKnown' /\ IsFiniteSet(fo)'
  BY <1>f, TablesStay
<1> QED
  BY <1>1, <1>3, <1>4 DEF FInv

\* What was on the stack of the registration is alive when GC_oom_fn returns,
\* whatever was collected meanwhile.
LEMMA KeepOomFnReturns ==
  ASSUME FInv, OomFnReturns
  PROVE  FInv'
<1>t. TypeOK /\ EntriesAlive /\ AliveClosed /\ MarkedClosed /\ LinksKnown
  BY DEF FInv
<1>f. UNCHANGED <<alive, field, queue, curr, toggle, marked, pc>>
  BY DEF OomFnReturns, gc
<1>r. pend # Nothing /\ pend' = Nothing /\ roots' = roots \cup {pend.entry.obj}
  BY DEF OomFnReturns
<1>p. \/ pend.table = "fo" /\ pend.entry \in Entry
      \/ pend.table = "link" /\ pend.entry \in LinkEntry
  BY <1>r, <1>t, PendTyped
<1>o. pend.entry.obj \in Held /\ pend.entry.obj \in alive /\ pend.entry.obj \in Obj
  BY <1>r, <1>t, HeldAlive DEF TypeOK
<1>1. Held' \subseteq Held
  <2>1. HeldOf(roots', curr, pend') \subseteq HeldOf(roots', curr, pend)
    BY <1>r, HeldWithoutPend
  <2>2. HeldOf(roots', curr, pend) \subseteq HeldOf(roots, curr, pend) \cup {pend.entry.obj}
    <3>1. roots' \subseteq roots \cup {pend.entry.obj}
      BY <1>r
    <3> QED
      BY <3>1, HeldGrows
  <2> QED
    BY <2>1, <2>2, <1>o, <1>f, HeldIs
<1>2. AliveClosed' /\ AllAlive' /\ MarkedClosed'
  BY <1>1, <1>f, HeldShrinks
<1>3. EntriesAlive' /\ LinksKnown' /\ IsFiniteSet(fo)'
      /\ value' \in [Link -> Obj \cup {Null}] /\ dl' \subseteq LinkEntry /\ ll' \subseteq LinkEntry
      /\ fo' \subseteq Entry
  <2>1. CASE pend.table = "fo"
    <3>1. fo' = PutFo(fo, pend.entry) /\ UNCHANGED <<value, dl, ll>>
      BY <2>1 DEF OomFnReturns, links
    <3>2. fo' \subseteq fo \cup {pend.entry}
      BY <3>1 DEF PutFo
    <3>3. EntriesAlive' /\ LinksKnown'
      BY <3>1, <3>2, <1>f, <1>o, <1>t DEF EntriesAlive, LinksKnown
    <3>4. IsFiniteSet(fo)'
      BY <3>1, FiniteFo DEF FInv
    <3> QED
      BY <3>1, <3>2, <3>3, <3>4, <2>1, <1>p, <1>t DEF TypeOK
  <2>2. CASE pend.table = "link"
    <3>1. SetLink(pend.entry) /\ fo' = fo
      BY <2>2 DEF OomFnReturns
    <3>2. pend.entry \in LinkEntry /\ Home[pend.entry.link] \in alive \cup {Null}
      BY <2>2, <1>p, HeldAlive
    <3>3. \A e \in fo' : e.obj \in alive
      BY <3>1, <1>t DEF EntriesAlive
    <3>4. /\ EntriesAlive' /\ LinksKnown'
          /\ value' \in [Link -> Obj \cup {Null}] /\ dl' \subseteq LinkEntry /\ ll' \subseteq LinkEntry
      BY <3>1, <3>2, <3>3, <1>o, <1>f, KeepSetLink
    <3> QED
      BY <3>1, <3>4, <1>t DEF FInv, TypeOK
  <2> QED
    BY <2>1, <2>2, <1>p
<1>4. TypeOK'
  BY <1>3, <1>r, <1>o, <1>f, <1>t DEF TypeOK
<1> QED
  BY <1>2, <1>3, <1>4 DEF FInv

LEMMA KeepGC_toggleref_add ==
  ASSUME FInv, NEW o \in roots, NEW strong \in BOOLEAN, GC_toggleref_add(o, strong)
  PROVE  FInv'
<1>t. TypeOK /\ EntriesAlive /\ AliveClosed /\ MarkedClosed /\ LinksKnown
  BY DEF FInv
<1>f. UNCHANGED <<alive, field, roots, value, dl, ll, fo, queue, curr, pend, marked, pc>>
  BY DEF GC_toggleref_add, heap, links, final, gc
<1>r. toggle' = toggle \cup {[obj |-> o, strong |-> strong]}
  BY DEF GC_toggleref_add
<1>o. o \in Obj /\ o \in alive
  BY <1>t, HeldAlive DEF TypeOK
<1>1. TypeOK'
  BY <1>f, <1>r, <1>o, <1>t DEF TypeOK
<1>2. Held' = Held
  BY <1>f, HeldIs
<1>3. AliveClosed' /\ AllAlive' /\ MarkedClosed'
  BY <1>2, <1>f, HeldShrinks
<1>4. EntriesAlive'
  BY <1>f, <1>r, <1>o, <1>t DEF EntriesAlive
<1>5. LinksKnown'
  BY <1>f, <1>t DEF LinksKnown
<1>6. IsFiniteSet(fo)'
  BY <1>f DEF FInv
<1> QED
  BY <1>1, <1>3, <1>4, <1>5, <1>6 DEF FInv

-----------------------------------------------------------------------------
(* A collection. *)

\* The mark phase marks a closed set of objects with all that is held.
LEMMA KeepMark ==
  ASSUME FInv, Mark
  PROVE  FInv'
<1>t. TypeOK /\ EntriesAlive /\ AliveClosed /\ MarkedClosed /\ LinksKnown
  BY DEF FInv
<1>f. UNCHANGED <<alive, field, roots, value, dl, ll, fo, queue, curr, pend>>
  BY DEF Mark, heap, links, final, gc
<1>p. pc' = "finalize"
  BY DEF Mark
<1>k. PICK keep \in SUBSET toggle, strong \in SUBSET Obj :
        toggle' = {[e EXCEPT !.strong = e.obj \in strong] : e \in keep}
  BY DEF Mark, GC_process_togglerefs
<1>m. PICK extra \in SUBSET (Junk \cap alive) : marked' = From(Held \cup Queued \cup extra)
  BY DEF Mark
<1>a. alive \subseteq Obj /\ Held \cup Queued \cup extra \subseteq alive
  BY <1>t, HeldAlive, QueuedAlive DEF TypeOK
<1>b. marked' \subseteq alive
  BY <1>a, <1>m, <1>t, FromLeast DEF AliveClosed
<1>c. Held \cup Queued \subseteq marked'
  BY <1>a, <1>m, FromContains
<1>d. \A o \in marked' : Targets(o) \subseteq marked'
  BY <1>m, <1>t, FromClosed
<1>e. Held' = Held /\ Queued' = Queued /\ \A o : Targets(o)' = Targets(o)
  BY <1>f, HeldIs, QueueStays DEF Targets
<1>g. toggle' \subseteq [obj : Obj, strong : BOOLEAN] /\ \A e \in toggle' : e.obj \in alive
  <2>1. ASSUME NEW d \in toggle'
        PROVE  d \in [obj : Obj, strong : BOOLEAN] /\ d.obj \in alive
    <3>1. PICK e \in keep : d = [e EXCEPT !.strong = e.obj \in strong]
      BY <1>k
    <3>2. e \in [obj : Obj, strong : BOOLEAN] /\ e.obj \in alive
      BY <3>1, <1>t DEF TypeOK, EntriesAlive
    <3>3. (e.obj \in strong) \in BOOLEAN
      OBVIOUS
    <3> QED
      BY <3>1, <3>2, <3>3
  <2> QED
    BY <2>1
<1>1. TypeOK'
  BY <1>f, <1>p, <1>g, <1>b, <1>a, <1>t DEF TypeOK
<1>2. AliveClosed' /\ AllAlive'
  BY <1>e, <1>f DEF FInv, AliveClosed, AllAlive
<1>3. MarkedClosed'
  BY <1>b, <1>c, <1>d, <1>e, <1>f DEF MarkedClosed
<1>4. EntriesAlive'
  BY <1>f, <1>g, <1>t DEF EntriesAlive
<1>5. LinksKnown'
  BY <1>f, <1>t DEF LinksKnown
<1>6. IsFiniteSet(fo)'
  BY <1>f DEF FInv
<1> QED
  BY <1>1, <1>2, <1>3, <1>4, <1>5, <1>6 DEF FInv

\* What GC_finalize does once its two marks are done.
Effects(M2, M4) ==
  LET short == Disappear(dl, MarkTogglerefs)
      M5 == M4 \cup ObjectsOf(Hard(M2))
      long == Disappear(ll, M5)
      dangling == Dangling(dl \cup ll, M5)
  IN /\ Requeue(M2, {e \in Hard(M2) : e.obj \in M4})
     /\ dl' = dl \ (short \cup dangling)
     /\ ll' = ll \ (long \cup dangling)
     /\ value' = Cleared(short \cup long \cup dangling)
     /\ toggle' = {e \in toggle : e.strong \/ e.obj \in M5}
     /\ alive' = alive \cap M5
     /\ field' = [o \in Obj |-> IF o \in M5 THEN field[o] ELSE Null]

\* What is marked is closed, first without the objects that are enqueued, then
\* with them.
ClosedSet(M) == \A o \in M : Targets(o) \subseteq M
FinalMarks(M2, M4) ==
  LET M1 == MarkTogglerefs
      M5 == M4 \cup ObjectsOf(Hard(M2))
  IN /\ marked \subseteq M1 /\ M1 \subseteq M2 /\ M2 \subseteq M4 /\ M5 \subseteq alive
     /\ Held \cup Queued \subseteq M1
     /\ \A e \in toggle : e.strong => e.obj \in M1
     /\ ClosedSet(M1) /\ ClosedSet(M2) /\ ClosedSet(M4) /\ ClosedSet(M5)
     /\ \A e \in Waiting(M2) : e \in Entry /\ e.obj \in M5 /\ (e.kind # "unreachable" => e.obj \in M4)
     /\ \A e \in Unmarked(fo, M2) : Pushed(e) \subseteq M2

LEMMA PushedIs ==
  ASSUME NEW e
  PROVE  /\ e.kind = "ignore_self" => Pushed(e) = Targets(e.obj) \ {e.obj}
         /\ e.kind = "no_order" => Pushed(e) = {}
         /\ e.kind \notin {"ignore_self", "no_order"} => Pushed(e) = Targets(e.obj)
BY DEF Pushed

LEMMA UnionClosed ==
  ASSUME NEW M, NEW N, ClosedSet(M), ClosedSet(N)
  PROVE  ClosedSet(M \cup N)
BY DEF ClosedSet

LEMMA MarksClosed ==
  ASSUME FInv, ~Overflows, pc = "finalize", NEW M2, NEW M4,
         M2 \in GC_mark_fo(MarkTogglerefs, UNION {Pushed(e) : e \in Unmarked(fo, MarkTogglerefs)}),
         M4 \in GC_mark_fo(MarkEnqueued(M2), NoOrder(M2))
  PROVE  FinalMarks(M2, M4)
<1> DEFINE M1 == MarkTogglerefs
           S2 == UNION {Pushed(e) : e \in Unmarked(fo, M1)}
           Strong == {e.obj : e \in {x \in toggle : x.strong}}
           M5 == M4 \cup ObjectsOf(Hard(M2))
<1>t. TypeOK /\ EntriesAlive /\ AliveClosed /\ MarkedClosed /\ LinksKnown
  BY DEF FInv
<1>m. marked \subseteq alive /\ Held \cup Queued \subseteq marked /\ ClosedSet(marked)
  BY <1>t DEF MarkedClosed, ClosedSet
<1>a. alive \subseteq Obj /\ ClosedSet(alive) /\ \A o \in alive : Targets(o) \subseteq alive
  BY <1>t DEF TypeOK, AliveClosed, ClosedSet
<1>c. \A S : ClosedSet(From(S))
  BY <1>t, FromClosed DEF ClosedSet
<1>l. \A S : S \subseteq alive => S \subseteq From(S) /\ From(S) \subseteq alive
  BY <1>a, FromContains, FromLeast
<1>e. fo \subseteq Entry /\ Range(queue) \subseteq Entry /\ \A e \in fo : e.obj \in alive
  <2>1. queue \in Seq(Entry)
    BY <1>t DEF TypeOK
  <2>2. Range(queue) \subseteq Entry
    BY <2>1 DEF Range
  <2> QED
    BY <2>2, <1>t DEF TypeOK, EntriesAlive
<1>q. \A e \in Range(queue) : e.obj \in Queued
  BY DEF Queued, ObjectsOf
\* the strong toggle references
<1>1. M1 = marked \cup From(Strong) /\ Strong \subseteq alive
  BY <1>t DEF MarkTogglerefs, EntriesAlive
<1>2. /\ ClosedSet(M1) /\ marked \subseteq M1 /\ M1 \subseteq alive /\ Strong \subseteq M1
  <2>1. ClosedSet(M1)
    BY <1>1, <1>m, <1>c, UnionClosed
  <2> QED
    BY <2>1, <1>1, <1>l, <1>m
<1>3. \A e \in toggle : e.strong => e.obj \in M1
  BY <1>2
\* what is reachable from objects with finalizers
<1>p. \A e \in fo : Pushed(e) \subseteq Targets(e.obj) /\ Targets(e.obj) \subseteq alive
  BY <1>e, <1>a, PushedIs
<1>4. M2 = M1 \cup From(S2)
  BY DEF GC_mark_fo
<1>5. S2 \subseteq alive
  BY <1>p DEF Unmarked
<1>6. ClosedSet(M2) /\ M1 \subseteq M2 /\ M2 \subseteq alive /\ S2 \subseteq M2
  <2>1. ClosedSet(M2)
    BY <1>2, <1>4, <1>c, UnionClosed
  <2> QED
    BY <2>1, <1>4, <1>5, <1>2, <1>l
<1>7. \A e \in Unmarked(fo, M2) : Pushed(e) \subseteq M2
  <2>1. ASSUME NEW e \in Unmarked(fo, M2) PROVE Pushed(e) \subseteq S2
    <3>1. e \in Unmarked(fo, M1)
      BY <1>6 DEF Unmarked
    <3> QED
      BY <3>1
  <2> QED
    BY <2>1, <1>6
\* the objects on the queue, old and new
<1>w. \A e \in Waiting(M2) : e \in Entry /\ e.obj \in alive
                             /\ (e \in Unmarked(fo, M2) \/ e.obj \in marked)
  BY <1>e, <1>q, <1>m DEF Waiting, Unmarked
<1>8. M4 = MarkEnqueued(M2) \cup From(NoOrder(M2))
  BY DEF GC_mark_fo
<1>9. NoOrder(M2) \subseteq alive
  BY <1>w, <1>a DEF NoOrder, Unmarked, OfKind
<1>k. ~Java => FinalizerKinds \subseteq {"normal", "ignore_self"}
  BY KindsAssumption
<1>10. M2 \subseteq M4 /\ M4 \subseteq alive /\ M5 \subseteq alive /\ NoOrder(M2) \subseteq M4
  <2>1. MarkEnqueued(M2) \subseteq alive
    BY <1>6, <1>w DEF MarkEnqueued, ObjectsOf, Waiting
  <2>2. ObjectsOf(Hard(M2)) \subseteq alive
    BY <1>w DEF ObjectsOf, Hard, OfKind
  <2>3. M2 \subseteq MarkEnqueued(M2)
    BY DEF MarkEnqueued
  <2> QED
    BY <2>1, <2>2, <2>3, <1>8, <1>9, <1>l
<1>11. \A e \in Waiting(M2) : e.obj \in M5 /\ (e.kind # "unreachable" => e.obj \in M4)
  <2> SUFFICES ASSUME NEW e \in Waiting(M2)
              PROVE  e.obj \in M5 /\ (e.kind # "unreachable" => e.obj \in M4)
    OBVIOUS
  <2>1. CASE e.obj \in marked
    BY <2>1, <1>2, <1>6, <1>10
  <2>2. CASE e \in Unmarked(fo, M2) /\ ~Java
    <3>1. e.obj \in MarkEnqueued(M2)
      BY <2>2 DEF MarkEnqueued, ObjectsOf
    <3> QED
      BY <3>1, <1>8
  <2>3. CASE Java /\ e \in Hard(M2)
    BY <2>3 DEF Hard, OfKind, ObjectsOf
  <2>4. CASE Java /\ e \notin Hard(M2)
    <3>1. e.obj \in MarkEnqueued(M2)
      BY <2>4 DEF MarkEnqueued, ObjectsOf
    <3> QED
      BY <3>1, <1>8
  <2> QED
    BY <2>1, <2>2, <2>3, <2>4, <1>w
\* an object that is marked only as enqueued has its targets marked
<1>12. ASSUME NEW e \in Unmarked(fo, M2), e.kind # "unreachable" => e.obj \in M4
       PROVE  Targets(e.obj) \subseteq M4 \cup {e.obj}
              /\ (e.kind # "ignore_self" => Targets(e.obj) \subseteq M4)
  <2>1. CASE e.kind = "no_order"
    <3>1. Java
      BY <2>1, <1>k, <1>e DEF Unmarked, Entry
    <3>2. e \in Unmarked(OfKind(Waiting(M2), {"no_order"}), M2)
      BY <2>1 DEF Unmarked, OfKind, Waiting
    <3>3. Targets(e.obj) \subseteq NoOrder(M2)
      BY <3>1, <3>2 DEF NoOrder
    <3> QED
      BY <3>3, <1>10
  <2>2. CASE e.kind = "ignore_self"
    BY <2>2, <1>7, <1>10, PushedIs
  <2>3. CASE e.kind \notin {"no_order", "ignore_self"}
    BY <2>3, <1>7, <1>10, PushedIs
  <2> QED
    BY <2>1, <2>2, <2>3
<1>13. ClosedSet(M4)
  <2> SUFFICES ASSUME NEW o \in M4 PROVE Targets(o) \subseteq M4
    BY DEF ClosedSet
  <2>1. CASE o \in M2 \/ o \in From(NoOrder(M2))
    BY <2>1, <1>6, <1>c, <1>8, <1>10 DEF ClosedSet
  <2>2. CASE o \notin M2 /\ o \notin From(NoOrder(M2))
    <3>1. PICK e \in Waiting(M2) : e.obj = o /\ (Java => e \notin Hard(M2))
      BY <2>2, <1>8 DEF MarkEnqueued, ObjectsOf, Waiting
    <3>2. e \in Unmarked(fo, M2)
      BY <3>1, <2>2, <1>w, <1>2, <1>6
    <3> QED
      BY <3>1, <3>2, <1>12
  <2> QED
    BY <2>1, <2>2
<1>14. ClosedSet(M5)
  <2> SUFFICES ASSUME NEW o \in ObjectsOf(Hard(M2)), o \notin M4 PROVE Targets(o) \subseteq M5
    BY <1>13 DEF ClosedSet
  <2>1. PICK e \in Hard(M2) : e.obj = o
    BY DEF ObjectsOf
  <2>2. e \in Waiting(M2) /\ e.kind = "unreachable"
    BY <2>1 DEF Hard, OfKind
  <2>3. e \in Unmarked(fo, M2)
    BY <2>1, <2>2, <1>w, <1>2, <1>6, <1>10
  <2> QED
    BY <2>1, <2>2, <2>3, <1>12
<1> QED
  BY <1>2, <1>3, <1>6, <1>7, <1>10, <1>11, <1>13, <1>14, <1>m, <1>w DEF FinalMarks

LEMMA FinalizeSplits ==
  ASSUME FInv, ~Overflows, GC_finalize
  PROVE  \E M2, M4 : FinalMarks(M2, M4) /\ Effects(M2, M4)
<1>1. PICK M2 \in GC_mark_fo(MarkTogglerefs, UNION {Pushed(e) : e \in Unmarked(fo, MarkTogglerefs)}) :
      \E M4 \in GC_mark_fo(MarkEnqueued(M2), NoOrder(M2)) : Effects(M2, M4)
  BY DEF GC_finalize, Effects
<1>2. PICK M4 \in GC_mark_fo(MarkEnqueued(M2), NoOrder(M2)) : Effects(M2, M4)
  BY <1>1
<1>3. pc = "finalize"
  BY DEF GC_finalize
<1>4. FinalMarks(M2, M4)
  BY <1>1, <1>2, <1>3, MarksClosed
<1> QED
  BY <1>2, <1>4

-----------------------------------------------------------------------------
(* The queue. *)
LEMMA RangeOfSeq ==
  ASSUME NEW S, NEW q \in Seq(S)
  PROVE  Range(q) \subseteq S /\ Range(q) = {q[i] : i \in 1..Len(q)} /\ IsFiniteSet(Range(q))
<1>1. DOMAIN q = 1..Len(q) /\ Len(q) \in Nat
  OBVIOUS
<1>2. Range(q) = {q[i] : i \in 1..Len(q)}
  BY <1>1 DEF Range
<1>3. Range(q) \subseteq S
  BY <1>2
<1>4. q \in Surjection(1..Len(q), Range(q))
  BY <1>1, <1>2 DEF Surjection
<1>5. IsFiniteSet(1..Len(q))
  BY <1>1, FS_Interval
<1>6. IsFiniteSet(Range(q))
  BY <1>4, <1>5, FS_Surjection DEF ExistsSurjection
<1> QED
  BY <1>2, <1>3, <1>6

LEMMA ArrangedIsSeq ==
  ASSUME NEW S, IsFiniteSet(S), NEW q \in Arranged(S)
  PROVE  q \in Seq(S) /\ Range(q) = S
<1>1. Cardinality(S) \in Nat
  BY FS_CardinalityType
<1>2. q \in [1..Cardinality(S) -> S] /\ Range(q) = S
  BY DEF Arranged
<1> QED
  BY <1>1, <1>2

LEMMA RangeOfConcat ==
  ASSUME NEW S, NEW p \in Seq(S), NEW q \in Seq(S)
  PROVE  p \o q \in Seq(S) /\ Range(p \o q) \subseteq Range(p) \cup Range(q)
<1>1. p \o q \in Seq(S) /\ Len(p \o q) = Len(p) + Len(q)
  OBVIOUS
<1>2. ASSUME NEW i \in 1..Len(p \o q)
      PROVE  (p \o q)[i] \in {p[j] : j \in 1..Len(p)} \cup {q[j] : j \in 1..Len(q)}
  <2>1. CASE i <= Len(p)
    BY <2>1, <1>1
  <2>2. CASE i > Len(p)
    <3>1. i - Len(p) \in 1..Len(q) /\ (p \o q)[i] = q[i - Len(p)]
      BY <2>2, <1>1
    <3> QED
      BY <3>1
  <2> QED
    BY <2>1, <2>2, <1>1
<1>3. Range(p) = {p[j] : j \in 1..Len(p)} /\ Range(q) = {q[j] : j \in 1..Len(q)}
  BY RangeOfSeq
<1>4. Range(p \o q) = {(p \o q)[i] : i \in 1..Len(p \o q)}
  BY <1>1, RangeOfSeq
<1> QED
  BY <1>1, <1>2, <1>3, <1>4

\* Unlinking entries from a list leaves a list of the others.
LEMMA RequeueKeeps ==
  ASSUME FInv, NEW M, NEW R, Requeue(M, R)
  PROVE  queue' \in Seq(Entry) /\ Range(queue') \subseteq Waiting(M) \ R
<1>t. queue \in Seq(Entry) /\ fo \subseteq Entry /\ IsFiniteSet(fo)
  BY DEF FInv, TypeOK
<1>1. PICK new \in Arranged(Unmarked(fo, M)) :
        \E kept \in InOrder({i \in DOMAIN (new \o queue) : (new \o queue)[i] \notin R}) :
          queue' = [i \in DOMAIN kept |-> (new \o queue)[kept[i]]]
  BY DEF Requeue
<1> DEFINE all == new \o queue
           K == {i \in DOMAIN all : all[i] \notin R}
<1>2. PICK kept \in InOrder(K) : queue' = [i \in DOMAIN kept |-> all[kept[i]]]
  BY <1>1
<1>3. Unmarked(fo, M) \subseteq fo /\ IsFiniteSet(Unmarked(fo, M))
  BY <1>t, FS_Subset DEF Unmarked
<1>4. new \in Seq(Unmarked(fo, M)) /\ Range(new) = Unmarked(fo, M)
  BY <1>1, <1>3, ArrangedIsSeq
<1>5. new \in Seq(Entry)
  BY <1>4, <1>3, <1>t
<1>6. all \in Seq(Entry) /\ Range(all) \subseteq Waiting(M)
  BY <1>4, <1>5, <1>t, RangeOfConcat DEF Waiting
<1>7. K \subseteq 1..Len(all) /\ Len(all) \in Nat /\ DOMAIN all = 1..Len(all)
  BY <1>6
<1>8. IsFiniteSet(K)
  <2>1. IsFiniteSet(1..Len(all))
    BY <1>7, FS_Interval
  <2> QED
    BY <2>1, <1>7, FS_Subset
<1>9. kept \in Seq(K)
  BY <1>2, <1>8, ArrangedIsSeq DEF InOrder
<1>10. \A i \in K : all[i] \in Entry /\ all[i] \in Waiting(M) \ R
  <2>1. \A i \in K : all[i] \in Range(all) /\ all[i] \notin R
    BY DEF Range
  <2>2. \A i \in K : all[i] \in Entry
    BY <1>6, <1>7
  <2> QED
    BY <2>1, <2>2, <1>6
<1>11. DOMAIN kept = 1..Len(kept) /\ Len(kept) \in Nat /\ \A i \in 1..Len(kept) : kept[i] \in K
  BY <1>9
<1>12. queue' = [i \in 1..Len(kept) |-> all[kept[i]]]
  BY <1>2, <1>11
<1>13. queue' \in Seq(Entry)
  BY <1>10, <1>11, <1>12
<1>14. Range(queue') \subseteq Waiting(M) \ R
  BY <1>10, <1>11, <1>12 DEF Range
<1> QED
  BY <1>13, <1>14

\* GC_finalize and the sweep: what is left is closed, and the tables know of
\* nothing else.
LEMMA KeepGC_finalize ==
  ASSUME FInv, ~Overflows, GC_finalize
  PROVE  FInv'
<1>t. TypeOK /\ EntriesAlive /\ AliveClosed /\ MarkedClosed /\ LinksKnown
  BY DEF FInv
<1>f. UNCHANGED <<roots, curr, pend>> /\ marked' = {} /\ pc' = "run"
  BY DEF GC_finalize
<1>p. PICK M2, M4 : FinalMarks(M2, M4) /\ Effects(M2, M4)
  BY FinalizeSplits
<1> DEFINE M1 == MarkTogglerefs
           M5 == M4 \cup ObjectsOf(Hard(M2))
           R == {e \in Hard(M2) : e.obj \in M4}
           gone == Disappear(dl, M1) \cup Disappear(ll, M5) \cup Dangling(dl \cup ll, M5)
<1>m. /\ M1 \subseteq M5 /\ M2 \subseteq M5 /\ M4 \subseteq M5 /\ M5 \subseteq alive
      /\ Held \cup Queued \subseteq M5
      /\ \A e \in toggle : e.strong => e.obj \in M5
      /\ \A o \in M5 : Targets(o) \subseteq M5
      /\ \A e \in Waiting(M2) : e \in Entry /\ e.obj \in M5
  BY <1>p DEF FinalMarks, ClosedSet
<1>e. /\ dl' = dl \ (Disappear(dl, M1) \cup Dangling(dl \cup ll, M5))
      /\ ll' = ll \ (Disappear(ll, M5) \cup Dangling(dl \cup ll, M5))
      /\ value' = Cleared(gone)
      /\ toggle' = {e \in toggle : e.strong \/ e.obj \in M5}
      /\ alive' = alive \cap M5
      /\ field' = [o \in Obj |-> IF o \in M5 THEN field[o] ELSE Null]
  BY <1>p DEF Effects
<1>r. Requeue(M2, R)
  BY <1>p DEF Effects
<1>q. queue' \in Seq(Entry) /\ Range(queue') \subseteq Waiting(M2)
  BY <1>r, RequeueKeeps
<1>o. fo' = (fo \ Unmarked(fo, M2)) \cup R /\ R \subseteq Waiting(M2)
  BY <1>r DEF Requeue, Hard, OfKind
<1>a. alive' = M5 /\ alive \subseteq Obj
  BY <1>e, <1>m, <1>t DEF TypeOK
<1>w. /\ field \in [Obj -> Obj \cup {Null}] /\ value \in [Link -> Obj \cup {Null}]
      /\ dl \subseteq LinkEntry /\ ll \subseteq LinkEntry /\ fo \subseteq Entry
  BY <1>t DEF TypeOK
<1>v. /\ value' \in [Link -> Obj \cup {Null}]
      /\ \A l \in Link : value'[l] # Null => value'[l] = value[l] /\ \A e \in gone : e.link # l
  BY <1>e, <1>w DEF Cleared
<1>1. TypeOK'
  <2>1. fo' \subseteq Entry
    BY <1>o, <1>m, <1>w
  <2>2. field' \in [Obj -> Obj \cup {Null}]
    BY <1>e, <1>w
  <2>3. toggle' \subseteq toggle /\ dl' \subseteq dl /\ ll' \subseteq ll
    BY <1>e
  <2> QED
    BY <2>1, <2>2, <2>3, <1>v, <1>q, <1>a, <1>m, <1>f, <1>t DEF TypeOK
<1>2. AliveClosed'
  <2>1. \A o \in M5 : Targets(o)' = Targets(o)
    BY <1>e, <1>a, <1>m DEF Targets
  <2> QED
    BY <2>1, <1>a, <1>m DEF AliveClosed
<1>3. AllAlive'
  <2>1. Held' = Held
    BY <1>f, HeldIs
  <2>2. Queued' \subseteq M5
    BY <1>q, <1>m DEF Queued, ObjectsOf
  <2> QED
    BY <2>1, <2>2, <1>a, <1>m DEF AllAlive
<1>4. MarkedClosed'
  BY <1>f DEF MarkedClosed
<1>5. EntriesAlive'
  <2>1. \A e \in dl' \cup ll' : e.obj \in M5 /\ Home[e.link] \in M5 \cup {Null}
    BY <1>e, <1>m DEF Disappear, Dangling
  <2>2. \A e \in fo' : e.obj \in M5
    BY <1>o, <1>m DEF Unmarked
  <2>3. \A e \in toggle' : e.obj \in M5
    BY <1>e, <1>m
  <2> QED
    BY <2>1, <2>2, <2>3, <1>a DEF EntriesAlive
<1>6. LinksKnown'
  <2>1. ASSUME NEW l \in Link, value'[l] # Null, Home[l] \in alive' \cup {Null}
        PROVE  \E e \in dl' \cup ll' : e.link = l /\ e.obj = value'[l]
    <3>1. value'[l] = value[l] /\ \A e \in gone : e.link # l
      BY <2>1, <1>v
    <3>2. PICK e \in dl \cup ll : e.link = l /\ e.obj = value[l]
      BY <3>1, <2>1, <1>a, <1>m, <1>t DEF LinksKnown
    <3>3. e \in dl' \cup ll'
      BY <3>1, <3>2, <1>e
    <3> QED
      BY <3>1, <3>2, <3>3
  <2>2. dl' \subseteq dl /\ ll' \subseteq ll
    BY <1>e
  <2> QED
    BY <2>1, <2>2, <1>t DEF LinksKnown
<1>7. IsFiniteSet(fo)'
  <2>1. IsFiniteSet(fo) /\ IsFiniteSet(Range(queue))
    BY RangeOfSeq DEF FInv, TypeOK
  <2>2. IsFiniteSet(fo \cup Range(queue))
    BY <2>1, FS_Union
  <2>3. fo' \subseteq fo \cup Range(queue)
    BY <1>o DEF Waiting, Unmarked
  <2> QED
    BY <2>2, <2>3, FS_Subset
<1> QED
  BY <1>1, <1>2, <1>3, <1>4, <1>5, <1>6, <1>7 DEF FInv

-----------------------------------------------------------------------------
(* Finalizers are invoked. *)
LEMMA KeepTakeFinalizer ==
  ASSUME FInv, NEW t \in Thread, TakeFinalizer(t)
  PROVE  FInv'
<1>t. TypeOK /\ EntriesAlive /\ AliveClosed /\ MarkedClosed /\ LinksKnown
  BY DEF FInv
<1>f. UNCHANGED <<alive, field, roots, value, dl, ll, fo, toggle, pend, marked, pc>>
  BY DEF TakeFinalizer, heap, links, final, gc
<1>r. pc = "run" /\ queue # <<>> /\ curr' = [curr EXCEPT ![t] = Head(queue)] /\ queue' = Tail(queue)
  BY DEF TakeFinalizer
<1>q. queue \in Seq(Entry) /\ curr \in [Thread -> Entry \cup {NoFo}]
  BY <1>t DEF TypeOK
<1>h. Head(queue) \in Entry /\ Tail(queue) \in Seq(Entry)
      /\ Head(queue) \in Range(queue) /\ Range(Tail(queue)) \subseteq Range(queue)
  <2>1. Head(queue) = queue[1] /\ Len(queue) \in Nat \ {0} /\ Tail(queue) \in Seq(Entry)
        /\ Len(Tail(queue)) = Len(queue) - 1
        /\ \A i \in 1..Len(Tail(queue)) : Tail(queue)[i] = queue[i + 1]
    BY <1>q, <1>r
  <2>2. Range(queue) = {queue[i] : i \in 1..Len(queue)}
        /\ Range(Tail(queue)) = {Tail(queue)[i] : i \in 1..Len(Tail(queue))}
    BY <2>1, <1>q, RangeOfSeq
  <2>3. 1 \in 1..Len(queue) /\ \A i \in 1..Len(Tail(queue)) : i + 1 \in 1..Len(queue)
    BY <2>1
  <2> QED
    BY <2>1, <2>2, <2>3, <1>q
<1>1. TypeOK'
  BY <1>f, <1>r, <1>h, <1>q, <1>t DEF TypeOK
<1>2. Queued' \subseteq Queued /\ Head(queue).obj \in Queued
  BY <1>h, <1>r DEF Queued, ObjectsOf
<1>3. Held' \subseteq Held \cup Queued
  <2>1. \A x \in roots : x = Null \/ x \in Held \cup Queued
    BY HeldAlive
  <2>2. \A u \in DOMAIN curr' : curr'[u].obj = Null \/ curr'[u].obj \in Held \cup Queued
    <3>1. \A u \in DOMAIN curr : curr[u].obj = Null \/ curr[u].obj \in Held
      BY HeldIs, HeldHas
    <3> QED
      BY <3>1, <1>2, <1>r, <1>q
  <2>3. pend.entry.obj = Null \/ pend.entry.obj \in Held \cup Queued
    BY HeldIs, HeldHas
  <2>4. pend.table = "link" => Home[pend.entry.link] = Null \/ Home[pend.entry.link] \in Held \cup Queued
    BY HeldAlive
  <2>5. HeldOf(roots, curr', pend) \subseteq Held \cup Queued
    BY <2>1, <2>2, <2>3, <2>4, HeldWithin
  <2> QED
    BY <2>5, <1>f, HeldIs
<1>4. Held' \cup Queued' \subseteq alive
  BY <1>2, <1>3, QueuedAlive, HeldAlive
<1>5. AliveClosed' /\ AllAlive' /\ MarkedClosed'
  BY <1>4, <1>f, <1>r, GraphStays
<1>6. EntriesAlive' /\ LinksKnown' /\ IsFiniteSet(fo)'
  BY <1>f, TablesStay
<1> QED
  BY <1>1, <1>5, <1>6 DEF FInv

LEMMA KeepRunFinalizer ==
  ASSUME FInv, NEW t \in Thread, RunFinalizer(t)
  PROVE  FInv'
<1>t. TypeOK /\ EntriesAlive /\ AliveClosed /\ MarkedClosed /\ LinksKnown
  BY DEF FInv
<1>f. UNCHANGED <<alive, field, value, dl, ll, fo, queue, toggle, pend, marked, pc>>
  BY DEF RunFinalizer, heap, links, final, gc
<1>r. curr[t] # NoFo /\ roots' = roots \cup {curr[t].obj} /\ curr' = [curr EXCEPT ![t] = NoFo]
  BY DEF RunFinalizer
<1>q. curr \in [Thread -> Entry \cup {NoFo}] /\ NoFo.obj = Null
  BY <1>t DEF TypeOK, NoFo
<1>o. curr[t].obj \in Obj /\ curr[t].obj \in Held
  BY <1>q, <1>r, HeldAlive DEF Entry
<1>1. TypeOK'
  BY <1>f, <1>r, <1>o, <1>q, <1>t DEF TypeOK
<1>2. Held' \subseteq Held
  <2>1. \A x \in roots' : x = Null \/ x \in Held
    BY <1>r, <1>o, HeldAlive
  <2>2. \A u \in DOMAIN curr' : curr'[u].obj = Null \/ curr'[u].obj \in Held
    <3>1. \A u \in DOMAIN curr : curr[u].obj = Null \/ curr[u].obj \in Held
      BY HeldIs, HeldHas
    <3> QED
      BY <3>1, <1>r, <1>q
  <2>3. pend.entry.obj = Null \/ pend.entry.obj \in Held
    BY HeldIs, HeldHas
  <2>4. pend.table = "link" => Home[pend.entry.link] = Null \/ Home[pend.entry.link] \in Held
    BY HeldAlive
  <2>5. HeldOf(roots', curr', pend) \subseteq Held
    BY <2>1, <2>2, <2>3, <2>4, HeldWithin
  <2> QED
    BY <2>5, <1>f, HeldIs
<1>3. AliveClosed' /\ AllAlive' /\ MarkedClosed'
  BY <1>2, <1>f, HeldShrinks
<1>4. EntriesAlive' /\ LinksKnown' /\ IsFiniteSet(fo)'
  BY <1>f, TablesStay
<1> QED
  BY <1>1, <1>3, <1>4 DEF FInv

LEMMA KeepGC_enqueue_all_finalizers ==
  ASSUME FInv, GC_enqueue_all_finalizers
  PROVE  FInv'
<1>t. TypeOK /\ EntriesAlive /\ AliveClosed /\ MarkedClosed /\ LinksKnown
  BY DEF FInv
<1>f. UNCHANGED <<alive, field, roots, value, dl, ll, curr, toggle, pend, marked, pc>>
  BY DEF GC_enqueue_all_finalizers, heap, links, final, gc
<1>r. pc = "run" /\ fo' = {}
  BY DEF GC_enqueue_all_finalizers
<1>p. PICK new \in Arranged(fo) : queue' = new \o queue
  BY DEF GC_enqueue_all_finalizers
<1>q. queue \in Seq(Entry) /\ fo \subseteq Entry /\ IsFiniteSet(fo)
  BY DEF FInv, TypeOK
<1>n. new \in Seq(fo) /\ Range(new) = fo
  BY <1>p, <1>q, ArrangedIsSeq
<1>m. new \in Seq(Entry)
  BY <1>n, <1>q
<1>c. queue' \in Seq(Entry) /\ Range(queue') \subseteq fo \cup Range(queue)
  BY <1>p, <1>n, <1>m, <1>q, RangeOfConcat
<1>1. TypeOK'
  BY <1>f, <1>r, <1>c, <1>t DEF TypeOK
<1>2. Queued' \subseteq alive
  <2>1. \A e \in Range(queue) : e.obj \in alive
    BY QueuedAlive DEF Queued, ObjectsOf
  <2> QED
    BY <2>1, <1>c, <1>t DEF Queued, ObjectsOf, EntriesAlive
<1>3. Held' = Held
  BY <1>f, HeldIs
<1>4. AliveClosed' /\ AllAlive' /\ MarkedClosed'
  BY <1>2, <1>3, <1>f, <1>r, HeldAlive, GraphStays
<1>5. EntriesAlive' /\ LinksKnown'
  BY <1>f, <1>r, <1>t DEF EntriesAlive, LinksKnown
<1>6. IsFiniteSet(fo)'
  BY <1>r, FS_EmptySet
<1> QED
  BY <1>1, <1>4, <1>5, <1>6 DEF FInv

-----------------------------------------------------------------------------
(* The inductive invariant. *)
LEMMA InitInv == Init => FInv
<1> SUFFICES ASSUME Init PROVE FInv
  OBVIOUS
<1>i. /\ alive = {} /\ field = [o \in Obj |-> Null] /\ roots = {}
      /\ value = [l \in Link |-> Null] /\ dl = {} /\ ll = {}
      /\ fo = {} /\ queue = <<>> /\ curr = [t \in Thread |-> NoFo]
      /\ toggle = {} /\ pend = Nothing /\ marked = {} /\ pc = "run"
  BY DEF Init
<1>1. TypeOK
  BY <1>i DEF TypeOK
<1>2. EntriesAlive /\ AliveClosed /\ MarkedClosed /\ LinksKnown
  BY <1>i DEF EntriesAlive, AliveClosed, MarkedClosed, LinksKnown
<1>3. AllAlive
  <2>1. Range(queue) = {}
    BY <1>i DEF Range
  <2>2. Queued = {}
    BY <2>1 DEF Queued, ObjectsOf
  <2>3. Held = {}
    <3>1. pend.entry.obj = Null /\ pend.table = "none"
      BY <1>i DEF Nothing, NoFo
    <3>2. \A t \in DOMAIN curr : curr[t].obj = Null
      BY <1>i DEF NoFo
    <3>3. pend.table # "link"
      BY <3>1
    <3>4. HeldOf(roots, curr, pend) = ({} \cup ObjectsOf(Range(curr)) \cup {Null} \cup {}) \ {Null}
      BY <3>1, <3>3, <1>i DEF HeldOf
    <3>5. ObjectsOf(Range(curr)) \subseteq {Null}
      BY <3>2 DEF ObjectsOf, Range
    <3> QED
      BY <3>4, <3>5, HeldIs
  <2> QED
    BY <2>2, <2>3 DEF AllAlive
<1> QED
  BY <1>i, <1>1, <1>2, <1>3, FS_EmptySet DEF FInv

LEMMA StutterInv ==
  ASSUME FInv, UNCHANGED vars
  PROVE  FInv'
<1>f. UNCHANGED <<alive, field, roots, value, dl, ll, fo, queue, curr, toggle, pend, marked, pc>>
  BY DEF vars, heap, links, final, gc
<1>1. TypeOK'
  BY <1>f DEF FInv, TypeOK
<1>2. Held' = Held
  BY <1>f, HeldIs
<1>3. AliveClosed' /\ AllAlive' /\ MarkedClosed'
  BY <1>2, <1>f, HeldShrinks
<1>4. EntriesAlive' /\ LinksKnown' /\ IsFiniteSet(fo)'
  BY <1>f, TablesStay
<1> QED
  BY <1>1, <1>3, <1>4 DEF FInv

LEMMA ClientInv ==
  ASSUME FInv, Client
  PROVE  FInv'
<1>1. ASSUME NEW o \in roots, Load(o) \/ Drop(o) PROVE FInv'
  BY <1>1, KeepLoad, KeepDrop
<1>2. ASSUME NEW o \in roots, NEW v \in roots \cup {Null}, Store(o, v) PROVE FInv'
  BY <1>2, KeepStore
<1>3. ASSUME NEW o \in Obj, Alloc(o) PROVE FInv'
  BY <1>3, KeepAlloc
<1>4. ASSUME NEW l \in Link, Reveal(l) \/ GC_unregister_disappearing_link(l) PROVE FInv'
  BY <1>4, KeepReveal, KeepGC_unregister_disappearing_link
<1>5. ASSUME NEW l \in Link, NEW o \in roots,
             GC_register_disappearing_link_inner(l, o) \/ RegisterLinkOom(l, o)
      PROVE  FInv'
  BY <1>5, KeepGC_register_disappearing_link_inner, KeepRegisterLinkOom
<1>6. ASSUME NEW l \in Link, NEW new \in Link, GC_move_disappearing_link_inner(l, new)
      PROVE  FInv'
  BY <1>6, KeepGC_move_disappearing_link_inner
<1>7. ASSUME NEW o \in roots, RemoveFinalizer(o) PROVE FInv'
  BY <1>7, KeepRemoveFinalizer
<1>8. ASSUME NEW o \in roots, NEW k \in FinalizerKinds,
             GC_register_finalizer_inner(o, k) \/ RegisterFinalizerOom(o, k)
      PROVE  FInv'
  BY <1>8, KeepGC_register_finalizer_inner, KeepRegisterFinalizerOom
<1>9. ASSUME NEW o \in roots, NEW strong \in BOOLEAN, GC_toggleref_add(o, strong) PROVE FInv'
  BY <1>9, KeepGC_toggleref_add
<1>10. CASE OomFnReturns \/ NoMemory
  BY <1>10, KeepOomFnReturns, KeepNoMemory
<1>11. ASSUME NEW t \in Thread, TakeFinalizer(t) \/ RunFinalizer(t) PROVE FInv'
  BY <1>11, KeepTakeFinalizer, KeepRunFinalizer
<1>12. CASE GC_enqueue_all_finalizers
  BY <1>12, KeepGC_enqueue_all_finalizers
<1> QED
  BY <1>1, <1>2, <1>3, <1>4, <1>5, <1>6, <1>7, <1>8, <1>9, <1>10, <1>11, <1>12 DEF Client

LEMMA NextInv ==
  ASSUME ~Overflows
  PROVE  FInv /\ [Next]_vars => FInv'
<1> SUFFICES ASSUME FInv, [Next]_vars PROVE FInv'
  OBVIOUS
<1>1. CASE Client
  BY <1>1, ClientInv
<1>2. CASE Mark
  BY <1>2, KeepMark
<1>3. CASE GC_finalize
  BY <1>3, KeepGC_finalize
<1>4. CASE UNCHANGED vars
  BY <1>4, StutterInv
<1> QED
  BY <1>1, <1>2, <1>3, <1>4 DEF Next

\* The inductive invariant holds throughout.
THEOREM FinalizeInvariant ==
  ASSUME ~Overflows
  PROVE  Spec => []FInv
<1>1. FInv /\ [Next]_vars => FInv'
  BY NextInv
<1> QED
  BY InitInv, <1>1, PTL DEF Spec

-----------------------------------------------------------------------------
(* What it implies. *)
LEMMA InvKeepsQueued == FInv => QueuedKept
<1> SUFFICES ASSUME FInv PROVE QueuedKept
  OBVIOUS
<1>1. alive \subseteq Obj /\ \A o \in alive : Targets(o) \subseteq alive
  BY DEF FInv, TypeOK, AliveClosed
<1>2. {e.obj : e \in {x \in toggle : x.strong}} \subseteq alive
  BY DEF FInv, EntriesAlive
<1>3. Held \cup Queued \subseteq alive
  BY DEF FInv, AllAlive
<1>4. From(Held \cup Queued \cup {e.obj : e \in {x \in toggle : x.strong}}) \subseteq alive
  BY <1>1, <1>2, <1>3, FromLeast
<1> QED
  BY <1>4 DEF QueuedKept

LEMMA InvKeepsTables == FInv => TablesSound
<1> SUFFICES ASSUME FInv PROVE TablesSound
  OBVIOUS
<1>t. TypeOK /\ EntriesAlive /\ AliveClosed /\ AllAlive /\ MarkedClosed /\ LinksKnown
  BY DEF FInv
<1>1. ASSUME NEW l \in Link PROVE Cardinality(EntriesOf(dl \cup ll, l)) <= 1
  <2>1. \A e, d \in EntriesOf(dl \cup ll, l) : e = d
    BY <1>t DEF EntriesOf, LinksKnown
  <2>2. CASE EntriesOf(dl \cup ll, l) = {}
    BY <2>2, FS_EmptySet
  <2>3. CASE EntriesOf(dl \cup ll, l) # {}
    <3>1. PICK e : e \in EntriesOf(dl \cup ll, l)
      BY <2>3
    <3>2. EntriesOf(dl \cup ll, l) = {e}
      BY <2>1, <3>1
    <3>3. Cardinality({e}) = 1
      BY FS_Singleton
    <3> QED
      BY <3>2, <3>3
  <2> QED
    BY <2>2, <2>3
<1>2. TablesSafe
  <2>1. ObjectsOf(fo) \subseteq alive /\ ObjectsOf(toggle) \subseteq alive
    BY <1>t DEF ObjectsOf, EntriesAlive
  <2> QED
    BY <2>1, <1>1, <1>t DEF TablesSafe, EntriesAlive
<1>3. WeakSafe
  BY <1>t DEF WeakSafe, LinksKnown, EntriesAlive
<1> QED
  BY <1>t, <1>2, <1>3 DEF TablesSound

-----------------------------------------------------------------------------
(* The order in which a collection deals with finalizers and links. *)
OrderStep ==
  \A e \in Enqueued :
    /\ e.obj \notin From(Held \cup Queued)
    /\ e.kind # "no_order" => From(Pushed(e)) \cap ObjectsOf(Enqueued) = {}
    /\ e.kind = "unreachable" => \A d \in Enqueued \ {e} : e.obj \notin From({d.obj})
LinkStep ==
  /\ \A e \in dl' : From({e.obj}) \cap ObjectsOf(Enqueued) = {}
  /\ \A e \in ll \ ll' : e.obj \notin alive' \/ Home[e.link] \notin alive' \cup {Null}

\* Only GC_finalize ends a collection.
LEMMA OnlyFinalize ==
  ASSUME Next, Collected
  PROVE  GC_finalize
<1>1. pc = "finalize" /\ pc' = "run"
  BY DEF Collected
<1>2. ASSUME Client PROVE pc' = pc
  BY <1>2 DEF Client, Load, Drop, Store, Alloc, Reveal, GC_unregister_disappearing_link,
     GC_register_disappearing_link_inner, RegisterLinkOom, GC_move_disappearing_link_inner,
     RemoveFinalizer, GC_register_finalizer_inner, RegisterFinalizerOom, GC_toggleref_add,
     OomFnReturns, NoMemory, TakeFinalizer, RunFinalizer, GC_enqueue_all_finalizers, gc
<1>3. ASSUME Mark PROVE pc = "run"
  BY <1>3 DEF Mark
<1> QED
  BY <1>1, <1>2, <1>3 DEF Next

LEMMA FinalizeInOrder ==
  ASSUME FInv, ~Overflows, GC_finalize
  PROVE  OrderStep /\ LinkStep
<1>t. TypeOK
  BY DEF FInv
<1>p. PICK M2, M4 : FinalMarks(M2, M4) /\ Effects(M2, M4)
  BY FinalizeSplits
<1> DEFINE M1 == MarkTogglerefs
           M5 == M4 \cup ObjectsOf(Hard(M2))
           R == {e \in Hard(M2) : e.obj \in M4}
<1>m. /\ M1 \subseteq M2 /\ M2 \subseteq M4 /\ M5 \subseteq alive /\ M4 \subseteq M5
      /\ Held \cup Queued \subseteq M1
      /\ ClosedSet(M1) /\ ClosedSet(M2) /\ ClosedSet(M4)
      /\ \A e \in Waiting(M2) : e \in Entry /\ e.obj \in M5 /\ (e.kind # "unreachable" => e.obj \in M4)
      /\ \A e \in Unmarked(fo, M2) : Pushed(e) \subseteq M2
  BY <1>p DEF FinalMarks
<1>e. /\ dl' = dl \ (Disappear(dl, M1) \cup Dangling(dl \cup ll, M5))
      /\ ll' = ll \ (Disappear(ll, M5) \cup Dangling(dl \cup ll, M5))
      /\ alive' = alive \cap M5
      /\ Requeue(M2, R)
  BY <1>p DEF Effects
<1>o. alive \subseteq Obj
  BY <1>t DEF TypeOK
<1>l. ASSUME NEW S, NEW C, C \subseteq Obj, ClosedSet(C), S \subseteq C PROVE From(S) \subseteq C
  BY <1>l, FromLeast DEF ClosedSet
<1>c. M1 \subseteq Obj /\ M2 \subseteq Obj /\ M4 \subseteq Obj
  BY <1>m, <1>o
\* what is enqueued was unmarked, and is not what goes back to the table
<1>1. \A e \in Enqueued : e \in Unmarked(fo, M2) /\ e \in Waiting(M2) /\ e \notin R
  <2>1. Range(queue') \subseteq Waiting(M2) \ R
    BY <1>e, RequeueKeeps
  <2> QED
    BY <2>1 DEF Enqueued, Waiting
<1>2. \A e \in Enqueued : e.obj \notin M2
  BY <1>1 DEF Unmarked
<1>3. \A S : S \subseteq M2 => From(S) \cap ObjectsOf(Enqueued) = {}
  <2>1. \A S : S \subseteq M2 => From(S) \subseteq M2
    BY <1>l, <1>m, <1>c
  <2> QED
    BY <2>1, <1>2 DEF ObjectsOf
<1>4. \A e \in Enqueued : e.kind = "unreachable" => e.obj \notin M4
  BY <1>1 DEF Hard, OfKind
<1>5. ASSUME NEW e \in Enqueued, e.kind = "unreachable", NEW d \in Enqueued \ {e},
             e.obj \in From({d.obj})
      PROVE  FALSE
  <2>1. d \in Unmarked(fo, M2) /\ d \in Waiting(M2) /\ d \in Entry /\ e \in Entry
    BY <1>1, <1>m
  <2>2. CASE d.kind # "unreachable"
    <3>1. {d.obj} \subseteq M4
      BY <2>1, <2>2, <1>m
    <3>2. From({d.obj}) \subseteq M4
      BY <3>1, <1>l, <1>c, <1>m
    <3> QED
      BY <3>2, <1>4, <1>5
  <2>3. CASE d.kind = "unreachable"
    <3>1. Targets(d.obj) \subseteq M4
      BY <2>1, <2>3, <1>m, PushedIs
    <3>2. ClosedSet(M4 \cup {d.obj})
      BY <3>1, <1>m DEF ClosedSet
    <3>3. M4 \cup {d.obj} \subseteq Obj
      BY <1>c, <2>1 DEF Entry
    <3>4. From({d.obj}) \subseteq M4 \cup {d.obj}
      BY <3>2, <3>3, <1>l
    <3>5. e.obj = d.obj
      BY <3>4, <1>4, <1>5
    <3> QED
      BY <3>5, <2>1, <2>3, <1>5 DEF Entry
  <2> QED
    BY <2>2, <2>3
<1>6. OrderStep
  <2>1. \A e \in Enqueued : e.obj \notin From(Held \cup Queued)
    <3>1. From(Held \cup Queued) \subseteq M1
      BY <1>l, <1>m, <1>c
    <3> QED
      BY <3>1, <1>2, <1>m
  <2>2. \A e \in Enqueued : From(Pushed(e)) \cap ObjectsOf(Enqueued) = {}
    BY <1>1, <1>3, <1>m
  <2> QED
    BY <2>1, <2>2, <1>5 DEF OrderStep
<1>7. LinkStep
  <2>1. ASSUME NEW e \in dl' PROVE From({e.obj}) \cap ObjectsOf(Enqueued) = {}
    <3>1. {e.obj} \subseteq M2
      BY <2>1, <1>e, <1>m DEF Disappear
    <3> QED
      BY <3>1, <1>3
  <2>2. ASSUME NEW e \in ll \ ll'
        PROVE  e.obj \notin alive' \/ Home[e.link] \notin alive' \cup {Null}
    BY <2>2, <1>e, <1>m DEF Disappear, Dangling
  <2> QED
    BY <2>1, <2>2 DEF LinkStep
<1> QED
  BY <1>6, <1>7

-----------------------------------------------------------------------------
(* The theorems.  Without the hypothesis they are false: see final_overflow. *)

\* QueuedKept: whatever the program, a finalizer that waits or runs, or a strong
\* toggle reference can reach is not freed, although the world runs between the
\* mark phase and GC_finalize.
THEOREM FinalizersKeepTheirObjects ==
  ASSUME ~Overflows
  PROVE  Spec => []QueuedKept
BY FinalizeInvariant, InvKeepsQueued, PTL

\* TablesSound: no entry of the tables and no registered link is ever about an
\* object that the sweep has freed, however registrations, moves, retries after
\* GC_oom_fn and collections follow each other.
THEOREM FinalizerTablesAreSound ==
  ASSUME ~Overflows
  PROVE  Spec => []TablesSound
BY FinalizeInvariant, InvKeepsTables, PTL

\* FinalizeOrder: GC_finalize enqueues an object only if nothing else that it
\* enqueues leads to it, and clears short links before and long links after.
THEOREM FinalizationIsOrdered ==
  ASSUME ~Overflows
  PROVE  Spec => FinalizeOrder
<1>1. FInv /\ [Next]_vars => [Collected => OrderStep]_vars
  BY OnlyFinalize, FinalizeInOrder
<1>2. FInv /\ [Next]_vars => [Collected => LinkStep]_vars
  BY OnlyFinalize, FinalizeInOrder
<1>3. Spec => [][Collected => OrderStep]_vars
  BY <1>1, FinalizeInvariant, PTL DEF Spec
<1>4. Spec => [][Collected => LinkStep]_vars
  BY <1>2, FinalizeInvariant, PTL DEF Spec
<1>5. [][Collected => OrderStep]_vars => OrderKept
  BY DEF OrderKept, OrderStep
<1>6. [][Collected => LinkStep]_vars => LinkOrder
  BY DEF LinkOrder, LinkStep
<1> QED
  BY <1>3, <1>4, <1>5, <1>6 DEF FinalizeOrder
=============================================================================
