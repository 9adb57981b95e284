--------------------------- MODULE RegistryProofs ---------------------------
(***************************************************************************)
(* Theorems about the tables in which threads are found.  Readers of the   *)
(* thread-specific data find their own values without a lock (Specific),   *)
(* whatever the numbers of threads, ids, pages, cache slots and entries.   *)
(* The thread table of win32_threads.c (WinRegistry) has the threads it    *)
(* should.  In that of pthread_support.c (ThreadRegistry) every thread is  *)
(* found by its id, and every record is freed once.                        *)
(***************************************************************************)
EXTENDS Specific, WinRegistry, ThreadRegistry, ListProofs

-----------------------------------------------------------------------------
(* The thread-specific data. *)
-----------------------------------------------------------------------------
(* Lists of entries.  Every link leads to an entry or to none.             *)
Linked(en) == \A e \in Tses : en[e].next \in Entry \cup {NoTse}

\* What is reachable is entries, the first ones among them, and no link leaves it.
LEMMA ReachableClosed ==
  ASSUME NEW en, NEW from, Linked(en), from \subseteq Tses \cup {NoTse}
  PROVE  /\ TseReachable(en, from) \in SUBSET Tses
         /\ LinkClosed(en, TseReachable(en, from))
         /\ from \subseteq TseReachable(en, from) \cup {NoTse}
<1>1. TseReachable(en, from) \in SUBSET Tses
  BY DEF TseReachable
<1>2. from \subseteq TseReachable(en, from) \cup {NoTse}
  BY DEF TseReachable
<1>3. ASSUME NEW e \in TseReachable(en, from), en[e].next # NoTse
      PROVE  en[e].next \in TseReachable(en, from)
  <2>1. e \in Tses /\ en[e].next \in Tses
    BY <1>3, <1>1 DEF Linked, Tses
  <2>2. ASSUME NEW S \in SUBSET Tses, LinkClosed(en, S), from \subseteq S \cup {NoTse}
        PROVE  en[e].next \in S
    <3>1. e \in S
      BY <2>2 DEF TseReachable
    <3> QED
      BY <3>1, <2>2, <1>3 DEF LinkClosed
  <2> QED
    BY <2>1, <2>2 DEF TseReachable
<1> QED
  BY <1>1, <1>2, <1>3 DEF LinkClosed

\* It is the least such set.
LEMMA ReachableLeast ==
  ASSUME NEW en, NEW from, NEW S \in SUBSET Tses, LinkClosed(en, S),
         from \subseteq S \cup {NoTse}
  PROVE  TseReachable(en, from) \subseteq S
BY DEF TseReachable

\* From an entry: that entry, and what its link leads to.
LEMMA ReachableStep ==
  ASSUME NEW en, NEW p \in Tses, Linked(en)
  PROVE  TseReachable(en, {p}) \subseteq {p} \cup TseReachable(en, {en[p].next})
<1> DEFINE R == TseReachable(en, {en[p].next})
<1>1. en[p].next \in Tses \cup {NoTse}
  BY DEF Linked, Tses
<1>2. R \in SUBSET Tses /\ LinkClosed(en, R) /\ en[p].next \in R \cup {NoTse}
  BY <1>1, ReachableClosed
<1>3. LinkClosed(en, {p} \cup R)
  BY <1>2 DEF LinkClosed
<1> QED
  BY <1>2, <1>3, ReachableLeast

\* Nothing is reachable from no entry.
LEMMA NothingReachable ==
  ASSUME NEW en
  PROVE  TseReachable(en, {NoTse}) = {}
<1>1. LinkClosed(en, {})
  BY DEF LinkClosed
<1> QED
  BY <1>1, ReachableLeast

\* From what is reachable no more is.
LEMMA ReachableWithin ==
  ASSUME NEW en, NEW from, NEW p \in TseReachable(en, from), Linked(en),
         from \subseteq Tses \cup {NoTse}
  PROVE  TseReachable(en, {p}) \subseteq TseReachable(en, from)
BY ReachableClosed, ReachableLeast

\* Links of the same values reach the same.
LEMMA SameLinks ==
  ASSUME NEW en, NEW en2, NEW from, \A e \in Tses : en2[e].next = en[e].next
  PROVE  TseReachable(en2, from) = TseReachable(en, from)
<1>1. \A S \in SUBSET Tses : LinkClosed(en2, S) <=> LinkClosed(en, S)
  BY DEF LinkClosed
<1> QED
  BY <1>1 DEF TseReachable

\* An entry that was not reachable may be written.
LEMMA FreshEntry ==
  ASSUME NEW en, NEW en2, NEW from, NEW m, Linked(en), Linked(en2),
         from \subseteq Tses \cup {NoTse},
         \A e \in Tses : e # m => en2[e].next = en[e].next,
         m \notin TseReachable(en, from)
  PROVE  TseReachable(en2, from) = TseReachable(en, from)
<1> DEFINE R1 == TseReachable(en, from)
           R2 == TseReachable(en2, from)
<1>1. R1 \in SUBSET Tses /\ LinkClosed(en, R1) /\ from \subseteq R1 \cup {NoTse}
  BY ReachableClosed
<1>2. LinkClosed(en2, R1)
  BY <1>1 DEF LinkClosed
<1>3. R2 \subseteq R1
  BY <1>1, <1>2, ReachableLeast
<1>4. R2 \in SUBSET Tses /\ LinkClosed(en2, R2) /\ from \subseteq R2 \cup {NoTse}
  BY ReachableClosed
<1>5. LinkClosed(en, R2)
  BY <1>3, <1>4 DEF LinkClosed
<1>6. R1 \subseteq R2
  BY <1>4, <1>5, ReachableLeast
<1> QED
  BY <1>3, <1>6

\* An unused entry is linked in as the first one.
Extended(en, en2, h, m) ==
  /\ h \in Entry \cup {NoTse} /\ m \in Tses /\ Linked(en) /\ Linked(en2)
  /\ \A e \in Tses : e # m => en2[e].next = en[e].next
  /\ en2[m].next = h /\ m \notin TseReachable(en, {h})

\* A new first entry is all that is added to the list.
LEMMA ListExtended ==
  ASSUME NEW en, NEW en2, NEW h, NEW m, Extended(en, en2, h, m)
  PROVE  TseReachable(en2, {m}) = {m} \cup TseReachable(en, {h})
<1> USE DEF Extended
<1> DEFINE R == TseReachable(en, {h})
           R2 == TseReachable(en2, {m})
<1>0. h \in Tses \cup {NoTse}
  BY DEF Tses
<1>1. TseReachable(en2, {h}) = R
  BY <1>0, FreshEntry
<1>2. R2 \subseteq {m} \cup R
  BY <1>1, ReachableStep
<1>3. R2 \in SUBSET Tses /\ LinkClosed(en2, R2) /\ m \in R2 \cup {NoTse}
  BY ReachableClosed
<1>4. m \in R2
  BY <1>3, SpecificNames DEF Tses
<1>5. h \in R2 \cup {NoTse}
  BY <1>3, <1>4 DEF LinkClosed
<1>6. R \subseteq R2
  <2>1. TseReachable(en2, {h}) \subseteq R2
    BY <1>3, <1>5, ReachableLeast
  <2> QED
    BY <2>1, <1>1
<1> QED
  BY <1>2, <1>4, <1>6

-----------------------------------------------------------------------------
(* Unlinking.                                                              *)
Bypassed(en, en2, T, m) ==
  \A e \in Tses : en2[e].next = IF e # m /\ e \in T /\ en[e].next = m
                                THEN en[m].next ELSE en[e].next

\* A reader that is anywhere still reaches what it did, but for the entry that
\* is unlinked, and nothing new.
LEMMA ReachableUnlinked ==
  ASSUME NEW en, NEW en2, NEW T, NEW m \in Tses, NEW from, Linked(en), Linked(en2),
         Bypassed(en, en2, T, m), from \subseteq Tses \cup {NoTse}
  PROVE  /\ TseReachable(en2, from) \subseteq TseReachable(en, from)
         /\ TseReachable(en, from) \subseteq TseReachable(en2, from) \cup {m}
<1> DEFINE R1 == TseReachable(en, from)
           R2 == TseReachable(en2, from)
<1>1. R1 \in SUBSET Tses /\ LinkClosed(en, R1) /\ from \subseteq R1 \cup {NoTse}
  BY ReachableClosed
<1>2. LinkClosed(en2, R1)
  <2>1. ASSUME NEW e \in R1
        PROVE  en2[e].next \in R1 \cup {NoTse}
    <3>1. e \in Tses /\ en[e].next \in R1 \cup {NoTse}
      BY <1>1 DEF LinkClosed
    <3>2. CASE e # m /\ e \in T /\ en[e].next = m
      <4>1. m \in R1
        BY <3>1, <3>2, SpecificNames DEF Tses
      <4> QED
        BY <3>1, <3>2, <4>1, <1>1 DEF LinkClosed, Bypassed
    <3>3. CASE ~(e # m /\ e \in T /\ en[e].next = m)
      BY <3>1, <3>3 DEF Bypassed
    <3> QED
      BY <3>2, <3>3
  <2> QED
    BY <2>1 DEF LinkClosed
<1>3. R2 \subseteq R1
  BY <1>1, <1>2, ReachableLeast
<1>4. R2 \in SUBSET Tses /\ LinkClosed(en2, R2) /\ from \subseteq R2 \cup {NoTse}
  BY ReachableClosed
<1>5. CASE \E y \in R2 : y # m /\ y \in T /\ en[y].next = m
  <2>1. PICK y \in R2 : y # m /\ y \in T /\ en[y].next = m
    BY <1>5
  <2>2. en[m].next \in R2 \cup {NoTse}
    BY <2>1, <1>4 DEF LinkClosed, Bypassed
  <2>3. LinkClosed(en, R2 \cup {m})
    BY <2>2, <1>4 DEF LinkClosed, Bypassed
  <2> QED
    BY <2>3, <1>3, <1>4, ReachableLeast
<1>6. CASE ~\E y \in R2 : y # m /\ y \in T /\ en[y].next = m
  <2>1. LinkClosed(en, R2)
    BY <1>4, <1>6 DEF LinkClosed, Bypassed
  <2> QED
    BY <2>1, <1>3, <1>4, ReachableLeast
<1> QED
  BY <1>5, <1>6

\* A list: no two entries with the same successor, and none before the first.
IsList(en, h, T) ==
  /\ \A e, f \in T : en[e].next = en[f].next => e = f \/ en[e].next = NoTse
  /\ \A e \in T : en[e].next # h

\* An entry of a list is unlinked.
Shortened(en, en2, h, h2, T, m) ==
  /\ h \in Entry \cup {NoTse} /\ m \in T /\ Linked(en) /\ Linked(en2)
  /\ T = TseReachable(en, {h}) /\ IsList(en, h, T)
  /\ Bypassed(en, en2, T, m) /\ h2 = IF h = m THEN en[m].next ELSE h

\* Unlinking leaves a list of all the others.
LEMMA ListUnlinked ==
  ASSUME NEW en, NEW en2, NEW h, NEW h2, NEW T, NEW m, Shortened(en, en2, h, h2, T, m)
  PROVE  TseReachable(en2, {h2}) = T \ {m} /\ IsList(en2, h2, T \ {m})
<1> USE DEF Shortened
<1> DEFINE T2 == TseReachable(en2, {h2})
<1>0. h \in Tses \cup {NoTse}
  BY DEF Tses
<1>1. T \in SUBSET Tses /\ LinkClosed(en, T) /\ h \in T \cup {NoTse} /\ m \in Tses
  BY <1>0, ReachableClosed
<1>2. h2 \in Entry \cup {NoTse} /\ h2 \in Tses \cup {NoTse} /\ NoTse \notin Tses
  BY <1>0, <1>1, SpecificNames DEF Linked, Tses
<1>3. en[m].next # m
  <2>1. SUFFICES ASSUME en[m].next = m
                 PROVE  FALSE
    OBVIOUS
  <2>2. m # h
    BY <2>1 DEF IsList
  <2>3. LinkClosed(en, T \ {m})
    <3>1. ASSUME NEW e \in T, e # m
          PROVE  en[e].next # m
      BY <2>1, <3>1, <1>1, <1>2 DEF IsList
    <3> QED
      BY <3>1, <1>1 DEF LinkClosed
  <2>4. T \subseteq T \ {m}
    BY <2>2, <2>3, <1>1, ReachableLeast
  <2> QED
    BY <2>4
<1>4. ASSUME NEW e \in T, e # m
      PROVE  en2[e].next \in (T \ {m}) \cup {NoTse}
  BY <1>1, <1>2, <1>3, <1>4 DEF LinkClosed, Bypassed
<1>5. h2 \in (T \ {m}) \cup {NoTse}
  BY <1>1, <1>3 DEF LinkClosed
<1>6. T2 \subseteq T \ {m}
  <2>1. LinkClosed(en2, T \ {m})
    BY <1>4 DEF LinkClosed
  <2> QED
    BY <2>1, <1>1, <1>5, ReachableLeast
<1>7. T \ {m} \subseteq T2
  <2>1. T \ {m} \subseteq TseReachable(en, {h2})
    <3>1. CASE h = m
      BY <3>1, <1>1, ReachableStep
    <3>2. CASE h # m
      BY <3>2
    <3> QED
      BY <3>1, <3>2
  <2>2. TseReachable(en, {h2}) \subseteq T2 \cup {m}
    BY <1>1, <1>2, ReachableUnlinked
  <2> QED
    BY <2>1, <2>2
<1>8. IsList(en2, h2, T \ {m})
  <2>1. ASSUME NEW e \in T \ {m}, NEW f \in T \ {m}, en2[e].next = en2[f].next,
               en2[e].next # NoTse
        PROVE  e = f
    <3>1. e \in T /\ f \in T /\ e \in Tses /\ f \in Tses /\ e # m /\ f # m
      BY <1>1
    <3>2. /\ en[e].next = en[f].next /\ en[e].next # NoTse => e = f
          /\ en[e].next = en[m].next => en[e].next = NoTse
          /\ en[f].next = en[m].next => en[f].next = NoTse
      BY <3>1 DEF IsList
    <3>3. /\ en2[e].next = IF en[e].next = m THEN en[m].next ELSE en[e].next
          /\ en2[f].next = IF en[f].next = m THEN en[m].next ELSE en[f].next
      BY <3>1 DEF Bypassed
    <3> QED
      BY <3>1, <3>2, <3>3, <2>1, <1>1, <1>2
  <2>2. ASSUME NEW e \in T \ {m}
        PROVE  en2[e].next # h2
    <3>1. e \in T /\ e \in Tses /\ e # m
      BY <1>1
    <3>2. en[e].next # h /\ (en[e].next = en[m].next => en[e].next = NoTse) /\ en[m].next # h
      BY <3>1 DEF IsList
    <3>3. en2[e].next = IF en[e].next = m THEN en[m].next ELSE en[e].next
      BY <3>1 DEF Bypassed
    <3>4. h2 # NoTse
      BY <1>7, NothingReachable
    <3> QED
      BY <3>1, <3>2, <3>3, <3>4, <1>1, <1>2
  <2> QED
    BY <2>1, <2>2 DEF IsList
<1> QED
  BY <1>6, <1>7, <1>8

-----------------------------------------------------------------------------
(* The invariant.  EntriesRight follows from the rest.                     *)
SpecificInv ==
  /\ SpecificTypeOK
  /\ GetsOwn /\ IdsDiffer /\ TableIsList /\ QuickIdsRight
  /\ \A t \in TsdThread : WalkLeadsHome(t)

\* The records of the threads.
TsdRec ==
  [pc : {"none", "unset", "set", "cached", "slow", "store", "removed", "ended"},
   id : TsdId \cup {NoTse}, pages : SUBSET TsdPage, qtid : TsdPage \cup {NoTse},
   p : Tses \cup {NoTse}]

\* The types, in the form the steps use.
LEMMA SpecificTyped ==
  ASSUME SpecificTypeOK
  PROVE  /\ Linked(tse)
         /\ head \in Entry \cup {NoTse} /\ head \in Tses \cup {NoTse}
         /\ InTableNow \in SUBSET Tses /\ LinkClosed(tse, InTableNow)
         /\ head \in InTableNow \cup {NoTse}
         /\ NoTse \notin Tses
<1>1. Linked(tse) /\ head \in Entry \cup {NoTse} /\ head \in Tses \cup {NoTse}
  BY DEF SpecificTypeOK, Linked, Tses
<1>2. NoTse \notin Tses
  BY SpecificNames DEF Tses
<1> QED
  BY <1>1, <1>2, ReachableClosed DEF InTableNow

\* The quick id of a reader's page leads it to its own value.
LEMMA QuickIsOwn ==
  ASSUME SpecificTypeOK, IdsDiffer, TableIsList, QuickIdsRight,
         NEW t \in Alive, NEW e \in Tses, tse[e].qtid \in tsd[t].pages
  PROVE  tse[e].value = t
<1>1. tse[e].qtid # NoTse
  BY SpecificNames DEF SpecificTypeOK, Alive
<1>2. e \in InTableNow /\ tse[e].qtid \in tsd[tse[e].value].pages
  BY <1>1 DEF QuickIdsRight
<1>3. tse[e].value \in Alive
  BY <1>2 DEF TableIsList, Setters, Alive
<1> QED
  BY <1>2, <1>3 DEF IdsDiffer

\* What the table has under a thread's id is the thread's.
LEMMA IdIsOwn ==
  ASSUME SpecificTypeOK, IdsDiffer, TableIsList,
         NEW t \in Alive, NEW e \in InTableNow, tse[e].thread = tsd[t].id
  PROVE  tse[e].value = t
<1>1. tse[e].value \in Alive /\ tsd[tse[e].value].id = tsd[t].id
  BY DEF TableIsList, Setters, Alive
<1> QED
  BY <1>1 DEF IdsDiffer

\* The comment's invariant follows.
LEMMA EntriesAreRight ==
  ASSUME SpecificInv
  PROVE  EntriesRight
<1>1. \A s \in Slots : tsCache[s] \in Tses
  BY DEF SpecificInv, SpecificTypeOK
<1>2. InTableNow \in SUBSET Tses
  BY SpecificTyped DEF SpecificInv
<1>3. ASSUME NEW t \in Alive, NEW e \in {tsCache[s] : s \in Slots} \cup InTableNow,
             tse[e].qtid \in tsd[t].pages
      PROVE  tse[e].value = t
  BY <1>1, <1>2, <1>3, QuickIsOwn DEF SpecificInv
<1>4. ASSUME NEW t \in Alive, NEW e \in InTableNow, tse[e].thread = tsd[t].id
      PROVE  tse[e].value = t
  BY <1>4, IdIsOwn DEF SpecificInv
<1> QED
  BY <1>3, <1>4 DEF EntriesRight

\* Steps of one thread that leave the list alone: the table is the same, and so
\* is what all other readers have before them.
LEMMA TableKept ==
  ASSUME SpecificInv, SpecificTypeOK', NEW t \in TsdThread, head' = head,
         \A e \in Tses : /\ tse'[e].next = tse[e].next /\ tse'[e].value = tse[e].value
                         /\ tse'[e].thread = tse[e].thread,
         \A u \in TsdThread : u # t => tsd'[u] = tsd[u],
         t \in Setters => t \in Setters' /\ tsd'[t].id = tsd[t].id,
         t \in Setters' => t \in Setters
  PROVE  /\ \A A : TseReachable(tse', A) = TseReachable(tse, A)
         /\ InTableNow' = InTableNow /\ Setters' = Setters
         /\ TableIsList'
         /\ \A u \in TsdThread : u # t => WalkLeadsHome(u)'
<1>1. \A A : TseReachable(tse', A) = TseReachable(tse, A)
  BY SameLinks
<1>2. InTableNow' = InTableNow
  BY <1>1 DEF InTableNow
<1>3. Setters' = Setters
  BY DEF Setters
<1>4. InTableNow \in SUBSET Tses
  BY SpecificTyped DEF SpecificInv
<1>5. TableIsList'
  <2>1. \A u \in Setters : tsd'[u].id = tsd[u].id
    BY DEF Setters
  <2> QED
    BY <1>2, <1>3, <1>4, <2>1 DEF TableIsList, SpecificInv
<1>6. ASSUME NEW u \in TsdThread, u # t
      PROVE  WalkLeadsHome(u)'
  <2>1. WalkLeadsHome(u) /\ tsd'[u] = tsd[u]
    BY <1>6 DEF SpecificInv
  <2>2. TseReachable(tse', {tsd'[u].p}) = TseReachable(tse, {tsd[u].p})
    BY <2>1, <1>1
  <2>3. TseReachable(tse, {tsd[u].p}) \in SUBSET Tses
    BY DEF TseReachable
  <2> QED
    BY <2>1, <2>2, <2>3, <1>2, <1>4 DEF WalkLeadsHome
<1> QED
  BY <1>1, <1>2, <1>3, <1>5, <1>6

-----------------------------------------------------------------------------
(* The steps.                                                              *)

LEMMA StartKeeps ==
  ASSUME SpecificInv, NEW t \in TsdThread, Start(t)
  PROVE  SpecificInv'
<1>1. PICK id \in TsdId \ {tsd[u].id : u \in Alive}, q \in SUBSET TsdPage :
         /\ \A u \in Alive : tsd[u].pages \cap q = {}
         /\ tsd' = [tsd EXCEPT ![t] = [pc |-> "unset", id |-> id, pages |-> q,
                                       qtid |-> NoTse, p |-> NoTse]]
  BY DEF Start
<1>2. head' = head /\ tse' = tse /\ tsCache' = tsCache /\ result' = result /\ tsd[t].pc = "none"
  BY DEF Start
<1>3. /\ tsd'[t] = [pc |-> "unset", id |-> id, pages |-> q, qtid |-> NoTse, p |-> NoTse]
      /\ \A u \in TsdThread : u # t => tsd'[u] = tsd[u]
  BY <1>1 DEF SpecificInv, SpecificTypeOK
<1>4. SpecificTypeOK'
  BY <1>1, <1>2 DEF SpecificInv, SpecificTypeOK
<1>5. t \notin Setters /\ t \notin Setters' /\ t \notin Alive
  BY <1>2, <1>3 DEF Setters, Alive
<1>6. Alive' = Alive \cup {t}
  BY <1>2, <1>3 DEF Alive
<1>7. IdsDiffer'
  <2>1. \A u \in Alive : u \in TsdThread /\ u # t
    BY <1>5 DEF Alive
  <2> QED
    BY <1>1, <1>3, <1>6, <2>1 DEF IdsDiffer, SpecificInv
<1>8. /\ InTableNow' = InTableNow /\ TableIsList'
      /\ \A u \in TsdThread : u # t => WalkLeadsHome(u)'
  BY <1>2, <1>3, <1>4, <1>5, TableKept
<1>9. QuickIdsRight'
  <2>1. \A e \in InTableNow : tse[e].value \in TsdThread /\ tse[e].value # t
    BY <1>5 DEF SpecificInv, TableIsList, Setters
  <2> QED
    BY <2>1, <1>2, <1>3, <1>8 DEF QuickIdsRight, SpecificInv
<1>10. WalkLeadsHome(t)'
  BY <1>3 DEF WalkLeadsHome
<1> QED
  BY <1>2, <1>4, <1>7, <1>8, <1>9, <1>10 DEF SpecificInv, GetsOwn

LEMMA EndKeeps ==
  ASSUME SpecificInv, NEW t \in TsdThread, End(t)
  PROVE  SpecificInv'
<1>2. head' = head /\ tse' = tse /\ tsCache' = tsCache /\ tsd[t].pc = "removed"
  BY DEF End
<1>3. /\ tsd'[t] = [Absent EXCEPT !.pc = "ended"]
      /\ \A u \in TsdThread : u # t => tsd'[u] = tsd[u]
      /\ result'[t] = NoTse
      /\ \A u \in TsdThread : u # t => result'[u] = result[u]
  BY DEF SpecificInv, SpecificTypeOK, End
<1>4. SpecificTypeOK'
  <2>1. [Absent EXCEPT !.pc = "ended"] \in
       [pc : {"none", "unset", "set", "cached", "slow", "store", "removed", "ended"},
        id : TsdId \cup {NoTse}, pages : SUBSET TsdPage, qtid : TsdPage \cup {NoTse},
        p : Tses \cup {NoTse}]
    BY DEF Absent
  <2> QED
    BY <1>2, <2>1 DEF SpecificInv, SpecificTypeOK, End
<1>3a. tsd'[t].pc = "ended"
  BY <1>3 DEF Absent
<1>5. t \notin Setters /\ t \notin Setters'
  BY <1>2, <1>3a DEF Setters
<1>6. Alive' = Alive \ {t}
  BY <1>2, <1>3, <1>3a DEF Alive
<1>7. IdsDiffer'
  <2>1. \A u \in Alive' : u \in Alive /\ u \in TsdThread /\ u # t
    BY <1>6 DEF Alive
  <2> QED
    BY <1>3, <2>1 DEF IdsDiffer, SpecificInv
<1>8. /\ InTableNow' = InTableNow /\ TableIsList'
      /\ \A u \in TsdThread : u # t => WalkLeadsHome(u)'
  BY <1>2, <1>3, <1>4, <1>5, TableKept
<1>9. QuickIdsRight'
  <2>1. \A e \in InTableNow : tse[e].value \in TsdThread /\ tse[e].value # t
    BY <1>5 DEF SpecificInv, TableIsList, Setters
  <2> QED
    BY <2>1, <1>2, <1>3, <1>8 DEF QuickIdsRight, SpecificInv
<1>10. WalkLeadsHome(t)'
  BY <1>3a DEF WalkLeadsHome
<1>11. GetsOwn'
  BY <1>3 DEF GetsOwn, SpecificInv
<1> QED
  BY <1>4, <1>7, <1>8, <1>9, <1>10, <1>11 DEF SpecificInv

\* A reader's steps: what they have in common.
LEMMA ReaderKeeps ==
  ASSUME SpecificInv, SpecificTypeOK', NEW t \in TsdThread, head' = head,
         \A e \in Tses : /\ tse'[e].next = tse[e].next /\ tse'[e].value = tse[e].value
                         /\ tse'[e].thread = tse[e].thread,
         \A u \in TsdThread : u # t => tsd'[u] = tsd[u],
         tsd'[t].id = tsd[t].id, tsd'[t].pages = tsd[t].pages,
         t \in Setters, tsd'[t].pc \in {"set", "cached", "slow", "store"}
  PROVE  /\ \A A : TseReachable(tse', A) = TseReachable(tse, A)
         /\ InTableNow' = InTableNow /\ t \in Alive
         /\ TableIsList' /\ IdsDiffer'
         /\ \A u \in TsdThread : u # t => WalkLeadsHome(u)'
         /\ tse' = tse => QuickIdsRight'
<1>1. t \in Setters'
  BY DEF Setters
<1>2. Alive' = Alive /\ t \in Alive
  BY DEF Alive, Setters
<1>3. IdsDiffer'
  <2>1. \A u \in Alive : tsd'[u].id = tsd[u].id /\ tsd'[u].pages = tsd[u].pages
    BY DEF Alive
  <2> QED
    BY <1>2, <2>1 DEF IdsDiffer, SpecificInv
<1>4. /\ \A A : TseReachable(tse', A) = TseReachable(tse, A)
      /\ InTableNow' = InTableNow
      /\ TableIsList'
      /\ \A u \in TsdThread : u # t => WalkLeadsHome(u)'
  BY <1>1, TableKept
<1>5. ASSUME tse' = tse
      PROVE  QuickIdsRight'
  <2>1. \A e \in InTableNow : tsd'[tse[e].value].pages = tsd[tse[e].value].pages
    BY DEF SpecificInv, TableIsList, Setters
  <2> QED
    BY <1>4, <1>5, <2>1 DEF QuickIdsRight, SpecificInv
<1> QED
  BY <1>2, <1>3, <1>4, <1>5

LEMMA GetKeeps ==
  ASSUME SpecificInv, NEW t \in TsdThread, GC_getspecific(t)
  PROVE  SpecificInv'
<1>1. PICK q \in tsd[t].pages :
        tsd' = [tsd EXCEPT ![t].pc = "cached", ![t].qtid = q, ![t].p = tsCache[CacheSlot[q]]]
  BY Zenon DEF GC_getspecific
<1>2. head' = head /\ tse' = tse /\ tsCache' = tsCache /\ result' = result /\ tsd[t].pc = "set"
  BY DEF GC_getspecific
<1>3. q \in TsdPage /\ tsCache[CacheSlot[q]] \in Tses
  <2>1. q \in TsdPage
    BY <1>1 DEF SpecificInv, SpecificTypeOK
  <2>2. CacheSlot[q] \in Slots
    BY <2>1 DEF Slots
  <2> QED
    BY <2>1, <2>2 DEF SpecificInv, SpecificTypeOK
<1>4. /\ tsd'[t] = [tsd[t] EXCEPT !.pc = "cached", !.qtid = q, !.p = tsCache[CacheSlot[q]]]
      /\ \A u \in TsdThread : u # t => tsd'[u] = tsd[u]
  BY <1>1 DEF SpecificInv, SpecificTypeOK
<1>5. /\ tsd'[t].pc = "cached" /\ tsd'[t].qtid = q /\ tsd'[t].p \in Tses
      /\ tsd'[t].id = tsd[t].id /\ tsd'[t].pages = tsd[t].pages
  BY <1>3, <1>4 DEF SpecificInv, SpecificTypeOK
<1>6. SpecificTypeOK'
  <2>1. tsd \in [TsdThread -> TsdRec]
    BY DEF SpecificInv, SpecificTypeOK, TsdRec
  <2>r. [tsd[t] EXCEPT !.pc = "cached", !.qtid = q, !.p = tsCache[CacheSlot[q]]] \in TsdRec
    BY <2>1, <1>1, <1>3 DEF TsdRec
  <2>2. tsd' \in [TsdThread -> TsdRec]
    BY <2>1, <1>1, <1>3, <2>r
  <2> QED
    BY <2>2, <1>2 DEF SpecificInv, SpecificTypeOK, TsdRec
<1>7. t \in Setters
  BY <1>2 DEF Setters
<1>8. /\ TableIsList' /\ IdsDiffer' /\ QuickIdsRight'
      /\ \A u \in TsdThread : u # t => WalkLeadsHome(u)'
  BY <1>2, <1>4, <1>5, <1>6, <1>7, ReaderKeeps
<1>9. WalkLeadsHome(t)'
  BY <1>5, <1>1 DEF WalkLeadsHome
<1> QED
  BY <1>2, <1>6, <1>8, <1>9 DEF SpecificInv, GetsOwn

LEMMA InCacheKeeps ==
  ASSUME SpecificInv, NEW t \in TsdThread, InCache(t)
  PROVE  SpecificInv'
<1>2. head' = head /\ tse' = tse /\ tsCache' = tsCache /\ tsd[t].pc = "cached"
  BY DEF InCache
<1>3. tsd[t].p \in Tses /\ tsd[t].qtid \in tsd[t].pages
  BY <1>2 DEF SpecificInv, WalkLeadsHome
<1>7. t \in Setters /\ t \in Alive
  BY <1>2 DEF Setters, Alive
<1>t. head \in Tses \cup {NoTse} /\ InTableNow \in SUBSET Tses
  BY SpecificTyped DEF SpecificInv
<1>a. CASE tse[tsd[t].p].qtid = tsd[t].qtid
  <2>1. /\ result' = [result EXCEPT ![t] = tse[tsd[t].p].value]
        /\ tsd' = [tsd EXCEPT ![t].pc = "set", ![t].p = NoTse, ![t].qtid = NoTse]
    BY <1>a DEF InCache
  <2>2. tse[tsd[t].p].value = t
    BY <1>a, <1>3, <1>7, QuickIsOwn DEF SpecificInv
  <2>3. /\ \A u \in TsdThread : u # t => tsd'[u] = tsd[u]
        /\ tsd'[t].pc = "set" /\ tsd'[t].id = tsd[t].id /\ tsd'[t].pages = tsd[t].pages
    BY <2>1 DEF SpecificInv, SpecificTypeOK
  <2>4. SpecificTypeOK'
    <3>1. tsd \in [TsdThread -> TsdRec]
      BY DEF SpecificInv, SpecificTypeOK, TsdRec
    <3>r. [tsd[t] EXCEPT !.pc = "set", !.p = NoTse, !.qtid = NoTse] \in TsdRec
      BY <3>1, <2>1 DEF TsdRec
    <3>2. tsd' \in [TsdThread -> TsdRec]
      BY <3>1, <2>1, <3>r
    <3>3. result' \in [TsdThread -> TsdThread \cup {NoTse, InvalidTse}]
      BY <2>1, <2>2 DEF SpecificInv, SpecificTypeOK
    <3> QED
      BY <3>2, <3>3, <1>2 DEF SpecificInv, SpecificTypeOK, TsdRec
  <2>5. GetsOwn'
    BY <2>1, <2>2 DEF SpecificInv, SpecificTypeOK, GetsOwn
  <2>6. /\ TableIsList' /\ IdsDiffer' /\ QuickIdsRight'
        /\ \A u \in TsdThread : u # t => WalkLeadsHome(u)'
    BY <1>2, <1>7, <2>3, <2>4, ReaderKeeps
  <2>7. WalkLeadsHome(t)'
    BY <2>3 DEF WalkLeadsHome
  <2> QED
    BY <2>4, <2>5, <2>6, <2>7 DEF SpecificInv
<1>b. CASE tse[tsd[t].p].qtid # tsd[t].qtid
  <2>1. /\ result' = result
        /\ tsd' = [tsd EXCEPT ![t].pc = "slow", ![t].p = head]
    BY <1>b DEF InCache
  <2>3. /\ \A u \in TsdThread : u # t => tsd'[u] = tsd[u]
        /\ tsd'[t].pc = "slow" /\ tsd'[t].id = tsd[t].id /\ tsd'[t].pages = tsd[t].pages
        /\ tsd'[t].p = head /\ tsd'[t].qtid = tsd[t].qtid
    BY <2>1 DEF SpecificInv, SpecificTypeOK
  <2>4. SpecificTypeOK'
    <3>1. tsd \in [TsdThread -> TsdRec]
      BY DEF SpecificInv, SpecificTypeOK, TsdRec
    <3>r. [tsd[t] EXCEPT !.pc = "slow", !.p = head] \in TsdRec
      BY <3>1, <2>1, <1>t DEF TsdRec
    <3>2. tsd' \in [TsdThread -> TsdRec]
      BY <3>1, <2>1, <1>t, <3>r
    <3> QED
      BY <3>2, <2>1, <1>2 DEF SpecificInv, SpecificTypeOK, TsdRec
  <2>5. GetsOwn'
    BY <2>1 DEF SpecificInv, GetsOwn
  <2>6. /\ TableIsList' /\ IdsDiffer' /\ QuickIdsRight' /\ InTableNow' = InTableNow
        /\ \A u \in TsdThread : u # t => WalkLeadsHome(u)'
    BY <1>2, <1>7, <2>3, <2>4, ReaderKeeps
  <2>7. WalkLeadsHome(t)'
    <3>1. TseReachable(tse', {tsd'[t].p}) = InTableNow
      BY <1>2, <2>3 DEF InTableNow
    <3>2. PICK d \in InTableNow : tse[d].value = t
      BY <1>7 DEF SpecificInv, TableIsList
    <3>3. \A f \in InTableNow : tse[f].thread = tsd[t].id => tse[f].value = t
      BY <1>7, IdIsOwn DEF SpecificInv
    <3>4. head # NoTse
      BY <3>2, NothingReachable DEF InTableNow
    <3>5. tsd'[t].p \in Tses /\ tsd'[t].qtid \in tsd'[t].pages
      BY <3>4, <2>3, <1>t, <1>3
    <3>6. \E e \in TseReachable(tse', {tsd'[t].p}) : e \in InTableNow' /\ tse'[e].value = t
      BY <3>1, <3>2, <1>2, <2>6
    <3>7. \A e \in TseReachable(tse', {tsd'[t].p}) : tse'[e].thread = tsd'[t].id
                                                  => e \in InTableNow' /\ tse'[e].value = t
      BY <3>1, <3>3, <1>2, <2>3, <2>6
    <3>8. tsd'[t].pc # "store"
      BY <2>3
    <3> QED
      BY <3>5, <3>6, <3>7, <3>8 DEF WalkLeadsHome
  <2> QED
    BY <2>4, <2>5, <2>6, <2>7 DEF SpecificInv
<1> QED
  BY <1>a, <1>b

LEMMA SlowKeeps ==
  ASSUME SpecificInv, NEW t \in TsdThread, GC_slow_getspecific(t)
  PROVE  SpecificInv'
<1>1. /\ tsCache' = [tsCache EXCEPT ![CacheSlot[tsd[t].qtid]] = tsd[t].p]
      /\ result' = [result EXCEPT ![t] = tse[tsd[t].p].value]
      /\ tsd' = [tsd EXCEPT ![t].pc = "set", ![t].p = NoTse, ![t].qtid = NoTse]
      /\ head' = head /\ tse' = tse /\ tsd[t].pc = "store"
  BY DEF GC_slow_getspecific
<1>2. tsd[t].p \in Tses /\ tse[tsd[t].p].value = t
  BY <1>1 DEF SpecificInv, WalkLeadsHome
<1>3. /\ \A u \in TsdThread : u # t => tsd'[u] = tsd[u]
      /\ tsd'[t].pc = "set" /\ tsd'[t].id = tsd[t].id /\ tsd'[t].pages = tsd[t].pages
  BY <1>1 DEF SpecificInv, SpecificTypeOK
<1>4. SpecificTypeOK'
  <2>1. tsd \in [TsdThread -> TsdRec]
    BY DEF SpecificInv, SpecificTypeOK, TsdRec
  <2>r. [tsd[t] EXCEPT !.pc = "set", !.p = NoTse, !.qtid = NoTse] \in TsdRec
    BY <2>1, <1>1 DEF TsdRec
  <2>2. tsd' \in [TsdThread -> TsdRec]
    BY <2>1, <1>1, <2>r
  <2>3. result' \in [TsdThread -> TsdThread \cup {NoTse, InvalidTse}]
    BY <1>1, <1>2 DEF SpecificInv, SpecificTypeOK
  <2>4. tsCache' \in [Slots -> Tses]
    BY <1>1, <1>2 DEF SpecificInv, SpecificTypeOK
  <2> QED
    BY <2>2, <2>3, <2>4, <1>1 DEF SpecificInv, SpecificTypeOK, TsdRec
<1>5. GetsOwn'
  BY <1>1, <1>2 DEF SpecificInv, SpecificTypeOK, GetsOwn
<1>6. t \in Setters
  BY <1>1 DEF Setters
<1>7. /\ TableIsList' /\ IdsDiffer' /\ QuickIdsRight'
      /\ \A u \in TsdThread : u # t => WalkLeadsHome(u)'
  BY <1>1, <1>6, <1>3, <1>4, ReaderKeeps
<1>8. WalkLeadsHome(t)'
  BY <1>3 DEF WalkLeadsHome
<1> QED
  BY <1>4, <1>5, <1>7, <1>8 DEF SpecificInv

LEMMA WalkKeeps ==
  ASSUME SpecificInv, NEW t \in TsdThread, WalkChain(t)
  PROVE  SpecificInv'
<1>1. head' = head /\ tsCache' = tsCache /\ tsd[t].pc = "slow"
  BY DEF WalkChain
<1>2. /\ tsd[t].p \in Tses /\ tsd[t].qtid \in tsd[t].pages
      /\ \E e \in TseReachable(tse, {tsd[t].p}) : e \in InTableNow /\ tse[e].value = t
      /\ \A e \in TseReachable(tse, {tsd[t].p}) : tse[e].thread = tsd[t].id
                                                    => e \in InTableNow /\ tse[e].value = t
  BY <1>1 DEF SpecificInv, WalkLeadsHome
<1>t. /\ NoTse \notin Tses /\ Linked(tse) /\ InTableNow \in SUBSET Tses
      /\ tse[tsd[t].p].next \in Tses \cup {NoTse}
  BY <1>2, SpecificTyped DEF SpecificInv, Linked, Tses
<1>6. t \in Setters
  BY <1>1 DEF Setters
<1>a. CASE tse[tsd[t].p].thread # tsd[t].id
  <2>1. /\ tsd' = [tsd EXCEPT ![t].p = tse[tsd[t].p].next]
        /\ tse' = tse /\ result' = result
    BY <1>a, <1>2, <1>t DEF WalkChain
  <2>3. /\ \A u \in TsdThread : u # t => tsd'[u] = tsd[u]
        /\ tsd'[t].pc = "slow" /\ tsd'[t].id = tsd[t].id /\ tsd'[t].pages = tsd[t].pages
        /\ tsd'[t].p = tse[tsd[t].p].next /\ tsd'[t].qtid = tsd[t].qtid
    BY <2>1, <1>1 DEF SpecificInv, SpecificTypeOK
  <2>4. SpecificTypeOK'
    BY <2>1, <1>1, <1>t DEF SpecificInv, SpecificTypeOK
  <2>6. /\ TableIsList' /\ IdsDiffer' /\ QuickIdsRight' /\ InTableNow' = InTableNow
        /\ \A u \in TsdThread : u # t => WalkLeadsHome(u)'
    BY <1>1, <1>6, <2>1, <2>3, <2>4, ReaderKeeps
  <2>7. WalkLeadsHome(t)'
    <3>1. PICK e \in TseReachable(tse, {tsd[t].p}) : e \in InTableNow /\ tse[e].value = t
      BY <1>2
    <3>2. e # tsd[t].p
      BY <3>1, <1>a DEF SpecificInv, TableIsList
    <3>3. e \in TseReachable(tse, {tse[tsd[t].p].next})
      BY <3>1, <3>2, <1>2, <1>t, ReachableStep
    <3>4. tse[tsd[t].p].next # NoTse
      BY <3>3, NothingReachable
    <3>5. TseReachable(tse, {tse[tsd[t].p].next}) \subseteq TseReachable(tse, {tsd[t].p})
      <4>1. /\ tsd[t].p \in TseReachable(tse, {tsd[t].p})
            /\ LinkClosed(tse, TseReachable(tse, {tsd[t].p}))
        BY <1>2, <1>t, ReachableClosed
      <4>2. tse[tsd[t].p].next \in TseReachable(tse, {tsd[t].p})
        BY <3>4, <4>1 DEF LinkClosed
      <4> QED
        BY <4>2, <1>2, <1>t, ReachableWithin
    <3>6. tse[tsd[t].p].next \in Tses
      BY <3>4, <1>t
    <3>7. tsd'[t].p \in Tses /\ tsd'[t].qtid \in tsd'[t].pages
      BY <3>6, <2>3, <1>2
    <3>8. \E f \in TseReachable(tse', {tsd'[t].p}) : f \in InTableNow' /\ tse'[f].value = t
      BY <3>1, <3>3, <2>1, <2>3, <2>6
    <3>9. \A f \in TseReachable(tse', {tsd'[t].p}) : tse'[f].thread = tsd'[t].id
                                                  => f \in InTableNow' /\ tse'[f].value = t
      BY <3>5, <1>2, <2>1, <2>3, <2>6
    <3>10. tsd'[t].pc # "store"
      BY <2>3
    <3> QED
      BY <3>7, <3>8, <3>9, <3>10 DEF WalkLeadsHome
  <2> QED
    BY <2>1, <2>4, <2>6, <2>7 DEF SpecificInv, GetsOwn
<1>b. CASE tse[tsd[t].p].thread = tsd[t].id
  <2>1. /\ tse' = [tse EXCEPT ![tsd[t].p].qtid = tsd[t].qtid]
        /\ tsd' = [tsd EXCEPT ![t].pc = "store"] /\ result' = result
    BY <1>b, <1>2, <1>t DEF WalkChain
  <2>2. tsd[t].p \in InTableNow /\ tse[tsd[t].p].value = t
    <3>1. tsd[t].p \in TseReachable(tse, {tsd[t].p})
      BY <1>2, <1>t, ReachableClosed
    <3> QED
      BY <3>1, <1>b, <1>2
  <2>3. /\ \A u \in TsdThread : u # t => tsd'[u] = tsd[u]
        /\ tsd'[t].pc = "store" /\ tsd'[t].id = tsd[t].id /\ tsd'[t].pages = tsd[t].pages
        /\ tsd'[t].p = tsd[t].p /\ tsd'[t].qtid = tsd[t].qtid
    BY <2>1, <1>1 DEF SpecificInv, SpecificTypeOK
  <2>4. /\ \A e \in Tses : /\ tse'[e].next = tse[e].next /\ tse'[e].value = tse[e].value
                           /\ tse'[e].thread = tse[e].thread
                           /\ e # tsd[t].p => tse'[e].qtid = tse[e].qtid
        /\ tse'[tsd[t].p].qtid = tsd[t].qtid
    BY <2>1, <1>2 DEF SpecificInv, SpecificTypeOK
  <2>5. SpecificTypeOK'
    <3>1. tsd \in [TsdThread -> TsdRec]
      BY DEF SpecificInv, SpecificTypeOK, TsdRec
    <3>r. [tsd[t] EXCEPT !.pc = "store"] \in TsdRec
      BY <3>1, <2>1 DEF TsdRec
    <3>2. tsd' \in [TsdThread -> TsdRec]
      BY <3>1, <2>1, <3>r
    <3>3. tsd[t].qtid \in TsdPage \cup {NoTse}
      BY DEF SpecificInv, SpecificTypeOK
    <3>4. tse' \in [Tses -> [qtid : TsdPage \cup {NoTse}, value : TsdThread \cup {NoTse},
                             next : Entry \cup {NoTse}, thread : TsdId \cup {NoTse}]]
      BY <3>3, <2>1 DEF SpecificInv, SpecificTypeOK
    <3> QED
      BY <3>2, <3>4, <2>1, <1>1 DEF SpecificInv, SpecificTypeOK, TsdRec
  <2>6. /\ TableIsList' /\ IdsDiffer' /\ InTableNow' = InTableNow
        /\ \A u \in TsdThread : u # t => WalkLeadsHome(u)'
    BY <1>1, <1>6, <2>3, <2>4, <2>5, ReaderKeeps
  <2>7. WalkLeadsHome(t)'
    BY <1>2, <2>2, <2>3, <2>4, <2>6 DEF WalkLeadsHome
  <2>8. QuickIdsRight'
    <3>1. \A e \in InTableNow : tsd'[tse[e].value].pages = tsd[tse[e].value].pages
      BY <2>3 DEF SpecificInv, TableIsList, Setters
    <3>2. ASSUME NEW e \in Tses, tse'[e].qtid # NoTse
          PROVE  e \in InTableNow' /\ tse'[e].qtid \in tsd'[tse'[e].value].pages
      <4>1. CASE e = tsd[t].p
        BY <4>1, <2>2, <2>3, <2>4, <2>6, <1>2
      <4>2. CASE e # tsd[t].p
        <5>1. e \in InTableNow /\ tse[e].qtid \in tsd[tse[e].value].pages
          BY <4>2, <3>2, <2>4 DEF SpecificInv, QuickIdsRight
        <5> QED
          BY <5>1, <4>2, <3>1, <2>4, <2>6
      <4> QED
        BY <4>1, <4>2
    <3> QED
      BY <3>2 DEF QuickIdsRight
  <2> QED
    BY <2>1, <2>5, <2>6, <2>7, <2>8 DEF SpecificInv, GetsOwn
<1> QED
  BY <1>a, <1>b

\* A new entry was not in anyone's sight.
LEMMA SetKeeps ==
  ASSUME SpecificInv, NEW t \in TsdThread, GC_setspecific(t)
  PROVE  SpecificInv'
<1> DEFINE roots == {head} \cup {tsCache[s] : s \in Slots} \cup {tsd[u].p : u \in TsdThread}
           m == CHOOSE x \in Entry : x \notin InUse
           new == [qtid |-> NoTse, value |-> t, next |-> head, thread |-> tsd[t].id]
<1>1. /\ tse' = [tse EXCEPT ![m] = new]
      /\ head' = m
      /\ tsd' = [tsd EXCEPT ![t].pc = "set"]
      /\ tsCache' = tsCache /\ result' = result
      /\ tsd[t].pc = "unset"
  BY DEF GC_setspecific
<1>2. m \in Entry /\ m \notin InUse
  BY DEF GC_setspecific
<1> HIDE DEF m
<1>t. /\ Linked(tse) /\ head \in Entry \cup {NoTse} /\ head \in Tses \cup {NoTse}
      /\ InTableNow \in SUBSET Tses /\ LinkClosed(tse, InTableNow)
      /\ head \in InTableNow \cup {NoTse} /\ NoTse \notin Tses
      /\ m \in Tses /\ m # NoTse
  BY <1>2, SpecificTyped, SpecificNames DEF SpecificInv, Tses
<1>3. roots \subseteq Tses \cup {NoTse}
  BY <1>t DEF SpecificInv, SpecificTypeOK
<1>4. /\ InUse \in SUBSET Tses /\ LinkClosed(tse, InUse) /\ roots \subseteq InUse \cup {NoTse}
  BY <1>3, <1>t, ReachableClosed DEF InUse
<1>5. ASSUME NEW p \in roots
      PROVE  m \notin TseReachable(tse, {p})
  <2>1. TseReachable(tse, {p}) \subseteq InUse
    BY <1>4, <1>5, ReachableLeast
  <2> QED
    BY <2>1, <1>2
<1>6. m \notin InTableNow
  BY <1>5 DEF InTableNow
<1>7. /\ tse'[m] = new
      /\ \A e \in Tses : e # m => tse'[e] = tse[e]
  BY <1>1, <1>t DEF SpecificInv, SpecificTypeOK
<1>8. /\ \A u \in TsdThread : u # t => tsd'[u] = tsd[u]
      /\ tsd'[t].pc = "set" /\ tsd'[t].id = tsd[t].id /\ tsd'[t].pages = tsd[t].pages
  BY <1>1 DEF SpecificInv, SpecificTypeOK
<1>9. SpecificTypeOK'
  <2>1. tsd \in [TsdThread -> TsdRec]
    BY DEF SpecificInv, SpecificTypeOK, TsdRec
  <2>r. [tsd[t] EXCEPT !.pc = "set"] \in TsdRec
    BY <2>1 DEF TsdRec
  <2>2. tsd' \in [TsdThread -> TsdRec]
    BY <2>1, <2>r, <1>1
  <2>3. tsd[t].id \in TsdId \cup {NoTse}
    BY DEF SpecificInv, SpecificTypeOK
  <2>4. tse' \in [Tses -> [qtid : TsdPage \cup {NoTse}, value : TsdThread \cup {NoTse},
                           next : Entry \cup {NoTse}, thread : TsdId \cup {NoTse}]]
    BY <2>3, <1>1, <1>t DEF SpecificInv, SpecificTypeOK
  <2> QED
    BY <2>2, <2>4, <1>1, <1>2 DEF SpecificInv, SpecificTypeOK, TsdRec
<1>10. Linked(tse')
  BY <1>9, SpecificTyped DEF SpecificTypeOK, Linked
<1>11. InTableNow' = InTableNow \cup {m}
  <2>1. /\ \A e \in Tses : e # m => tse'[e].next = tse[e].next
        /\ tse'[m].next = head /\ m \notin TseReachable(tse, {head})
    BY <1>6, <1>7 DEF InTableNow
  <2>2. TseReachable(tse', {m}) = {m} \cup TseReachable(tse, {head})
    <3>1. Extended(tse, tse', head, m)
      BY <2>1, <1>t, <1>10 DEF Extended
    <3> QED
      BY <3>1, ListExtended
  <2> QED
    BY <2>2, <1>1 DEF InTableNow
<1>12. Setters' = Setters \cup {t} /\ t \notin Setters /\ Alive' = Alive
  BY <1>1, <1>8 DEF Setters, Alive
<1>13. IdsDiffer'
  <2>1. \A u \in Alive : tsd'[u].id = tsd[u].id /\ tsd'[u].pages = tsd[u].pages
    BY <1>8 DEF Alive
  <2> QED
    BY <1>12, <2>1 DEF IdsDiffer, SpecificInv
<1>14. /\ tse'[m].next = head /\ tse'[m].value = t /\ tse'[m].thread = tsd[t].id
       /\ tse'[m].qtid = NoTse
  BY <1>7
<1>15. TableIsList'
  <2>t. /\ \A e, f \in InTableNow : tse[e].next = tse[f].next => e = f \/ tse[e].next = NoTse
        /\ \A e \in InTableNow : tse[e].next # head /\ tse[e].value \in Setters
                                 /\ tse[e].thread = tsd[tse[e].value].id
        /\ \A e, f \in InTableNow : tse[e].value = tse[f].value => e = f
        /\ \A u \in Setters : \E e \in InTableNow : tse[e].value = u
    BY DEF SpecificInv, TableIsList
  <2>s. /\ \A e \in InTableNow : tse'[e] = tse[e] /\ e # m
        /\ \A u \in Setters : u # t /\ u \in TsdThread
    BY <1>6, <1>7, <1>t, <1>12 DEF Setters
  <2>1. \A e, f \in InTableNow' : tse'[e].next = tse'[f].next => e = f \/ tse'[e].next = NoTse
    BY <2>t, <2>s, <1>11, <1>14
  <2>2. ASSUME NEW e \in InTableNow'
        PROVE  /\ tse'[e].next # head' /\ tse'[e].value \in Setters'
               /\ tse'[e].thread = tsd'[tse'[e].value].id
    <3>1. CASE e = m
      BY <3>1, <1>1, <1>8, <1>12, <1>14, <1>6, <1>t
    <3>2. CASE e \in InTableNow
      <4>1. tse[e].next \in InTableNow \cup {NoTse}
        BY <3>2, <1>t DEF LinkClosed
      <4> QED
        BY <3>2, <4>1, <2>t, <2>s, <1>1, <1>8, <1>12, <1>6, <1>t
    <3> QED
      BY <3>1, <3>2, <1>11
  <2>3. \A e, f \in InTableNow' : tse'[e].value = tse'[f].value => e = f
    BY <2>t, <2>s, <1>11, <1>14
  <2>4. \A u \in Setters' : \E e \in InTableNow' : tse'[e].value = u
    BY <2>t, <2>s, <1>11, <1>12, <1>14
  <2> QED
    BY <2>1, <2>2, <2>3, <2>4 DEF TableIsList
<1>16. QuickIdsRight'
  <2>1. \A u \in TsdThread : tsd'[u].pages = tsd[u].pages
    BY <1>8
  <2>2. ASSUME NEW e \in Tses, tse'[e].qtid # NoTse
        PROVE  e \in InTableNow' /\ tse'[e].qtid \in tsd'[tse'[e].value].pages
    <3>1. e # m /\ tse'[e] = tse[e]
      BY <2>2, <1>7, <1>14
    <3>2. e \in InTableNow /\ tse[e].qtid \in tsd[tse[e].value].pages
      BY <3>1, <2>2 DEF SpecificInv, QuickIdsRight
    <3>3. tse[e].value \in TsdThread
      BY <3>2 DEF SpecificInv, TableIsList, Setters
    <3> QED
      BY <3>1, <3>2, <3>3, <2>1, <1>11
  <2> QED
    BY <2>2 DEF QuickIdsRight
<1>17. ASSUME NEW u \in TsdThread, u # t
       PROVE  WalkLeadsHome(u)'
  <2>1. WalkLeadsHome(u) /\ tsd'[u] = tsd[u]
    BY <1>8, <1>17 DEF SpecificInv
  <2>2. TseReachable(tse', {tsd'[u].p}) = TseReachable(tse, {tsd[u].p})
    <3>1. m \notin TseReachable(tse, {tsd[u].p}) /\ {tsd[u].p} \subseteq Tses \cup {NoTse}
      BY <1>3, <1>5
    <3>2. \A e \in Tses : e # m => tse'[e].next = tse[e].next
      BY <1>7
    <3> QED
      BY <3>1, <3>2, <2>1, <1>10, <1>t, FreshEntry
  <2>3. \A e \in TseReachable(tse, {tsd[u].p}) : tse'[e] = tse[e]
    <3>1. m \notin TseReachable(tse, {tsd[u].p})
      BY <1>5
    <3> QED
      BY <3>1, <1>7 DEF TseReachable
  <2>4. \A e \in InTableNow : tse'[e] = tse[e]
    BY <1>6, <1>7, <1>t
  <2> QED
    BY <2>1, <2>2, <2>3, <2>4, <1>11 DEF WalkLeadsHome
<1>18. WalkLeadsHome(t)'
  BY <1>8 DEF WalkLeadsHome
<1> QED
  BY <1>1, <1>9, <1>13, <1>15, <1>16, <1>17, <1>18 DEF SpecificInv, GetsOwn

\* The entry that is removed is the thread's own, and readers go on past it.
LEMMA RemoveKeeps ==
  ASSUME SpecificInv, NEW t \in TsdThread, GC_remove_specific_after_fork(t)
  PROVE  SpecificInv'
<1>1. PICK m \in FirstOf(tsd[t].id) : RemoveEntry(m)
  BY DEF GC_remove_specific_after_fork
<1>2. /\ tsd' = [tsd EXCEPT ![t].pc = "removed"]
      /\ tsCache' = tsCache /\ result' = result /\ tsd[t].pc = "set"
  BY DEF GC_remove_specific_after_fork
<1>3. m \in InTableNow /\ tse[m].thread = tsd[t].id
  BY <1>1 DEF FirstOf
<1>t. /\ Linked(tse) /\ head \in Entry \cup {NoTse} /\ head \in Tses \cup {NoTse}
      /\ InTableNow \in SUBSET Tses /\ LinkClosed(tse, InTableNow)
      /\ head \in InTableNow \cup {NoTse} /\ NoTse \notin Tses
      /\ m \in Tses /\ m # NoTse
  BY <1>3, SpecificTyped DEF SpecificInv
<1>4. tse[m].value = t
  <2>1. t \in Alive
    BY <1>2 DEF Alive
  <2> QED
    BY <2>1, <1>3, IdIsOwn DEF SpecificInv
<1>5. /\ tse' = [e \in Tses |->
                  IF e = m THEN [tse[e] EXCEPT !.qtid = NoTse]
                  ELSE IF e \in InTableNow /\ tse[e].next = m
                       THEN [tse[e] EXCEPT !.next = tse[m].next]
                       ELSE tse[e]]
      /\ head' = IF head = m THEN tse[m].next ELSE head
  BY <1>1 DEF RemoveEntry, Removed, Unquick
<1>6. \A e \in Tses : /\ tse'[e].value = tse[e].value /\ tse'[e].thread = tse[e].thread
                      /\ tse'[e].qtid = IF e = m THEN NoTse ELSE tse[e].qtid
                      /\ tse'[e].next = IF e # m /\ e \in InTableNow /\ tse[e].next = m
                                        THEN tse[m].next ELSE tse[e].next
  BY <1>5 DEF SpecificInv, SpecificTypeOK
<1>7. Bypassed(tse, tse', InTableNow, m)
  BY <1>6 DEF Bypassed
<1>8. /\ \A u \in TsdThread : u # t => tsd'[u] = tsd[u]
      /\ tsd'[t].pc = "removed" /\ tsd'[t].id = tsd[t].id /\ tsd'[t].pages = tsd[t].pages
  BY <1>2 DEF SpecificInv, SpecificTypeOK
<1>9. SpecificTypeOK'
  <2>1. tsd \in [TsdThread -> TsdRec]
    BY DEF SpecificInv, SpecificTypeOK, TsdRec
  <2>r. [tsd[t] EXCEPT !.pc = "removed"] \in TsdRec
    BY <2>1 DEF TsdRec
  <2>2. tsd' \in [TsdThread -> TsdRec]
    BY <2>1, <2>r, <1>2
  <2>3. tse[m].next \in Entry \cup {NoTse}
    BY <1>t DEF Linked
  <2>4. tse' \in [Tses -> [qtid : TsdPage \cup {NoTse}, value : TsdThread \cup {NoTse},
                           next : Entry \cup {NoTse}, thread : TsdId \cup {NoTse}]]
    <3> DEFINE TseRecord == [qtid : TsdPage \cup {NoTse}, value : TsdThread \cup {NoTse},
                       next : Entry \cup {NoTse}, thread : TsdId \cup {NoTse}]
    <3>1. ASSUME NEW e \in Tses
          PROVE  /\ tse[e] \in TseRecord /\ [tse[e] EXCEPT !.qtid = NoTse] \in TseRecord
                 /\ [tse[e] EXCEPT !.next = tse[m].next] \in TseRecord
      BY <2>3 DEF SpecificInv, SpecificTypeOK
    <3> HIDE DEF TseRecord
    <3>2. tse' \in [Tses -> TseRecord]
      BY <3>1, <1>5
    <3> QED
      BY <3>2 DEF TseRecord
  <2>5. head' \in Entry \cup {NoTse}
    BY <2>3, <1>5, <1>t
  <2> QED
    BY <2>2, <2>4, <2>5, <1>2 DEF SpecificInv, SpecificTypeOK, TsdRec
<1>10. Linked(tse')
  BY <1>9 DEF SpecificTypeOK, Linked
<1>11. InTableNow' = InTableNow \ {m} /\ IsList(tse', head', InTableNow \ {m})
  <2>1. IsList(tse, head, InTableNow)
    BY DEF SpecificInv, TableIsList, IsList
  <2>2. InTableNow = TseReachable(tse, {head}) /\ InTableNow' = TseReachable(tse', {head'})
    BY DEF InTableNow
  <2>3. head' = IF head = m THEN tse[m].next ELSE head
    BY <1>5
  <2>4. TseReachable(tse', {head'}) = InTableNow \ {m} /\ IsList(tse', head', InTableNow \ {m})
    <3>1. Shortened(tse, tse', head, head', InTableNow, m)
      BY <2>1, <2>2, <2>3, <1>3, <1>7, <1>10, <1>t DEF Shortened
    <3> QED
      BY <3>1, ListUnlinked
  <2> QED
    BY <2>2, <2>4
<1>12. Setters' = Setters \ {t} /\ Alive' = Alive /\ t \in Setters
  BY <1>2, <1>8 DEF Setters, Alive
<1>13. IdsDiffer'
  <2>1. \A u \in Alive : tsd'[u].id = tsd[u].id /\ tsd'[u].pages = tsd[u].pages
    BY <1>8 DEF Alive
  <2> QED
    BY <1>12, <2>1 DEF IdsDiffer, SpecificInv
<1>14. \A e \in InTableNow : e # m => tse[e].value # t
  BY <1>3, <1>4 DEF SpecificInv, TableIsList
<1>15. TableIsList'
  <2>t. /\ \A e \in InTableNow : tse[e].value \in Setters
                                 /\ tse[e].thread = tsd[tse[e].value].id
        /\ \A e, f \in InTableNow : tse[e].value = tse[f].value => e = f
        /\ \A u \in Setters : \E e \in InTableNow : tse[e].value = u
    BY DEF SpecificInv, TableIsList
  <2>s. /\ \A e \in InTableNow : tse'[e].value = tse[e].value /\ tse'[e].thread = tse[e].thread
        /\ \A u \in Setters : tsd'[u].id = tsd[u].id
    BY <1>6, <1>8, <1>t DEF Setters
  <2>1. /\ \A e, f \in InTableNow' : tse'[e].next = tse'[f].next => e = f \/ tse'[e].next = NoTse
        /\ \A e \in InTableNow' : tse'[e].next # head'
    BY <1>11 DEF IsList
  <2>2. \A e \in InTableNow' : /\ tse'[e].value \in Setters'
                               /\ tse'[e].thread = tsd'[tse'[e].value].id
    BY <2>t, <2>s, <1>11, <1>12, <1>14
  <2>3. \A e, f \in InTableNow' : tse'[e].value = tse'[f].value => e = f
    BY <2>t, <2>s, <1>11
  <2>4. \A u \in Setters' : \E e \in InTableNow' : tse'[e].value = u
    BY <2>t, <2>s, <1>4, <1>11, <1>12
  <2> QED
    BY <2>1, <2>2, <2>3, <2>4 DEF TableIsList
<1>16. QuickIdsRight'
  <2>1. \A u \in TsdThread : tsd'[u].pages = tsd[u].pages
    BY <1>8
  <2>2. ASSUME NEW e \in Tses, tse'[e].qtid # NoTse
        PROVE  e \in InTableNow' /\ tse'[e].qtid \in tsd'[tse'[e].value].pages
    <3>1. e # m /\ tse'[e].qtid = tse[e].qtid /\ tse'[e].value = tse[e].value
      BY <2>2, <1>6
    <3>2. e \in InTableNow /\ tse[e].qtid \in tsd[tse[e].value].pages
      BY <3>1, <2>2 DEF SpecificInv, QuickIdsRight
    <3>3. tse[e].value \in TsdThread
      BY <3>2 DEF SpecificInv, TableIsList, Setters
    <3> QED
      BY <3>1, <3>2, <3>3, <2>1, <1>11
  <2> QED
    BY <2>2 DEF QuickIdsRight
<1>17. ASSUME NEW u \in TsdThread, u # t
       PROVE  WalkLeadsHome(u)'
  <2> DEFINE R == TseReachable(tse, {tsd[u].p})
             R2 == TseReachable(tse', {tsd'[u].p})
  <2>1. WalkLeadsHome(u) /\ tsd'[u] = tsd[u]
    BY <1>8, <1>17 DEF SpecificInv
  <2>2. R2 \subseteq R /\ R \subseteq R2 \cup {m} /\ R \subseteq Tses
    <3>1. {tsd[u].p} \subseteq Tses \cup {NoTse}
      BY DEF SpecificInv, SpecificTypeOK
    <3>2. R \subseteq Tses
      BY DEF TseReachable
    <3> QED
      BY <3>1, <3>2, <2>1, <1>t, <1>7, <1>10, ReachableUnlinked
  <2>3. \A e \in Tses : tse'[e].value = tse[e].value /\ tse'[e].thread = tse[e].thread
    BY <1>6
  <2>4. ASSUME NEW e \in Tses, e \in InTableNow, tse[e].value = u
        PROVE  e \in InTableNow' /\ e # m /\ tse'[e].value = u
    BY <2>3, <2>4, <1>4, <1>11, <1>17
  <2>5. tsd'[u].pc = "slow" =>
         /\ \E e \in R2 : e \in InTableNow' /\ tse'[e].value = u
         /\ \A e \in R2 : tse'[e].thread = tsd'[u].id => e \in InTableNow' /\ tse'[e].value = u
    <3> SUFFICES ASSUME tsd[u].pc = "slow"
                 PROVE  /\ \E e \in R2 : e \in InTableNow' /\ tse'[e].value = u
                        /\ \A e \in R2 : tse'[e].thread = tsd[u].id
                                           => e \in InTableNow' /\ tse'[e].value = u
      BY <2>1
    <3>1. /\ \E e \in R : e \in InTableNow /\ tse[e].value = u
          /\ \A e \in R : tse[e].thread = tsd[u].id => e \in InTableNow /\ tse[e].value = u
      BY <2>1 DEF WalkLeadsHome
    <3>2. \E e \in R2 : e \in InTableNow' /\ tse'[e].value = u
      BY <3>1, <2>2, <2>4
    <3>3. ASSUME NEW e \in R2, tse'[e].thread = tsd[u].id
          PROVE  e \in InTableNow' /\ tse'[e].value = u
      BY <3>1, <3>3, <2>2, <2>3, <2>4
    <3> QED
      BY <3>2, <3>3
  <2>6. tsd'[u].pc = "store" => tsd'[u].p \in InTableNow' /\ tse'[tsd'[u].p].value = u
    BY <2>1, <2>4, <1>t DEF WalkLeadsHome
  <2> QED
    BY <2>1, <2>5, <2>6 DEF WalkLeadsHome
<1>18. WalkLeadsHome(t)'
  BY <1>8 DEF WalkLeadsHome
<1> QED
  BY <1>2, <1>9, <1>13, <1>15, <1>16, <1>17, <1>18 DEF SpecificInv, GetsOwn

-----------------------------------------------------------------------------
\* GC_getspecific returns to every thread the value that thread stored, without
\* a lock, whatever entries others add and remove meanwhile, and whoever had its
\* id, its stack or its slot of the cache before.
THEOREM ReadersFindTheirOwn ==
  SpecificSpec => []SpecificSound
<1>1. SpecificInit => SpecificInv
  <2> SUFFICES ASSUME SpecificInit
               PROVE  SpecificInv
    OBVIOUS
  <2>1. /\ \A t \in TsdThread : tsd[t] = Absent /\ tsd[t].pc = "none" /\ result[t] = NoTse
        /\ head = NoTse
        /\ \A e \in Tses : tse[e] = ClearedTse /\ tse[e].qtid = NoTse
    BY DEF SpecificInit, Absent, ClearedTse
  <2>2. SpecificTypeOK
    <3>1. Absent \in TsdRec
      BY DEF Absent, TsdRec
    <3>2. InvalidTse \in Tses
      BY DEF Tses
    <3>3. ClearedTse \in [qtid : TsdPage \cup {NoTse}, value : TsdThread \cup {NoTse},
                          next : Entry \cup {NoTse}, thread : TsdId \cup {NoTse}]
      BY DEF ClearedTse
    <3> QED
      BY <3>1, <3>2, <3>3 DEF SpecificInit, SpecificTypeOK, TsdRec
  <2>3. Alive = {} /\ Setters = {}
    BY <2>1 DEF Alive, Setters
  <2>4. InTableNow = {}
    BY <2>1, NothingReachable DEF InTableNow
  <2>5. IdsDiffer /\ TableIsList /\ QuickIdsRight /\ GetsOwn
    BY <2>1, <2>3, <2>4 DEF IdsDiffer, TableIsList, QuickIdsRight, GetsOwn
  <2>6. \A t \in TsdThread : WalkLeadsHome(t)
    BY <2>1 DEF WalkLeadsHome
  <2> QED
    BY <2>2, <2>5, <2>6 DEF SpecificInv
<1>2. SpecificInv /\ [SpecificNext]_specificVars => SpecificInv'
  <2> SUFFICES ASSUME SpecificInv, [SpecificNext]_specificVars
               PROVE  SpecificInv'
    OBVIOUS
  <2>1. CASE SpecificNext
    BY <2>1, StartKeeps, SetKeeps, RemoveKeeps, EndKeeps, GetKeeps, InCacheKeeps,
       WalkKeeps, SlowKeeps DEF SpecificNext
  <2>2. CASE UNCHANGED specificVars
    <3>1. tsd' = tsd /\ head' = head /\ tse' = tse /\ tsCache' = tsCache /\ result' = result
      BY <2>2 DEF specificVars
    <3>2. InTableNow' = InTableNow /\ Alive' = Alive /\ Setters' = Setters
      BY <3>1 DEF InTableNow, Alive, Setters
    <3>3. SpecificTypeOK' /\ GetsOwn' /\ IdsDiffer'
      BY <3>1, <3>2 DEF SpecificInv, SpecificTypeOK, GetsOwn, IdsDiffer
    <3>4. TableIsList' /\ QuickIdsRight'
      BY <3>1, <3>2 DEF SpecificInv, TableIsList, QuickIdsRight
    <3>5. \A t \in TsdThread : WalkLeadsHome(t)'
      BY <3>1, <3>2 DEF SpecificInv, WalkLeadsHome
    <3> QED
      BY <3>3, <3>4, <3>5 DEF SpecificInv
  <2> QED
    BY <2>1, <2>2
<1>3. SpecificInv => SpecificSound
  BY EntriesAreRight DEF SpecificInv, SpecificSound
<1> QED
  BY <1>1, <1>2, <1>3, PTL DEF SpecificSpec

-----------------------------------------------------------------------------
(* The thread table of win32_threads.c. *)
WI == WinRegistryTypeOK /\ RecordsOfThreads /\ InPlace /\ LivesOrdered /\ JoinedHasEnded
Lives == {"none", "starting", "started", "run", "ended", "joined"}

LEMMA WITypes ==
  ASSUME WI
  PROVE  /\ GC_threads \in [Buckets -> Seq(RThread)]
         /\ \A b \in Buckets : GC_threads[b] \in Seq(RThread) /\ IsInjective(GC_threads[b])
         /\ record \in [RThread -> [id : Ids, flags : SUBSET {"DETACHED", "FINISHED"}]]
         /\ \A t \in RThread : record[t].id \in Ids /\ record[t].flags \in SUBSET {"DETACHED", "FINISHED"}
         /\ life \in [RThread -> Lives]
         /\ startInfo \in [RThread -> {"none", "made", "freed", "lost"}]
         /\ joinStep \in [RThread -> JoinSteps] /\ joinTarget \in [RThread -> RThread]
         /\ \A t \in RThread : joinStep[t] \in JoinSteps /\ joinTarget[t] \in RThread
         /\ inChild \in BOOLEAN /\ rFails \in 0 .. MaxFails /\ MaxFails \in Nat /\ rFails \in Nat
         /\ \A t \in RThread : MyId(t) \in Ids /\ Bucket[MyId(t)] \in Buckets /\ Bucket[record[t].id] \in Buckets
<1>1. /\ GC_threads \in [Buckets -> Seq(RThread)]
      /\ \A b \in Buckets : IsInjective(GC_threads[b])
      /\ record \in [RThread -> [id : Ids, flags : SUBSET {"DETACHED", "FINISHED"}]]
      /\ life \in [RThread -> Lives]
      /\ startInfo \in [RThread -> {"none", "made", "freed", "lost"}]
      /\ joinStep \in [RThread -> JoinSteps] /\ joinTarget \in [RThread -> RThread]
      /\ inChild \in BOOLEAN /\ rFails \in 0 .. MaxFails /\ MaxFails \in Nat
  BY WinRegistryAssumption DEF WI, WinRegistryTypeOK, Lives
<1>2. /\ \A b \in Buckets : GC_threads[b] \in Seq(RThread)
      /\ \A t \in RThread : record[t].id \in Ids /\ record[t].flags \in SUBSET {"DETACHED", "FINISHED"}
      /\ \A t \in RThread : joinStep[t] \in JoinSteps /\ joinTarget[t] \in RThread
      /\ rFails \in Nat
  BY <1>1
<1>3. \A t \in RThread : MyId(t) \in Ids
  BY WinRegistryAssumption DEF MyId
<1>4. \A i \in Ids : Bucket[i] \in Buckets
  BY DEF Buckets
<1> QED
  BY <1>1, <1>2, <1>3, <1>4

\* What the parts say of one thread.
LEMMA WIParts ==
  ASSUME WI, NEW t \in RThread
  PROVE  /\ \A b \in Buckets : t \in Range(GC_threads[b]) =>
              /\ record[t].id = MyId(t) /\ b = Bucket[MyId(t)]
              /\ \/ life[t] \in {"started", "run"}
                 \/ /\ life[t] = "ended" /\ "FINISHED" \in record[t].flags
                    /\ "DETACHED" \notin record[t].flags
         /\ life[t] \in {"started", "run"} => t \in Range(GC_threads[Bucket[MyId(t)]])
         /\ "FINISHED" \in record[t].flags => life[t] \in {"ended", "joined"}
         /\ life[t] \in {"starting", "started"} => startInfo[t] = "made"
BY DEF WI, RecordsOfThreads, InPlace, LivesOrdered, Listed

\* The same, of the next state, thread by thread, is the invariant again.
LEMMA WILift ==
  ASSUME GC_threads' \in [Buckets -> Seq(RThread)],
         \A b \in Buckets : IsInjective(GC_threads'[b]),
         record' \in [RThread -> [id : Ids, flags : SUBSET {"DETACHED", "FINISHED"}]],
         life' \in [RThread -> Lives],
         startInfo' \in [RThread -> {"none", "made", "freed", "lost"}],
         joinStep' \in [RThread -> JoinSteps], joinTarget' \in [RThread -> RThread],
         inChild' \in BOOLEAN, rFails' \in 0 .. MaxFails, JoinedHasEnded',
         \A t \in RThread :
            /\ \A b \in Buckets : t \in Range(GC_threads'[b]) =>
                 /\ record'[t].id = MyId(t)' /\ b = Bucket[MyId(t)']
                 /\ \/ life'[t] \in {"started", "run"}
                    \/ /\ life'[t] = "ended" /\ "FINISHED" \in record'[t].flags
                       /\ "DETACHED" \notin record'[t].flags
            /\ life'[t] \in {"started", "run"} => t \in Range(GC_threads'[Bucket[MyId(t)']])
            /\ "FINISHED" \in record'[t].flags => life'[t] \in {"ended", "joined"}
            /\ life'[t] \in {"starting", "started"} => startInfo'[t] = "made"
  PROVE  WI'
<1>1. WinRegistryTypeOK'
  BY DEF WinRegistryTypeOK, Lives
<1>2. \A b \in Buckets : Range(GC_threads'[b]) \subseteq RThread
  BY RangeIs
<1>3. RecordsOfThreads'
  BY DEF RecordsOfThreads, Listed
<1>4. InPlace'
  BY <1>2 DEF InPlace
<1>5. LivesOrdered'
  BY DEF LivesOrdered
<1> QED
  BY <1>1, <1>3, <1>4, <1>5 DEF WI

\* A record is linked into the chain of its thread's id.
LEMMA LinkTable ==
  ASSUME WI, NEW t \in RThread, life[t] \in {"none", "starting"},
         GC_threads' = GC_new_thread(t, MyId(t))
  PROVE  /\ GC_threads' \in [Buckets -> Seq(RThread)]
         /\ \A b \in Buckets : IsInjective(GC_threads'[b])
         /\ \A b \in Buckets : \A u \in RThread :
              u \in Range(GC_threads'[b]) <=> u \in Range(GC_threads[b]) \/ (u = t /\ b = Bucket[MyId(t)])
<1> DEFINE c == Bucket[MyId(t)]
<1>1. c \in Buckets /\ GC_threads[c] \in Seq(RThread) /\ IsInjective(GC_threads[c])
  BY WITypes
<1>2. t \notin Range(GC_threads[c])
  BY <1>1, WIParts
<1>3. /\ <<t>> \o GC_threads[c] \in Seq(RThread) /\ IsInjective(<<t>> \o GC_threads[c])
      /\ Range(<<t>> \o GC_threads[c]) = Range(GC_threads[c]) \cup {t}
  BY <1>1, <1>2, LinkedIs
<1>4. GC_threads' = [GC_threads EXCEPT ![c] = <<t>> \o GC_threads[c]]
  BY DEF GC_new_thread
<1>5. /\ GC_threads'[c] = <<t>> \o GC_threads[c]
      /\ \A b \in Buckets : b # c => GC_threads'[b] = GC_threads[b]
      /\ GC_threads' \in [Buckets -> Seq(RThread)]
  BY <1>1, <1>3, <1>4, WITypes
<1> HIDE DEF c
<1>6. \A b \in Buckets : IsInjective(GC_threads'[b])
  BY <1>3, <1>5, WITypes
<1>7. ASSUME NEW b \in Buckets, NEW u \in RThread
      PROVE  u \in Range(GC_threads'[b]) <=> u \in Range(GC_threads[b]) \/ (u = t /\ b = c)
  <2>1. CASE b = c
    BY <2>1, <1>3, <1>5
  <2>2. CASE b # c
    BY <2>2, <1>5
  <2> QED
    BY <2>1, <2>2
<1> QED
  BY <1>5, <1>6, <1>7 DEF c

\* A record is unlinked from the chain of the id in it.
LEMMA UnlinkTable ==
  ASSUME WI, NEW t \in RThread, GC_threads' = Unlinked(t)
  PROVE  /\ GC_threads' \in [Buckets -> Seq(RThread)]
         /\ \A b \in Buckets : IsInjective(GC_threads'[b])
         /\ \A b \in Buckets : \A u \in RThread :
              u \in Range(GC_threads'[b]) <=> u \in Range(GC_threads[b]) /\ u # t
<1> DEFINE c == Bucket[record[t].id]
           z == RemoveFirst(GC_threads[c], t)
<1>1. c \in Buckets /\ GC_threads[c] \in Seq(RThread) /\ IsInjective(GC_threads[c])
  BY WITypes
<1>3. z \in Seq(RThread) /\ IsInjective(z) /\ Range(z) = Range(GC_threads[c]) \ {t}
  BY <1>1, UnlinkedIs
<1>4. GC_threads' = [GC_threads EXCEPT ![c] = z]
  BY DEF Unlinked
<1>c. \A b \in Buckets : b # c => t \notin Range(GC_threads[b])
  BY WIParts
<1> HIDE DEF c, z
<1>5. /\ GC_threads'[c] = z
      /\ \A b \in Buckets : b # c => GC_threads'[b] = GC_threads[b]
      /\ GC_threads' \in [Buckets -> Seq(RThread)]
  BY <1>1, <1>3, <1>4, WITypes
<1>6. \A b \in Buckets : IsInjective(GC_threads'[b])
  BY <1>3, <1>5, WITypes
<1>7. ASSUME NEW b \in Buckets, NEW u \in RThread
      PROVE  u \in Range(GC_threads'[b]) <=> u \in Range(GC_threads[b]) /\ u # t
  <2>1. CASE b = c
    BY <2>1, <1>3, <1>5
  <2>2. CASE b # c
    BY <2>2, <1>5, <1>c
  <2> QED
    BY <2>1, <2>2
<1> QED
  BY <1>5, <1>6, <1>7

\* Steps that touch neither the table nor the records.
LEMMA WIRest ==
  ASSUME WI, UNCHANGED <<GC_threads, record, inChild>>,
         life' \in [RThread -> Lives],
         startInfo' \in [RThread -> {"none", "made", "freed", "lost"}],
         joinStep' \in [RThread -> JoinSteps], joinTarget' \in [RThread -> RThread],
         rFails' \in 0 .. MaxFails, JoinedHasEnded',
         \A t \in RThread :
            /\ life'[t] = life[t] \/ (life[t] = "started" /\ life'[t] = "run")
            /\ life'[t] \in {"starting", "started"} => startInfo'[t] = "made"
  PROVE  WI'
<1>1. \A t \in RThread : MyId(t)' = MyId(t)
  BY DEF MyId
<1>2. ASSUME NEW t \in RThread
      PROVE /\ \A b \in Buckets : t \in Range(GC_threads'[b]) =>
                 /\ record'[t].id = MyId(t)' /\ b = Bucket[MyId(t)']
                 /\ \/ life'[t] \in {"started", "run"}
                    \/ /\ life'[t] = "ended" /\ "FINISHED" \in record'[t].flags
                       /\ "DETACHED" \notin record'[t].flags
            /\ life'[t] \in {"started", "run"} => t \in Range(GC_threads'[Bucket[MyId(t)']])
            /\ "FINISHED" \in record'[t].flags => life'[t] \in {"ended", "joined"}
  <2>1. life'[t] \in {"started", "run"} <=> life[t] \in {"started", "run"}
    OBVIOUS
  <2>2. life[t] \in {"ended", "joined"} => life'[t] = life[t]
    OBVIOUS
  <2> QED
    BY <2>1, <2>2, <1>1, WIParts
<1>3. /\ GC_threads' \in [Buckets -> Seq(RThread)] /\ \A b \in Buckets : IsInjective(GC_threads'[b])
      /\ record' \in [RThread -> [id : Ids, flags : SUBSET {"DETACHED", "FINISHED"}]]
      /\ inChild' \in BOOLEAN
  BY WITypes
<1> QED
  BY <1>2, <1>3, WILift

\* Nobody's join is disturbed by a step that keeps what has ended.
LEMMA JoinedKept ==
  ASSUME WI, UNCHANGED <<joinStep, joinTarget>>,
         \A t \in RThread : life[t] \in {"ended", "joined"} => life'[t] \in {"ended", "joined"}
  PROVE  JoinedHasEnded'
BY WITypes DEF WI, JoinedHasEnded

\* A record's flags, or its id, are set.
LEMMA FlagsSet ==
  ASSUME WI, NEW t \in RThread, NEW f \in SUBSET {"DETACHED", "FINISHED"},
         record' = [record EXCEPT ![t].flags = f]
  PROVE  /\ record' \in [RThread -> [id : Ids, flags : SUBSET {"DETACHED", "FINISHED"}]]
         /\ record'[t].id = record[t].id /\ record'[t].flags = f
         /\ \A u \in RThread : u # t => record'[u] = record[u]
BY WITypes
LEMMA IdSet ==
  ASSUME WI, NEW t \in RThread, NEW i \in Ids,
         record' = [record EXCEPT ![t].id = i]
  PROVE  /\ record' \in [RThread -> [id : Ids, flags : SUBSET {"DETACHED", "FINISHED"}]]
         /\ record'[t].id = i /\ record'[t].flags = record[t].flags
         /\ \A u \in RThread : u # t => record'[u] = record[u]
BY WITypes

\* Steps that change neither the table, nor a record, nor a life.
LEMMA WIQuiet ==
  ASSUME WI, UNCHANGED <<GC_threads, record, life, startInfo, inChild>>,
         joinStep' \in [RThread -> JoinSteps], joinTarget' \in [RThread -> RThread],
         rFails' \in 0 .. MaxFails, JoinedHasEnded'
  PROVE  WI'
<1>1. \A t \in RThread : life[t] \in {"starting", "started"} => startInfo[t] = "made"
  BY WIParts
<1> QED
  BY <1>1, WITypes, WIRest

LEMMA CreateThreadKeeps ==
  ASSUME WI, NEW c \in RThread, NEW t \in RThread, NEW d \in BOOLEAN, CreateThread(c, t, d)
  PROVE  WI'
<1>1. /\ life[t] = "none"
      /\ GC_threads' = GC_threads /\ joinStep' = joinStep /\ joinTarget' = joinTarget /\ inChild' = inChild
  BY DEF CreateThread, joinVars
<1>2. CASE Fails /\ UNCHANGED <<life, startInfo, record>>
  <2>1. rFails' \in 0 .. MaxFails
    BY <1>2, WITypes DEF Fails
  <2>2. JoinedHasEnded'
    BY <1>1, <1>2, JoinedKept
  <2> QED
    BY <2>1, <2>2, <1>1, <1>2, WITypes, WIQuiet
<1>3. CASE /\ startInfo' = [startInfo EXCEPT ![t] = "made"]
           /\ record' = [record EXCEPT ![t].flags = IF d THEN {"DETACHED"} ELSE {}]
           /\ life' = [life EXCEPT ![t] = "starting"]
           /\ UNCHANGED rFails
  <2>1. PICK f \in SUBSET {"DETACHED"} : f = IF d THEN {"DETACHED"} ELSE {}
    OBVIOUS
  <2>2. f \in SUBSET {"DETACHED", "FINISHED"} /\ "FINISHED" \notin f
    BY <2>1
  <2>3. /\ record' \in [RThread -> [id : Ids, flags : SUBSET {"DETACHED", "FINISHED"}]]
        /\ record'[t].id = record[t].id /\ record'[t].flags = f
        /\ \A u \in RThread : u # t => record'[u] = record[u]
    BY <1>3, <2>1, <2>2, FlagsSet
  <2>4. /\ life' \in [RThread -> Lives] /\ life'[t] = "starting"
        /\ startInfo' \in [RThread -> {"none", "made", "freed", "lost"}] /\ startInfo'[t] = "made"
        /\ \A u \in RThread : u # t => life'[u] = life[u] /\ startInfo'[u] = startInfo[u]
    BY <1>3, WITypes DEF Lives
  <2>5. \A u \in RThread : MyId(u)' = MyId(u)
    BY <1>1 DEF MyId
  <2>6. JoinedHasEnded'
    BY <1>1, <2>4, JoinedKept
  <2>7. \A b \in Buckets : t \notin Range(GC_threads[b])
    BY <1>1, WIParts
  <2>8. ASSUME NEW u \in RThread
        PROVE /\ \A b \in Buckets : u \in Range(GC_threads'[b]) =>
                   /\ record'[u].id = MyId(u)' /\ b = Bucket[MyId(u)']
                   /\ \/ life'[u] \in {"started", "run"}
                      \/ /\ life'[u] = "ended" /\ "FINISHED" \in record'[u].flags
                         /\ "DETACHED" \notin record'[u].flags
              /\ life'[u] \in {"started", "run"} => u \in Range(GC_threads'[Bucket[MyId(u)']])
              /\ "FINISHED" \in record'[u].flags => life'[u] \in {"ended", "joined"}
              /\ life'[u] \in {"starting", "started"} => startInfo'[u] = "made"
    <3>1. CASE u = t
      BY <3>1, <1>1, <2>2, <2>3, <2>4, <2>7
    <3>2. CASE u # t
      BY <3>2, <1>1, <2>3, <2>4, <2>5, WIParts
    <3> QED
      BY <3>1, <3>2
  <2>9. /\ GC_threads' \in [Buckets -> Seq(RThread)] /\ \A b \in Buckets : IsInjective(GC_threads'[b])
        /\ joinStep' \in [RThread -> JoinSteps] /\ joinTarget' \in [RThread -> RThread]
        /\ inChild' \in BOOLEAN /\ rFails' \in 0 .. MaxFails
    BY <1>1, <1>3, WITypes
  <2> QED
    BY <2>3, <2>4, <2>6, <2>8, <2>9, WILift
<1> QED
  BY <1>2, <1>3 DEF CreateThread, joinVars

\* A thread that is not up comes up: it is listed, under its id.
LEMMA ComesUp ==
  ASSUME WI, NEW t \in RThread, life[t] \in {"none", "starting"},
         GC_threads' = GC_new_thread(t, MyId(t)),
         record' \in [RThread -> [id : Ids, flags : SUBSET {"DETACHED", "FINISHED"}]],
         record'[t].id = MyId(t), "FINISHED" \notin record'[t].flags,
         \A u \in RThread : u # t => record'[u] = record[u],
         NEW l \in {"started", "run"}, life' = [life EXCEPT ![t] = l],
         l = "started" => startInfo[t] = "made",
         UNCHANGED <<startInfo, joinStep, joinTarget, inChild, rFails>>
  PROVE  WI'
<1>1. /\ GC_threads' \in [Buckets -> Seq(RThread)]
      /\ \A b \in Buckets : IsInjective(GC_threads'[b])
      /\ \A b \in Buckets : \A u \in RThread :
           u \in Range(GC_threads'[b]) <=> u \in Range(GC_threads[b]) \/ (u = t /\ b = Bucket[MyId(t)])
  BY LinkTable
<1>2. /\ life' \in [RThread -> Lives] /\ life'[t] = l
      /\ \A u \in RThread : u # t => life'[u] = life[u]
  BY WITypes DEF Lives
<1>3. \A u \in RThread : MyId(u)' = MyId(u)
  BY DEF MyId
<1>4. JoinedHasEnded'
  BY <1>2, JoinedKept
<1>5. \A b \in Buckets : t \notin Range(GC_threads[b])
  BY WIParts
<1>6. Bucket[MyId(t)] \in Buckets /\ \A u \in RThread : Bucket[MyId(u)] \in Buckets
  BY WITypes
<1>8. ASSUME NEW u \in RThread
      PROVE /\ \A b \in Buckets : u \in Range(GC_threads'[b]) =>
                 /\ record'[u].id = MyId(u)' /\ b = Bucket[MyId(u)']
                 /\ \/ life'[u] \in {"started", "run"}
                    \/ /\ life'[u] = "ended" /\ "FINISHED" \in record'[u].flags
                       /\ "DETACHED" \notin record'[u].flags
            /\ life'[u] \in {"started", "run"} => u \in Range(GC_threads'[Bucket[MyId(u)']])
            /\ "FINISHED" \in record'[u].flags => life'[u] \in {"ended", "joined"}
            /\ life'[u] \in {"starting", "started"} => startInfo'[u] = "made"
  <2>1. CASE u = t
    BY <2>1, <1>1, <1>2, <1>3, <1>5, <1>6
  <2>2. CASE u # t
    BY <2>2, <1>1, <1>2, <1>3, <1>6, WIParts
  <2> QED
    BY <2>1, <2>2
<1>9. /\ startInfo' \in [RThread -> {"none", "made", "freed", "lost"}]
      /\ joinStep' \in [RThread -> JoinSteps] /\ joinTarget' \in [RThread -> RThread]
      /\ inChild' \in BOOLEAN /\ rFails' \in 0 .. MaxFails
  BY WITypes
<1> QED
  BY <1>1, <1>2, <1>4, <1>8, <1>9, WILift

LEMMA StartInnerKeeps ==
  ASSUME WI, NEW t \in RThread, StartInner(t)
  PROVE  WI'
<1>1. /\ life[t] = "starting" /\ GC_threads' = GC_new_thread(t, MyId(t))
      /\ record' = [record EXCEPT ![t].id = MyId(t)]
      /\ life' = [life EXCEPT ![t] = "started"]
      /\ UNCHANGED <<startInfo, joinStep, joinTarget, inChild, rFails>>
  BY DEF StartInner, joinVars
<1>2. /\ record' \in [RThread -> [id : Ids, flags : SUBSET {"DETACHED", "FINISHED"}]]
      /\ record'[t].id = MyId(t) /\ record'[t].flags = record[t].flags
      /\ \A u \in RThread : u # t => record'[u] = record[u]
  BY <1>1, WITypes, IdSet
<1>3. "FINISHED" \notin record[t].flags /\ startInfo[t] = "made"
  BY <1>1, WIParts
<1> QED
  BY <1>1, <1>2, <1>3, ComesUp

LEMMA RegisterKeeps ==
  ASSUME WI, NEW t \in RThread, GC_register_my_thread_win32(t)
  PROVE  WI'
<1>1. /\ life[t] = "none" /\ GC_threads' = GC_new_thread(t, MyId(t))
      /\ record' = [record EXCEPT ![t] = [id |-> MyId(t), flags |-> {}]]
      /\ life' = [life EXCEPT ![t] = "run"]
      /\ UNCHANGED <<startInfo, joinStep, joinTarget, inChild, rFails>>
  BY DEF GC_register_my_thread_win32, joinVars
<1>2. /\ record' \in [RThread -> [id : Ids, flags : SUBSET {"DETACHED", "FINISHED"}]]
      /\ record'[t].id = MyId(t) /\ record'[t].flags = {}
      /\ \A u \in RThread : u # t => record'[u] = record[u]
  BY <1>1, WITypes
<1> QED
  BY <1>1, <1>2, ComesUp

LEMMA FreeKeeps ==
  ASSUME WI, NEW t \in RThread, FreeStartInfo(t)
  PROVE  WI'
<1>1. /\ life[t] = "started" /\ life' = [life EXCEPT ![t] = "run"]
      /\ startInfo' = [startInfo EXCEPT ![t] = IF @ = "made" THEN "freed" ELSE "twice"]
      /\ UNCHANGED <<GC_threads, record, inChild, joinStep, joinTarget, rFails>>
  BY DEF FreeStartInfo, Free, joinVars
<1>2. startInfo[t] = "made"
  BY <1>1, WIParts
<1>3. /\ life' \in [RThread -> Lives] /\ life'[t] = "run"
      /\ startInfo' \in [RThread -> {"none", "made", "freed", "lost"}]
      /\ \A u \in RThread : u # t => life'[u] = life[u] /\ startInfo'[u] = startInfo[u]
  BY <1>1, <1>2, WITypes DEF Lives
<1>4. JoinedHasEnded'
  BY <1>1, <1>3, JoinedKept
<1>5. \A u \in RThread : life[u] \in {"starting", "started"} => startInfo[u] = "made"
  BY WIParts
<1>6. ASSUME NEW u \in RThread
      PROVE /\ life'[u] = life[u] \/ (life[u] = "started" /\ life'[u] = "run")
            /\ life'[u] \in {"starting", "started"} => startInfo'[u] = "made"
  BY <1>1, <1>3, <1>5
<1> QED
  BY <1>1, <1>3, <1>4, <1>6, WITypes, WIRest

\* One thread goes on with what it does to another.
LEMMA JoinerSet ==
  ASSUME WI, NEW c \in RThread, NEW w \in JoinSteps, NEW t \in RThread,
         joinStep' = [joinStep EXCEPT ![c] = w], joinTarget' = [joinTarget EXCEPT ![c] = t],
         w = "deleteJoined" => life'[t] \in {"ended", "joined"},
         \A u \in RThread : life[u] \in {"ended", "joined"} => life'[u] \in {"ended", "joined"}
  PROVE  /\ JoinedHasEnded'
         /\ joinStep' \in [RThread -> JoinSteps] /\ joinTarget' \in [RThread -> RThread]
<1>1. /\ joinStep' \in [RThread -> JoinSteps] /\ joinTarget' \in [RThread -> RThread]
      /\ joinStep'[c] = w /\ joinTarget'[c] = t
      /\ \A u \in RThread : u # c => joinStep'[u] = joinStep[u] /\ joinTarget'[u] = joinTarget[u]
  BY WITypes
<1>2. \A u \in RThread : joinStep[u] = "deleteJoined" => life[joinTarget[u]] \in {"ended", "joined"}
  BY DEF WI, JoinedHasEnded
<1>3. ASSUME NEW u \in RThread, joinStep'[u] = "deleteJoined"
      PROVE  life'[joinTarget'[u]] \in {"ended", "joined"}
  <2>1. CASE u = c
    BY <2>1, <1>1, <1>3
  <2>2. CASE u # c
    <3>1. life[joinTarget[u]] \in {"ended", "joined"} /\ joinTarget[u] \in RThread
      BY <2>2, <1>1, <1>2, <1>3, WITypes
    <3> QED
      BY <3>1, <2>2, <1>1
  <2> QED
    BY <2>1, <2>2
<1> QED
  BY <1>1, <1>3 DEF JoinedHasEnded

LEMMA BeginWaitKeeps ==
  ASSUME WI, NEW c \in RThread, NEW t \in RThread, NEW w \in {"join", "detach"}, BeginWait(c, t, w)
  PROVE  WI'
<1>1. /\ UNCHANGED <<GC_threads, record, life, startInfo, inChild, rFails>>
      /\ joinStep' = [joinStep EXCEPT ![c] = w] /\ joinTarget' = [joinTarget EXCEPT ![c] = t]
  BY DEF BeginWait
<1>2. w \in JoinSteps /\ w # "deleteJoined"
  BY DEF JoinSteps
<1>3. /\ JoinedHasEnded'
      /\ joinStep' \in [RThread -> JoinSteps] /\ joinTarget' \in [RThread -> RThread]
  BY <1>1, <1>2, JoinerSet
<1> QED
  BY <1>1, <1>3, WITypes, WIQuiet

\* The step of what a thread does advances.
LEMMA StepSet ==
  ASSUME WI, NEW c \in RThread, NEW w \in JoinSteps,
         joinStep' = [joinStep EXCEPT ![c] = w],
         UNCHANGED <<GC_threads, record, life, startInfo, joinTarget, inChild, rFails>>,
         w = "deleteJoined" => life[joinTarget[c]] \in {"ended", "joined"}
  PROVE  WI'
<1>1. PICK t \in RThread : t = joinTarget[c]
  BY WITypes
<1>2. joinTarget' = [joinTarget EXCEPT ![c] = t]
  BY <1>1, WITypes
<1>3. w = "deleteJoined" => life'[t] \in {"ended", "joined"}
  BY <1>1
<1>4. /\ JoinedHasEnded'
      /\ joinStep' \in [RThread -> JoinSteps] /\ joinTarget' \in [RThread -> RThread]
  BY <1>2, <1>3, JoinerSet
<1> QED
  BY <1>4, WITypes, WIQuiet

LEMMA LookupKeeps ==
  ASSUME WI, NEW c \in RThread, LookupThenJoin(c) \/ LookupThenDetach(c)
  PROVE  WI'
<1>1. CASE LookupThenJoin(c)
  <2>1. /\ life[joinTarget[c]] = "ended" /\ joinStep' = [joinStep EXCEPT ![c] = "deleteJoined"]
        /\ UNCHANGED <<GC_threads, record, life, startInfo, joinTarget, inChild, rFails>>
    BY <1>1 DEF LookupThenJoin
  <2>2. "deleteJoined" \in JoinSteps
    BY DEF JoinSteps
  <2> QED
    BY <2>1, <2>2, StepSet
<1>2. CASE LookupThenDetach(c)
  <2>1. /\ joinStep' = [joinStep EXCEPT ![c] = "deleteDetached"]
        /\ UNCHANGED <<GC_threads, record, life, startInfo, joinTarget, inChild, rFails>>
    BY <1>2 DEF LookupThenDetach
  <2>2. "deleteDetached" \in JoinSteps
    BY DEF JoinSteps
  <2> QED
    BY <2>1, <2>2, StepSet
<1> QED
  BY <1>1, <1>2

LEMMA CollectKeeps ==
  ASSUME WI, NEW t \in RThread, GC_wait_for_gc_completion_win32(t) \/ StartCollection(t)
  PROVE  WI'
<1>1. UNCHANGED <<GC_threads, record, life, startInfo, joinStep, joinTarget, inChild, rFails>>
  BY DEF GC_wait_for_gc_completion_win32, StartCollection, joinVars
<1>2. JoinedHasEnded'
  BY <1>1, JoinedKept
<1> QED
  BY <1>1, <1>2, WITypes, WIQuiet

LEMMA UnregisterKeeps ==
  ASSUME WI, NEW t \in RThread, GC_unregister_my_thread(t)
  PROVE  WI'
<1>1. /\ life[t] = "run" /\ life' = [life EXCEPT ![t] = "ended"]
      /\ UNCHANGED <<startInfo, joinStep, joinTarget, inChild, rFails>>
  BY DEF GC_unregister_my_thread, RunsClient, joinVars
<1>2. /\ life' \in [RThread -> Lives] /\ life'[t] = "ended"
      /\ \A u \in RThread : u # t => life'[u] = life[u]
  BY <1>1, WITypes DEF Lives
<1>3. \A u \in RThread : MyId(u)' = MyId(u)
  BY <1>1 DEF MyId
<1>4. JoinedHasEnded'
  BY <1>1, <1>2, JoinedKept
<1>5. /\ startInfo' \in [RThread -> {"none", "made", "freed", "lost"}]
      /\ joinStep' \in [RThread -> JoinSteps] /\ joinTarget' \in [RThread -> RThread]
      /\ inChild' \in BOOLEAN /\ rFails' \in 0 .. MaxFails
  BY <1>1, WITypes
<1>6. \A u \in RThread : Bucket[MyId(u)] \in Buckets
  BY WITypes
<1>7. CASE ToDelete(t)
  <2>1. GC_threads' = Unlinked(t) /\ record' = record
    BY <1>7 DEF GC_unregister_my_thread
  <2>2. /\ GC_threads' \in [Buckets -> Seq(RThread)]
        /\ \A b \in Buckets : IsInjective(GC_threads'[b])
        /\ \A b \in Buckets : \A u \in RThread :
             u \in Range(GC_threads'[b]) <=> u \in Range(GC_threads[b]) /\ u # t
    BY <2>1, UnlinkTable
  <2>3. ASSUME NEW u \in RThread
      PROVE /\ \A b \in Buckets : u \in Range(GC_threads'[b]) =>
                 /\ record'[u].id = MyId(u)' /\ b = Bucket[MyId(u)']
                 /\ \/ life'[u] \in {"started", "run"}
                    \/ /\ life'[u] = "ended" /\ "FINISHED" \in record'[u].flags
                       /\ "DETACHED" \notin record'[u].flags
            /\ life'[u] \in {"started", "run"} => u \in Range(GC_threads'[Bucket[MyId(u)']])
            /\ "FINISHED" \in record'[u].flags => life'[u] \in {"ended", "joined"}
            /\ life'[u] \in {"starting", "started"} => startInfo'[u] = "made"
    BY <1>1, <1>2, <1>3, <1>6, <2>1, <2>2, WIParts
  <2>4. record' \in [RThread -> [id : Ids, flags : SUBSET {"DETACHED", "FINISHED"}]]
    BY <2>1, WITypes
  <2> QED
    BY <1>2, <1>4, <1>5, <2>2, <2>3, <2>4, WILift
<1>8. CASE ~ToDelete(t)
  <2>1. /\ GC_threads' = GC_threads /\ "DETACHED" \notin record[t].flags
        /\ record' = [record EXCEPT ![t].flags = record[t].flags \union {"FINISHED"}]
    BY <1>8 DEF GC_unregister_my_thread, ToDelete
  <2>2. PICK f \in SUBSET {"DETACHED", "FINISHED"} : f = record[t].flags \union {"FINISHED"}
    BY WITypes
  <2>3. /\ record' \in [RThread -> [id : Ids, flags : SUBSET {"DETACHED", "FINISHED"}]]
        /\ record'[t].id = record[t].id /\ record'[t].flags = f
        /\ \A u \in RThread : u # t => record'[u] = record[u]
    BY <2>1, <2>2, FlagsSet
  <2>4. "FINISHED" \in f /\ "DETACHED" \notin f
    BY <2>1, <2>2
  <2>5. ASSUME NEW u \in RThread
      PROVE /\ \A b \in Buckets : u \in Range(GC_threads'[b]) =>
                 /\ record'[u].id = MyId(u)' /\ b = Bucket[MyId(u)']
                 /\ \/ life'[u] \in {"started", "run"}
                    \/ /\ life'[u] = "ended" /\ "FINISHED" \in record'[u].flags
                       /\ "DETACHED" \notin record'[u].flags
            /\ life'[u] \in {"started", "run"} => u \in Range(GC_threads'[Bucket[MyId(u)']])
            /\ "FINISHED" \in record'[u].flags => life'[u] \in {"ended", "joined"}
            /\ life'[u] \in {"starting", "started"} => startInfo'[u] = "made"
    BY <1>1, <1>2, <1>3, <1>6, <2>1, <2>3, <2>4, WIParts
  <2>6. GC_threads' \in [Buckets -> Seq(RThread)] /\ \A b \in Buckets : IsInjective(GC_threads'[b])
    BY <2>1, WITypes
  <2> QED
    BY <1>2, <1>4, <1>5, <2>3, <2>5, <2>6, WILift
<1> QED
  BY <1>7, <1>8

\* pthread_join has returned, or the thread is detached: with the lock, a
\* record that is finished is deleted.
LEMMA DeleteKeeps ==
  ASSUME WI, NEW c \in RThread, DeleteJoined(c)
  PROVE  WI'
<1>0. PICK t \in RThread : t = joinTarget[c]
  BY WITypes
<1>1. /\ joinStep[c] \in {"deleteJoined", "deleteDetached"}
      /\ record' = IF joinStep[c] = "deleteDetached"
                   THEN [record EXCEPT ![t].flags = record[t].flags \union {"DETACHED"}] ELSE record
      /\ GC_threads' = IF "FINISHED" \in record[t].flags THEN Unlinked(t) ELSE GC_threads
      /\ life' = IF joinStep[c] = "deleteJoined" THEN [life EXCEPT ![t] = "joined"] ELSE life
      /\ joinStep' = [joinStep EXCEPT ![c] = "none"] /\ joinTarget' = [joinTarget EXCEPT ![c] = RFirst]
      /\ UNCHANGED <<startInfo, inChild, rFails>>
  BY <1>0 DEF DeleteJoined, FinishedThen
<1>2. joinStep[c] = "deleteJoined" => life[t] \in {"ended", "joined"}
  BY <1>0 DEF WI, JoinedHasEnded
<1>3. /\ GC_threads' \in [Buckets -> Seq(RThread)]
      /\ \A b \in Buckets : IsInjective(GC_threads'[b])
      /\ \A b \in Buckets : \A u \in RThread :
           u \in Range(GC_threads'[b]) <=> u \in Range(GC_threads[b]) /\ (u # t \/ "FINISHED" \notin record[t].flags)
  <2>1. CASE "FINISHED" \in record[t].flags
    <3>1. GC_threads' = Unlinked(t)
      BY <1>1, <2>1
    <3> QED
      BY <3>1, <2>1, UnlinkTable
  <2>2. CASE "FINISHED" \notin record[t].flags
    BY <1>1, <2>2, WITypes
  <2> QED
    BY <2>1, <2>2
<1>4. /\ record' \in [RThread -> [id : Ids, flags : SUBSET {"DETACHED", "FINISHED"}]]
      /\ record'[t].id = record[t].id
      /\ "FINISHED" \in record'[t].flags <=> "FINISHED" \in record[t].flags
      /\ joinStep[c] = "deleteJoined" => record'[t].flags = record[t].flags
      /\ \A u \in RThread : u # t => record'[u] = record[u]
  <2>1. CASE joinStep[c] = "deleteDetached"
    <3>1. PICK f \in SUBSET {"DETACHED", "FINISHED"} : f = record[t].flags \union {"DETACHED"}
      BY WITypes
    <3>2. record' = [record EXCEPT ![t].flags = f]
      BY <3>1, <2>1, <1>1
    <3>3. "FINISHED" \in f <=> "FINISHED" \in record[t].flags
      BY <3>1
    <3> QED
      BY <3>2, <3>3, <2>1, FlagsSet
  <2>2. CASE joinStep[c] = "deleteJoined"
    BY <1>1, <2>2, WITypes
  <2> QED
    BY <2>1, <2>2, <1>1
<1>5. /\ life' \in [RThread -> Lives]
      /\ life'[t] = IF joinStep[c] = "deleteJoined" THEN "joined" ELSE life[t]
      /\ \A u \in RThread : u # t => life'[u] = life[u]
  BY <1>1, WITypes DEF Lives
<1>6. \A u \in RThread : MyId(u)' = MyId(u)
  BY <1>1 DEF MyId
<1>7. /\ JoinedHasEnded'
      /\ joinStep' \in [RThread -> JoinSteps] /\ joinTarget' \in [RThread -> RThread]
  <2>1. "none" \in JoinSteps /\ RFirst \in RThread
    BY WinRegistryAssumption DEF JoinSteps
  <2>2. \A u \in RThread : life[u] \in {"ended", "joined"} => life'[u] \in {"ended", "joined"}
    BY <1>5
  <2> QED
    BY <2>1, <2>2, <1>1, JoinerSet
<1>8. /\ startInfo' \in [RThread -> {"none", "made", "freed", "lost"}]
      /\ inChild' \in BOOLEAN /\ rFails' \in 0 .. MaxFails
      /\ \A u \in RThread : Bucket[MyId(u)] \in Buckets
  BY <1>1, WITypes
<1>9. ASSUME NEW u \in RThread
      PROVE /\ \A b \in Buckets : u \in Range(GC_threads'[b]) =>
                 /\ record'[u].id = MyId(u)' /\ b = Bucket[MyId(u)']
                 /\ \/ life'[u] \in {"started", "run"}
                    \/ /\ life'[u] = "ended" /\ "FINISHED" \in record'[u].flags
                       /\ "DETACHED" \notin record'[u].flags
            /\ life'[u] \in {"started", "run"} => u \in Range(GC_threads'[Bucket[MyId(u)']])
            /\ "FINISHED" \in record'[u].flags => life'[u] \in {"ended", "joined"}
            /\ life'[u] \in {"starting", "started"} => startInfo'[u] = "made"
  <2>1. CASE u # t
    BY <2>1, <1>1, <1>3, <1>4, <1>5, <1>6, <1>8, WIParts
  <2>2. CASE u = t /\ "FINISHED" \in record[t].flags
    <3>1. \A b \in Buckets : u \notin Range(GC_threads'[b])
      BY <2>2, <1>3
    <3>2. life[t] \in {"ended", "joined"}
      BY <2>2, WIParts
    <3>3. life'[u] \in {"ended", "joined"}
      BY <2>2, <3>2, <1>5
    <3> QED
      BY <3>1, <3>3
  <2>3. CASE u = t /\ "FINISHED" \notin record[t].flags
    <3>1. \A b \in Buckets : u \in Range(GC_threads'[b]) =>
            record[u].id = MyId(u) /\ b = Bucket[MyId(u)] /\ life[u] \in {"started", "run"}
      BY <2>3, <1>3, WIParts
    <3>2. joinStep[c] = "deleteJoined" => life[u] \notin {"started", "run"}
      BY <2>3, <1>2
    <3>3. life'[u] \in {"starting", "started", "run"} => life'[u] = life[u]
      BY <2>3, <1>5
    <3>4. /\ life[u] \in {"started", "run"} => u \in Range(GC_threads[Bucket[MyId(u)]])
          /\ life[u] \in {"starting", "started"} => startInfo[u] = "made"
      BY WIParts
    <3>5. life[u] \in {"started", "run"} => life'[u] = life[u]
      BY <3>2, <2>3, <1>1, <1>5
    <3> QED
      BY <3>1, <3>3, <3>4, <3>5, <2>3, <1>1, <1>3, <1>4, <1>6, <1>8
  <2> QED
    BY <2>1, <2>2, <2>3
<1> QED
  BY <1>3, <1>4, <1>5, <1>7, <1>8, <1>9, WILift

\* The table of the child of a fork is made anew.
LEMMA ForkKeeps ==
  ASSUME WI, NEW t \in RThread, GC_remove_all_threads_but_me_win32(t)
  PROVE  WI'
<1>1. /\ life[t] = "run" /\ GC_threads' = ChildTable(t)
      /\ record' = [record EXCEPT ![t].id = ChildId[t]]
      /\ life' = [u \in RThread |-> IF u = t THEN "run" ELSE IF life[u] = "none" THEN "none" ELSE "joined"]
      /\ startInfo' = [u \in RThread |-> IF startInfo[u] = "made" THEN "lost" ELSE startInfo[u]]
      /\ joinStep' = [u \in RThread |-> "none"] /\ joinTarget' = [u \in RThread |-> RFirst]
      /\ inChild' = TRUE /\ rFails' = rFails
  BY DEF GC_remove_all_threads_but_me_win32, RunsClient
<1>2. ChildId[t] \in Ids /\ RFirst \in RThread
  BY WinRegistryAssumption
<1> DEFINE n == Bucket[ChildId[t]]
<1>3. n \in Buckets
  BY <1>2 DEF Buckets
<1>4. GC_threads' = [b \in Buckets |-> IF b = n THEN <<t>> ELSE <<>>]
  BY <1>1 DEF ChildTable, NewBucket
<1>5. \A u \in RThread : MyId(u)' = ChildId[u]
  BY <1>1 DEF MyId
<1>6. MyId(t)' = ChildId[t] /\ Bucket[MyId(t)'] = n
  BY <1>5
<1> HIDE DEF n
<1>7. /\ <<t>> \in Seq(RThread) /\ Range(<<t>>) = {t} /\ IsInjective(<<t>>)
      /\ <<>> \in Seq(RThread) /\ Range(<<>>) = {} /\ IsInjective(<<>>)
  BY DEF Range, IsInjective
<1>8. /\ GC_threads' \in [Buckets -> Seq(RThread)]
      /\ GC_threads'[n] = <<t>> /\ \A b \in Buckets : b # n => GC_threads'[b] = <<>>
  BY <1>3, <1>4, <1>7
<1>9. \A b \in Buckets : IsInjective(GC_threads'[b])
  BY <1>7, <1>8
<1>10. \A b \in Buckets : \A u \in RThread : u \in Range(GC_threads'[b]) <=> u = t /\ b = n
  BY <1>7, <1>8
<1>11. /\ record' \in [RThread -> [id : Ids, flags : SUBSET {"DETACHED", "FINISHED"}]]
       /\ record'[t].id = ChildId[t] /\ record'[t].flags = record[t].flags
       /\ \A u \in RThread : u # t => record'[u] = record[u]
  BY <1>1, <1>2, IdSet
<1>12. /\ life' \in [RThread -> Lives] /\ life'[t] = "run"
       /\ \A u \in RThread : u # t => life'[u] = IF life[u] = "none" THEN "none" ELSE "joined"
  BY <1>1 DEF Lives
<1>13. startInfo' \in [RThread -> {"none", "made", "freed", "lost"}]
  BY <1>1, WITypes
<1>14. /\ joinStep' \in [RThread -> JoinSteps] /\ joinTarget' \in [RThread -> RThread]
       /\ JoinedHasEnded' /\ inChild' \in BOOLEAN /\ rFails' \in 0 .. MaxFails
  BY <1>1, <1>2, WITypes DEF JoinSteps, JoinedHasEnded
<1>15. ASSUME NEW u \in RThread
      PROVE /\ \A b \in Buckets : u \in Range(GC_threads'[b]) =>
                 /\ record'[u].id = MyId(u)' /\ b = Bucket[MyId(u)']
                 /\ \/ life'[u] \in {"started", "run"}
                    \/ /\ life'[u] = "ended" /\ "FINISHED" \in record'[u].flags
                       /\ "DETACHED" \notin record'[u].flags
            /\ life'[u] \in {"started", "run"} => u \in Range(GC_threads'[Bucket[MyId(u)']])
            /\ "FINISHED" \in record'[u].flags => life'[u] \in {"ended", "joined"}
            /\ life'[u] \in {"starting", "started"} => startInfo'[u] = "made"
  <2>1. CASE u = t
    <3>1. "FINISHED" \notin record[t].flags
      BY <1>1, WIParts
    <3> QED
      BY <2>1, <3>1, <1>3, <1>6, <1>10, <1>11, <1>12
  <2>2. CASE u # t
    <3>1. "FINISHED" \in record[u].flags => life[u] \in {"ended", "joined"}
      BY WIParts
    <3> QED
      BY <2>2, <3>1, <1>10, <1>11, <1>12
  <2> QED
    BY <2>1, <2>2
<1> QED
  BY <1>8, <1>9, <1>11, <1>12, <1>13, <1>14, <1>15, WILift

LEMMA WIInit ==
  ASSUME WinRegistryInit
  PROVE  WI
<1> DEFINE n == Bucket[IdOf[RFirst]]
<1>1. RFirst \in RThread /\ MaxFails \in Nat /\ \A t \in RThread : IdOf[t] \in Ids
  BY WinRegistryAssumption
<1>2. /\ record = [t \in RThread |-> [id |-> IdOf[t], flags |-> {}]]
      /\ GC_threads = [b \in Buckets |-> IF b = n THEN <<RFirst>> ELSE <<>>]
      /\ life = [t \in RThread |-> IF t = RFirst THEN "run" ELSE "none"]
      /\ startInfo = [t \in RThread |-> "none"]
      /\ joinStep = [t \in RThread |-> "none"] /\ joinTarget = [t \in RThread |-> RFirst]
      /\ inChild = FALSE /\ rFails = 0
  BY DEF WinRegistryInit
<1>3. n \in Buckets
  BY <1>1 DEF Buckets
<1>4. \A t \in RThread : MyId(t) = IdOf[t]
  BY <1>2 DEF MyId
<1>5. Bucket[MyId(RFirst)] = n
  BY <1>1, <1>4
<1> HIDE DEF n
<1>7. /\ <<RFirst>> \in Seq(RThread) /\ Range(<<RFirst>>) = {RFirst} /\ IsInjective(<<RFirst>>)
      /\ <<>> \in Seq(RThread) /\ Range(<<>>) = {} /\ IsInjective(<<>>)
  BY <1>1 DEF Range, IsInjective
<1>8. /\ GC_threads \in [Buckets -> Seq(RThread)]
      /\ GC_threads[n] = <<RFirst>> /\ \A b \in Buckets : b # n => GC_threads[b] = <<>>
  BY <1>2, <1>3, <1>7
<1>9. \A b \in Buckets : IsInjective(GC_threads[b])
  BY <1>7, <1>8
<1>10. \A b \in Buckets : \A u : u \in Range(GC_threads[b]) <=> u = RFirst /\ b = n
  BY <1>7, <1>8
<1>11. WinRegistryTypeOK
  <2>1. record \in [RThread -> [id : Ids, flags : SUBSET {"DETACHED", "FINISHED"}]]
    BY <1>1, <1>2
  <2>2. /\ life \in [RThread -> {"none", "starting", "started", "run", "ended", "joined"}]
        /\ startInfo \in [RThread -> {"none", "made", "freed", "lost"}]
    BY <1>2
  <2>3. /\ joinStep \in [RThread -> JoinSteps] /\ joinTarget \in [RThread -> RThread]
        /\ rFails \in 0 .. MaxFails
    BY <1>1, <1>2 DEF JoinSteps
  <2>4. inChild \in BOOLEAN
    BY <1>2
  <2> QED
    BY <2>1, <2>2, <2>3, <2>4, <1>8, <1>9 DEF WinRegistryTypeOK
<1>12. RecordsOfThreads
  BY <1>1, <1>2, <1>10 DEF RecordsOfThreads, Listed
<1>13. InPlace
  BY <1>1, <1>2, <1>4, <1>5, <1>10 DEF InPlace
<1>14. LivesOrdered
  BY <1>1, <1>2, <1>3, <1>5, <1>10 DEF LivesOrdered
<1>15. JoinedHasEnded
  BY <1>2 DEF JoinedHasEnded
<1> QED
  BY <1>11, <1>12, <1>13, <1>14, <1>15 DEF WI

\* Ids are distinct, and so a lookup has one answer.
LEMMA OnlyOneFound ==
  ASSUME WI
  PROVE  WinRegistrySound
<1>1. ASSUME NEW t \in RThread, life[t] \in {"started", "run"}
      PROVE  GC_lookup_thread_table(MyId(t)) = {t}
  <2>1. Bucket[MyId(t)] \in Buckets /\ GC_threads[Bucket[MyId(t)]] \in Seq(RThread)
    BY WITypes
  <2>2. t \in Range(GC_threads[Bucket[MyId(t)]])
    BY <1>1, WIParts
  <2>3. ASSUME NEW p \in Range(GC_threads[Bucket[MyId(t)]])
        PROVE  p \in RThread /\ record[p].id = MyId(p)
    <3>1. p \in RThread
      BY <2>1, RangeIs
    <3> QED
      BY <3>1, <2>1, WIParts
  <2>4. \A p \in RThread : MyId(p) = MyId(t) => p = t
    BY WinRegistryAssumption DEF MyId
  <2> QED
    BY <2>2, <2>3, <2>4 DEF GC_lookup_thread_table, Chain, HasId
<1> QED
  BY <1>1 DEF WI, WinRegistrySound, FoundByCurrentId

LEMMA WINext ==
  ASSUME WI, WinRegistryNext
  PROVE  WI'
<1>1. PICK t \in RThread :
        \/ WinRegistryStep(t) \/ GC_register_my_thread_win32(t) \/ GC_unregister_my_thread(t)
        \/ GC_wait_for_gc_completion_win32(t) \/ StartCollection(t) \/ GC_remove_all_threads_but_me_win32(t)
        \/ \E u \in RThread : \/ \E d \in BOOLEAN : CreateThread(t, u, d)
                              \/ \E w \in {"join", "detach"} : BeginWait(t, u, w)
  BY DEF WinRegistryNext
<1>2. CASE WinRegistryStep(t)
  BY <1>2, FreeKeeps, StartInnerKeeps, LookupKeeps, DeleteKeeps DEF WinRegistryStep
<1>3. CASE GC_register_my_thread_win32(t)
  BY <1>3, RegisterKeeps
<1>4. CASE GC_unregister_my_thread(t)
  BY <1>4, UnregisterKeeps
<1>5. CASE GC_wait_for_gc_completion_win32(t) \/ StartCollection(t)
  BY <1>5, CollectKeeps
<1>6. CASE GC_remove_all_threads_but_me_win32(t)
  BY <1>6, ForkKeeps
<1>7. CASE \E u \in RThread : \/ \E d \in BOOLEAN : CreateThread(t, u, d)
                              \/ \E w \in {"join", "detach"} : BeginWait(t, u, w)
  BY <1>7, CreateThreadKeeps, BeginWaitKeeps
<1> QED
  BY <1>1, <1>2, <1>3, <1>4, <1>5, <1>6, <1>7

\* In every state, a thread of win32_threads.c that runs client code is found
\* under the id it has, before and after fork, and only it; and a record in the
\* table is that of a thread that runs or has still to be joined or detached.
THEOREM WinThreadsAreFound == WinRegistrySpec => []WinRegistrySound
<1>1. WinRegistryInit => WI
  BY WIInit
<1>2. WI /\ [WinRegistryNext]_registryWinVars => WI'
  <2>1. CASE WinRegistryNext
    BY <2>1, WINext
  <2>2. CASE UNCHANGED registryWinVars
    <3> SUFFICES ASSUME WI PROVE WI'
      BY <2>2
    <3>1. UNCHANGED <<GC_threads, record, life, startInfo, joinStep, joinTarget, inChild, rFails>>
      BY <2>2 DEF registryWinVars, joinVars
    <3>2. JoinedHasEnded'
      BY <3>1, JoinedKept
    <3> QED
      BY <3>1, <3>2, WITypes, WIQuiet
  <2> QED
    BY <2>1, <2>2
<1>3. WI => WinRegistrySound
  BY OnlyOneFound
<1> QED
  BY <1>1, <1>2, <1>3, PTL DEF WinRegistrySpec

-----------------------------------------------------------------------------
(* The table of threads on systems with pthreads: the invariant. *)

\* What a profile leaves out: an id that comes back while the record of its
\* last owner is in the table and nobody joined it, pthread_cancel of a thread
\* that has left the table, and a fork, or a registration from the destructor
\* of a key, while GC_dont_gc is raised.
Apart(c) ==
  /\ "recycle" \notin c /\ "cancel_finished" \notin c
  /\ "again" \in c \/ "fork" \in c => "exit" \notin c /\ "cancel" \notin c

Registers == {"run", "leaving", "wait", "creating", "joining", "joined",
              "detaching", "detached", "forking"}
Living(t) == thr[t].pc \notin {"none", "gone"}
Joinable(t) ==
  /\ thr[t].kind # "foreign" /\ thr[t].detached = FALSE
  /\ thr[t].pc \notin {"none", "starting", "gone"}
RegFlags == {"DETACHED", "MAIN_THREAD", "FINISHED", "DISABLED_GC"}
RegThr == [pc : ThrStates, id : Id \cup {Null}, me : Rec \cup {Null},
           kind : ThrKinds, detached : BOOLEAN, cancelled : BOOLEAN,
           arg : RegThread \cup {Null}, saved : Rec \cup {Null}]
RegRec == [id : Id \cup {Null}, flags : SUBSET RegFlags, stack : RegThread \cup {Null}]

GTypes ==
  /\ thr \in [RegThread -> RegThr] /\ chain \in [Chains -> Seq(Rec)]
  /\ rec \in [Rec -> RegRec]
  /\ dontGc \in Nat /\ gcPhase \in {"none", "marking", "rooted"}
  /\ passed \subseteq RegThread /\ pushed \subseteq RegThread
  /\ client \subseteq ClientOps /\ Apart(client)

\* A record is in the chain of its id, once.
GChains ==
  \A c \in Chains :
    /\ IsInjective(chain[c])
    /\ \A r \in Range(chain[c]) : rec[r].id \in Id /\ Index[rec[r].id] = c

\* What a thread's state says about its fields.
GThread(t) ==
  /\ thr[t].me # Null <=> thr[t].pc \in Registers
  /\ thr[t].pc # "none" => thr[t].id \in Id
  /\ thr[t].saved # Null <=> thr[t].pc \in {"joining", "joined", "detaching", "detached"}
  /\ thr[t].arg # Null <=> thr[t].pc \in {"creating", "joining", "detaching"}
  /\ thr[t].kind = "foreign" /\ thr[t].detached = FALSE /\ thr[t].pc # "none" => t = Main
  /\ t = Main => /\ thr[t].kind = "foreign"
                 /\ thr[t].pc \notin {"none", "out", "leaving", "wait", "starting", "dead"}
  /\ thr[t].pc = "out" => thr[t].kind # "created"
  /\ thr[t].pc = "starting" => thr[t].kind = "created"
  /\ thr[t].pc = "dead" => thr[t].detached = FALSE
GThreads == \A t \in RegThread : GThread(t)

\* The operating system gives no id twice at a time.
GIds == \A t, u \in RegThread : Living(t) /\ Living(u) /\ thr[t].id = thr[u].id => t = u

\* A record in the table is that of a thread that has it as its own unless it
\* is finished, and that it is found by as long as the thread lives.
GRecord(r) ==
  /\ rec[r].stack \in RegThread
  /\ rec[r].id = thr[rec[r].stack].id
  /\ thr[rec[r].stack].pc \notin {"none", "starting"}
  /\ "FINISHED" \in rec[r].flags => "DETACHED" \notin rec[r].flags
  /\ "FINISHED" \notin rec[r].flags => thr[rec[r].stack].me = r
  /\ Living(rec[r].stack) => GC_lookup_thread(rec[r].id) = r
GTable == \A r \in InTable : GRecord(r)
GUnused == \A r \in Rec : r \notin InTable => rec[r] = Unused

GMine ==
  \A t \in RegThread : thr[t].me # Null =>
    /\ thr[t].me \in InTable /\ rec[thr[t].me].stack = t
    /\ "FINISHED" \notin rec[thr[t].me].flags

\* A thread that can be joined has a record, which no exit deletes.
GJoin ==
  \A t \in RegThread : Joinable(t) =>
    \E r \in InTable : rec[r].stack = t /\ "DETACHED" \notin rec[r].flags

\* The id of a thread the collector did not create leads to no other's record.
GForeign ==
  \A t \in RegThread : \A r \in InTable :
    thr[t].kind = "foreign" /\ Living(t) /\ rec[r].id = thr[t].id =>
      rec[r].stack = t /\ "DETACHED" \in rec[r].flags

\* What pthread_join and pthread_detach keep across the system's call.
GSavedOf(p) ==
  /\ thr[p].saved \in InTable
  /\ "DETACHED" \notin rec[thr[p].saved].flags
  /\ thr[p].arg # Null => /\ rec[thr[p].saved].stack = thr[p].arg
                          /\ thr[p].arg # p /\ Joinable(thr[p].arg)
  /\ thr[p].arg = Null => \/ thr[rec[thr[p].saved].stack].pc = "gone"
                          \/ thr[rec[thr[p].saved].stack].detached = TRUE
GSaved ==
  /\ \A p \in RegThread : thr[p].saved # Null => GSavedOf(p)
  /\ \A p, q \in RegThread :
       thr[p].saved # Null /\ thr[p].saved = thr[q].saved => p = q

\* Somebody is left to delete a finished record, and to mark that of a
\* detached thread.
Keeps(r) ==
  thr[rec[r].stack].kind = "survivor" \/ \E p \in RegThread : thr[p].saved = r
GKept ==
  "again" \notin client =>
    /\ \A r \in InTable :
         /\ "FINISHED" \in rec[r].flags => thr[rec[r].stack].pc \in {"out", "dead"} \/ Keeps(r)
         /\ thr[rec[r].stack].detached = TRUE => "DETACHED" \in rec[r].flags \/ Keeps(r)
    /\ \A t \in RegThread :
         /\ thr[t].pc = "joined" => thr[rec[thr[t].saved].stack].pc = "gone"
         /\ thr[t].kind = "dtor" => thr[t].pc \in {"out", "dead", "gone"}

Disabling == {r \in InTable : "DISABLED_GC" \in rec[r].flags /\ "FINISHED" \notin rec[r].flags}
GDont ==
  /\ dontGc = Cardinality(Disabling)
  /\ "exit" \notin client /\ "cancel" \notin client =>
       \A r \in InTable : "DISABLED_GC" \notin rec[r].flags

GInv ==
  /\ GTypes /\ GChains /\ GThreads /\ GIds /\ GTable /\ GUnused /\ GMine /\ GJoin
  /\ GForeign /\ GSaved /\ GKept /\ GDont

-----------------------------------------------------------------------------
(* Finding a record in a chain. *)
FindIn(s, rc, id) ==
  LET found == SelectInSeq(s, LAMBDA r : rc[r].id = id)
  IN  IF found = 0 THEN Null ELSE s[found]

IsFirst(s, rc, id, i) ==
  /\ i \in 1..Len(s) /\ rc[s[i]].id = id
  /\ \A k \in 1..Len(s) : k < i => rc[s[k]].id # id

LEMMA LookupFinds ==
  \A id : GC_lookup_thread(id) = FindIn(chain[Index[id]], rec, id)
BY DEF GC_lookup_thread, FindIn

LEMMA LookupFindsNext ==
  ASSUME NEW id
  PROVE  GC_lookup_thread(id)' = FindIn(chain'[Index[id]], rec', id)
BY DEF GC_lookup_thread, FindIn, SelectInSeq

LEMMA GNull == Null \notin Rec /\ Null \notin Id /\ Null \notin RegThread /\ Main \in RegThread
BY RegistryAssumption

\* The first record with the id is found.
LEMMA FindIs ==
  ASSUME NEW s \in Seq(Rec), NEW rc, NEW id
  PROVE  \/ /\ FindIn(s, rc, id) = Null
            /\ \A i \in 1..Len(s) : rc[s[i]].id # id
         \/ \E i \in 1..Len(s) :
              /\ FindIn(s, rc, id) = s[i] /\ rc[s[i]].id = id
              /\ \A k \in 1..Len(s) : k < i => rc[s[k]].id # id
<1> DEFINE I == {i \in 1..Len(s) : rc[s[i]].id = id}
<1>n. Len(s) \in Nat
  OBVIOUS
<1>1. CASE I = {}
  <2>1. FindIn(s, rc, id) = Null
    BY <1>1 DEF FindIn, SelectInSeq
  <2> QED
    BY <2>1, <1>1
<1>2. CASE I # {}
  <2>0. I \in SUBSET Nat
    BY <1>n
  <2> HIDE DEF I
  <2>1. PICK i \in I : \A k \in I : i <= k
    BY <1>2, <2>0, LeastExists
  <2>2. Min(I) \in I /\ \A k \in I : Min(I) <= k
    BY <2>1 DEF Min
  <2>3. SelectInSeq(s, LAMBDA r : rc[r].id = id) = Min(I)
    BY <1>2 DEF SelectInSeq, I
  <2>4. Min(I) # 0 /\ Min(I) \in 1..Len(s) /\ rc[s[Min(I)]].id = id
    BY <2>2 DEF I
  <2>5. FindIn(s, rc, id) = s[Min(I)]
    BY <2>3, <2>4 DEF FindIn
  <2>6. \A k \in 1..Len(s) : k < Min(I) => k \notin I
    BY <2>2, <2>4, <1>n
  <2>7. \A k \in 1..Len(s) : k < Min(I) => rc[s[k]].id # id
    BY <2>6, Zenon DEF I
  <2> QED
    BY <2>4, <2>5, <2>7
<1> QED
  BY <1>1, <1>2

\* What is found is determined by being the first.
LEMMA FindFirst ==
  ASSUME NEW s \in Seq(Rec), NEW rc, NEW id, NEW i, IsFirst(s, rc, id, i)
  PROVE  FindIn(s, rc, id) = s[i]
<1>0. /\ i \in 1..Len(s) /\ rc[s[i]].id = id
      /\ \A k \in 1..Len(s) : k < i => rc[s[k]].id # id
  BY DEF IsFirst
<1>1. PICK j \in 1..Len(s) :
              /\ FindIn(s, rc, id) = s[j] /\ rc[s[j]].id = id
              /\ \A k \in 1..Len(s) : k < j => rc[s[k]].id # id
  BY <1>0, FindIs
<1>2. Len(s) \in Nat
  OBVIOUS
<1>3. ~(j < i) /\ ~(i < j)
  BY <1>0, <1>1
<1> QED
  BY <1>0, <1>1, <1>2, <1>3

LEMMA FindSame ==
  ASSUME NEW s \in Seq(Rec), NEW rc, NEW rd, NEW id,
         \A i \in 1..Len(s) : rc[s[i]].id = rd[s[i]].id
  PROVE  FindIn(s, rc, id) = FindIn(s, rd, id)
<1>1. CASE \A i \in 1..Len(s) : rc[s[i]].id # id
  BY <1>1, FindIs
<1>2. CASE ~\A i \in 1..Len(s) : rc[s[i]].id # id
  <2>1. PICK i \in 1..Len(s) :
              /\ FindIn(s, rc, id) = s[i] /\ rc[s[i]].id = id
              /\ \A k \in 1..Len(s) : k < i => rc[s[k]].id # id
    BY <1>2, FindIs
  <2>2. rd[s[i]].id = id
    BY <2>1, Zenon
  <2>3. \A k \in 1..Len(s) : k < i => rd[s[k]].id # id
    BY <2>1, Zenon
  <2>4. FindIn(s, rd, id) = s[i]
    <3>1. IsFirst(s, rd, id, i)
      BY <2>2, <2>3 DEF IsFirst
    <3> QED
      BY <3>1, FindFirst
  <2> QED
    BY <2>1, <2>4
<1> QED
  BY <1>1, <1>2

LEMMA FindLinked ==
  ASSUME NEW s \in Seq(Rec), NEW rc, NEW rd, NEW x \in Rec, NEW id,
         \A i \in 1..Len(s) : rc[s[i]].id = rd[s[i]].id
  PROVE  /\ rd[x].id = id => FindIn(<<x>> \o s, rd, id) = x
         /\ rd[x].id # id => FindIn(<<x>> \o s, rd, id) = FindIn(s, rc, id)
<1> DEFINE z == <<x>> \o s
<1>1. /\ z \in Seq(Rec) /\ Len(z) = Len(s) + 1 /\ z[1] = x /\ Len(s) \in Nat
      /\ \A j \in 1..Len(s) : z[j + 1] = s[j]
      /\ \A j \in 2..Len(s) + 1 : z[j] = s[j - 1]
  BY ConsIs
<1> HIDE DEF z
<1>2. ASSUME rd[x].id = id PROVE FindIn(z, rd, id) = x
  <2>1. 1 \in 1..Len(z) /\ \A k \in 1..Len(z) : ~(k < 1)
    BY <1>1
  <2>2. rd[z[1]].id = id /\ \A k \in 1..Len(z) : k < 1 => rd[z[k]].id # id
    BY <2>1, <1>1, <1>2, Zenon
  <2>3. FindIn(z, rd, id) = z[1]
    <3>1. IsFirst(z, rd, id, 1)
      BY <2>1, <2>2 DEF IsFirst
    <3> QED
      BY <3>1, <1>1, FindFirst
  <2> QED
    BY <2>3, <1>1
<1>3. ASSUME rd[x].id # id PROVE FindIn(z, rd, id) = FindIn(s, rc, id)
  <2>1. CASE \A i \in 1..Len(s) : rc[s[i]].id # id
    <3>1. \A i \in 1..Len(z) : i = 1 \/ (i - 1 \in 1..Len(s) /\ z[i] = s[i - 1])
      BY <1>1
    <3>2. \A i \in 1..Len(z) : rd[z[i]].id # id
      <4>1. TAKE i \in 1..Len(z)
      <4>2. CASE i = 1
        BY <4>2, <1>1, <1>3
      <4>3. CASE i # 1
        <5>1. i - 1 \in 1..Len(s) /\ z[i] = s[i - 1]
          BY <4>3, <3>1
        <5>2. PICK j \in 1..Len(s) : z[i] = s[j]
          BY <5>1
        <5> QED
          BY <5>2, <2>1
      <4> QED
        BY <4>2, <4>3
    <3>3. FindIn(z, rd, id) = Null
      BY <3>2, <1>1, FindIs
    <3>4. FindIn(s, rc, id) = Null
      BY <2>1, FindIs
    <3> QED
      BY <3>3, <3>4
  <2>2. CASE ~\A i \in 1..Len(s) : rc[s[i]].id # id
    <3>1. PICK i \in 1..Len(s) :
              /\ FindIn(s, rc, id) = s[i] /\ rc[s[i]].id = id
              /\ \A k \in 1..Len(s) : k < i => rc[s[k]].id # id
      BY <2>2, FindIs
    <3>2. i + 1 \in 1..Len(z) /\ z[i + 1] = s[i] /\ rd[z[i + 1]].id = id
      BY <3>1, <1>1
    <3>3. ASSUME NEW k \in 1..Len(z), k < i + 1 PROVE rd[z[k]].id # id
      <4>1. CASE k = 1
        BY <4>1, <1>1, <1>3
      <4>2. CASE k # 1
        <5>1. k - 1 \in 1..Len(s) /\ k - 1 < i /\ z[k] = s[k - 1]
          BY <4>2, <3>3, <1>1
        <5> QED
          BY <5>1, <3>1
      <4> QED
        BY <4>1, <4>2
    <3>4. FindIn(z, rd, id) = z[i + 1]
      <4>1. IsFirst(z, rd, id, i + 1)
        BY <3>2, <3>3 DEF IsFirst
      <4> QED
        BY <4>1, <1>1, FindFirst
    <3> QED
      BY <3>1, <3>2, <3>4
  <2> QED
    BY <2>1, <2>2
<1> QED
  BY <1>2, <1>3 DEF z

\* Another record stays the first with its id when one is unlinked.
LEMMA FindUnlinked ==
  ASSUME NEW s \in Seq(Rec), NEW rc, NEW rd, NEW x, NEW id, IsInjective(s),
         \A r \in Rec : r # x => rc[r].id = rd[r].id,
         FindIn(s, rc, id) # Null, FindIn(s, rc, id) # x
  PROVE  FindIn(RemoveFirst(s, x), rd, id) = FindIn(s, rc, id)
<1>1. PICK i \in 1..Len(s) :
              /\ FindIn(s, rc, id) = s[i] /\ rc[s[i]].id = id
              /\ \A k \in 1..Len(s) : k < i => rc[s[k]].id # id
  BY FindIs
<1>2. PICK z : z = RemoveFirst(s, x)
  OBVIOUS
<1>3. /\ z \in Seq(Rec)
      /\ Range(z) = Range(s) \ {x}
  BY <1>2, UnlinkedIs
<1>a. \E f \in [1..Len(RemoveFirst(s, x)) -> 1..Len(s)] :
           /\ \A k \in 1..Len(RemoveFirst(s, x)) : RemoveFirst(s, x)[k] = s[f[k]]
           /\ \A k, l \in 1..Len(RemoveFirst(s, x)) : k < l => f[k] < f[l]
  BY UnlinkedOrder
<1>4. PICK f \in [1..Len(z) -> 1..Len(s)] :
           /\ \A k \in 1..Len(z) : z[k] = s[f[k]]
           /\ \A k, l \in 1..Len(z) : k < l => f[k] < f[l]
  BY <1>2, <1>a
<1>5. s[i] \in Range(s) /\ s[i] # x
  BY <1>1, RangeIs
<1>6. PICK j \in 1..Len(z) : z[j] = s[i]
  BY <1>3, <1>5, RangeIs
<1>7. \A k \in 1..Len(z) : z[k] \in Rec /\ z[k] # x
  <2>1. ASSUME NEW k \in 1..Len(z) PROVE z[k] \in Rec /\ z[k] \in Range(z)
    BY <1>3, RangeIs
  <2> QED
    BY <2>1, <1>3
<1>8. f[j] = i
  <2>1. \A a, b \in 1..Len(s) : s[a] = s[b] => a = b
    BY RangeIs
  <2> QED
    BY <2>1, <1>4, <1>6
<1>9. ASSUME NEW k \in 1..Len(z), k < j PROVE rd[z[k]].id # id
  <2>1. f[k] \in 1..Len(s) /\ f[k] < i /\ z[k] = s[f[k]]
    BY <1>4, <1>8, <1>9
  <2> QED
    BY <2>1, <1>1, <1>7
<1>10. rd[z[j]].id = id
  BY <1>1, <1>6, <1>7
<1>11. FindIn(z, rd, id) = z[j]
  <2>1. IsFirst(z, rd, id, j)
    BY <1>9, <1>10 DEF IsFirst
  <2> QED
    BY <2>1, <1>3, FindFirst
<1> QED
  BY <1>1, <1>2, <1>6, <1>11

-----------------------------------------------------------------------------
(* The table as a whole. *)
LEMMA GFlat ==
  ASSUME GTypes
  PROVE  /\ \A t \in RegThread :
              /\ thr[t] \in RegThr
              /\ thr[t].pc \in ThrStates /\ thr[t].id \in Id \cup {Null}
              /\ thr[t].me \in Rec \cup {Null} /\ thr[t].kind \in ThrKinds
              /\ thr[t].detached \in BOOLEAN /\ thr[t].cancelled \in BOOLEAN
              /\ thr[t].arg \in RegThread \cup {Null} /\ thr[t].saved \in Rec \cup {Null}
         /\ \A r \in Rec :
              /\ rec[r] \in RegRec /\ rec[r].id \in Id \cup {Null}
              /\ rec[r].flags \subseteq RegFlags /\ rec[r].stack \in RegThread \cup {Null}
BY DEF GTypes, RegThr, RegRec

LEMMA ChainOf ==
  ASSUME GTypes, GChains
  PROVE  /\ \A id \in Id : Index[id] \in Chains /\ chain[Index[id]] \in Seq(Rec)
         /\ \A r : r \in InTable <=> \E c \in Chains : r \in Range(chain[c])
         /\ \A r \in InTable : /\ r \in Rec /\ rec[r].id \in Id
                               /\ r \in Range(chain[Index[rec[r].id]])
<1>1. \A id \in Id : Index[id] \in Chains /\ chain[Index[id]] \in Seq(Rec)
  BY DEF GTypes, Chains
<1>2. \A r : r \in InTable <=> \E c \in Chains : r \in Range(chain[c])
  BY DEF InTable
<1>3. ASSUME NEW r \in InTable
      PROVE  r \in Rec /\ rec[r].id \in Id /\ r \in Range(chain[Index[rec[r].id]])
  <2>1. PICK c \in Chains : r \in Range(chain[c])
    BY <1>2
  <2>2. chain[c] \in Seq(Rec)
    BY DEF GTypes
  <2>3. Range(chain[c]) \subseteq Rec
    BY <2>2, RangeIs
  <2> QED
    BY <2>1, <2>3 DEF GChains
<1> QED
  BY <1>1, <1>2, <1>3

\* GC_lookup_thread finds a record with the id if there is one.
LEMMA LookupIs ==
  ASSUME GTypes, GChains, NEW id \in Id
  PROVE  /\ GC_lookup_thread(id) = Null => \A r \in InTable : rec[r].id # id
         /\ GC_lookup_thread(id) # Null => /\ GC_lookup_thread(id) \in InTable
                                           /\ GC_lookup_thread(id) \in Rec
                                           /\ rec[GC_lookup_thread(id)].id = id
         /\ GC_lookup_thread(id) \in Rec \cup {Null}
<1>1. PICK s \in Seq(Rec) : s = chain[Index[id]]
  BY ChainOf
<1>2. Index[id] \in Chains /\ GC_lookup_thread(id) = FindIn(s, rec, id)
  BY <1>1, ChainOf, LookupFinds
<1>3. \A x : x \in Range(s) <=> \E i \in 1..Len(s) : s[i] = x
  BY RangeIs
<1>4. \A x \in Range(s) : x \in InTable /\ x \in Rec
  BY <1>1, <1>2, ChainOf
<1>5. CASE FindIn(s, rec, id) = Null /\ \A i \in 1..Len(s) : rec[s[i]].id # id
  <2>1. \A r \in InTable : rec[r].id # id
    BY <1>1, <1>3, <1>5, ChainOf
  <2> QED
    BY <2>1, <1>2, <1>5
<1>6. CASE \E i \in 1..Len(s) :
              /\ FindIn(s, rec, id) = s[i] /\ rec[s[i]].id = id
              /\ \A k \in 1..Len(s) : k < i => rec[s[k]].id # id
  <2>1. PICK i \in 1..Len(s) : FindIn(s, rec, id) = s[i] /\ rec[s[i]].id = id
    BY <1>6
  <2>2. s[i] \in InTable /\ s[i] \in Rec
    BY <1>3, <1>4
  <2> QED
    BY <2>1, <2>2, <1>2, GNull
<1> QED
  BY <1>5, <1>6, FindIs

\* Steps that leave the chains and the ids alone.
LEMMA TableSame ==
  ASSUME GTypes, GChains, chain' = chain, \A r \in Rec : rec'[r].id = rec[r].id
  PROVE  /\ chain' \in [Chains -> Seq(Rec)] /\ GChains' /\ InTable' = InTable
         /\ \A id \in Id : GC_lookup_thread(id)' = GC_lookup_thread(id)
<1>1. chain' \in [Chains -> Seq(Rec)] /\ InTable' = InTable
  BY DEF GTypes, InTable
<1>2. \A c \in Chains : Range(chain[c]) \subseteq Rec
  BY RangeIs DEF GTypes
<1>3. GChains'
  BY <1>2 DEF GChains
<1>4. ASSUME NEW id \in Id PROVE GC_lookup_thread(id)' = GC_lookup_thread(id)
  <2>1. PICK s \in Seq(Rec) : s = chain[Index[id]]
    BY ChainOf
  <2>2. \A i \in 1..Len(s) : s[i] \in Rec
    OBVIOUS
  <2>3. FindIn(s, rec', id) = FindIn(s, rec, id)
    BY <2>2, FindSame
  <2>4. GC_lookup_thread(id)' = FindIn(chain'[Index[id]], rec', id)
    BY LookupFindsNext
  <2> QED
    BY <2>1, <2>3, <2>4, LookupFinds
<1> QED
  BY <1>1, <1>3, <1>4

\* GC_new_thread
LEMMA TableNew ==
  ASSUME GTypes, GChains, NEW id \in Id, NEW x \in Rec, x \notin InTable,
         chain' = OnChain(id, x), rec'[x].id = id,
         \A r \in Rec : r # x => rec'[r] = rec[r]
  PROVE  /\ chain' \in [Chains -> Seq(Rec)] /\ GChains' /\ InTable' = InTable \cup {x}
         /\ GC_lookup_thread(id)' = x
         /\ \A j \in Id : j # id => GC_lookup_thread(j)' = GC_lookup_thread(j)
<1> DEFINE c == Index[id]
<1>1. c \in Chains /\ chain[c] \in Seq(Rec) /\ IsInjective(chain[c]) /\ x \notin Range(chain[c])
  BY ChainOf DEF GChains
<1>2. /\ <<x>> \o chain[c] \in Seq(Rec) /\ IsInjective(<<x>> \o chain[c])
      /\ Range(<<x>> \o chain[c]) = Range(chain[c]) \cup {x}
  BY <1>1, LinkedIs
<1>3. chain' = [chain EXCEPT ![c] = <<x>> \o chain[c]]
  BY DEF OnChain
<1>4. /\ chain'[c] = <<x>> \o chain[c]
      /\ \A b \in Chains : b # c => chain'[b] = chain[b]
      /\ chain' \in [Chains -> Seq(Rec)]
  BY <1>1, <1>2, <1>3 DEF GTypes
<1>5. \A b \in Chains : Range(chain[b]) \subseteq Rec \ {x}
  <2>1. TAKE b \in Chains
  <2>2. chain[b] \in Seq(Rec)
    BY DEF GTypes
  <2>3. Range(chain[b]) \subseteq Rec /\ x \notin Range(chain[b])
    BY <2>2, RangeIs DEF InTable
  <2> QED
    BY <2>3
<1>6. GChains'
  <2>1. ASSUME NEW b \in Chains
        PROVE  /\ IsInjective(chain'[b])
               /\ \A r \in Range(chain'[b]) : rec'[r].id \in Id /\ Index[rec'[r].id] = b
    <3>1. CASE b = c
      <4>1. ASSUME NEW r \in Range(chain'[b]) PROVE rec'[r].id \in Id /\ Index[rec'[r].id] = b
        <5>1. CASE r = x
          BY <5>1, <3>1
        <5>2. CASE r # x
          <6>1. r \in Range(chain[c]) /\ r \in Rec
            BY <5>2, <4>1, <3>1, <1>2, <1>4, <1>5
          <6> QED
            BY <6>1, <5>2, <3>1, <1>1 DEF GChains
        <5> QED
          BY <5>1, <5>2
      <4> QED
        BY <4>1, <3>1, <1>2, <1>4
    <3>2. CASE b # c
      <4>1. chain'[b] = chain[b]
        BY <3>2, <1>4
      <4>2. \A r \in Range(chain[b]) : rec'[r] = rec[r]
        BY <1>5
      <4> QED
        BY <4>1, <4>2 DEF GChains
    <3> QED
      BY <3>1, <3>2
  <2>2. Chains' = Chains
    BY DEF Chains
  <2> QED
    BY <2>1, <2>2 DEF GChains
<1>7. InTable' = InTable \cup {x}
  <2>1. \A r : r \in InTable' <=> \E b \in Chains : r \in Range(chain'[b])
    BY DEF InTable, Chains
  <2>2. ASSUME NEW r PROVE (\E b \in Chains : r \in Range(chain'[b]))
                           <=> (\E b \in Chains : r \in Range(chain[b])) \/ r = x
    <3>1. Range(chain'[c]) = Range(chain[c]) \cup {x}
      BY <1>2, <1>4
    <3>2. \A b \in Chains : b # c => Range(chain'[b]) = Range(chain[b])
      BY <1>4
    <3> QED
      BY <3>1, <3>2, <1>1
  <2> QED
    BY <2>1, <2>2 DEF InTable
<1>8. ASSUME NEW j \in Id
      PROVE  /\ j = id => GC_lookup_thread(j)' = x
             /\ j # id => GC_lookup_thread(j)' = GC_lookup_thread(j)
  <2>1. PICK s \in Seq(Rec) : s = chain[Index[j]]
    BY ChainOf
  <2>2. \A i \in 1..Len(s) : rec[s[i]].id = rec'[s[i]].id
    <3>1. TAKE i \in 1..Len(s)
    <3>2. s[i] \in Range(s) /\ Index[j] \in Chains
      BY RangeIs, ChainOf
    <3>3. s[i] \in Rec \ {x}
      BY <3>2, <2>1, <1>5
    <3> QED
      BY <3>3
  <2>3. /\ GC_lookup_thread(j)' = FindIn(chain'[Index[j]], rec', j)
        /\ GC_lookup_thread(j) = FindIn(s, rec, j)
    BY <2>1, LookupFinds, LookupFindsNext
  <2>4. CASE Index[j] = c
    <3>1. chain'[Index[j]] = <<x>> \o s
      BY <2>1, <2>4, <1>4
    <3>2. /\ rec'[x].id = j => FindIn(<<x>> \o s, rec', j) = x
          /\ rec'[x].id # j => FindIn(<<x>> \o s, rec', j) = FindIn(s, rec, j)
      BY <2>2, FindLinked
    <3> QED
      BY <3>1, <3>2, <2>3
  <2>5. CASE Index[j] # c
    <3>1. chain'[Index[j]] = s /\ j # id
      BY <2>1, <2>5, <1>4, ChainOf
    <3>2. FindIn(s, rec', j) = FindIn(s, rec, j)
      BY <2>2, FindSame
    <3> QED
      BY <3>1, <3>2, <2>3
  <2> QED
    BY <2>4, <2>5
<1> QED
  BY <1>4, <1>6, <1>7, <1>8

\* GC_delete_thread
LEMMA TableWithout ==
  ASSUME GTypes, GChains, NEW x \in Rec, chain' = Without(x), rec' = Freed(x)
  PROVE  /\ chain' \in [Chains -> Seq(Rec)] /\ GChains' /\ InTable' = InTable \ {x}
         /\ \A r \in Rec : r # x => rec'[r] = rec[r]
         /\ rec'[x] = Unused
         /\ \A j \in Id : GC_lookup_thread(j) # Null /\ GC_lookup_thread(j) # x
                          => GC_lookup_thread(j)' = GC_lookup_thread(j)
<1>1. \A c \in Chains : chain[c] \in Seq(Rec) /\ IsInjective(chain[c])
  BY DEF GTypes, GChains
<1>2. \A c \in Chains : /\ RemoveFirst(chain[c], x) \in Seq(Rec)
                        /\ IsInjective(RemoveFirst(chain[c], x))
                        /\ Range(RemoveFirst(chain[c], x)) = Range(chain[c]) \ {x}
  BY <1>1, UnlinkedIs
<1>3. chain' \in [Chains -> Seq(Rec)] /\ \A c \in Chains : chain'[c] = RemoveFirst(chain[c], x)
  BY <1>2 DEF Without
<1>4. rec'[x] = Unused /\ \A r \in Rec : r # x => rec'[r] = rec[r]
  BY DEF Freed, GTypes
<1>5. Chains' = Chains
  BY DEF Chains
<1>6. GChains'
  <2>1. \A c \in Chains : Range(chain'[c]) = Range(chain[c]) \ {x} /\ Range(chain[c]) \subseteq Rec
    BY <1>1, <1>2, <1>3, RangeIs
  <2>2. ASSUME NEW c \in Chains, NEW r \in Range(chain'[c])
        PROVE  rec'[r].id \in Id /\ Index[rec'[r].id] = c
    <3>1. r \in Range(chain[c]) /\ r # x /\ r \in Rec
      BY <2>1, <2>2
    <3> QED
      BY <3>1, <1>4 DEF GChains
  <2> QED
    BY <2>2, <1>2, <1>3, <1>5 DEF GChains
<1>7. InTable' = InTable \ {x}
  <2>1. \A r : r \in InTable' <=> \E c \in Chains : r \in Range(chain'[c])
    BY <1>5 DEF InTable
  <2>2. \A r : r \in InTable <=> \E c \in Chains : r \in Range(chain[c])
    BY DEF InTable
  <2>3. \A c \in Chains : Range(chain'[c]) = Range(chain[c]) \ {x}
    BY <1>2, <1>3
  <2> QED
    BY <2>1, <2>2, <2>3
<1>8. ASSUME NEW j \in Id, GC_lookup_thread(j) # Null, GC_lookup_thread(j) # x
      PROVE  GC_lookup_thread(j)' = GC_lookup_thread(j)
  <2>1. PICK s \in Seq(Rec) : s = chain[Index[j]]
    BY ChainOf
  <2>2. IsInjective(s) /\ chain'[Index[j]] = RemoveFirst(s, x)
    BY <2>1, <1>1, <1>3, ChainOf
  <2>3. /\ GC_lookup_thread(j)' = FindIn(chain'[Index[j]], rec', j)
        /\ GC_lookup_thread(j) = FindIn(s, rec, j)
    BY <2>1, LookupFinds, LookupFindsNext
  <2>4. \A r \in Rec : r # x => rec[r].id = rec'[r].id
    BY <1>4
  <2>5. FindIn(RemoveFirst(s, x), rec', j) = FindIn(s, rec, j)
    BY <2>2, <2>3, <2>4, <1>8, FindUnlinked
  <2> QED
    BY <2>2, <2>3, <2>5
<1> QED
  BY <1>3, <1>4, <1>6, <1>7, <1>8

\* GC_remove_all_threads_but_me
OnlyRecord(id, x) ==
  /\ chain' = [c \in Chains |-> IF c = Index[id] THEN <<x>> ELSE <<>>]
  /\ rec' = [r \in Rec |-> IF r = x THEN rec[r] ELSE Unused]
LEMMA TableOnly ==
  ASSUME GTypes, GChains, NEW id \in Id, NEW x \in Rec, rec[x].id = id, OnlyRecord(id, x)
  PROVE  /\ chain' \in [Chains -> Seq(Rec)] /\ GChains' /\ InTable' = {x}
         /\ GC_lookup_thread(id)' = x
<1> DEFINE c == Index[id]
<1>1. c \in Chains /\ Chains' = Chains
  BY ChainOf DEF Chains
<1>2. /\ <<x>> \in Seq(Rec) /\ IsInjective(<<x>>) /\ Range(<<x>>) = {x}
      /\ <<>> \in Seq(Rec) /\ IsInjective(<<>>) /\ Range(<<>>) = {}
  BY DEF IsInjective, Range
<1>3. /\ chain' \in [Chains -> Seq(Rec)] /\ chain'[c] = <<x>>
      /\ \A b \in Chains : b # c => chain'[b] = <<>>
  BY <1>1, <1>2 DEF OnlyRecord
<1>4. rec'[x] = rec[x]
  BY DEF OnlyRecord
<1> HIDE DEF c
<1>5. GChains'
  <2>1. ASSUME NEW b \in Chains
        PROVE  /\ IsInjective(chain'[b])
               /\ \A r \in Range(chain'[b]) : rec'[r].id \in Id /\ Index[rec'[r].id] = b
    <3>1. CASE b = c
      BY <3>1, <1>2, <1>3, <1>4 DEF c
    <3>2. CASE b # c
      BY <3>2, <1>2, <1>3
    <3> QED
      BY <3>1, <3>2
  <2> QED
    BY <2>1, <1>1 DEF GChains
<1>6. InTable' = {x}
  <2>1. \A r : r \in InTable' <=> \E b \in Chains : r \in Range(chain'[b])
    BY <1>1 DEF InTable
  <2>2. \A r : (\E b \in Chains : r \in Range(chain'[b])) <=> r = x
    BY <1>1, <1>2, <1>3
  <2> QED
    BY <2>1, <2>2
<1>7. GC_lookup_thread(id)' = x
  <2>1. GC_lookup_thread(id)' = FindIn(chain'[Index[id]], rec', id)
    BY LookupFindsNext
  <2>2. PICK z \in Seq(Rec) : z = <<x>>
    BY <1>2
  <2>3. IsFirst(z, rec', id, 1) /\ z[1] = x
    BY <2>2, <1>4 DEF IsFirst
  <2>4. FindIn(z, rec', id) = x
    BY <2>3, FindFirst
  <2> QED
    BY <2>1, <2>2, <2>4, <1>3 DEF c
<1> QED
  BY <1>3, <1>5, <1>6, <1>7

-----------------------------------------------------------------------------
(* The table of threads: the invariant, action by action. *)

\* A thread that lives has one record at most, which its id leads to.
LEMMA OneRecord ==
  ASSUME GInv
  PROVE  /\ \A x, y \in InTable : rec[x].stack = rec[y].stack /\ Living(rec[x].stack) => x = y
         /\ \A t \in RegThread : \A x \in InTable :
              Living(t) /\ rec[x].stack = t => GC_lookup_thread(thr[t].id) = x
         /\ \A t \in RegThread : Living(t) => thr[t].id \in Id
         /\ \A r \in InTable : r \in Rec /\ GRecord(r)
<1>1. \A r \in InTable : r \in Rec /\ GRecord(r)
  BY ChainOf DEF GInv, GTable
<1>2. \A x, y \in InTable : rec[x].stack = rec[y].stack /\ Living(rec[x].stack) => x = y
  BY <1>1 DEF GRecord
<1>3. \A t \in RegThread : \A x \in InTable :
        Living(t) /\ rec[x].stack = t => GC_lookup_thread(thr[t].id) = x
  BY <1>1 DEF GRecord
<1>4. \A t \in RegThread : Living(t) => thr[t].id \in Id
  BY DEF GInv, GThreads, GThread, Living
<1> QED
  BY <1>1, <1>2, <1>3, <1>4

\* The record of a registered thread.
LEMMA MineIs ==
  ASSUME GInv, NEW t \in RegThread, thr[t].pc \in Registers
  PROVE  /\ thr[t].me \in InTable /\ thr[t].me \in Rec /\ rec[thr[t].me].stack = t
         /\ "FINISHED" \notin rec[thr[t].me].flags
         /\ thr[t].id \in Id /\ rec[thr[t].me].id = thr[t].id
         /\ Living(t) /\ GC_lookup_thread(thr[t].id) = thr[t].me /\ thr[t].me # Null
         /\ \A x \in InTable : rec[x].stack = t => x = thr[t].me
<1>1. thr[t].me # Null /\ Living(t)
  BY DEF GInv, GThreads, GThread, Living, Registers
<1>2. /\ thr[t].me \in InTable /\ rec[thr[t].me].stack = t
      /\ "FINISHED" \notin rec[thr[t].me].flags
  BY <1>1 DEF GInv, GMine
<1>3. rec[thr[t].me].id = thr[t].id /\ thr[t].me \in Rec
  BY <1>2, OneRecord DEF GRecord
<1> QED
  BY <1>1, <1>2, <1>3, OneRecord

\* The record of a thread that can be joined.
LEMMA JoinableIs ==
  ASSUME GInv, NEW t \in RegThread, Joinable(t)
  PROVE  \E r \in InTable :
           /\ r \in Rec /\ GC_lookup_thread(thr[t].id) = r /\ rec[r].stack = t
           /\ "DETACHED" \notin rec[r].flags /\ Living(t)
<1>1. PICK r \in InTable : rec[r].stack = t /\ "DETACHED" \notin rec[r].flags
  BY DEF GInv, GJoin
<1>2. Living(t)
  BY DEF Joinable, Living
<1> QED
  BY <1>1, <1>2, OneRecord

Settled == {"run", "leaving", "wait", "creating", "forking"}
CalmStep(t) ==
  /\ thr'[t].id = thr[t].id /\ thr'[t].me = thr[t].me /\ thr'[t].kind = thr[t].kind
  /\ thr'[t].detached = thr[t].detached /\ thr'[t].saved = thr[t].saved
  /\ \/ thr'[t].pc = thr[t].pc /\ thr'[t].arg = thr[t].arg
     \/ thr[t].pc \in Settled /\ thr'[t].pc \in Settled
SameRecord(r) ==
  /\ rec'[r].id = rec[r].id /\ rec'[r].stack = rec[r].stack
  /\ "FINISHED" \in rec'[r].flags <=> "FINISHED" \in rec[r].flags
  /\ "DETACHED" \in rec'[r].flags <=> "DETACHED" \in rec[r].flags
  /\ r \notin InTable => rec'[r] = rec[r]

\* Steps of threads that stay what they are, and of GC_dont_gc.
LEMMA CalmKeeps ==
  ASSUME GInv, GTypes', GThreads', GDont', chain' = chain, client' = client,
         \A t \in RegThread : CalmStep(t), \A r \in Rec : SameRecord(r)
  PROVE  GInv'
<1>1. /\ GChains' /\ InTable' = InTable
      /\ \A id \in Id : GC_lookup_thread(id)' = GC_lookup_thread(id)
  BY TableSame DEF GInv, SameRecord
<1>2. \A t \in RegThread :
        /\ thr'[t].id = thr[t].id /\ thr'[t].me = thr[t].me /\ thr'[t].kind = thr[t].kind
        /\ thr'[t].detached = thr[t].detached /\ thr'[t].saved = thr[t].saved
        /\ thr'[t].pc = "gone" <=> thr[t].pc = "gone"
        /\ thr'[t].pc = "none" <=> thr[t].pc = "none"
        /\ thr'[t].pc = "starting" <=> thr[t].pc = "starting"
        /\ thr'[t].pc = "joined" <=> thr[t].pc = "joined"
        /\ thr'[t].pc \in {"out", "dead"} <=> thr[t].pc \in {"out", "dead"}
  BY DEF CalmStep, Settled
<1>3. \A t \in RegThread : Living(t)' <=> Living(t)
  BY <1>2 DEF Living
<1>4. \A t \in RegThread : Joinable(t)' <=> Joinable(t)
  BY <1>2 DEF Joinable
<1>5. \A t \in RegThread : thr[t].saved # Null => thr'[t].arg = thr[t].arg
  BY DEF CalmStep, Settled, GInv, GThreads, GThread
<1>6. \A r \in InTable : r \in Rec /\ GRecord(r) /\ rec[r].stack \in RegThread /\ rec[r].id \in Id
  BY OneRecord, ChainOf DEF GRecord, GInv
<1>7. \A r \in Rec : /\ rec'[r].id = rec[r].id /\ rec'[r].stack = rec[r].stack
                     /\ "FINISHED" \in rec'[r].flags <=> "FINISHED" \in rec[r].flags
                     /\ "DETACHED" \in rec'[r].flags <=> "DETACHED" \in rec[r].flags
                     /\ r \notin InTable => rec'[r] = rec[r]
  BY DEF SameRecord
<1>8. GIds'
  BY <1>2, <1>3 DEF GIds, GInv
<1>9. GTable'
  BY <1>1, <1>2, <1>3, <1>6, <1>7 DEF GTable, GRecord
<1>10. GUnused'
  BY <1>1, <1>7 DEF GUnused, GInv, Unused
<1>11. GMine'
  BY <1>1, <1>2, <1>6, <1>7 DEF GMine, GInv
<1>12. GJoin'
  BY <1>1, <1>4, <1>6, <1>7 DEF GJoin, GInv
<1>13. GForeign'
  BY <1>1, <1>2, <1>3, <1>6, <1>7 DEF GForeign, GInv
<1>14. GSaved'
  <2>1. ASSUME NEW p \in RegThread, thr'[p].saved # Null PROVE GSavedOf(p)'
    <3>1. GSavedOf(p) /\ thr'[p].saved = thr[p].saved /\ thr'[p].arg = thr[p].arg
      BY <2>1, <1>2, <1>5 DEF GInv, GSaved
    <3>2. PICK x \in InTable : x = thr[p].saved
      BY <3>1 DEF GSavedOf
    <3>3. thr[p].arg # Null => thr[p].arg \in RegThread
      BY GFlat DEF GInv
    <3> QED
      BY <3>1, <3>2, <3>3, <1>1, <1>2, <1>4, <1>6, <1>7 DEF GSavedOf
  <2>2. \A p, q \in RegThread :
          thr'[p].saved # Null /\ thr'[p].saved = thr'[q].saved => p = q
    BY <1>2 DEF GInv, GSaved
  <2> QED
    BY <2>1, <2>2 DEF GSaved
<1>15. GKept'
  <2>1. \A r \in InTable : Keeps(r)' <=> Keeps(r)
    BY <1>2, <1>6, <1>7 DEF Keeps
  <2>2. \A t \in RegThread : thr[t].pc = "joined" => thr[t].saved \in InTable
    BY DEF GInv, GSaved, GThreads, GThread, GSavedOf
  <2>3. \A t \in RegThread : thr[t].kind = "dtor" /\ thr[t].pc \in {"out", "dead", "gone"}
          => thr'[t].pc \in {"out", "dead", "gone"}
    BY <1>2
  <2> QED
    BY <2>1, <2>2, <2>3, <1>1, <1>2, <1>6, <1>7 DEF GKept, GInv
<1> QED
  BY <1>1, <1>8, <1>9, <1>10, <1>11, <1>12, <1>13, <1>14, <1>15 DEF GInv

\* Such a step of one thread.
LEMMA CalmThread ==
  ASSUME GInv, NEW p \in RegThread, NEW q \in ThrStates, NEW a \in RegThread \cup {Null},
         thr[p].pc \in Settled, q \in Settled, q = "creating" <=> a # Null,
         p = Main => q \notin {"leaving", "wait"},
         thr' = [thr EXCEPT ![p].pc = q, ![p].arg = a]
  PROVE  /\ thr' \in [RegThread -> RegThr] /\ GThreads'
         /\ \A t \in RegThread : CalmStep(t)
<1>1. /\ thr' \in [RegThread -> RegThr] /\ \A u \in RegThread : u # p => thr'[u] = thr[u]
      /\ thr'[p].pc = q /\ thr'[p].arg = a
      /\ thr'[p].id = thr[p].id /\ thr'[p].me = thr[p].me /\ thr'[p].kind = thr[p].kind
      /\ thr'[p].detached = thr[p].detached /\ thr'[p].saved = thr[p].saved
  BY DEF GInv, GTypes, RegThr
<1>2. \A t \in RegThread : CalmStep(t)
  BY <1>1 DEF CalmStep
<1>3. GThread(p)'
  <2>1. GThread(p)
    BY DEF GInv, GThreads
  <2> QED
    BY <2>1, <1>1 DEF GThread, Settled, Registers
<1>4. \A u \in RegThread : u # p => GThread(u)'
  BY <1>1 DEF GThread, GInv, GThreads
<1> QED
  BY <1>1, <1>2, <1>3, <1>4 DEF GThreads

\* Nothing but the threads' states and the collection changes.
LEMMA CalmRest ==
  ASSUME GInv, thr' \in [RegThread -> RegThr], GThreads', \A t \in RegThread : CalmStep(t),
         gcPhase' \in {"none", "marking", "rooted"},
         passed' \subseteq RegThread, pushed' \subseteq RegThread,
         UNCHANGED <<chain, rec, dontGc, client>>
  PROVE  GInv'
<1>1. GTypes'
  BY DEF GInv, GTypes, Chains, Apart
<1>2. \A r \in Rec : SameRecord(r)
  BY DEF SameRecord
<1>3. GDont'
  <2>1. InTable' = InTable /\ Disabling' = Disabling
    BY DEF InTable, Chains, Disabling
  <2> QED
    BY <2>1 DEF GDont, GInv
<1> QED
  BY <1>1, <1>2, <1>3, CalmKeeps

LEMMA CollectTypes ==
  ASSUME GInv, GC_collect_a_little_inner
  PROVE  /\ gcPhase' \in {"none", "marking", "rooted"}
         /\ passed' \subseteq RegThread /\ pushed' \subseteq RegThread
<1>1. StacksToPush \subseteq RegThread
  BY OneRecord DEF StacksToPush, GRecord
<1> QED
  BY <1>1 DEF GC_collect_a_little_inner, collection, GInv, GTypes

LEMMA SameThreads ==
  ASSUME GInv, thr' = thr
  PROVE  thr' \in [RegThread -> RegThr] /\ GThreads' /\ \A t \in RegThread : CalmStep(t)
BY DEF GInv, GTypes, GThreads, GThread, CalmStep

LEMMA AllocobjKeeps ==
  ASSUME GInv, NEW t \in RegThread, GC_allocobj(t)
  PROVE  GInv'
<1>1. UNCHANGED <<thr, chain, rec, dontGc, client>> /\ GC_collect_a_little_inner
  BY DEF GC_allocobj
<1> QED
  BY <1>1, SameThreads, CollectTypes, CalmRest

LEMMA RegisteredKeeps ==
  ASSUME GInv, NEW p \in RegThread, Registered(p)
  PROVE  GInv'
<1>1. /\ thr[p].pc = "creating" /\ thr' = [thr EXCEPT ![p].pc = "run", ![p].arg = Null]
      /\ UNCHANGED <<chain, rec, dontGc, collection, client>>
  BY DEF Registered
<1>2. "run" \in ThrStates /\ "creating" \in Settled /\ "run" \in Settled
  BY DEF ThrStates, Settled
<1>3. thr' \in [RegThread -> RegThr] /\ GThreads' /\ \A t \in RegThread : CalmStep(t)
  BY <1>1, <1>2, CalmThread
<1> QED
  BY <1>1, <1>3, CalmRest DEF collection, GInv, GTypes

\* The state of a thread that has no argument is set.
LEMMA CalmState ==
  ASSUME GInv, NEW p \in RegThread, NEW q \in {"run", "leaving", "wait", "forking"},
         thr[p].pc \in {"run", "leaving", "wait", "forking"},
         p = Main => q \notin {"leaving", "wait"},
         thr' = [thr EXCEPT ![p].pc = q]
  PROVE  /\ thr' \in [RegThread -> RegThr] /\ GThreads'
         /\ \A t \in RegThread : CalmStep(t)
<1>1. thr[p].arg = Null
  BY DEF GInv, GThreads, GThread
<1>2. thr' = [thr EXCEPT ![p].pc = q, ![p].arg = Null]
  <2>1. thr[p] \in RegThr /\ thr \in [RegThread -> RegThr]
    BY DEF GInv, GTypes
  <2> QED
    BY <2>1, <1>1 DEF RegThr
<1>3. q \in ThrStates /\ q \in Settled /\ thr[p].pc \in Settled /\ q # "creating"
  BY DEF ThrStates, Settled
<1> QED
  BY <1>2, <1>3, CalmThread

LEMMA ReturnFromStartKeeps ==
  ASSUME GInv, NEW t \in RegThread, ReturnFromStart(t)
  PROVE  GInv'
<1>1. /\ thr[t].pc = "run" /\ t # Main /\ thr' = [thr EXCEPT ![t].pc = "leaving"]
      /\ UNCHANGED <<chain, rec, dontGc, collection, client>>
  BY DEF ReturnFromStart
<1>2. thr' \in [RegThread -> RegThr] /\ GThreads' /\ \A u \in RegThread : CalmStep(u)
  BY <1>1, CalmState
<1> QED
  BY <1>1, <1>2, CalmRest DEF collection, GInv, GTypes

\* A thread that leaves while a collection is under way waits, and helps.
LEMMA WaitKeeps ==
  ASSUME GInv, NEW t \in RegThread, thr[t].pc \in {"leaving", "wait"},
         thr' = [thr EXCEPT ![t].pc = "wait"] \/ thr' = thr,
         GC_collect_a_little_inner, UNCHANGED <<chain, rec, dontGc, client>>
  PROVE  GInv'
<1>1. t # Main
  BY DEF GInv, GThreads, GThread
<1>2. thr' \in [RegThread -> RegThr] /\ GThreads' /\ \A u \in RegThread : CalmStep(u)
  BY <1>1, CalmState, SameThreads
<1> QED
  BY <1>2, CollectTypes, CalmRest

LEMMA ForkPrepareKeeps ==
  ASSUME GInv, NEW p \in RegThread, fork_prepare_proc(p)
  PROVE  GInv'
<1>1. CASE /\ thr[p].pc = "run" /\ thr' = [thr EXCEPT ![p].pc = "forking"]
           /\ UNCHANGED <<chain, rec, dontGc, collection, client>>
  <2>1. thr' \in [RegThread -> RegThr] /\ GThreads' /\ \A u \in RegThread : CalmStep(u)
    BY <1>1, CalmState
  <2> QED
    BY <1>1, <2>1, CalmRest DEF collection, GInv, GTypes
<1>2. CASE /\ UNCHANGED <<thr, chain, rec, dontGc, client>> /\ GC_collect_a_little_inner
  BY <1>2, SameThreads, CollectTypes, CalmRest
<1> QED
  BY <1>1, <1>2 DEF fork_prepare_proc

LEMMA ForkParentKeeps ==
  ASSUME GInv, NEW p \in RegThread, fork_parent_proc(p)
  PROVE  GInv'
<1>1. /\ thr[p].pc = "forking" /\ thr' = [thr EXCEPT ![p].pc = "run"]
      /\ UNCHANGED <<chain, rec, dontGc, collection, client>>
  BY DEF fork_parent_proc
<1>2. thr' \in [RegThread -> RegThr] /\ GThreads' /\ \A u \in RegThread : CalmStep(u)
  BY <1>1, CalmState
<1> QED
  BY <1>1, <1>2, CalmRest DEF collection, GInv, GTypes

\* GC_dont_gc is raised once for a record that is not finished.
LEMMA DisableKeeps ==
  ASSUME GInv, NEW x \in InTable, "FINISHED" \notin rec[x].flags, Disable(x),
         "exit" \in client \/ "cancel" \in client,
         chain' = chain, UNCHANGED <<gcPhase, passed, pushed, client>>,
         thr' \in [RegThread -> RegThr], GThreads', \A t \in RegThread : CalmStep(t)
  PROVE  GInv'
<1>1. x \in Rec /\ x # Null
  BY OneRecord, GNull
<1>2. CASE "DISABLED_GC" \in rec[x].flags
  <2>1. UNCHANGED <<rec, dontGc>>
    BY <1>2 DEF Disable
  <2> QED
    BY <2>1, CalmRest DEF GInv, GTypes
<1>3. CASE "DISABLED_GC" \notin rec[x].flags
  <2>1. /\ rec' = [rec EXCEPT ![x].flags = @ \cup {"DISABLED_GC"}]
        /\ dontGc' = dontGc + 1
    BY <1>1, <1>3 DEF Disable
  <2>2. rec[x] \in RegRec /\ rec[x].flags \subseteq RegFlags
    BY <1>1, GFlat DEF GInv
  <2>3. /\ rec' \in [Rec -> RegRec] /\ \A r \in Rec : r # x => rec'[r] = rec[r]
        /\ rec'[x].flags = rec[x].flags \cup {"DISABLED_GC"}
        /\ rec'[x].id = rec[x].id /\ rec'[x].stack = rec[x].stack
    BY <2>1, <2>2, <1>1 DEF GInv, GTypes, RegRec, RegFlags
  <2>4. \A r \in Rec : SameRecord(r)
    BY <2>3 DEF SameRecord
  <2>5. GTypes'
    BY <2>1, <2>3 DEF GInv, GTypes, Chains, Apart
  <2>6. InTable' = InTable
    BY DEF InTable, Chains
  <2>7. Disabling' = Disabling \cup {x} /\ x \notin Disabling
    <3>1. \A r \in InTable : r # x => rec'[r].flags = rec[r].flags
      BY <2>3, OneRecord
    <3>2. "DISABLED_GC" \in rec'[x].flags /\ "FINISHED" \notin rec'[x].flags
      BY <2>3
    <3>3. \A r : r \in Disabling' <=> r \in Disabling \/ r = x
      BY <2>6, <3>1, <3>2 DEF Disabling
    <3> QED
      BY <3>3, <1>3 DEF Disabling
  <2>8. IsFiniteSet(Disabling)
    <3>1. Disabling \in SUBSET Rec
      BY OneRecord DEF Disabling
    <3> QED
      BY <3>1, FS_Subset, RegistryAssumption
  <2>9. Cardinality(Disabling') = Cardinality(Disabling) + 1
    BY <2>7, <2>8, FS_AddElement
  <2>10. GDont'
    BY <2>1, <2>9 DEF GInv, GDont
  <2> QED
    BY <2>4, <2>5, <2>10, CalmKeeps
<1> QED
  BY <1>2, <1>3

LEMMA ExitKeeps ==
  ASSUME GInv, NEW t \in RegThread, pthread_exit(t)
  PROVE  GInv'
<1>1. /\ "exit" \in client /\ thr[t].pc = "run" /\ thr[t].kind = "created"
      /\ Disable(GC_lookup_thread(thr[t].id)) /\ thr' = [thr EXCEPT ![t].pc = "leaving"]
      /\ UNCHANGED <<chain, collection, client>>
  BY DEF pthread_exit
<1>2. t # Main
  BY <1>1 DEF GInv, GThreads, GThread
<1>3. thr' \in [RegThread -> RegThr] /\ GThreads' /\ \A u \in RegThread : CalmStep(u)
  BY <1>1, <1>2, CalmState
<1>4. PICK x \in InTable : x = GC_lookup_thread(thr[t].id) /\ "FINISHED" \notin rec[x].flags
  BY <1>1, MineIs DEF Registers
<1> QED
  BY <1>1, <1>3, <1>4, DisableKeeps DEF collection

LEMMA CancelKeeps ==
  ASSUME GInv, NEW p \in RegThread, NEW t \in RegThread, pthread_cancel(p, t)
  PROVE  GInv'
<1>1. /\ "cancel" \in client
      /\ thr[t].pc \notin {"none", "starting", "gone"}
      /\ "cancel_finished" \in client \/ thr[t].pc \notin {"out", "dead"}
      /\ Disable(GC_lookup_thread(thr[t].id)) /\ thr' = [thr EXCEPT ![t].cancelled = TRUE]
      /\ UNCHANGED <<chain, collection, client>>
  BY DEF pthread_cancel
<1>2. thr[t].pc \in Registers
  BY <1>1, GFlat DEF GInv, GTypes, Apart, Registers, ThrStates
<1>3. /\ thr' \in [RegThread -> RegThr] /\ \A u \in RegThread : u # t => thr'[u] = thr[u]
      /\ thr'[t].pc = thr[t].pc /\ thr'[t].arg = thr[t].arg
      /\ thr'[t].id = thr[t].id /\ thr'[t].me = thr[t].me /\ thr'[t].kind = thr[t].kind
      /\ thr'[t].detached = thr[t].detached /\ thr'[t].saved = thr[t].saved
  BY <1>1 DEF GInv, GTypes, RegThr
<1>4. GThreads' /\ \A u \in RegThread : CalmStep(u)
  BY <1>3 DEF GInv, GThreads, GThread, CalmStep
<1>5. PICK x \in InTable : x = GC_lookup_thread(thr[t].id) /\ "FINISHED" \notin rec[x].flags
  BY <1>2, MineIs
<1> QED
  BY <1>1, <1>3, <1>4, <1>5, DisableKeeps DEF collection

-----------------------------------------------------------------------------
\* A thread that was not there comes up; p, its creator or itself.
LEMMA ComesToBe ==
  ASSUME GInv, NEW t \in RegThread, thr[t].pc = "none", NEW id \in FreeIds,
         NEW kind \in {"created", "foreign"}, NEW d \in BOOLEAN,
         NEW q \in {"starting", "out"},
         q = "starting" <=> kind = "created", kind = "foreign" => d = TRUE,
         kind = "foreign" => GC_lookup_thread(id) = Null,
         thr'[t] = NewThread(id, kind, d, q), thr' \in [RegThread -> RegThr],
         \A u \in RegThread : u # t => GThread(u)' /\ CalmStep(u),
         UNCHANGED <<chain, rec, dontGc, collection, client>>
  PROVE  GInv'
<1>0. id \in Id /\ \A u \in RegThread : Living(u) => thr[u].id # id
  BY DEF FreeIds, Living
<1>1. /\ thr'[t].pc = q /\ thr'[t].id = id /\ thr'[t].me = Null /\ thr'[t].kind = kind
      /\ thr'[t].detached = d /\ thr'[t].arg = Null /\ thr'[t].saved = Null
  BY DEF NewThread
<1>2. \A u \in RegThread : u # t =>
        /\ thr'[u].id = thr[u].id /\ thr'[u].me = thr[u].me /\ thr'[u].kind = thr[u].kind
        /\ thr'[u].detached = thr[u].detached /\ thr'[u].saved = thr[u].saved
        /\ thr'[u].pc = "gone" <=> thr[u].pc = "gone"
        /\ thr'[u].pc = "none" <=> thr[u].pc = "none"
        /\ thr'[u].pc = "starting" <=> thr[u].pc = "starting"
        /\ thr'[u].pc = "joined" <=> thr[u].pc = "joined"
        /\ thr'[u].pc \in {"out", "dead"} <=> thr[u].pc \in {"out", "dead"}
  BY DEF CalmStep, Settled
<1>3. \A u \in RegThread : u # t => (Living(u)' <=> Living(u)) /\ (Joinable(u)' <=> Joinable(u))
  BY <1>2 DEF Living, Joinable
<1>4. Living(t)' /\ ~Living(t) /\ ~Joinable(t)
  BY <1>1 DEF Living, Joinable
<1>5. \A u \in RegThread : u # t /\ thr[u].saved # Null => thr'[u].arg = thr[u].arg
  BY DEF CalmStep, Settled, GInv, GThreads, GThread
<1>6. \A r \in InTable : /\ r \in Rec /\ GRecord(r) /\ rec[r].stack \in RegThread
                         /\ rec[r].id \in Id /\ rec[r].stack # t
  BY OneRecord, ChainOf DEF GRecord, GInv
<1>7. /\ GChains' /\ InTable' = InTable /\ GTypes'
      /\ \A j \in Id : GC_lookup_thread(j)' = GC_lookup_thread(j)
  <2>1. GTypes'
    BY DEF GInv, GTypes, Chains, Apart, collection
  <2> QED
    BY <2>1, TableSame DEF GInv
<1>8. GThreads'
  <2>1. t # Main
    BY DEF GInv, GThreads, GThread
  <2>2. GThread(t)'
    BY <2>1, <1>0, <1>1 DEF GThread, Registers
  <2> QED
    BY <2>2 DEF GThreads
<1>9. GIds'
  <2>1. ASSUME NEW u \in RegThread, NEW v \in RegThread, Living(u)', Living(v)',
               thr'[u].id = thr'[v].id
        PROVE  u = v
    <3>1. CASE u = t /\ v # t
      BY <3>1, <2>1, <1>0, <1>1, <1>2, <1>3
    <3>2. CASE v = t /\ u # t
      BY <3>2, <2>1, <1>0, <1>1, <1>2, <1>3
    <3>3. CASE u # t /\ v # t
      BY <3>3, <2>1, <1>2, <1>3 DEF GInv, GIds
    <3> QED
      BY <3>1, <3>2, <3>3
  <2> QED
    BY <2>1 DEF GIds
<1>10. GTable' /\ GUnused'
  <2>1. ASSUME NEW r \in InTable PROVE GRecord(r)'
    BY <1>2, <1>3, <1>6, <1>7 DEF GRecord
  <2>2. GUnused'
    BY <1>7 DEF GUnused, GInv, Unused
  <2> QED
    BY <2>1, <2>2, <1>7 DEF GTable
<1>11. GMine'
  BY <1>1, <1>2, <1>7 DEF GMine, GInv
<1>12. GJoin'
  <2>1. ~Joinable(t)'
    BY <1>1 DEF Joinable
  <2> QED
    BY <2>1, <1>3, <1>7 DEF GJoin, GInv
<1>13. GForeign'
  <2>1. ASSUME NEW u \in RegThread, NEW r \in InTable, thr'[u].kind = "foreign", Living(u)',
               rec'[r].id = thr'[u].id
        PROVE  rec'[r].stack = u /\ "DETACHED" \in rec'[r].flags
    <3>1. CASE u = t
      <4>1. rec[r].id = id /\ GC_lookup_thread(id) = Null
        BY <3>1, <2>1, <1>1
      <4> QED
        BY <4>1, <1>0, LookupIs DEF GInv
    <3>2. CASE u # t
      BY <3>2, <2>1, <1>2, <1>3 DEF GForeign, GInv
    <3> QED
      BY <3>1, <3>2
  <2> QED
    BY <2>1, <1>7 DEF GForeign
<1>14. GSaved'
  <2>1. ASSUME NEW p \in RegThread, thr'[p].saved # Null PROVE GSavedOf(p)'
    <3>0. p # t
      BY <2>1, <1>1
    <3>1. GSavedOf(p) /\ thr'[p].saved = thr[p].saved /\ thr'[p].arg = thr[p].arg
      BY <3>0, <2>1, <1>2, <1>5 DEF GInv, GSaved
    <3>2. PICK x \in InTable : x = thr[p].saved
      BY <3>1 DEF GSavedOf
    <3>3. thr[p].arg # Null => thr[p].arg \in RegThread /\ thr[p].arg # t
      BY <3>1, <1>4, GFlat DEF GInv, GSavedOf
    <3> QED
      BY <3>1, <3>2, <3>3, <1>2, <1>3, <1>6, <1>7 DEF GSavedOf
  <2>2. \A p, q2 \in RegThread :
          thr'[p].saved # Null /\ thr'[p].saved = thr'[q2].saved => p = q2
    BY <1>1, <1>2 DEF GInv, GSaved
  <2> QED
    BY <2>1, <2>2 DEF GSaved
<1>15. GKept'
  <2>0. thr[t].saved = Null
    BY DEF GInv, GThreads, GThread
  <2>1. ASSUME NEW r \in InTable PROVE Keeps(r)' <=> Keeps(r)
    <3>1. r # Null
      BY <1>6, GNull
    <3>2. \A p \in RegThread : thr'[p].saved = r <=> thr[p].saved = r
      BY <3>1, <2>0, <1>1, <1>2
    <3> QED
      BY <3>2, <1>2, <1>6 DEF Keeps
  <2>2. \A u \in RegThread : thr[u].pc = "joined" => thr[u].saved \in InTable
    BY DEF GInv, GSaved, GThreads, GThread, GSavedOf
  <2>3. \A u \in RegThread : u # t /\ thr[u].kind = "dtor" /\ thr[u].pc \in {"out", "dead", "gone"}
          => thr'[u].pc \in {"out", "dead", "gone"}
    BY <1>2
  <2>4. SUFFICES ASSUME "again" \notin client
                 PROVE  GKept'
    BY DEF GKept
  <2>5. ASSUME NEW r \in InTable
        PROVE  /\ "FINISHED" \in rec[r].flags => thr'[rec[r].stack].pc \in {"out", "dead"} \/ Keeps(r)'
               /\ thr'[rec[r].stack].detached = TRUE => "DETACHED" \in rec[r].flags \/ Keeps(r)'
    BY <2>1, <2>4, <1>2, <1>6 DEF GKept, GInv
  <2>6. ASSUME NEW u \in RegThread
        PROVE  /\ thr'[u].pc = "joined" => thr'[rec[thr'[u].saved].stack].pc = "gone"
               /\ thr'[u].kind = "dtor" => thr'[u].pc \in {"out", "dead", "gone"}
    <3>1. CASE u = t
      BY <3>1, <1>1
    <3>2. CASE u # t
      BY <3>2, <2>2, <2>3, <2>4, <1>2, <1>6 DEF GKept, GInv
    <3> QED
      BY <3>1, <3>2
  <2> QED
    BY <2>5, <2>6, <1>7 DEF GKept
<1>16. GDont'
  <2>1. Disabling' = Disabling
    BY <1>7 DEF Disabling
  <2> QED
    BY <2>1, <1>7 DEF GDont, GInv
<1> QED
  BY <1>7, <1>8, <1>9, <1>10, <1>11, <1>12, <1>13, <1>14, <1>15, <1>16 DEF GInv

LEMMA PthreadCreateKeeps ==
  ASSUME GInv, NEW p \in RegThread, NEW t \in RegThread, NEW id \in Id, NEW d \in BOOLEAN,
         pthread_create(p, t, id, d)
  PROVE  GInv'
<1>1. /\ thr[p].pc = "run" /\ thr[t].pc = "none" /\ id \in FreeIds
      /\ thr' = [thr EXCEPT ![p].pc = "creating", ![p].arg = t,
                            ![t] = NewThread(id, "created", d, "starting")]
      /\ UNCHANGED <<chain, rec, dontGc, collection, client>>
  BY DEF pthread_create
<1>2. NewThread(id, "created", d, "starting") \in RegThr
  BY DEF NewThread, RegThr, ThrStates, ThrKinds
<1>3. /\ thr' \in [RegThread -> RegThr]
      /\ \A u \in RegThread : u # p /\ u # t => thr'[u] = thr[u]
      /\ thr'[p].pc = "creating" /\ thr'[p].arg = t /\ p # t
      /\ thr'[p].id = thr[p].id /\ thr'[p].me = thr[p].me /\ thr'[p].kind = thr[p].kind
      /\ thr'[p].detached = thr[p].detached /\ thr'[p].saved = thr[p].saved
      /\ thr'[t] = NewThread(id, "created", d, "starting")
  BY <1>1, <1>2 DEF GInv, GTypes, RegThr, ThrStates
<1>4. GThread(p)' /\ CalmStep(p)
  <2>1. GThread(p) /\ t # Null
    BY GNull DEF GInv, GThreads
  <2> QED
    BY <2>1, <1>1, <1>3 DEF GThread, CalmStep, Settled, Registers
<1>5. \A u \in RegThread : u # p /\ u # t => GThread(u)' /\ CalmStep(u)
  BY <1>3 DEF GInv, GThreads, GThread, CalmStep
<1>6. \A u \in RegThread : u # t => GThread(u)' /\ CalmStep(u)
  BY <1>4, <1>5
<1>7. "created" \in {"created", "foreign"} /\ "starting" \in {"starting", "out"}
  OBVIOUS
<1> QED
  BY <1>1, <1>3, <1>6, <1>7, ComesToBe

LEMMA ForeignKeeps ==
  ASSUME GInv, NEW t \in RegThread, NEW id \in Id, ForeignThread(t, id)
  PROVE  GInv'
<1>d. PICK d \in BOOLEAN : d = TRUE
  OBVIOUS
<1>1. /\ thr[t].pc = "none" /\ id \in FreeIds
      /\ "recycle" \in client \/ GC_lookup_thread(id) = Null
      /\ thr' = [thr EXCEPT ![t] = NewThread(id, "foreign", d, "out")]
      /\ UNCHANGED <<chain, rec, dontGc, collection, client>>
  BY <1>d DEF ForeignThread
<1>2. NewThread(id, "foreign", d, "out") \in RegThr
  BY DEF NewThread, RegThr, ThrStates, ThrKinds
<1>3. /\ thr' \in [RegThread -> RegThr] /\ \A u \in RegThread : u # t => thr'[u] = thr[u]
      /\ thr'[t] = NewThread(id, "foreign", d, "out")
  BY <1>1, <1>2 DEF GInv, GTypes
<1>4. \A u \in RegThread : u # t => GThread(u)' /\ CalmStep(u)
  BY <1>3 DEF GInv, GThreads, GThread, CalmStep
<1>5. GC_lookup_thread(id) = Null
  BY <1>1 DEF GInv, GTypes, Apart
<1>6. "foreign" \in {"created", "foreign"} /\ "out" \in {"starting", "out"}
  OBVIOUS
<1> QED
  BY <1>d, <1>1, <1>3, <1>4, <1>5, <1>6, ComesToBe

-----------------------------------------------------------------------------
\* The thread t is registered: it has the record x.
Takes(t, x) == thr' = [thr EXCEPT ![t].pc = "run", ![t].me = x]
LEMMA RunsWith ==
  ASSUME GInv, NEW t \in RegThread, thr[t].pc \in {"starting", "out"}, NEW x \in Rec,
         Takes(t, x)
  PROVE  /\ thr' \in [RegThread -> RegThr] /\ \A u \in RegThread : u # t => thr'[u] = thr[u]
         /\ thr'[t].pc = "run" /\ thr'[t].me = x
         /\ thr'[t].id = thr[t].id /\ thr'[t].kind = thr[t].kind
         /\ thr'[t].detached = thr[t].detached
         /\ thr'[t].saved = Null /\ thr[t].saved = Null /\ thr'[t].arg = Null
         /\ Living(t) /\ Living(t)' /\ thr[t].id \in Id
         /\ \A u \in RegThread : Living(u)' <=> Living(u)
         /\ \A u \in RegThread : thr'[u].saved = thr[u].saved /\ thr'[u].arg = thr[u].arg
         /\ GThreads' /\ GIds'
<1>1. /\ thr' \in [RegThread -> RegThr] /\ \A u \in RegThread : u # t => thr'[u] = thr[u]
      /\ thr'[t].pc = "run" /\ thr'[t].me = x
      /\ thr'[t].id = thr[t].id /\ thr'[t].kind = thr[t].kind
      /\ thr'[t].detached = thr[t].detached
      /\ thr'[t].saved = thr[t].saved /\ thr'[t].arg = thr[t].arg
  <2>1. thr \in [RegThread -> RegThr] /\ thr[t] \in RegThr /\ "run" \in ThrStates
    BY DEF GInv, GTypes, ThrStates
  <2>2. thr' = [thr EXCEPT ![t] = [thr[t] EXCEPT !.pc = "run", !.me = x]]
    BY DEF Takes
  <2>3. [thr[t] EXCEPT !.pc = "run", !.me = x] \in RegThr
    BY <2>1 DEF RegThr
  <2> QED
    BY <2>1, <2>2, <2>3 DEF RegThr
<1>2. GThread(t) /\ thr[t].saved = Null /\ thr[t].arg = Null
  BY DEF GInv, GThreads, GThread
<1>3. Living(t) /\ Living(t)' /\ \A u \in RegThread : Living(u)' <=> Living(u)
  BY <1>1 DEF Living
<1>4. thr[t].id \in Id
  BY <1>3, OneRecord
<1>5. GThread(t)'
  BY <1>1, <1>2, GNull DEF GThread, Registers
<1>6. \A u \in RegThread : u # t => GThread(u)'
  BY <1>1 DEF GInv, GThreads, GThread
<1>7. \A u \in RegThread : thr'[u].id = thr[u].id /\ thr'[u].saved = thr[u].saved /\ thr'[u].arg = thr[u].arg
  BY <1>1
<1>8. GIds'
  BY <1>3, <1>7 DEF GInv, GIds
<1> QED
  BY <1>1, <1>2, <1>3, <1>4, <1>5, <1>6, <1>7, <1>8 DEF GThreads

LEMMA NewRecordKeeps ==
  ASSUME GInv, NEW t \in RegThread, thr[t].pc \in {"starting", "out"}, NEW x \in Rec,
         NEW flags \in SUBSET {"DETACHED"},
         GC_register_my_thread_inner(t, x, flags),
         Takes(t, x), UNCHANGED <<dontGc, collection, client>>,
         \A r \in InTable : Living(rec[r].stack) => rec[r].id # thr[t].id,
         thr[t].kind = "foreign" => \A r \in InTable : rec[r].id # thr[t].id,
         thr[t].kind = "foreign" \/ thr[t].detached = TRUE => "DETACHED" \in flags,
         thr[t].kind # "foreign" /\ thr[t].detached = FALSE => "DETACHED" \notin flags,
         ~Joinable(t), thr[t].kind = "dtor" => "again" \in client
  PROVE  GInv'
<1>1. /\ thr' \in [RegThread -> RegThr] /\ \A u \in RegThread : u # t => thr'[u] = thr[u]
      /\ thr'[t].pc = "run" /\ thr'[t].me = x
      /\ thr'[t].id = thr[t].id /\ thr'[t].kind = thr[t].kind
      /\ thr'[t].detached = thr[t].detached
      /\ thr'[t].saved = Null /\ thr[t].saved = Null /\ thr'[t].arg = Null
      /\ Living(t) /\ Living(t)' /\ thr[t].id \in Id
      /\ \A u \in RegThread : Living(u)' <=> Living(u)
      /\ \A u \in RegThread : thr'[u].saved = thr[u].saved /\ thr'[u].arg = thr[u].arg
      /\ GThreads' /\ GIds'
  BY RunsWith
<1>2. /\ x \notin InTable /\ chain' = OnChain(thr[t].id, x)
      /\ rec' = [rec EXCEPT ![x] = [id |-> thr[t].id, flags |-> flags, stack |-> t]]
  BY DEF GC_register_my_thread_inner, NewRecord
<1>3. /\ rec' \in [Rec -> RegRec] /\ \A r \in Rec : r # x => rec'[r] = rec[r]
      /\ rec'[x].id = thr[t].id /\ rec'[x].flags = flags /\ rec'[x].stack = t
  <2>1. [id |-> thr[t].id, flags |-> flags, stack |-> t] \in RegRec
    BY <1>1 DEF RegRec, RegFlags
  <2> QED
    BY <2>1, <1>2 DEF GInv, GTypes
<1>4. /\ chain' \in [Chains -> Seq(Rec)] /\ GChains' /\ InTable' = InTable \cup {x}
      /\ GC_lookup_thread(thr[t].id)' = x
      /\ \A j \in Id : j # thr[t].id => GC_lookup_thread(j)' = GC_lookup_thread(j)
  BY <1>1, <1>2, <1>3, TableNew DEF GInv
<1>5. \A r \in InTable : /\ r \in Rec /\ r # x /\ rec'[r] = rec[r] /\ GRecord(r)
                         /\ rec[r].stack \in RegThread /\ rec[r].id \in Id
                         /\ rec[r].stack # t /\ thr'[rec[r].stack] = thr[rec[r].stack]
                         /\ rec[r].id = thr[rec[r].stack].id
  <2>1. ASSUME NEW r \in InTable
        PROVE  /\ r \in Rec /\ r # x /\ rec'[r] = rec[r] /\ GRecord(r)
               /\ rec[r].stack \in RegThread /\ rec[r].id \in Id
               /\ rec[r].id = thr[rec[r].stack].id
    BY <1>2, <1>3, OneRecord, ChainOf DEF GInv, GRecord
  <2> QED
    BY <2>1, <1>1
<1>6. GTypes'
  BY <1>1, <1>3, <1>4 DEF GInv, GTypes, Chains, Apart, collection
<1>7. GTable'
  <2>1. GRecord(x)'
    BY <1>1, <1>3, <1>4 DEF GRecord
  <2>2. ASSUME NEW r \in InTable PROVE GRecord(r)'
    <3>1. Living(rec[r].stack) => GC_lookup_thread(rec[r].id)' = GC_lookup_thread(rec[r].id)
      BY <1>4, <1>5
    <3> QED
      BY <3>1, <1>1, <1>5 DEF GRecord
  <2> QED
    BY <2>1, <2>2, <1>4 DEF GTable
<1>8. GUnused'
  BY <1>3, <1>4 DEF GUnused, GInv, Unused
<1>9. GMine'
  <2>1. ASSUME NEW u \in RegThread, thr'[u].me # Null
        PROVE  /\ thr'[u].me \in InTable' /\ rec'[thr'[u].me].stack = u
               /\ "FINISHED" \notin rec'[thr'[u].me].flags
    <3>1. CASE u = t
      BY <3>1, <1>1, <1>3, <1>4
    <3>2. CASE u # t
      BY <3>2, <2>1, <1>1, <1>4, <1>5 DEF GInv, GMine
    <3> QED
      BY <3>1, <3>2
  <2> QED
    BY <2>1 DEF GMine
<1>10. \A u \in RegThread : u # t => (Joinable(u)' <=> Joinable(u))
  BY <1>1 DEF Joinable
<1>11. GJoin'
  <2>1. ASSUME NEW u \in RegThread, Joinable(u)'
        PROVE  \E r \in InTable' : rec'[r].stack = u /\ "DETACHED" \notin rec'[r].flags
    <3>1. CASE u = t
      <4>1. thr[t].kind # "foreign" /\ thr[t].detached = FALSE
        BY <3>1, <2>1, <1>1 DEF Joinable
      <4> QED
        BY <4>1, <3>1, <1>3, <1>4
    <3>2. CASE u # t
      BY <3>2, <2>1, <1>4, <1>5, <1>10 DEF GInv, GJoin
    <3> QED
      BY <3>1, <3>2
  <2> QED
    BY <2>1 DEF GJoin
<1>12. GForeign'
  <2>1. ASSUME NEW u \in RegThread, NEW r \in InTable', thr'[u].kind = "foreign", Living(u)',
               rec'[r].id = thr'[u].id
        PROVE  rec'[r].stack = u /\ "DETACHED" \in rec'[r].flags
    <3>1. CASE r = x
      <4>1. u = t
        BY <3>1, <2>1, <1>1, <1>3 DEF GInv, GIds
      <4> QED
        BY <4>1, <3>1, <2>1, <1>1, <1>3
    <3>2. CASE r # x /\ u = t
      BY <3>2, <2>1, <1>1, <1>4, <1>5
    <3>3. CASE r # x /\ u # t
      BY <3>3, <2>1, <1>1, <1>4, <1>5 DEF GInv, GForeign
    <3> QED
      BY <3>1, <3>2, <3>3
  <2> QED
    BY <2>1 DEF GForeign
<1>13. GSaved'
  <2>1. ASSUME NEW p \in RegThread, thr'[p].saved # Null PROVE GSavedOf(p)'
    <3>1. GSavedOf(p) /\ thr'[p].saved = thr[p].saved /\ thr'[p].arg = thr[p].arg
      BY <2>1, <1>1 DEF GInv, GSaved
    <3>2. PICK y \in InTable : y = thr[p].saved
      BY <3>1 DEF GSavedOf
    <3>3. thr[p].arg # Null => thr[p].arg \in RegThread /\ thr[p].arg # t
      BY <3>1, GFlat DEF GInv, GSavedOf
    <3> QED
      BY <3>1, <3>2, <3>3, <1>4, <1>5, <1>10 DEF GSavedOf
  <2>2. \A p, q \in RegThread :
          thr'[p].saved # Null /\ thr'[p].saved = thr'[q].saved => p = q
    BY <1>1 DEF GInv, GSaved
  <2> QED
    BY <2>1, <2>2 DEF GSaved
<1>14. GKept'
  <2>1. SUFFICES ASSUME "again" \notin client PROVE GKept'
    BY DEF GKept
  <2>2. \A r \in InTable : Keeps(r)' <=> Keeps(r)
    BY <1>1, <1>5 DEF Keeps
  <2>3. ASSUME NEW r \in InTable'
        PROVE  /\ "FINISHED" \in rec'[r].flags => thr'[rec'[r].stack].pc \in {"out", "dead"} \/ Keeps(r)'
               /\ thr'[rec'[r].stack].detached = TRUE => "DETACHED" \in rec'[r].flags \/ Keeps(r)'
    <3>1. CASE r = x
      BY <3>1, <1>1, <1>3
    <3>2. CASE r # x
      <4>1. r \in InTable
        BY <3>2, <1>4
      <4> QED
        BY <4>1, <2>1, <2>2, <1>5 DEF GInv, GKept
    <3> QED
      BY <3>1, <3>2
  <2>4. ASSUME NEW u \in RegThread
        PROVE  /\ thr'[u].pc = "joined" => thr'[rec'[thr'[u].saved].stack].pc = "gone"
               /\ thr'[u].kind = "dtor" => thr'[u].pc \in {"out", "dead", "gone"}
    <3>1. CASE u = t
      BY <3>1, <2>1, <1>1
    <3>2. CASE u # t
      <4>1. thr[u].pc = "joined" => thr[u].saved \in InTable
        BY DEF GInv, GSaved, GThreads, GThread, GSavedOf
      <4> QED
        BY <4>1, <3>2, <2>1, <1>1, <1>5 DEF GInv, GKept
    <3> QED
      BY <3>1, <3>2
  <2> QED
    BY <2>3, <2>4 DEF GKept
<1>15. GDont'
  <2>1. ASSUME NEW r PROVE r \in Disabling' <=> r \in Disabling
    BY <1>3, <1>4, <1>5 DEF Disabling
  <2>2. Disabling' = Disabling
    BY <2>1
  <2>3. "DISABLED_GC" \notin rec'[x].flags
    BY <1>3
  <2>4. "exit" \notin client /\ "cancel" \notin client =>
          \A r \in InTable' : "DISABLED_GC" \notin rec'[r].flags
    BY <2>3, <1>4, <1>5 DEF GInv, GDont
  <2> QED
    BY <2>2, <2>4 DEF GInv, GDont
<1> QED
  BY <1>1, <1>4, <1>6, <1>7, <1>8, <1>9, <1>11, <1>12, <1>13, <1>14, <1>15 DEF GInv

LEMMA StartRtnKeeps ==
  ASSUME GInv, NEW t \in RegThread, GC_start_rtn_prepare_thread(t)
  PROVE  GInv'
<1>1. thr[t].pc = "starting" /\ UNCHANGED <<dontGc, collection, client>>
  BY DEF GC_start_rtn_prepare_thread
<1>2. PICK flags : flags = IF thr[t].detached THEN {"DETACHED"} ELSE {}
  OBVIOUS
<1>3. PICK x \in Rec : /\ GC_register_my_thread_inner(t, x, flags)
                       /\ thr' = [thr EXCEPT ![t].pc = "run", ![t].me = x]
  BY <1>2 DEF GC_start_rtn_prepare_thread
<1>4. thr[t].kind = "created" /\ Living(t) /\ ~Joinable(t) /\ thr[t].detached \in BOOLEAN
  BY <1>1, GFlat DEF GInv, GThreads, GThread, Living, Joinable
<1>5. ASSUME NEW r \in InTable, Living(rec[r].stack) PROVE rec[r].id # thr[t].id
  <2>1. /\ rec[r].stack \in RegThread /\ thr[rec[r].stack].pc # "starting"
        /\ rec[r].id = thr[rec[r].stack].id
    BY OneRecord DEF GRecord
  <2> QED
    BY <2>1, <1>1, <1>4, <1>5 DEF GInv, GIds
<1>6. /\ flags \in SUBSET {"DETACHED"} /\ (thr[t].detached = TRUE => "DETACHED" \in flags)
      /\ thr[t].detached = FALSE => "DETACHED" \notin flags
  BY <1>2, <1>4
<1> QED
  BY <1>1, <1>3, <1>4, <1>5, <1>6, NewRecordKeeps DEF Takes

Reuses(x, t) == rec' = [rec EXCEPT ![x].flags = @ \ {"FINISHED"}, ![x].stack = t]
\* A thread that registers from the destructor of a key, and whose record is
\* still there.
LEMMA AgainKeeps ==
  ASSUME GInv, NEW t \in RegThread, thr[t].pc = "out", "again" \in client,
         thr[t].kind # "foreign",
         NEW x \in InTable, x = GC_lookup_thread(thr[t].id), "FINISHED" \in rec[x].flags,
         rec[x].id = thr[t].id,
         Reuses(x, t), Takes(t, x), UNCHANGED <<chain, dontGc, collection, client>>
  PROVE  GInv'
<1>0. x \in Rec /\ GRecord(x)
  BY OneRecord
<1>1. /\ thr' \in [RegThread -> RegThr] /\ \A u \in RegThread : u # t => thr'[u] = thr[u]
      /\ thr'[t].pc = "run" /\ thr'[t].me = x
      /\ thr'[t].id = thr[t].id /\ thr'[t].kind = thr[t].kind
      /\ thr'[t].detached = thr[t].detached
      /\ thr'[t].saved = Null /\ thr[t].saved = Null /\ thr'[t].arg = Null
      /\ Living(t) /\ Living(t)' /\ thr[t].id \in Id
      /\ \A u \in RegThread : Living(u)' <=> Living(u)
      /\ \A u \in RegThread : thr'[u].saved = thr[u].saved /\ thr'[u].arg = thr[u].arg
      /\ GThreads' /\ GIds'
  BY <1>0, RunsWith
<1>2. rec[x] \in RegRec /\ rec[x].flags \subseteq RegFlags
  BY <1>0, GFlat DEF GInv
<1>3. /\ rec' \in [Rec -> RegRec] /\ \A r \in Rec : r # x => rec'[r] = rec[r]
      /\ rec'[x].id = rec[x].id /\ rec'[x].flags = rec[x].flags \ {"FINISHED"}
      /\ rec'[x].stack = t
  <2>1. rec \in [Rec -> RegRec] /\ rec[x].flags \ {"FINISHED"} \in SUBSET RegFlags
    BY <1>2 DEF GInv, GTypes
  <2>2. rec' = [rec EXCEPT ![x] = [rec[x] EXCEPT !.flags = rec[x].flags \ {"FINISHED"}, !.stack = t]]
    BY DEF Reuses
  <2>3. [rec[x] EXCEPT !.flags = rec[x].flags \ {"FINISHED"}, !.stack = t] \in RegRec
    BY <2>1, <1>2 DEF RegRec
  <2> QED
    BY <2>1, <2>2, <2>3, <1>0, <1>2 DEF RegRec
<1>4. /\ chain' \in [Chains -> Seq(Rec)] /\ GChains' /\ InTable' = InTable
      /\ \A j \in Id : GC_lookup_thread(j)' = GC_lookup_thread(j)
  <2>1. \A r \in Rec : rec'[r].id = rec[r].id
    BY <1>3
  <2> QED
    BY <2>1, TableSame DEF GInv
<1>5. \A r \in InTable : /\ r \in Rec /\ GRecord(r)
                         /\ rec[r].stack \in RegThread /\ rec[r].id \in Id
                         /\ r # x => /\ rec[r].stack # t /\ rec'[r] = rec[r]
                                     /\ thr'[rec[r].stack] = thr[rec[r].stack]
  <2>1. ASSUME NEW r \in InTable
        PROVE  /\ r \in Rec /\ GRecord(r)
               /\ rec[r].stack \in RegThread /\ rec[r].id \in Id
               /\ rec[r].stack = t => r = x
    BY <1>1, OneRecord, ChainOf DEF GInv, GRecord
  <2> QED
    BY <2>1, <1>1, <1>3
<1>6. GTypes'
  BY <1>1, <1>3, <1>4 DEF GInv, GTypes, Chains, Apart, collection
<1>d. "DETACHED" \notin rec[x].flags /\ "DETACHED" \notin rec'[x].flags
  <2>1. "DETACHED" \notin rec[x].flags
    BY <1>0, Zenon DEF GRecord
  <2> QED
    BY <2>1, <1>3
<1>7. GTable'
  <2>1. GRecord(x)'
    BY <1>1, <1>3, <1>4, <1>d DEF GRecord
  <2>2. ASSUME NEW r \in InTable, r # x PROVE GRecord(r)'
    BY <2>2, <1>1, <1>4, <1>5 DEF GRecord
  <2> QED
    BY <2>1, <2>2, <1>4 DEF GTable
<1>8. GUnused'
  BY <1>3, <1>4 DEF GUnused, GInv, Unused
<1>9. GMine'
  <2>1. ASSUME NEW u \in RegThread, thr'[u].me # Null
        PROVE  /\ thr'[u].me \in InTable' /\ rec'[thr'[u].me].stack = u
               /\ "FINISHED" \notin rec'[thr'[u].me].flags
    <3>1. CASE u = t
      BY <3>1, <1>1, <1>3, <1>4
    <3>2. CASE u # t
      <4>1. /\ thr[u].me \in InTable /\ rec[thr[u].me].stack = u
            /\ "FINISHED" \notin rec[thr[u].me].flags /\ thr'[u].me = thr[u].me
        BY <3>2, <2>1, <1>1 DEF GInv, GMine
      <4> QED
        BY <4>1, <1>4, <1>5
    <3> QED
      BY <3>1, <3>2
  <2> QED
    BY <2>1 DEF GMine
<1>10. \A u \in RegThread : Joinable(u)' <=> Joinable(u)
  BY <1>1 DEF Joinable
\* Whoever lives and has the id of the record is the thread itself.
<1>o. ASSUME NEW u \in RegThread, Living(u), rec[x].stack = u PROVE u = t
  <2>1. thr[u].id = thr[t].id
    BY <1>o, <1>0 DEF GRecord
  <2> QED
    BY <2>1, <1>o, <1>1 DEF GInv, GIds
<1>11. GJoin'
  <2>1. ASSUME NEW u \in RegThread, Joinable(u)
        PROVE  \E r \in InTable' : rec'[r].stack = u /\ "DETACHED" \notin rec'[r].flags
    <3>1. PICK r \in InTable : rec[r].stack = u /\ "DETACHED" \notin rec[r].flags /\ Living(u)
      BY <2>1, JoinableIs
    <3>2. CASE r = x
      BY <3>1, <3>2, <1>o, <1>3, <1>4, <1>d
    <3>3. CASE r # x
      BY <3>1, <3>3, <1>4, <1>5
    <3> QED
      BY <3>2, <3>3
  <2> QED
    BY <2>1, <1>10 DEF GJoin
<1>12. GForeign'
  <2>1. ASSUME NEW u \in RegThread, NEW r \in InTable, thr'[u].kind = "foreign", Living(u)',
               rec'[r].id = thr'[u].id
        PROVE  rec'[r].stack = u /\ "DETACHED" \in rec'[r].flags
    <3>0. u # t
      BY <2>1, <1>1
    <3>1. CASE r = x
      <4>1. u = t
        BY <3>1, <2>1, <3>0, <1>1, <1>3 DEF GInv, GIds
      <4> QED
        BY <4>1, <3>0
    <3>2. CASE r # x
      BY <3>2, <3>0, <2>1, <1>1, <1>5 DEF GInv, GForeign
    <3> QED
      BY <3>1, <3>2
  <2> QED
    BY <2>1, <1>4 DEF GForeign
<1>13. GSaved'
  <2>1. ASSUME NEW p \in RegThread, thr'[p].saved # Null PROVE GSavedOf(p)'
    <3>1. GSavedOf(p) /\ thr'[p].saved = thr[p].saved /\ thr'[p].arg = thr[p].arg
      BY <2>1, <1>1 DEF GInv, GSaved
    <3>2. PICK y \in InTable : y = thr[p].saved
      BY <3>1 DEF GSavedOf
    <3>3. thr[p].arg # Null => thr[p].arg \in RegThread /\ Joinable(thr[p].arg) /\ Living(thr[p].arg)
      BY <3>1, GFlat DEF GInv, GSavedOf, Joinable, Living
    <3>4. CASE y # x
      <4>1. rec'[y] = rec[y] /\ thr'[rec[y].stack] = thr[rec[y].stack]
        BY <3>4, <1>5
      <4> QED
        BY <4>1, <3>1, <3>2, <3>3, <1>4, <1>10 DEF GSavedOf
    <3>5. CASE y = x /\ thr[p].arg # Null
      <4>1. thr[p].arg = t
        BY <3>1, <3>2, <3>3, <3>5, <1>o DEF GSavedOf
      <4> QED
        BY <4>1, <3>1, <3>2, <3>3, <3>5, <1>3, <1>4, <1>10, <1>d DEF GSavedOf
    <3>6. CASE y = x /\ thr[p].arg = Null
      <4>1. thr[t].detached = TRUE
        <5>1. SUFFICES ASSUME thr[t].detached = FALSE PROVE FALSE
          BY GFlat DEF GInv
        <5>2. Joinable(t)
          BY <5>1 DEF Joinable
        <5>3. PICK r \in InTable : GC_lookup_thread(thr[t].id) = r /\ rec[r].stack = t
          BY <5>2, JoinableIs
        <5>4. rec[x].stack = t
          BY <5>3
        <5> QED
          BY <5>1, <5>4, <3>1, <3>2, <3>6 DEF GSavedOf
      <4> QED
        BY <4>1, <3>1, <3>2, <3>6, <1>1, <1>3, <1>4, <1>d, GNull DEF GSavedOf
    <3> QED
      BY <3>4, <3>5, <3>6
  <2>2. \A p, q \in RegThread :
          thr'[p].saved # Null /\ thr'[p].saved = thr'[q].saved => p = q
    BY <1>1 DEF GInv, GSaved
  <2> QED
    BY <2>1, <2>2 DEF GSaved
<1>14. GKept'
  BY DEF GKept
<1>15. GDont'
  <2>0. \A r \in InTable : "DISABLED_GC" \notin rec[r].flags
    BY DEF GInv, GTypes, Apart, GDont
  <2>1. \A r \in InTable : "DISABLED_GC" \notin rec'[r].flags
    BY <2>0, <1>3, <1>5
  <2>2. Disabling = {} /\ Disabling' = {}
    BY <2>0, <2>1, <1>4 DEF Disabling
  <2> QED
    BY <2>1, <2>2, <1>4 DEF GInv, GDont
<1> QED
  BY <1>1, <1>4, <1>6, <1>7, <1>8, <1>9, <1>11, <1>12, <1>13, <1>14, <1>15 DEF GInv

LEMMA RegisterMyThreadKeeps ==
  ASSUME GInv, NEW t \in RegThread, GC_register_my_thread(t)
  PROVE  GInv'
<1>1. /\ thr[t].pc = "out" /\ (thr[t].kind # "foreign" => "again" \in client)
      /\ UNCHANGED <<dontGc, collection, client>>
  BY DEF GC_register_my_thread
<1>2. Living(t) /\ thr[t].id \in Id /\ thr[t].kind # "created" /\ thr[t].detached \in BOOLEAN
  BY <1>1, OneRecord, GFlat DEF GInv, GThreads, GThread, Living
<1>3. CASE \E r \in Rec :
          /\ GC_lookup_thread(thr[t].id) = Null
          /\ GC_register_my_thread_inner(t, r, {"DETACHED"})
          /\ thr' = [thr EXCEPT ![t].pc = "run", ![t].me = r]
  <2>1. PICK x \in Rec :
          /\ GC_lookup_thread(thr[t].id) = Null
          /\ GC_register_my_thread_inner(t, x, {"DETACHED"})
          /\ thr' = [thr EXCEPT ![t].pc = "run", ![t].me = x]
    BY <1>3
  <2>2. \A r \in InTable : rec[r].id # thr[t].id
    BY <2>1, <1>2, LookupIs DEF GInv
  <2>3. ~Joinable(t)
    <3>1. SUFFICES ASSUME Joinable(t) PROVE FALSE
      OBVIOUS
    <3>2. PICK r \in InTable : r \in Rec /\ GC_lookup_thread(thr[t].id) = r
      BY <3>1, JoinableIs
    <3> QED
      BY <3>2, <2>1, GNull
  <2>4. ~(thr[t].kind # "foreign" /\ thr[t].detached = FALSE)
    BY <2>3, <1>1 DEF Joinable
  <2>5. PICK flags \in SUBSET {"DETACHED"} : flags = {"DETACHED"}
    OBVIOUS
  <2> QED
    BY <2>1, <2>2, <2>3, <2>4, <2>5, <1>1, NewRecordKeeps DEF Takes
<1>4. CASE \E r \in {GC_lookup_thread(thr[t].id)} :
          /\ r # Null /\ KNOWN_FINISHED(r)
          /\ rec' = [rec EXCEPT ![r].flags = @ \ {"FINISHED"}, ![r].stack = t]
          /\ thr' = [thr EXCEPT ![t].pc = "run", ![t].me = r]
          /\ UNCHANGED chain
  <2>1. PICK x : /\ x = GC_lookup_thread(thr[t].id)
                 /\ x # Null /\ "FINISHED" \in rec[x].flags
                 /\ rec' = [rec EXCEPT ![x].flags = @ \ {"FINISHED"}, ![x].stack = t]
                 /\ thr' = [thr EXCEPT ![t].pc = "run", ![t].me = x]
                 /\ UNCHANGED chain
    BY <1>4 DEF KNOWN_FINISHED
  <2>2. x \in InTable /\ rec[x].id = thr[t].id
    BY <2>1, <1>2, LookupIs DEF GInv
  <2>3. thr[t].kind # "foreign"
    <3>1. "DETACHED" \notin rec[x].flags
      BY <2>1, <2>2, OneRecord DEF GRecord
    <3> QED
      BY <3>1, <2>2, <1>2 DEF GInv, GForeign
  <2> QED
    BY <2>1, <2>2, <2>3, <1>1, AgainKeeps DEF Takes, Reuses
<1> QED
  BY <1>3, <1>4 DEF GC_register_my_thread

-----------------------------------------------------------------------------
\* Steps of the threads that leave the table alone.
LEMMA ThreadsOnly ==
  ASSUME GInv, UNCHANGED <<chain, rec, dontGc, collection, client>>,
         thr' \in [RegThread -> RegThr], GThreads', GSaved', GKept',
         \A u \in RegThread :
           /\ thr'[u].id = thr[u].id /\ thr'[u].me = thr[u].me /\ thr'[u].kind = thr[u].kind
           /\ thr'[u].pc \in {"none", "starting"} <=> thr[u].pc \in {"none", "starting"}
           /\ (Living(u)' => Living(u)) /\ (Joinable(u)' => Joinable(u))
  PROVE  GInv'
<1>1. GTypes'
  BY DEF GInv, GTypes, Chains, Apart, collection
<1>2. /\ GChains' /\ InTable' = InTable
      /\ \A j \in Id : GC_lookup_thread(j)' = GC_lookup_thread(j)
  BY TableSame DEF GInv
<1>3. GIds'
  BY DEF GInv, GIds
<1>4. \A r \in InTable : /\ GRecord(r) /\ rec[r].id \in Id /\ rec[r].stack \in RegThread
                         /\ thr'[rec[r].stack].id = thr[rec[r].stack].id
                         /\ thr'[rec[r].stack].me = thr[rec[r].stack].me
  BY OneRecord, ChainOf DEF GInv, GRecord
<1>5. GTable'
  <2>1. ASSUME NEW r \in InTable PROVE GRecord(r)'
    BY <1>2, <1>4 DEF GRecord
  <2> QED
    BY <2>1, <1>2 DEF GTable
<1>6. GUnused'
  BY <1>2 DEF GInv, GUnused, Unused
<1>7. GMine'
  BY <1>2 DEF GInv, GMine
<1>8. GJoin'
  BY <1>2 DEF GInv, GJoin
<1>9. GForeign'
  BY <1>2 DEF GInv, GForeign
<1>10. GDont'
  <2>1. Disabling' = Disabling
    BY <1>2 DEF Disabling
  <2> QED
    BY <2>1, <1>2 DEF GInv, GDont
<1> QED
  BY <1>1, <1>2, <1>3, <1>5, <1>6, <1>7, <1>8, <1>9, <1>10 DEF GInv

LEMMA TerminateKeeps ==
  ASSUME GInv, NEW t \in RegThread, Terminate(t)
  PROVE  GInv'
<1>1. thr[t].pc = "out" /\ UNCHANGED <<chain, rec, dontGc, collection, client>>
  BY DEF Terminate
<1>2. PICK q \in {"gone", "dead"} : /\ thr' = [thr EXCEPT ![t].pc = q]
                                    /\ (q = "gone" => thr[t].detached = TRUE)
                                    /\ (q = "dead" => thr[t].detached = FALSE)
  <2>1. thr[t].detached \in BOOLEAN
    BY GFlat DEF GInv
  <2>2. CASE thr[t].detached = TRUE
    BY <2>2 DEF Terminate
  <2>3. CASE thr[t].detached = FALSE
    BY <2>3 DEF Terminate
  <2> QED
    BY <2>1, <2>2, <2>3
<1>3. /\ thr' \in [RegThread -> RegThr] /\ \A u \in RegThread : u # t => thr'[u] = thr[u]
      /\ thr'[t].pc = q /\ thr'[t].id = thr[t].id /\ thr'[t].me = thr[t].me
      /\ thr'[t].kind = thr[t].kind /\ thr'[t].detached = thr[t].detached
      /\ thr'[t].saved = thr[t].saved /\ thr'[t].arg = thr[t].arg
  <2>1. thr \in [RegThread -> RegThr] /\ thr[t] \in RegThr /\ q \in ThrStates
    BY DEF GInv, GTypes, ThrStates
  <2>2. thr' = [thr EXCEPT ![t] = [thr[t] EXCEPT !.pc = q]]
    BY <1>2
  <2>3. [thr[t] EXCEPT !.pc = q] \in RegThr
    BY <2>1 DEF RegThr
  <2> QED
    BY <2>1, <2>2, <2>3 DEF RegThr
<1>4. GThreads'
  <2>1. GThread(t)'
    <3>1. GThread(t)
      BY DEF GInv, GThreads
    <3> QED
      BY <3>1, <1>1, <1>2, <1>3 DEF GThread, Registers
  <2>2. \A u \in RegThread : u # t => GThread(u)'
    BY <1>3 DEF GInv, GThreads, GThread
  <2> QED
    BY <2>1, <2>2 DEF GThreads
<1>5. \A u \in RegThread :
        /\ thr'[u].id = thr[u].id /\ thr'[u].me = thr[u].me /\ thr'[u].kind = thr[u].kind
        /\ thr'[u].detached = thr[u].detached
        /\ thr'[u].saved = thr[u].saved /\ thr'[u].arg = thr[u].arg
        /\ thr'[u].pc \in {"none", "starting"} <=> thr[u].pc \in {"none", "starting"}
        /\ thr[u].pc = "gone" => thr'[u].pc = "gone"
        /\ (Living(u)' => Living(u)) /\ (Joinable(u)' <=> Joinable(u))
  BY <1>1, <1>2, <1>3 DEF Living, Joinable
<1>6. InTable' = InTable /\ \A r \in InTable : GRecord(r) /\ rec[r].stack \in RegThread
  BY <1>1, OneRecord DEF GRecord, InTable, Chains
<1>7. GSaved'
  <2>1. ASSUME NEW p \in RegThread, thr'[p].saved # Null PROVE GSavedOf(p)'
    <3>1. GSavedOf(p)
      BY <2>1, <1>5 DEF GInv, GSaved
    <3>2. thr[p].arg # Null => thr[p].arg \in RegThread
      BY GFlat DEF GInv
    <3> QED
      BY <3>1, <3>2, <1>1, <1>5, <1>6 DEF GSavedOf
  <2> QED
    BY <2>1, <1>5 DEF GInv, GSaved
<1>8. GKept'
  <2>1. SUFFICES ASSUME "again" \notin client PROVE GKept'
    BY <1>1 DEF GKept
  <2>2. \A r \in InTable : Keeps(r)' <=> Keeps(r)
    BY <1>1, <1>5, <1>6 DEF Keeps
  <2>3. ASSUME NEW r \in InTable
        PROVE  /\ "FINISHED" \in rec[r].flags => thr'[rec[r].stack].pc \in {"out", "dead"} \/ Keeps(r)'
               /\ thr'[rec[r].stack].detached = TRUE => "DETACHED" \in rec[r].flags \/ Keeps(r)'
    <3>1. /\ "FINISHED" \in rec[r].flags => thr[rec[r].stack].pc \in {"out", "dead"} \/ Keeps(r)
          /\ thr[rec[r].stack].detached = TRUE => "DETACHED" \in rec[r].flags \/ Keeps(r)
          /\ "FINISHED" \in rec[r].flags => "DETACHED" \notin rec[r].flags
      BY <2>1, <1>6 DEF GInv, GKept, GRecord
    <3>2. CASE rec[r].stack = t
      BY <3>1, <3>2, <2>2, <1>2, <1>3
    <3>3. CASE rec[r].stack # t
      BY <3>1, <3>3, <2>2, <1>3, <1>6
    <3> QED
      BY <3>2, <3>3
  <2>4. ASSUME NEW u \in RegThread
        PROVE  /\ thr'[u].pc = "joined" => thr'[rec[thr'[u].saved].stack].pc = "gone"
               /\ thr'[u].kind = "dtor" => thr'[u].pc \in {"out", "dead", "gone"}
    <3>1. thr'[u].pc = "joined" => thr[u].pc = "joined" /\ thr[u].saved \in InTable
      BY <1>2, <1>3 DEF GInv, GSaved, GThreads, GThread, GSavedOf
    <3>2. thr[u].kind = "dtor" => thr[u].pc \in {"out", "dead", "gone"}
      BY <2>1 DEF GInv, GKept
    <3>3. thr[u].kind = "dtor" => thr'[u].pc \in {"out", "dead", "gone"}
      BY <3>2, <1>2, <1>3
    <3>4. thr[u].pc = "joined" => thr[rec[thr[u].saved].stack].pc = "gone"
      BY <2>1 DEF GInv, GKept
    <3> QED
      BY <3>1, <3>3, <3>4, <1>5, <1>6
  <2> QED
    BY <2>3, <2>4, <1>1, <1>6 DEF GKept
<1> QED
  BY <1>1, <1>3, <1>4, <1>5, <1>7, <1>8, ThreadsOnly

-----------------------------------------------------------------------------
Begins(p, t, q, x) == thr' = [thr EXCEPT ![p].pc = q, ![p].arg = t, ![p].saved = x]
LEMMA BeginKeeps ==
  ASSUME GInv, NEW p \in RegThread, NEW t \in RegThread, NEW q \in {"joining", "detaching"},
         Begin(p, t, q)
  PROVE  GInv'
<1>1. /\ thr[p].pc = "run" /\ p # t /\ thr[t].kind # "foreign" /\ ~thr[t].detached
      /\ ~Claimed(t) /\ thr[t].pc \notin {"none", "starting", "gone"}
      /\ UNCHANGED <<chain, rec, dontGc, collection, client>>
      /\ Begins(p, t, q, GC_lookup_thread(thr[t].id))
  BY DEF Begin, Begins
<1>2. Joinable(t)
  BY <1>1, GFlat DEF Joinable, GInv
<1>3. PICK x \in InTable : /\ x \in Rec /\ GC_lookup_thread(thr[t].id) = x /\ rec[x].stack = t
                           /\ "DETACHED" \notin rec[x].flags /\ Living(t)
  BY <1>2, JoinableIs
<1>4. /\ thr' \in [RegThread -> RegThr] /\ \A u \in RegThread : u # p => thr'[u] = thr[u]
      /\ thr'[p].pc = q /\ thr'[p].id = thr[p].id /\ thr'[p].me = thr[p].me
      /\ thr'[p].kind = thr[p].kind /\ thr'[p].detached = thr[p].detached
      /\ thr'[p].saved = x /\ thr'[p].arg = t
  <2>1. thr \in [RegThread -> RegThr] /\ thr[p] \in RegThr /\ q \in ThrStates
    BY DEF GInv, GTypes, ThrStates
  <2>2. thr' = [thr EXCEPT ![p] = [thr[p] EXCEPT !.pc = q, !.arg = t, !.saved = x]]
    BY <1>1, <1>3 DEF Begins
  <2>3. [thr[p] EXCEPT !.pc = q, !.arg = t, !.saved = x] \in RegThr
    BY <2>1, <1>3 DEF RegThr
  <2> QED
    BY <2>1, <2>2, <2>3 DEF RegThr
<1>n. t # Null /\ x # Null
  BY <1>3, GNull
<1>5. GThreads'
  <2>1. GThread(p)'
    <3>1. GThread(p)
      BY DEF GInv, GThreads
    <3> QED
      BY <3>1, <1>1, <1>4, <1>n DEF GThread, Registers
  <2>2. \A u \in RegThread : u # p => GThread(u)'
    BY <1>4 DEF GInv, GThreads, GThread
  <2> QED
    BY <2>1, <2>2 DEF GThreads
<1>6. \A u \in RegThread :
        /\ thr'[u].id = thr[u].id /\ thr'[u].me = thr[u].me /\ thr'[u].kind = thr[u].kind
        /\ thr'[u].detached = thr[u].detached
        /\ thr'[u].pc \in {"none", "starting"} <=> thr[u].pc \in {"none", "starting"}
        /\ thr[u].pc = "gone" => thr'[u].pc = "gone"
        /\ thr[u].pc \in {"out", "dead"} => thr'[u].pc \in {"out", "dead"}
        /\ (Living(u)' => Living(u)) /\ (Joinable(u)' <=> Joinable(u))
  BY <1>1, <1>4 DEF Living, Joinable
<1>7. InTable' = InTable /\ \A r \in InTable : GRecord(r) /\ rec[r].stack \in RegThread
  BY <1>1, OneRecord DEF GRecord, InTable, Chains
<1>s. thr[p].saved = Null
  BY <1>1 DEF GInv, GThreads, GThread
<1>8. GSaved'
  <2>1. ASSUME NEW v \in RegThread, thr'[v].saved # Null PROVE GSavedOf(v)'
    <3>1. CASE v = p
      BY <3>1, <1>1, <1>2, <1>3, <1>4, <1>6, <1>7, <1>n DEF GSavedOf
    <3>2. CASE v # p
      <4>1. GSavedOf(v) /\ thr'[v] = thr[v]
        BY <3>2, <2>1, <1>4 DEF GInv, GSaved
      <4>2. thr[v].arg # Null => thr[v].arg \in RegThread
        BY GFlat DEF GInv
      <4> QED
        BY <4>1, <4>2, <1>1, <1>6, <1>7 DEF GSavedOf
    <3> QED
      BY <3>1, <3>2
  \* Nobody else has the record: he would have claimed the thread, or the
  \* thread could not be joined.
  <2>2. ASSUME NEW v \in RegThread, v # p, thr[v].saved = x PROVE FALSE
    <3>1. GSavedOf(v) /\ thr[v].pc \in {"joining", "joined", "detaching", "detached"}
      BY <2>2, <1>n DEF GInv, GSaved, GThreads, GThread
    <3>2. CASE thr[v].arg # Null
      <4>1. thr[v].arg = t /\ thr[v].pc # "creating"
        BY <3>1, <3>2, <2>2, <1>3 DEF GSavedOf
      <4> QED
        BY <4>1, <1>1 DEF Claimed
    <3>3. CASE thr[v].arg = Null
      BY <3>1, <3>3, <2>2, <1>2, <1>3 DEF GSavedOf, Joinable
    <3> QED
      BY <3>2, <3>3
  <2>3. ASSUME NEW v \in RegThread, NEW w \in RegThread, thr'[v].saved # Null,
               thr'[v].saved = thr'[w].saved
        PROVE  v = w
    <3>1. CASE v = p \/ w = p
      BY <3>1, <2>2, <2>3, <1>4
    <3>2. CASE v # p /\ w # p
      BY <3>2, <2>3, <1>4 DEF GInv, GSaved
    <3> QED
      BY <3>1, <3>2
  <2> QED
    BY <2>1, <2>3 DEF GSaved
<1>9. GKept'
  <2>1. SUFFICES ASSUME "again" \notin client PROVE GKept'
    BY <1>1 DEF GKept
  <2>2. ASSUME NEW r \in InTable, Keeps(r) PROVE Keeps(r)'
    <3>1. r # Null
      BY OneRecord, GNull
    <3>2. \A v \in RegThread : thr[v].saved = r => thr'[v].saved = r
      BY <3>1, <1>s, <1>4
    <3> QED
      BY <3>2, <2>2, <1>1, <1>6, <1>7 DEF Keeps
  <2>3. ASSUME NEW r \in InTable
        PROVE  /\ "FINISHED" \in rec[r].flags => thr'[rec[r].stack].pc \in {"out", "dead"} \/ Keeps(r)'
               /\ thr'[rec[r].stack].detached = TRUE => "DETACHED" \in rec[r].flags \/ Keeps(r)'
    <3>1. /\ "FINISHED" \in rec[r].flags => thr[rec[r].stack].pc \in {"out", "dead"} \/ Keeps(r)
          /\ thr[rec[r].stack].detached = TRUE => "DETACHED" \in rec[r].flags \/ Keeps(r)
      BY <2>1 DEF GInv, GKept
    <3> QED
      BY <3>1, <2>2, <1>6, <1>7
  <2>4. ASSUME NEW u \in RegThread
        PROVE  /\ thr'[u].pc = "joined" => thr'[rec[thr'[u].saved].stack].pc = "gone"
               /\ thr'[u].kind = "dtor" => thr'[u].pc \in {"out", "dead", "gone"}
    <3>1. /\ thr[u].pc = "joined" => thr[rec[thr[u].saved].stack].pc = "gone"
          /\ thr[u].kind = "dtor" => thr[u].pc \in {"out", "dead", "gone"}
      BY <2>1 DEF GInv, GKept
    <3>2. CASE u = p
      BY <3>1, <3>2, <1>1, <1>4
    <3>3. CASE u # p
      <4>1. thr[u].pc = "joined" => thr[u].saved \in InTable
        BY DEF GInv, GSaved, GThreads, GThread, GSavedOf
      <4> QED
        BY <4>1, <3>1, <3>3, <1>4, <1>6, <1>7
    <3> QED
      BY <3>2, <3>3
  <2> QED
    BY <2>3, <2>4, <1>1, <1>7 DEF GKept
<1> QED
  BY <1>1, <1>4, <1>5, <1>6, <1>8, <1>9, ThreadsOnly

\* The system's call of pthread_join or pthread_detach: the thread is gone, or
\* will be gone when it ends.
LEMMA CallKeepsTable ==
  ASSUME GInv, NEW p \in RegThread, NEW t \in RegThread, p # t,
         thr[p].pc \in {"joining", "detaching"}, thr[p].arg = t,
         UNCHANGED <<chain, rec, dontGc, collection, client>>,
         thr' \in [RegThread -> RegThr], \A u \in RegThread : u \notin {p, t} => thr'[u] = thr[u],
         thr'[p].id = thr[p].id, thr'[p].me = thr[p].me, thr'[p].kind = thr[p].kind,
         thr'[p].detached = thr[p].detached, thr'[p].saved = thr[p].saved, thr'[p].arg = Null,
         thr'[t].id = thr[t].id, thr'[t].me = thr[t].me, thr'[t].kind = thr[t].kind,
         thr'[t].saved = thr[t].saved, thr'[t].arg = thr[t].arg,
         \/ thr'[p].pc = "joined" /\ thr'[t].pc = "gone" /\ thr[t].pc = "dead"
            /\ thr'[t].detached = thr[t].detached
         \/ thr'[p].pc = "detached" /\ thr[p].pc = "detaching" /\ thr'[t].detached = TRUE
            /\ thr'[t].pc = IF thr[t].pc = "dead" THEN "gone" ELSE thr[t].pc
  PROVE  GInv'
<1>1. /\ GSavedOf(p) /\ thr[p].saved # Null /\ thr[p].saved \in InTable /\ Joinable(t)
      /\ rec[thr[p].saved].stack = t /\ t # Null
  BY GNull DEF GInv, GSaved, GThreads, GThread, GSavedOf
<1>2. PICK x \in InTable : x = thr[p].saved
  BY <1>1
<1>3. Living(t) /\ \A r \in InTable : rec[r].stack = t => r = x
  BY <1>1, <1>2, OneRecord DEF Joinable, Living
<1>4. GThreads'
  <2>1. GThread(p)' /\ GThread(t)'
    <3>1. GThread(p) /\ GThread(t)
      BY DEF GInv, GThreads
    <3>2. GThread(p)'
      BY <3>1 DEF GThread, Registers
    <3>3. thr'[t].pc = thr[t].pc \/ (thr[t].pc = "dead" /\ thr'[t].pc = "gone")
      OBVIOUS
    <3>4. thr'[t].pc # "dead"
      OBVIOUS
    <3>5. thr[t].kind # "foreign"
      BY <1>1 DEF Joinable
    <3>6. GThread(t)'
      BY <3>1, <3>3, <3>4, <3>5 DEF GThread, Registers
    <3> QED
      BY <3>2, <3>6
  <2>2. \A u \in RegThread : u \notin {p, t} => GThread(u)'
    BY DEF GInv, GThreads, GThread
  <2> QED
    BY <2>1, <2>2 DEF GThreads
<1>5. /\ thr'[t].pc = "gone" \/ thr'[t].detached = TRUE
      /\ thr'[p].pc # "gone" /\ thr'[p].pc \notin {"none", "starting", "out", "dead"}
      /\ thr'[t].pc = thr[t].pc \/ (thr[t].pc = "dead" /\ thr'[t].pc = "gone")
  OBVIOUS
<1>6. \A u \in RegThread :
        /\ thr'[u].id = thr[u].id /\ thr'[u].me = thr[u].me /\ thr'[u].kind = thr[u].kind
        /\ thr'[u].saved = thr[u].saved
        /\ thr'[u].pc \in {"none", "starting"} <=> thr[u].pc \in {"none", "starting"}
        /\ thr[u].pc = "gone" => thr'[u].pc = "gone"
        /\ (Living(u)' => Living(u)) /\ (Joinable(u)' => Joinable(u))
        /\ thr[u].detached = TRUE => thr'[u].detached = TRUE
  <2>1. /\ thr'[p].pc \in {"none", "starting"} <=> thr[p].pc \in {"none", "starting"}
        /\ thr[p].pc = "gone" => thr'[p].pc = "gone"
        /\ (Living(p)' => Living(p)) /\ (Joinable(p)' => Joinable(p))
    BY <1>5 DEF Living, Joinable
  <2>2. /\ thr'[t].pc \in {"none", "starting"} <=> thr[t].pc \in {"none", "starting"}
        /\ thr[t].pc = "gone" => thr'[t].pc = "gone"
        /\ (Living(t)' => Living(t)) /\ (Joinable(t)' => Joinable(t))
        /\ thr[t].detached = TRUE => thr'[t].detached = TRUE
    BY <1>1, <1>3, <1>5 DEF Living
  <2>3. \A u \in RegThread : u \notin {p, t} => (Living(u)' => Living(u)) /\ (Joinable(u)' => Joinable(u))
    BY DEF Living, Joinable
  <2> QED
    BY <2>1, <2>2, <2>3
<1>7. InTable' = InTable /\ \A r \in InTable : GRecord(r) /\ rec[r].stack \in RegThread
  BY OneRecord DEF GRecord, InTable, Chains
<1>8. GSaved'
  <2>1. ASSUME NEW v \in RegThread, thr'[v].saved # Null PROVE GSavedOf(v)'
    <3>0. GSavedOf(v) /\ thr'[v].saved = thr[v].saved
      BY <2>1, <1>6 DEF GInv, GSaved
    <3>1. CASE v = p
      BY <3>0, <3>1, <1>1, <1>5, <1>7 DEF GSavedOf
    <3>2. CASE v # p
      <4>0. PICK y \in InTable : y = thr[v].saved
        BY <3>0 DEF GSavedOf
      <4>1. y # x
        BY <4>0, <3>2, <2>1, <1>1, <1>2, <1>6 DEF GInv, GSaved
      <4>2. rec[y].stack # t
        BY <4>1, <1>3
      <4>3. thr'[v].arg = thr[v].arg
        BY <3>2
      <4>4. thr[v].arg # Null => thr[v].arg \in RegThread /\ thr[v].arg # t
        BY <4>0, <4>2, <3>0, GFlat DEF GInv, GSavedOf
      <4>5. thr[v].arg # Null => Joinable(thr[v].arg)'
        <5>1. SUFFICES ASSUME thr[v].arg # Null PROVE Joinable(thr[v].arg)'
          OBVIOUS
        <5>2. PICK a \in RegThread : a = thr[v].arg /\ a # t
          BY <5>1, <4>4
        <5>3. Joinable(a)
          BY <5>1, <5>2, <3>0 DEF GSavedOf
        <5>4. thr'[a].pc = thr[a].pc \/ a = p
          BY <5>2
        <5>5. Joinable(a)'
          BY <5>2, <5>3, <5>4, <1>5 DEF Joinable
        <5> QED
          BY <5>2, <5>5, <4>3 DEF Joinable
      <4> QED
        BY <4>0, <4>3, <4>5, <3>0, <1>6, <1>7 DEF GSavedOf, Joinable
    <3> QED
      BY <3>1, <3>2
  <2> QED
    BY <2>1, <1>6 DEF GInv, GSaved
<1>9. GKept'
  <2>1. SUFFICES ASSUME "again" \notin client PROVE GKept'
    BY DEF GKept
  <2>2. \A r \in InTable : Keeps(r)' <=> Keeps(r)
    BY <1>6, <1>7 DEF Keeps
  <2>3. ASSUME NEW r \in InTable
        PROVE  /\ "FINISHED" \in rec[r].flags => thr'[rec[r].stack].pc \in {"out", "dead"} \/ Keeps(r)'
               /\ thr'[rec[r].stack].detached = TRUE => "DETACHED" \in rec[r].flags \/ Keeps(r)'
    <3>1. /\ "FINISHED" \in rec[r].flags => thr[rec[r].stack].pc \in {"out", "dead"} \/ Keeps(r)
          /\ thr[rec[r].stack].detached = TRUE => "DETACHED" \in rec[r].flags \/ Keeps(r)
      BY <2>1 DEF GInv, GKept
    <3>2. CASE rec[r].stack = t
      <4>1. Keeps(r)
        BY <3>2, <1>2, <1>3 DEF Keeps
      <4> QED
        BY <4>1, <2>2
    <3>3. CASE rec[r].stack = p
      BY <3>1, <3>3, <2>2
    <3>4. CASE rec[r].stack # t /\ rec[r].stack # p
      <4>1. thr'[rec[r].stack] = thr[rec[r].stack]
        BY <3>4, <1>7
      <4> QED
        BY <4>1, <3>1, <2>2
    <3> QED
      BY <3>2, <3>3, <3>4
  <2>4. ASSUME NEW u \in RegThread
        PROVE  /\ thr'[u].pc = "joined" => thr'[rec[thr'[u].saved].stack].pc = "gone"
               /\ thr'[u].kind = "dtor" => thr'[u].pc \in {"out", "dead", "gone"}
    <3>1. /\ thr[u].pc = "joined" => thr[rec[thr[u].saved].stack].pc = "gone"
          /\ thr[u].kind = "dtor" => thr[u].pc \in {"out", "dead", "gone"}
          /\ thr[u].pc = "joined" => thr[u].saved \in InTable
      BY <2>1 DEF GInv, GKept, GSaved, GThreads, GThread, GSavedOf
    <3>2. CASE u = p
      BY <3>1, <3>2, <1>1
    <3>3. CASE u = t
      BY <3>1, <3>3, <1>5, <1>6, <1>7
    <3>4. CASE u \notin {p, t}
      BY <3>1, <3>4, <1>6, <1>7
    <3> QED
      BY <3>2, <3>3, <3>4
  <2> QED
    BY <2>3, <2>4, <1>7 DEF GKept
<1> QED
  BY <1>4, <1>6, <1>8, <1>9, ThreadsOnly

LEMMA RealJoinKeeps ==
  ASSUME GInv, NEW p \in RegThread, RealJoin(p)
  PROVE  GInv'
<1>1. thr[p].pc = "joining" /\ UNCHANGED <<chain, rec, dontGc, collection, client>>
  BY DEF RealJoin
<1>2. PICK t \in RegThread : t = thr[p].arg
  BY <1>1, GFlat DEF GInv, GThreads, GThread
<1>3. /\ thr[t].pc = "dead" /\ p # t
      /\ thr' = [thr EXCEPT ![p].pc = "joined", ![p].arg = Null, ![t].pc = "gone"]
  BY <1>1, <1>2 DEF RealJoin
<1>4. /\ thr \in [RegThread -> RegThr] /\ thr[p] \in RegThr /\ thr[t] \in RegThr
      /\ "joined" \in ThrStates /\ "gone" \in ThrStates
  BY DEF GInv, GTypes, ThrStates
<1>5. /\ thr' = [thr EXCEPT ![p] = [thr[p] EXCEPT !.pc = "joined", !.arg = Null],
                            ![t] = [thr[t] EXCEPT !.pc = "gone"]]
      /\ [thr[p] EXCEPT !.pc = "joined", !.arg = Null] \in RegThr
      /\ [thr[t] EXCEPT !.pc = "gone"] \in RegThr
  BY <1>3, <1>4 DEF RegThr
<1>6. /\ thr' \in [RegThread -> RegThr] /\ \A u \in RegThread : u \notin {p, t} => thr'[u] = thr[u]
      /\ thr'[p].id = thr[p].id /\ thr'[p].me = thr[p].me /\ thr'[p].kind = thr[p].kind
      /\ thr'[p].detached = thr[p].detached /\ thr'[p].saved = thr[p].saved /\ thr'[p].arg = Null
      /\ thr'[t].id = thr[t].id /\ thr'[t].me = thr[t].me /\ thr'[t].kind = thr[t].kind
      /\ thr'[t].saved = thr[t].saved /\ thr'[t].arg = thr[t].arg
      /\ thr'[p].pc = "joined" /\ thr'[t].pc = "gone" /\ thr'[t].detached = thr[t].detached
  BY <1>3, <1>4, <1>5 DEF RegThr
<1>7. thr[p].pc \in {"joining", "detaching"} /\ thr[p].arg = t
  BY <1>1, <1>2
<1>8. \/ thr'[p].pc = "joined" /\ thr'[t].pc = "gone" /\ thr[t].pc = "dead"
         /\ thr'[t].detached = thr[t].detached
      \/ thr'[p].pc = "detached" /\ thr[p].pc = "detaching" /\ thr'[t].detached = TRUE
         /\ thr'[t].pc = IF thr[t].pc = "dead" THEN "gone" ELSE thr[t].pc
  BY <1>3, <1>6
<1>9. p # t
  BY <1>3
<1> QED
  BY <1>1, <1>9, <1>6, <1>7, <1>8, CallKeepsTable

LEMMA RealDetachKeeps ==
  ASSUME GInv, NEW p \in RegThread, RealDetach(p)
  PROVE  GInv'
<1>1. thr[p].pc = "detaching" /\ UNCHANGED <<chain, rec, dontGc, collection, client>>
  BY DEF RealDetach
<1>2. PICK t \in RegThread : t = thr[p].arg
  BY <1>1, GFlat DEF GInv, GThreads, GThread
<1>3. PICK q : q = IF thr[t].pc = "dead" THEN "gone" ELSE thr[t].pc
  OBVIOUS
<1>p. p # t
  BY <1>1, <1>2, GNull DEF GInv, GThreads, GThread, GSaved, GSavedOf
<1>4. /\ thr \in [RegThread -> RegThr] /\ thr[p] \in RegThr /\ thr[t] \in RegThr
      /\ "detached" \in ThrStates /\ q \in ThrStates
  BY <1>3, GFlat DEF GInv, GTypes, ThrStates
<1>5. /\ thr' = [thr EXCEPT ![p] = [thr[p] EXCEPT !.pc = "detached", !.arg = Null],
                            ![t] = [thr[t] EXCEPT !.detached = TRUE, !.pc = q]]
      /\ [thr[p] EXCEPT !.pc = "detached", !.arg = Null] \in RegThr
      /\ [thr[t] EXCEPT !.detached = TRUE, !.pc = q] \in RegThr
  <2>1. /\ [thr[p] EXCEPT !.pc = "detached", !.arg = Null] \in RegThr
        /\ [thr[t] EXCEPT !.detached = TRUE, !.pc = q] \in RegThr
    BY <1>4 DEF RegThr
  <2>2. thr' = [thr EXCEPT ![p].pc = "detached", ![p].arg = Null, ![t].detached = TRUE,
                           ![t].pc = IF @ = "dead" THEN "gone" ELSE @]
    BY <1>2 DEF RealDetach
  <2>3. thr' = [thr EXCEPT ![p] = [thr[p] EXCEPT !.pc = "detached", !.arg = Null],
                           ![t] = [thr[t] EXCEPT !.detached = TRUE, !.pc = q]]
    BY <2>2, <1>3, <1>4, <1>p DEF RegThr
  <2> QED
    BY <2>1, <2>3
<1>6. /\ thr' \in [RegThread -> RegThr] /\ \A u \in RegThread : u \notin {p, t} => thr'[u] = thr[u]
      /\ thr'[p].id = thr[p].id /\ thr'[p].me = thr[p].me /\ thr'[p].kind = thr[p].kind
      /\ thr'[p].detached = thr[p].detached /\ thr'[p].saved = thr[p].saved /\ thr'[p].arg = Null
      /\ thr'[t].id = thr[t].id /\ thr'[t].me = thr[t].me /\ thr'[t].kind = thr[t].kind
      /\ thr'[t].saved = thr[t].saved /\ thr'[t].arg = thr[t].arg
      /\ thr'[p].pc = "detached" /\ thr'[t].pc = q /\ thr'[t].detached = TRUE
  BY <1>4, <1>5, <1>p DEF RegThr
<1>7. thr[p].pc \in {"joining", "detaching"} /\ thr[p].arg = t
  BY <1>1, <1>2
<1>8. \/ thr'[p].pc = "joined" /\ thr'[t].pc = "gone" /\ thr[t].pc = "dead"
         /\ thr'[t].detached = thr[t].detached
      \/ thr'[p].pc = "detached" /\ thr[p].pc = "detaching" /\ thr'[t].detached = TRUE
         /\ thr'[t].pc = IF thr[t].pc = "dead" THEN "gone" ELSE thr[t].pc
  BY <1>1, <1>3, <1>6
<1> QED
  BY <1>1, <1>p, <1>6, <1>7, <1>8, CallKeepsTable

-----------------------------------------------------------------------------
LEMMA FiniteDisabling ==
  ASSUME GInv
  PROVE  IsFiniteSet(Disabling) /\ Cardinality(Disabling) \in Nat
<1>1. Disabling \in SUBSET Rec
  BY OneRecord DEF Disabling
<1> QED
  BY <1>1, FS_Subset, FS_CardinalityType, RegistryAssumption

\* A record is deleted: that of a detached thread which leaves, or that of a
\* finished one after pthread_join or pthread_detach.
LEMMA DeletedKeeps ==
  ASSUME GInv, NEW x \in InTable, chain' = Without(x), rec' = Freed(x), client' = client,
         gcPhase' = gcPhase, passed' \subseteq RegThread, pushed' = pushed,
         thr' \in [RegThread -> RegThr], GThreads',
         \A u \in RegThread :
           /\ thr'[u].id = thr[u].id /\ thr'[u].detached = thr[u].detached
           /\ thr'[u].kind = "foreign" <=> thr[u].kind = "foreign"
           /\ thr'[u].kind = "survivor" <=> thr[u].kind = "survivor"
           /\ thr'[u].pc \in {"none", "starting"} <=> thr[u].pc \in {"none", "starting"}
           /\ thr'[u].pc = "gone" <=> thr[u].pc = "gone"
           /\ thr'[u].pc = "joined" => thr[u].pc = "joined"
           /\ thr[u].pc \in {"out", "dead"} => thr'[u].pc \in {"out", "dead"}
           /\ (Living(u)' <=> Living(u)) /\ (Joinable(u)' <=> Joinable(u))
           /\ thr'[u].me = (IF thr[u].me = x THEN Null ELSE thr[u].me)
           /\ thr'[u].saved = (IF thr[u].saved = x THEN Null ELSE thr[u].saved)
           /\ thr'[u].saved # Null => thr'[u].arg = thr[u].arg
           /\ "again" \notin client /\ thr'[u].kind = "dtor" => thr'[u].pc \in {"out", "dead", "gone"},
         ~Joinable(rec[x].stack),
         dontGc' = Cardinality(Disabling \ {x})
  PROVE  GInv'
<1>0. x \in Rec /\ x # Null
  BY OneRecord, GNull
<1>1. /\ chain' \in [Chains -> Seq(Rec)] /\ GChains' /\ InTable' = InTable \ {x}
      /\ \A r \in Rec : r # x => rec'[r] = rec[r]
      /\ rec'[x] = Unused
      /\ \A j \in Id : GC_lookup_thread(j) # Null /\ GC_lookup_thread(j) # x
                       => GC_lookup_thread(j)' = GC_lookup_thread(j)
  BY <1>0, TableWithout DEF GInv
<1>2. \A r \in InTable' : /\ r \in InTable /\ r \in Rec /\ r # x /\ rec'[r] = rec[r] /\ r # Null
                          /\ GRecord(r) /\ rec[r].stack \in RegThread /\ rec[r].id \in Id
  <2>1. ASSUME NEW r \in InTable, r # x
        PROVE  r \in Rec /\ GRecord(r) /\ rec[r].stack \in RegThread /\ rec[r].id \in Id
    BY OneRecord, ChainOf DEF GInv, GRecord
  <2> QED
    BY <2>1, <1>1, GNull
<1>f. IsFiniteSet(Disabling \ {x}) /\ Cardinality(Disabling \ {x}) \in Nat
  BY FiniteDisabling, FS_RemoveElement, FS_CardinalityType
<1>3. GTypes'
  <2>1. rec' \in [Rec -> RegRec]
    <3>1. Unused \in RegRec /\ rec \in [Rec -> RegRec]
      BY DEF Unused, RegRec, GInv, GTypes
    <3> QED
      BY <3>1 DEF Freed
  <2> QED
    BY <2>1, <1>1, <1>f DEF GInv, GTypes, Chains, Apart
<1>4. GIds'
  BY DEF GInv, GIds
<1>5. GTable'
  <2>1. ASSUME NEW r \in InTable' PROVE GRecord(r)'
    <3>1. Living(rec[r].stack) => GC_lookup_thread(rec[r].id)' = r
      BY <1>1, <1>2 DEF GRecord
    <3>2. "FINISHED" \notin rec[r].flags => thr'[rec[r].stack].me = r
      BY <1>2 DEF GRecord
    <3> QED
      BY <3>1, <3>2, <1>2 DEF GRecord
  <2> QED
    BY <2>1 DEF GTable
<1>6. GUnused'
  <2>1. ASSUME NEW r \in Rec, r \notin InTable' PROVE rec'[r] = Unused
    <3>1. r = x \/ (r # x /\ r \notin InTable)
      BY <2>1, <1>1
    <3> QED
      BY <3>1, <1>1 DEF GInv, GUnused
  <2> QED
    BY <2>1 DEF GUnused, Unused
<1>7. GMine'
  <2>1. ASSUME NEW u \in RegThread, thr'[u].me # Null
        PROVE  /\ thr'[u].me \in InTable' /\ rec'[thr'[u].me].stack = u
               /\ "FINISHED" \notin rec'[thr'[u].me].flags
    <3>1. thr'[u].me = thr[u].me /\ thr[u].me # x /\ thr[u].me # Null
      BY <2>1
    <3>2. thr[u].me \in InTable'
      BY <3>1, <1>1 DEF GInv, GMine
    <3> QED
      BY <3>1, <3>2, <1>2 DEF GInv, GMine
  <2> QED
    BY <2>1 DEF GMine
<1>8. GJoin'
  <2>1. ASSUME NEW u \in RegThread, Joinable(u)
        PROVE  \E r \in InTable' : rec'[r].stack = u /\ "DETACHED" \notin rec'[r].flags
    <3>1. PICK r \in InTable : rec[r].stack = u /\ "DETACHED" \notin rec[r].flags
      BY <2>1 DEF GInv, GJoin
    <3>2. r # x
      BY <3>1, <2>1
    <3> QED
      BY <3>1, <3>2, <1>1, <1>2
  <2> QED
    BY <2>1 DEF GJoin
<1>9. GForeign'
  BY <1>2 DEF GInv, GForeign
<1>10. GSaved'
  <2>1. ASSUME NEW v \in RegThread, thr'[v].saved # Null PROVE GSavedOf(v)'
    <3>1. /\ thr'[v].saved = thr[v].saved /\ thr[v].saved # x /\ thr[v].saved # Null
          /\ thr'[v].arg = thr[v].arg
      BY <2>1
    <3>2. GSavedOf(v)
      BY <3>1 DEF GInv, GSaved
    <3>3. PICK y \in InTable' : y = thr[v].saved
      BY <3>1, <3>2, <1>1 DEF GSavedOf
    <3>4. thr[v].arg # Null => thr[v].arg \in RegThread
      BY GFlat DEF GInv
    <3> QED
      BY <3>1, <3>2, <3>3, <3>4, <1>2 DEF GSavedOf
  <2>2. ASSUME NEW v \in RegThread, NEW w \in RegThread, thr'[v].saved # Null,
               thr'[v].saved = thr'[w].saved
        PROVE  v = w
    <3>1. thr[v].saved # Null /\ thr[v].saved = thr[w].saved
      BY <2>2
    <3> QED
      BY <3>1 DEF GInv, GSaved
  <2> QED
    BY <2>1, <2>2 DEF GSaved
<1>11. GKept'
  <2>1. SUFFICES ASSUME "again" \notin client PROVE GKept'
    BY DEF GKept
  <2>2. ASSUME NEW r \in InTable', Keeps(r) PROVE Keeps(r)'
    BY <2>2, <1>2 DEF Keeps
  <2>3. ASSUME NEW r \in InTable'
        PROVE  /\ "FINISHED" \in rec'[r].flags => thr'[rec'[r].stack].pc \in {"out", "dead"} \/ Keeps(r)'
               /\ thr'[rec'[r].stack].detached = TRUE => "DETACHED" \in rec'[r].flags \/ Keeps(r)'
    <3>1. /\ "FINISHED" \in rec[r].flags => thr[rec[r].stack].pc \in {"out", "dead"} \/ Keeps(r)
          /\ thr[rec[r].stack].detached = TRUE => "DETACHED" \in rec[r].flags \/ Keeps(r)
      BY <2>1, <1>2 DEF GInv, GKept
    <3> QED
      BY <3>1, <2>2, <1>2
  <2>4. ASSUME NEW u \in RegThread
        PROVE  /\ thr'[u].pc = "joined" => thr'[rec'[thr'[u].saved].stack].pc = "gone"
               /\ thr'[u].kind = "dtor" => thr'[u].pc \in {"out", "dead", "gone"}
    <3>1. SUFFICES ASSUME thr'[u].pc = "joined"
                   PROVE  thr'[rec'[thr'[u].saved].stack].pc = "gone"
      BY <2>1
    <3>2. thr'[u].saved # Null
      BY <3>1 DEF GThreads, GThread
    <3>3. thr'[u].saved = thr[u].saved /\ thr[u].saved # x /\ thr[u].pc = "joined"
      BY <3>1, <3>2
    <3>4. thr[u].saved \in InTable'
      BY <3>2, <3>3, <1>1 DEF GInv, GSaved, GSavedOf
    <3>5. thr[rec[thr[u].saved].stack].pc = "gone"
      BY <3>3, <2>1 DEF GInv, GKept
    <3> QED
      BY <3>3, <3>4, <3>5, <1>2
  <2> QED
    BY <2>3, <2>4 DEF GKept
<1>12. GDont'
  <2>1. ASSUME NEW r PROVE r \in Disabling' <=> r \in Disabling \ {x}
    BY <1>1, <1>2 DEF Disabling
  <2>2. Disabling' = Disabling \ {x}
    BY <2>1
  <2>3. "exit" \notin client /\ "cancel" \notin client =>
          \A r \in InTable' : "DISABLED_GC" \notin rec'[r].flags
    BY <1>2 DEF GInv, GDont
  <2> QED
    BY <2>2, <2>3 DEF GDont
<1> QED
  BY <1>1, <1>3, <1>4, <1>5, <1>6, <1>7, <1>8, <1>9, <1>10, <1>11, <1>12 DEF GInv

-----------------------------------------------------------------------------
Leaves(t) ==
  thr' = [thr EXCEPT ![t].pc = "out", ![t].me = Null,
                     ![t].kind = IF @ = "created" THEN "dtor" ELSE @]
LEMMA LeavesIs ==
  ASSUME GInv, NEW t \in RegThread, thr[t].pc \in {"leaving", "wait"}, Leaves(t)
  PROVE  /\ thr' \in [RegThread -> RegThr] /\ GThreads'
         /\ \A u \in RegThread : u # t => thr'[u] = thr[u]
         /\ thr'[t].pc = "out" /\ thr'[t].me = Null /\ thr'[t].id = thr[t].id
         /\ thr'[t].detached = thr[t].detached
         /\ thr'[t].saved = Null /\ thr[t].saved = Null /\ thr'[t].arg = thr[t].arg
         /\ thr'[t].kind = "foreign" <=> thr[t].kind = "foreign"
         /\ thr'[t].kind = "survivor" <=> thr[t].kind = "survivor"
         /\ \A u \in RegThread : (Living(u)' <=> Living(u)) /\ (Joinable(u)' <=> Joinable(u))
<1>1. PICK k \in ThrKinds : k = IF thr[t].kind = "created" THEN "dtor" ELSE thr[t].kind
  BY GFlat DEF GInv, ThrKinds
<1>2. thr \in [RegThread -> RegThr] /\ thr[t] \in RegThr /\ "out" \in ThrStates
  BY DEF GInv, GTypes, ThrStates
<1>3. /\ thr' = [thr EXCEPT ![t] = [thr[t] EXCEPT !.pc = "out", !.me = Null, !.kind = k]]
      /\ [thr[t] EXCEPT !.pc = "out", !.me = Null, !.kind = k] \in RegThr
  BY <1>1, <1>2 DEF Leaves, RegThr
<1>4. /\ thr' \in [RegThread -> RegThr]
      /\ \A u \in RegThread : u # t => thr'[u] = thr[u]
      /\ thr'[t].pc = "out" /\ thr'[t].me = Null /\ thr'[t].id = thr[t].id
      /\ thr'[t].detached = thr[t].detached /\ thr'[t].kind = k
      /\ thr'[t].saved = thr[t].saved /\ thr'[t].arg = thr[t].arg
  BY <1>2, <1>3 DEF RegThr
<1>5. /\ k = "foreign" <=> thr[t].kind = "foreign"
      /\ k = "survivor" <=> thr[t].kind = "survivor"
      /\ k # "created"
  BY <1>1
<1>6. GThread(t) /\ thr[t].saved = Null
  BY DEF GInv, GThreads, GThread
<1>7. GThread(t)'
  BY <1>4, <1>5, <1>6 DEF GThread, Registers
<1>8. \A u \in RegThread : u # t => GThread(u)'
  BY <1>4 DEF GInv, GThreads, GThread
<1>9. \A u \in RegThread : (Living(u)' <=> Living(u)) /\ (Joinable(u)' <=> Joinable(u))
  BY <1>4, <1>5 DEF Living, Joinable
<1> QED
  BY <1>4, <1>5, <1>6, <1>7, <1>8, <1>9 DEF GThreads

\* The last step of a thread that is detached.
LEMMA LeaveDeletes ==
  ASSUME GInv, NEW t \in RegThread, thr[t].pc \in {"leaving", "wait"}, Leaves(t),
         NEW x \in InTable, x = thr[t].me, "DETACHED" \in rec[x].flags,
         chain' = Without(x), rec' = Freed(x), dontGc' = Enabled(x),
         passed' = passed \ {t}, UNCHANGED <<gcPhase, pushed, client>>
  PROVE  GInv'
<1>1. /\ thr' \in [RegThread -> RegThr] /\ GThreads'
      /\ \A u \in RegThread : u # t => thr'[u] = thr[u]
      /\ thr'[t].pc = "out" /\ thr'[t].me = Null /\ thr'[t].id = thr[t].id
      /\ thr'[t].detached = thr[t].detached
      /\ thr'[t].saved = Null /\ thr[t].saved = Null /\ thr'[t].arg = thr[t].arg
      /\ thr'[t].kind = "foreign" <=> thr[t].kind = "foreign"
      /\ thr'[t].kind = "survivor" <=> thr[t].kind = "survivor"
      /\ \A u \in RegThread : (Living(u)' <=> Living(u)) /\ (Joinable(u)' <=> Joinable(u))
  BY LeavesIs
<1>2. /\ x \in Rec /\ rec[x].stack = t /\ x # Null /\ "FINISHED" \notin rec[x].flags
      /\ \A y \in InTable : rec[y].stack = t => y = x
  BY MineIs DEF Registers
<1>3. ~Joinable(rec[x].stack)
  BY <1>2 DEF GInv, GJoin
<1>4. \A u \in RegThread : u # t => thr[u].me # x
  BY <1>2 DEF GInv, GMine
<1>5. \A u \in RegThread : thr[u].saved # x
  BY <1>2 DEF GInv, GSaved, GSavedOf
<1>6. dontGc' = Cardinality(Disabling \ {x})
  <2>1. Cardinality(Disabling \ {x}) =
          IF x \in Disabling THEN Cardinality(Disabling) - 1 ELSE Cardinality(Disabling)
    BY FiniteDisabling, FS_RemoveElement
  <2>2. dontGc = Cardinality(Disabling)
    BY DEF GInv, GDont
  <2>3. x \in Disabling <=> "DISABLED_GC" \in rec[x].flags
    BY <1>2 DEF Disabling
  <2> QED
    BY <2>1, <2>2, <2>3 DEF Enabled
<1>7. ASSUME NEW u \in RegThread
      PROVE  /\ thr'[u].id = thr[u].id /\ thr'[u].detached = thr[u].detached
             /\ thr'[u].kind = "foreign" <=> thr[u].kind = "foreign"
             /\ thr'[u].kind = "survivor" <=> thr[u].kind = "survivor"
             /\ thr'[u].pc \in {"none", "starting"} <=> thr[u].pc \in {"none", "starting"}
             /\ thr'[u].pc = "gone" <=> thr[u].pc = "gone"
             /\ thr'[u].pc = "joined" => thr[u].pc = "joined"
             /\ thr[u].pc \in {"out", "dead"} => thr'[u].pc \in {"out", "dead"}
             /\ (Living(u)' <=> Living(u)) /\ (Joinable(u)' <=> Joinable(u))
             /\ thr'[u].me = (IF thr[u].me = x THEN Null ELSE thr[u].me)
             /\ thr'[u].saved = (IF thr[u].saved = x THEN Null ELSE thr[u].saved)
             /\ thr'[u].saved # Null => thr'[u].arg = thr[u].arg
             /\ "again" \notin client /\ thr'[u].kind = "dtor" => thr'[u].pc \in {"out", "dead", "gone"}
  <2>1. CASE u = t
    BY <2>1, <1>1, <1>2
  <2>2. CASE u # t
    <3>1. "again" \notin client /\ thr[u].kind = "dtor" => thr[u].pc \in {"out", "dead", "gone"}
      BY DEF GInv, GKept
    <3> QED
      BY <3>1, <2>2, <1>1, <1>4, <1>5
  <2> QED
    BY <2>1, <2>2
<1>8. passed' \subseteq RegThread
  BY DEF GInv, GTypes
<1> QED
  BY <1>1, <1>3, <1>6, <1>7, <1>8, DeletedKeeps

Marks(x, f) == rec' = [rec EXCEPT ![x].flags = @ \cup f]
LEMMA MarksIs ==
  ASSUME GInv, NEW x \in InTable, NEW f \in SUBSET RegFlags, Marks(x, f), chain' = chain
  PROVE  /\ rec' \in [Rec -> RegRec] /\ \A r \in Rec : r # x => rec'[r] = rec[r]
         /\ rec'[x].id = rec[x].id /\ rec'[x].stack = rec[x].stack
         /\ rec'[x].flags = rec[x].flags \cup f
         /\ chain' \in [Chains -> Seq(Rec)] /\ GChains' /\ InTable' = InTable /\ GUnused'
         /\ \A j \in Id : GC_lookup_thread(j)' = GC_lookup_thread(j)
         /\ \A r \in InTable :
              /\ r \in Rec /\ r # Null /\ GRecord(r) /\ rec[r].stack \in RegThread /\ rec[r].id \in Id
              /\ rec'[r].id = rec[r].id /\ rec'[r].stack = rec[r].stack
<1>1. x \in Rec /\ rec \in [Rec -> RegRec] /\ rec[x] \in RegRec /\ rec[x].flags \cup f \in SUBSET RegFlags
  BY OneRecord, GFlat DEF GInv, GTypes
<1>2. /\ rec' = [rec EXCEPT ![x] = [rec[x] EXCEPT !.flags = rec[x].flags \cup f]]
      /\ [rec[x] EXCEPT !.flags = rec[x].flags \cup f] \in RegRec
  BY <1>1 DEF Marks, RegRec
<1>3. /\ rec' \in [Rec -> RegRec] /\ \A r \in Rec : r # x => rec'[r] = rec[r]
      /\ rec'[x].id = rec[x].id /\ rec'[x].stack = rec[x].stack
      /\ rec'[x].flags = rec[x].flags \cup f
  BY <1>1, <1>2 DEF RegRec
<1>4. \A r \in Rec : rec'[r].id = rec[r].id /\ rec'[r].stack = rec[r].stack
  BY <1>3
<1>5. /\ chain' \in [Chains -> Seq(Rec)] /\ GChains' /\ InTable' = InTable
      /\ \A j \in Id : GC_lookup_thread(j)' = GC_lookup_thread(j)
  BY <1>4, TableSame DEF GInv
<1>6. GUnused'
  BY <1>3, <1>5 DEF GInv, GUnused, Unused
<1>7. \A r \in InTable :
        /\ r \in Rec /\ r # Null /\ GRecord(r) /\ rec[r].stack \in RegThread /\ rec[r].id \in Id
        /\ rec'[r].id = rec[r].id /\ rec'[r].stack = rec[r].stack
  BY <1>4, OneRecord, ChainOf, GNull DEF GInv, GRecord
<1> QED
  BY <1>3, <1>5, <1>6, <1>7

\* The last step of a thread that is still to be joined.
LEMMA LeaveFinishes ==
  ASSUME GInv, NEW t \in RegThread, thr[t].pc \in {"leaving", "wait"}, Leaves(t),
         NEW x \in InTable, x = thr[t].me, "DETACHED" \notin rec[x].flags,
         chain' = chain, Marks(x, {"FINISHED"}), dontGc' = Enabled(x),
         passed' = passed \ {t}, UNCHANGED <<gcPhase, pushed, client>>
  PROVE  GInv'
<1>1. /\ thr' \in [RegThread -> RegThr] /\ GThreads'
      /\ \A u \in RegThread : u # t => thr'[u] = thr[u]
      /\ thr'[t].pc = "out" /\ thr'[t].me = Null /\ thr'[t].id = thr[t].id
      /\ thr'[t].detached = thr[t].detached
      /\ thr'[t].saved = Null /\ thr[t].saved = Null /\ thr'[t].arg = thr[t].arg
      /\ thr'[t].kind = "foreign" <=> thr[t].kind = "foreign"
      /\ thr'[t].kind = "survivor" <=> thr[t].kind = "survivor"
      /\ \A u \in RegThread : (Living(u)' <=> Living(u)) /\ (Joinable(u)' <=> Joinable(u))
  BY LeavesIs
<1>2. /\ x \in Rec /\ rec[x].stack = t /\ x # Null /\ "FINISHED" \notin rec[x].flags
      /\ \A y \in InTable : rec[y].stack = t => y = x
  BY MineIs DEF Registers
<1>3. /\ rec' \in [Rec -> RegRec] /\ \A r \in Rec : r # x => rec'[r] = rec[r]
      /\ rec'[x].id = rec[x].id /\ rec'[x].stack = rec[x].stack
      /\ rec'[x].flags = rec[x].flags \cup {"FINISHED"}
      /\ chain' \in [Chains -> Seq(Rec)] /\ GChains' /\ InTable' = InTable /\ GUnused'
      /\ \A j \in Id : GC_lookup_thread(j)' = GC_lookup_thread(j)
      /\ \A r \in InTable :
           /\ r \in Rec /\ r # Null /\ GRecord(r) /\ rec[r].stack \in RegThread /\ rec[r].id \in Id
           /\ rec'[r].id = rec[r].id /\ rec'[r].stack = rec[r].stack
  <2>1. {"FINISHED"} \in SUBSET RegFlags
    BY DEF RegFlags
  <2> QED
    BY <2>1, MarksIs
<1>4. \A r \in InTable : /\ ("DETACHED" \in rec'[r].flags <=> "DETACHED" \in rec[r].flags)
                         /\ r # x => rec'[r] = rec[r] /\ rec[r].stack # t
                                     /\ thr'[rec[r].stack] = thr[rec[r].stack]
  BY <1>1, <1>2, <1>3
<1>5. GTypes'
  <2>1. dontGc' \in Nat
    <3>1. dontGc = Cardinality(Disabling) /\ IsFiniteSet(Disabling)
      BY FiniteDisabling DEF GInv, GDont
    <3>2. x \in Disabling => Cardinality(Disabling) # 0
      BY <3>1, FS_EmptySet
    <3>3. x \in Disabling <=> "DISABLED_GC" \in rec[x].flags
      BY <1>2 DEF Disabling
    <3> QED
      BY <3>1, <3>2, <3>3, FiniteDisabling DEF Enabled
  <2> QED
    BY <2>1, <1>1, <1>3 DEF GInv, GTypes, Chains, Apart
<1>6. GIds'
  BY <1>1 DEF GInv, GIds
<1>7. GTable'
  <2>1. GRecord(x)'
    BY <1>1, <1>2, <1>3 DEF GRecord
  <2>2. ASSUME NEW r \in InTable, r # x PROVE GRecord(r)'
    BY <2>2, <1>1, <1>3, <1>4 DEF GRecord
  <2> QED
    BY <2>1, <2>2, <1>3 DEF GTable
<1>8. GMine'
  <2>1. ASSUME NEW u \in RegThread, thr'[u].me # Null
        PROVE  /\ thr'[u].me \in InTable' /\ rec'[thr'[u].me].stack = u
               /\ "FINISHED" \notin rec'[thr'[u].me].flags
    <3>1. u # t /\ thr'[u] = thr[u]
      BY <2>1, <1>1
    <3>2. /\ thr[u].me \in InTable /\ rec[thr[u].me].stack = u
          /\ "FINISHED" \notin rec[thr[u].me].flags
      BY <3>1, <2>1 DEF GInv, GMine
    <3>3. thr[u].me # x
      BY <3>1, <3>2, <1>2
    <3> QED
      BY <3>1, <3>2, <3>3, <1>3, <1>4
  <2> QED
    BY <2>1 DEF GMine
<1>9. GJoin'
  BY <1>1, <1>3, <1>4 DEF GInv, GJoin
<1>10. GForeign'
  <2>1. \A u \in RegThread : /\ thr'[u].kind = "foreign" <=> thr[u].kind = "foreign"
                             /\ thr'[u].id = thr[u].id
    BY <1>1
  <2> QED
    BY <2>1, <1>1, <1>3, <1>4 DEF GInv, GForeign
<1>11. GSaved'
  <2>1. \A u \in RegThread : /\ thr'[u].saved = thr[u].saved /\ thr'[u].arg = thr[u].arg
                             /\ thr'[u].detached = thr[u].detached
                             /\ thr[u].pc = "gone" => thr'[u].pc = "gone"
    BY <1>1
  <2>2. ASSUME NEW v \in RegThread, thr'[v].saved # Null PROVE GSavedOf(v)'
    <3>1. GSavedOf(v) /\ thr'[v].saved = thr[v].saved /\ thr'[v].arg = thr[v].arg
      BY <2>1, <2>2 DEF GInv, GSaved
    <3>2. PICK y \in InTable : y = thr[v].saved
      BY <3>1 DEF GSavedOf
    <3>3. thr[v].arg # Null => thr[v].arg \in RegThread
      BY GFlat DEF GInv
    <3> QED
      BY <3>1, <3>2, <3>3, <2>1, <1>1, <1>3, <1>4 DEF GSavedOf
  <2> QED
    BY <2>1, <2>2 DEF GInv, GSaved
<1>12. GKept'
  <2>1. SUFFICES ASSUME "again" \notin client PROVE GKept'
    BY DEF GKept
  <2>2. \A r \in InTable : Keeps(r)' <=> Keeps(r)
    <3>1. \A u \in RegThread : thr'[u].saved = thr[u].saved
      BY <1>1
    <3>2. \A u \in RegThread : thr'[u].kind = "survivor" <=> thr[u].kind = "survivor"
      BY <1>1
    <3> QED
      BY <3>1, <3>2, <1>3 DEF Keeps
  <2>3. ASSUME NEW r \in InTable
        PROVE  /\ "FINISHED" \in rec'[r].flags => thr'[rec'[r].stack].pc \in {"out", "dead"} \/ Keeps(r)'
               /\ thr'[rec'[r].stack].detached = TRUE => "DETACHED" \in rec'[r].flags \/ Keeps(r)'
    <3>1. /\ "FINISHED" \in rec[r].flags => thr[rec[r].stack].pc \in {"out", "dead"} \/ Keeps(r)
          /\ thr[rec[r].stack].detached = TRUE => "DETACHED" \in rec[r].flags \/ Keeps(r)
      BY <2>1 DEF GInv, GKept
    <3>2. CASE r = x
      BY <3>1, <3>2, <2>2, <1>1, <1>2, <1>3, <1>4
    <3>3. CASE r # x
      BY <3>1, <3>3, <2>2, <1>4
    <3> QED
      BY <3>2, <3>3
  <2>4. ASSUME NEW u \in RegThread
        PROVE  /\ thr'[u].pc = "joined" => thr'[rec'[thr'[u].saved].stack].pc = "gone"
               /\ thr'[u].kind = "dtor" => thr'[u].pc \in {"out", "dead", "gone"}
    <3>1. /\ thr[u].pc = "joined" => thr[rec[thr[u].saved].stack].pc = "gone"
          /\ thr[u].kind = "dtor" => thr[u].pc \in {"out", "dead", "gone"}
          /\ thr[u].pc = "joined" => thr[u].saved \in InTable
      BY <2>1 DEF GInv, GKept, GSaved, GThreads, GThread, GSavedOf
    <3>2. CASE u = t
      BY <3>2, <1>1
    <3>3. CASE u # t
      <4>1. SUFFICES ASSUME thr[u].pc = "joined" PROVE thr'[rec'[thr'[u].saved].stack].pc = "gone"
        BY <3>1, <3>3, <1>1
      <4>2. PICK y \in InTable : y = thr[u].saved /\ thr'[u].saved = y
        BY <4>1, <3>1, <3>3, <1>1
      <4>3. thr[rec[y].stack].pc = "gone" /\ rec[y].stack # t
        BY <4>1, <4>2, <3>1
      <4> QED
        BY <4>2, <4>3, <1>1, <1>3
    <3> QED
      BY <3>2, <3>3
  <2> QED
    BY <2>3, <2>4, <1>3 DEF GKept
<1>13. GDont'
  <2>1. ASSUME NEW r PROVE r \in Disabling' <=> r \in Disabling \ {x}
    BY <1>3, <1>4 DEF Disabling
  <2>2. Disabling' = Disabling \ {x}
    BY <2>1
  <2>3. Cardinality(Disabling \ {x}) =
          IF x \in Disabling THEN Cardinality(Disabling) - 1 ELSE Cardinality(Disabling)
    BY FiniteDisabling, FS_RemoveElement
  <2>4. x \in Disabling <=> "DISABLED_GC" \in rec[x].flags
    BY <1>2 DEF Disabling
  <2>5. dontGc' = Cardinality(Disabling')
    BY <2>2, <2>3, <2>4 DEF Enabled, GInv, GDont
  <2>6. "exit" \notin client /\ "cancel" \notin client =>
          \A r \in InTable : "DISABLED_GC" \notin rec'[r].flags
    BY <1>3, <1>4 DEF GInv, GDont
  <2> QED
    BY <2>5, <2>6, <1>3 DEF GDont
<1> QED
  BY <1>1, <1>3, <1>5, <1>6, <1>7, <1>8, <1>9, <1>10, <1>11, <1>12, <1>13 DEF GInv

LEMMA UnregisterInnerKeeps ==
  ASSUME GInv, NEW t \in RegThread, thr[t].pc \in {"leaving", "wait"},
         GC_unregister_my_thread_inner(t)
  PROVE  GInv'
<1>1. /\ thr[t].me \in InTable /\ GC_lookup_thread(thr[t].id) = thr[t].me
  BY MineIs DEF Registers
<1>2. PICK x \in InTable : x = thr[t].me
  BY <1>1
<1>3. /\ dontGc' = Enabled(x) /\ Leaves(t) /\ passed' = passed \ {t}
      /\ UNCHANGED <<gcPhase, pushed, client>>
  BY <1>2 DEF GC_unregister_my_thread_inner, Leaves
<1>4. CASE "DETACHED" \in rec[x].flags
  <2>1. chain' = Without(x) /\ rec' = Freed(x)
    BY <1>1, <1>2, <1>4 DEF GC_unregister_my_thread_inner
  <2> QED
    BY <2>1, <1>2, <1>3, <1>4, LeaveDeletes
<1>5. CASE "DETACHED" \notin rec[x].flags
  <2>1. chain' = chain /\ Marks(x, {"FINISHED"})
    BY <1>2, <1>5 DEF GC_unregister_my_thread_inner, Marks
  <2> QED
    BY <2>1, <1>2, <1>3, <1>5, LeaveFinishes
<1> QED
  BY <1>4, <1>5

LEMMA ExitProcKeeps ==
  ASSUME GInv, NEW t \in RegThread, GC_thread_exit_proc(t) \/ GC_wait_for_gc_completion(t)
  PROVE  GInv'
<1>1. CASE GC_thread_exit_proc(t)
  <2>1. thr[t].pc \in {"leaving", "wait"}
    BY <1>1 DEF GC_thread_exit_proc
  <2>2. CASE gcPhase = "none"
    BY <1>1, <2>1, <2>2, UnregisterInnerKeeps DEF GC_thread_exit_proc
  <2>3. CASE gcPhase # "none"
    <3>1. /\ thr' = [thr EXCEPT ![t].pc = "wait"] /\ GC_collect_a_little_inner
          /\ UNCHANGED <<chain, rec, dontGc, client>>
      BY <1>1, <2>3 DEF GC_thread_exit_proc
    <3> QED
      BY <3>1, <2>1, WaitKeeps
  <2> QED
    BY <2>2, <2>3
<1>2. CASE GC_wait_for_gc_completion(t)
  <2>1. thr[t].pc \in {"leaving", "wait"}
    BY <1>2 DEF GC_wait_for_gc_completion
  <2>2. CASE WaitMore(FALSE, t)
    <3>1. /\ thr' = thr /\ GC_collect_a_little_inner
          /\ UNCHANGED <<chain, rec, dontGc, client>>
      BY <1>2, <2>2 DEF GC_wait_for_gc_completion
    <3> QED
      BY <3>1, <2>1, WaitKeeps
  <2>3. CASE ~WaitMore(FALSE, t)
    BY <1>2, <2>1, <2>3, UnregisterInnerKeeps DEF GC_wait_for_gc_completion
  <2> QED
    BY <2>2, <2>3
<1> QED
  BY <1>1, <1>2

-----------------------------------------------------------------------------
Through(p) == thr' = [thr EXCEPT ![p].pc = "run", ![p].saved = Null]
LEMMA ThroughIs ==
  ASSUME GInv, NEW p \in RegThread, thr[p].pc \in {"joined", "detached"}, Through(p)
  PROVE  /\ thr' \in [RegThread -> RegThr] /\ GThreads'
         /\ \A u \in RegThread : u # p => thr'[u] = thr[u]
         /\ thr'[p].pc = "run" /\ thr'[p].saved = Null /\ thr'[p].id = thr[p].id
         /\ thr'[p].me = thr[p].me /\ thr'[p].kind = thr[p].kind
         /\ thr'[p].detached = thr[p].detached /\ thr'[p].arg = thr[p].arg
         /\ \A u \in RegThread : (Living(u)' <=> Living(u)) /\ (Joinable(u)' <=> Joinable(u))
<1>1. thr \in [RegThread -> RegThr] /\ thr[p] \in RegThr /\ "run" \in ThrStates
  BY DEF GInv, GTypes, ThrStates
<1>2. /\ thr' = [thr EXCEPT ![p] = [thr[p] EXCEPT !.pc = "run", !.saved = Null]]
      /\ [thr[p] EXCEPT !.pc = "run", !.saved = Null] \in RegThr
  BY <1>1 DEF Through, RegThr
<1>3. /\ thr' \in [RegThread -> RegThr]
      /\ \A u \in RegThread : u # p => thr'[u] = thr[u]
      /\ thr'[p].pc = "run" /\ thr'[p].saved = Null /\ thr'[p].id = thr[p].id
      /\ thr'[p].me = thr[p].me /\ thr'[p].kind = thr[p].kind
      /\ thr'[p].detached = thr[p].detached /\ thr'[p].arg = thr[p].arg
  BY <1>1, <1>2 DEF RegThr
<1>4. GThread(p)'
  <2>1. GThread(p)
    BY DEF GInv, GThreads
  <2> QED
    BY <2>1, <1>3 DEF GThread, Registers
<1>5. \A u \in RegThread : u # p => GThread(u)'
  BY <1>3 DEF GInv, GThreads, GThread
<1>6. \A u \in RegThread : (Living(u)' <=> Living(u)) /\ (Joinable(u)' <=> Joinable(u))
  BY <1>3 DEF Living, Joinable
<1> QED
  BY <1>3, <1>4, <1>5, <1>6 DEF GThreads

\* What pthread_join and pthread_detach come back to.
LEMMA SavedIs ==
  ASSUME GInv, NEW p \in RegThread, thr[p].pc \in {"joined", "detached"}
  PROVE  \E x \in InTable :
           /\ x \in Rec /\ x = thr[p].saved /\ x # Null /\ "DETACHED" \notin rec[x].flags
           /\ rec[x].stack \in RegThread /\ ~Joinable(rec[x].stack)
           /\ thr[rec[x].stack].pc = "gone" \/ thr[rec[x].stack].detached = TRUE
           /\ \A u \in RegThread : thr[u].saved = x => u = p
<1>1. thr[p].saved # Null /\ thr[p].arg = Null
  BY DEF GInv, GThreads, GThread
<1>2. GSavedOf(p)
  BY <1>1 DEF GInv, GSaved
<1>3. PICK x \in InTable : x = thr[p].saved
  BY <1>2 DEF GSavedOf
<1>4. /\ "DETACHED" \notin rec[x].flags
      /\ thr[rec[x].stack].pc = "gone" \/ thr[rec[x].stack].detached = TRUE
  BY <1>1, <1>2, <1>3 DEF GSavedOf
<1>5. x \in Rec /\ rec[x].stack \in RegThread
  BY OneRecord DEF GRecord
<1>6. ~Joinable(rec[x].stack)
  BY <1>4 DEF Joinable
<1>7. \A u \in RegThread : thr[u].saved = x => u = p
  BY <1>1, <1>3 DEF GInv, GSaved
<1> QED
  BY <1>1, <1>3, <1>4, <1>5, <1>6, <1>7

LEMMA DeleteFinishedKeeps ==
  ASSUME GInv, NEW p \in RegThread, thr[p].pc \in {"joined", "detached"}, Through(p),
         NEW x \in InTable, x = thr[p].saved, "FINISHED" \in rec[x].flags,
         chain' = Without(x), rec' = Freed(x), UNCHANGED <<dontGc, collection, client>>
  PROVE  GInv'
<1>1. /\ thr' \in [RegThread -> RegThr] /\ GThreads'
      /\ \A u \in RegThread : u # p => thr'[u] = thr[u]
      /\ thr'[p].pc = "run" /\ thr'[p].saved = Null /\ thr'[p].id = thr[p].id
      /\ thr'[p].me = thr[p].me /\ thr'[p].kind = thr[p].kind
      /\ thr'[p].detached = thr[p].detached /\ thr'[p].arg = thr[p].arg
      /\ \A u \in RegThread : (Living(u)' <=> Living(u)) /\ (Joinable(u)' <=> Joinable(u))
  BY ThroughIs
<1>2. /\ x \in Rec /\ x # Null /\ ~Joinable(rec[x].stack)
      /\ \A u \in RegThread : thr[u].saved = x => u = p
  BY SavedIs
<1>3. \A u \in RegThread : thr[u].me # x
  BY <1>2 DEF GInv, GMine
<1>4. dontGc' = Cardinality(Disabling \ {x})
  <2>1. x \notin Disabling
    BY DEF Disabling
  <2>2. Disabling \ {x} = Disabling
    BY <2>1
  <2> QED
    BY <2>2 DEF GInv, GDont
<1>5. ASSUME NEW u \in RegThread
      PROVE  /\ thr'[u].id = thr[u].id /\ thr'[u].detached = thr[u].detached
             /\ thr'[u].kind = "foreign" <=> thr[u].kind = "foreign"
             /\ thr'[u].kind = "survivor" <=> thr[u].kind = "survivor"
             /\ thr'[u].pc \in {"none", "starting"} <=> thr[u].pc \in {"none", "starting"}
             /\ thr'[u].pc = "gone" <=> thr[u].pc = "gone"
             /\ thr'[u].pc = "joined" => thr[u].pc = "joined"
             /\ thr[u].pc \in {"out", "dead"} => thr'[u].pc \in {"out", "dead"}
             /\ (Living(u)' <=> Living(u)) /\ (Joinable(u)' <=> Joinable(u))
             /\ thr'[u].me = (IF thr[u].me = x THEN Null ELSE thr[u].me)
             /\ thr'[u].saved = (IF thr[u].saved = x THEN Null ELSE thr[u].saved)
             /\ thr'[u].saved # Null => thr'[u].arg = thr[u].arg
             /\ "again" \notin client /\ thr'[u].kind = "dtor" => thr'[u].pc \in {"out", "dead", "gone"}
  <2>0. "again" \notin client /\ thr[u].kind = "dtor" => thr[u].pc \in {"out", "dead", "gone"}
    BY DEF GInv, GKept
  <2>1. CASE u = p
    BY <2>0, <2>1, <1>1, <1>3
  <2>2. CASE u # p
    BY <2>0, <2>2, <1>1, <1>2, <1>3
  <2> QED
    BY <2>1, <2>2
<1>6. UNCHANGED <<gcPhase, passed, pushed>> /\ passed' \subseteq RegThread
  BY DEF collection, GInv, GTypes
<1> QED
  BY <1>1, <1>2, <1>4, <1>5, <1>6, DeletedKeeps

\* The thread is still registered: only pthread_detach comes here unless
\* threads register again.
LEMMA MarkDetachedKeeps ==
  ASSUME GInv, NEW p \in RegThread, thr[p].pc \in {"joined", "detached"}, Through(p),
         NEW x \in InTable, x = thr[p].saved, "FINISHED" \notin rec[x].flags,
         NEW f \in SUBSET {"DETACHED"}, thr[p].pc = "detached" => "DETACHED" \in f,
         chain' = chain, Marks(x, f), UNCHANGED <<dontGc, collection, client>>
  PROVE  GInv'
<1>1. /\ thr' \in [RegThread -> RegThr] /\ GThreads'
      /\ \A u \in RegThread : u # p => thr'[u] = thr[u]
      /\ thr'[p].pc = "run" /\ thr'[p].saved = Null /\ thr'[p].id = thr[p].id
      /\ thr'[p].me = thr[p].me /\ thr'[p].kind = thr[p].kind
      /\ thr'[p].detached = thr[p].detached /\ thr'[p].arg = thr[p].arg
      /\ \A u \in RegThread : (Living(u)' <=> Living(u)) /\ (Joinable(u)' <=> Joinable(u))
  BY ThroughIs
<1>2. /\ x \in Rec /\ x # Null /\ ~Joinable(rec[x].stack) /\ rec[x].stack \in RegThread
      /\ \A u \in RegThread : thr[u].saved = x => u = p
  BY SavedIs
<1>3. /\ rec' \in [Rec -> RegRec] /\ \A r \in Rec : r # x => rec'[r] = rec[r]
      /\ rec'[x].id = rec[x].id /\ rec'[x].stack = rec[x].stack
      /\ rec'[x].flags = rec[x].flags \cup f
      /\ chain' \in [Chains -> Seq(Rec)] /\ GChains' /\ InTable' = InTable /\ GUnused'
      /\ \A j \in Id : GC_lookup_thread(j)' = GC_lookup_thread(j)
      /\ \A r \in InTable :
           /\ r \in Rec /\ r # Null /\ GRecord(r) /\ rec[r].stack \in RegThread /\ rec[r].id \in Id
           /\ rec'[r].id = rec[r].id /\ rec'[r].stack = rec[r].stack
  <2>1. f \in SUBSET RegFlags
    BY DEF RegFlags
  <2> QED
    BY <2>1, MarksIs
<1>4. \A r \in InTable : /\ ("FINISHED" \in rec'[r].flags <=> "FINISHED" \in rec[r].flags)
                         /\ ("DISABLED_GC" \in rec'[r].flags <=> "DISABLED_GC" \in rec[r].flags)
                         /\ ("DETACHED" \in rec[r].flags => "DETACHED" \in rec'[r].flags)
                         /\ r # x => rec'[r] = rec[r]
  BY <1>3
<1>5. \A u \in RegThread :
        /\ thr'[u].id = thr[u].id /\ thr'[u].me = thr[u].me /\ thr'[u].kind = thr[u].kind
        /\ thr'[u].detached = thr[u].detached /\ thr'[u].arg = thr[u].arg
        /\ thr'[u].pc \in {"none", "starting"} <=> thr[u].pc \in {"none", "starting"}
        /\ thr'[u].pc \in {"out", "dead"} <=> thr[u].pc \in {"out", "dead"}
        /\ thr'[u].pc = "gone" <=> thr[u].pc = "gone"
  BY <1>1
<1>6. GTypes'
  BY <1>1, <1>3 DEF GInv, GTypes, Chains, Apart, collection
<1>7. GIds'
  BY <1>1, <1>5 DEF GInv, GIds
<1>8. GTable'
  <2>1. ASSUME NEW r \in InTable PROVE GRecord(r)'
    <3>1. CASE r = x
      BY <3>1, <1>1, <1>3, <1>4, <1>5 DEF GRecord
    <3>2. CASE r # x
      BY <3>2, <1>1, <1>3, <1>4, <1>5 DEF GRecord
    <3> QED
      BY <3>1, <3>2
  <2> QED
    BY <2>1, <1>3 DEF GTable
<1>9. GMine'
  BY <1>3, <1>4, <1>5 DEF GInv, GMine
<1>10. GJoin'
  <2>1. ASSUME NEW u \in RegThread, Joinable(u)
        PROVE  \E r \in InTable : rec'[r].stack = u /\ "DETACHED" \notin rec'[r].flags
    <3>1. PICK r \in InTable : rec[r].stack = u /\ "DETACHED" \notin rec[r].flags
      BY <2>1 DEF GInv, GJoin
    <3>2. r # x
      BY <3>1, <2>1, <1>2
    <3> QED
      BY <3>1, <3>2, <1>4
  <2> QED
    BY <2>1, <1>1, <1>3 DEF GJoin
<1>11. GForeign'
  BY <1>1, <1>3, <1>4, <1>5 DEF GInv, GForeign
<1>12. GSaved'
  <2>1. ASSUME NEW v \in RegThread, thr'[v].saved # Null PROVE GSavedOf(v)'
    <3>1. v # p /\ thr'[v] = thr[v] /\ GSavedOf(v)
      BY <2>1, <1>1 DEF GInv, GSaved
    <3>2. PICK y \in InTable : y = thr[v].saved /\ y # x
      BY <3>1, <1>2 DEF GSavedOf
    <3>3. thr[v].arg # Null => thr[v].arg \in RegThread
      BY GFlat DEF GInv
    <3> QED
      BY <3>1, <3>2, <3>3, <1>1, <1>3, <1>4, <1>5 DEF GSavedOf
  <2>2. ASSUME NEW v \in RegThread, NEW w \in RegThread, thr'[v].saved # Null,
               thr'[v].saved = thr'[w].saved
        PROVE  v = w
    BY <2>2, <1>1 DEF GInv, GSaved
  <2> QED
    BY <2>1, <2>2 DEF GSaved
<1>13. GKept'
  <2>1. SUFFICES ASSUME "again" \notin client PROVE GKept'
    BY DEF GKept
  <2>2. ASSUME NEW r \in InTable, r # x, Keeps(r) PROVE Keeps(r)'
    <3>1. \A v \in RegThread : thr[v].saved = r => thr'[v].saved = r
      BY <2>2, <1>1, <1>2
    <3> QED
      BY <3>1, <2>2, <1>3, <1>5 DEF Keeps
  \* Without threads that register again the record of a thread that was
  \* joined is finished.
  <2>3. "DETACHED" \in rec'[x].flags
    <3>1. thr[p].pc # "joined"
      <4>1. SUFFICES ASSUME thr[p].pc = "joined" PROVE FALSE
        OBVIOUS
      <4>2. thr[rec[x].stack].pc = "gone"
        BY <4>1, <2>1 DEF GInv, GKept
      <4>3. thr[rec[x].stack].me = x
        BY <1>3 DEF GRecord
      <4> QED
        BY <4>2, <4>3, <1>2 DEF GInv, GThreads, GThread, Registers
    <3> QED
      BY <3>1, <1>3
  <2>4. ASSUME NEW r \in InTable
        PROVE  /\ "FINISHED" \in rec'[r].flags => thr'[rec'[r].stack].pc \in {"out", "dead"} \/ Keeps(r)'
               /\ thr'[rec'[r].stack].detached = TRUE => "DETACHED" \in rec'[r].flags \/ Keeps(r)'
    <3>1. /\ "FINISHED" \in rec[r].flags => thr[rec[r].stack].pc \in {"out", "dead"} \/ Keeps(r)
          /\ thr[rec[r].stack].detached = TRUE => "DETACHED" \in rec[r].flags \/ Keeps(r)
      BY <2>1 DEF GInv, GKept
    <3>2. CASE r = x
      BY <3>2, <2>3, <1>4
    <3>3. CASE r # x
      BY <3>1, <3>3, <2>2, <1>3, <1>4, <1>5
    <3> QED
      BY <3>2, <3>3
  <2>5. ASSUME NEW u \in RegThread
        PROVE  /\ thr'[u].pc = "joined" => thr'[rec'[thr'[u].saved].stack].pc = "gone"
               /\ thr'[u].kind = "dtor" => thr'[u].pc \in {"out", "dead", "gone"}
    <3>1. /\ thr[u].pc = "joined" => thr[rec[thr[u].saved].stack].pc = "gone"
          /\ thr[u].kind = "dtor" => thr[u].pc \in {"out", "dead", "gone"}
          /\ thr[u].pc = "joined" => thr[u].saved \in InTable
      BY <2>1 DEF GInv, GKept, GSaved, GThreads, GThread, GSavedOf
    <3>2. CASE u = p
      BY <3>1, <3>2, <1>1
    <3>3. CASE u # p
      BY <3>1, <3>3, <1>1, <1>3, <1>5
    <3> QED
      BY <3>2, <3>3
  <2> QED
    BY <2>4, <2>5, <1>3 DEF GKept
<1>14. GDont'
  <2>1. ASSUME NEW r PROVE r \in Disabling' <=> r \in Disabling
    BY <1>3, <1>4 DEF Disabling
  <2>2. Disabling' = Disabling
    BY <2>1
  <2> QED
    BY <2>2, <1>3, <1>4 DEF GInv, GDont
<1> QED
  BY <1>1, <1>3, <1>6, <1>7, <1>8, <1>9, <1>10, <1>11, <1>12, <1>13, <1>14 DEF GInv

LEMMA AfterKeeps ==
  ASSUME GInv, NEW p \in RegThread, AfterJoin(p) \/ AfterDetach(p)
  PROVE  GInv'
<1>1. PICK f \in SUBSET {"DETACHED"} :
        /\ DeleteFinished(p, f) /\ thr[p].pc \in {"joined", "detached"}
        /\ thr[p].pc = "detached" => "DETACHED" \in f
  BY DEF AfterJoin, AfterDetach
<1>2. PICK x \in InTable : x = thr[p].saved
  BY <1>1, SavedIs
<1>3. Through(p) /\ UNCHANGED <<dontGc, collection, client>>
  BY <1>1 DEF DeleteFinished, Through
<1>4. CASE "FINISHED" \in rec[x].flags
  <2>1. chain' = Without(x) /\ rec' = Freed(x)
    BY <1>1, <1>2, <1>4 DEF DeleteFinished, KNOWN_FINISHED
  <2> QED
    BY <2>1, <1>1, <1>2, <1>3, <1>4, DeleteFinishedKeeps
<1>5. CASE "FINISHED" \notin rec[x].flags
  <2>1. chain' = chain /\ Marks(x, f)
    BY <1>1, <1>2, <1>5 DEF DeleteFinished, KNOWN_FINISHED, Marks
  <2> QED
    BY <2>1, <1>1, <1>2, <1>3, <1>5, MarkDetachedKeeps
<1> QED
  BY <1>4, <1>5

-----------------------------------------------------------------------------
Survives(p) ==
  thr' = [t \in RegThread |->
            IF t = p
            THEN [thr[p] EXCEPT !.pc = "run",
                                !.kind = IF @ = "created" THEN "survivor" ELSE @]
            ELSE IF thr[t].pc = "none" THEN thr[t]
            ELSE NewThread(thr[t].id, "foreign", TRUE, "gone")]
LEMMA SurvivesIs ==
  ASSUME GInv, NEW p \in RegThread, thr[p].pc = "forking", Survives(p)
  PROVE  /\ thr' \in [RegThread -> RegThr] /\ GThreads'
         /\ thr'[p].pc = "run" /\ thr'[p].id = thr[p].id /\ thr'[p].me = thr[p].me
         /\ thr'[p].saved = Null /\ thr'[p].detached = thr[p].detached
         /\ thr'[p].kind = (IF thr[p].kind = "created" THEN "survivor" ELSE thr[p].kind)
         /\ \A u \in RegThread : u # p =>
              /\ thr'[u].pc \in {"none", "gone"} /\ thr'[u].me = Null /\ thr'[u].saved = Null
              /\ thr'[u].kind = "dtor" => thr'[u].pc = "none" /\ thr'[u] = thr[u]
<1>1. PICK k \in ThrKinds : k = IF thr[p].kind = "created" THEN "survivor" ELSE thr[p].kind
  BY GFlat DEF GInv, ThrKinds
<1>2. thr[p] \in RegThr /\ "run" \in ThrStates
  BY GFlat DEF GInv, ThrStates
<1>3. /\ thr'[p] = [thr[p] EXCEPT !.pc = "run", !.kind = k]
      /\ \A u \in RegThread : u # p /\ thr[u].pc = "none" => thr'[u] = thr[u]
      /\ \A u \in RegThread : u # p /\ thr[u].pc # "none" =>
           thr'[u] = NewThread(thr[u].id, "foreign", TRUE, "gone")
      /\ thr' = [t \in RegThread |-> thr'[t]]
  BY <1>1 DEF Survives
<1>4. /\ thr'[p] \in RegThr /\ thr'[p].pc = "run" /\ thr'[p].id = thr[p].id
      /\ thr'[p].me = thr[p].me /\ thr'[p].saved = thr[p].saved /\ thr'[p].arg = thr[p].arg
      /\ thr'[p].detached = thr[p].detached /\ thr'[p].kind = k
  BY <1>2, <1>3 DEF RegThr
<1>5. ASSUME NEW u \in RegThread, u # p, thr[u].pc # "none"
      PROVE  /\ thr'[u] \in RegThr /\ thr'[u].pc = "gone" /\ thr'[u].me = Null
             /\ thr'[u].saved = Null /\ thr'[u].arg = Null /\ thr'[u].kind = "foreign"
             /\ thr'[u].detached = TRUE /\ thr'[u].id = thr[u].id
  <2>1. thr'[u] = NewThread(thr[u].id, "foreign", TRUE, "gone") /\ thr[u].id \in Id \cup {Null}
    BY <1>3, <1>5, GFlat DEF GInv
  <2>2. NewThread(thr[u].id, "foreign", TRUE, "gone") \in RegThr
    BY <2>1 DEF NewThread, RegThr, ThrStates, ThrKinds
  <2> QED
    BY <2>1, <2>2 DEF NewThread
<1>6. \A u \in RegThread : thr'[u] \in RegThr
  BY <1>3, <1>4, <1>5, GFlat DEF GInv
<1>7. thr' \in [RegThread -> RegThr]
  BY <1>3, <1>6
<1>8. thr[p].saved = Null /\ thr[p].arg = Null /\ GThread(p)
  BY DEF GInv, GThreads, GThread
<1>9. GThread(p)'
  BY <1>1, <1>4, <1>8 DEF GThread, Registers
<1>10. ASSUME NEW u \in RegThread, u # p PROVE GThread(u)'
  <2>1. CASE thr[u].pc = "none"
    BY <2>1, <1>3, <1>10 DEF GInv, GThreads, GThread
  <2>2. CASE thr[u].pc # "none"
    <3>1. thr[u].id \in Id
      BY <2>2 DEF GInv, GThreads, GThread
    <3> QED
      BY <3>1, <2>2, <1>5, <1>10 DEF GThread, Registers
  <2> QED
    BY <2>1, <2>2
<1>11. ASSUME NEW u \in RegThread, u # p
       PROVE  /\ thr'[u].pc \in {"none", "gone"} /\ thr'[u].me = Null /\ thr'[u].saved = Null
              /\ thr'[u].kind = "dtor" => thr'[u].pc = "none" /\ thr'[u] = thr[u]
  <2>1. CASE thr[u].pc = "none"
    <3>1. thr[u].me = Null /\ thr[u].saved = Null
      BY <2>1 DEF GInv, GThreads, GThread, Registers
    <3> QED
      BY <3>1, <2>1, <1>3, <1>11
  <2>2. CASE thr[u].pc # "none"
    BY <2>2, <1>5, <1>11
  <2> QED
    BY <2>1, <2>2
<1> QED
  BY <1>1, <1>4, <1>7, <1>8, <1>9, <1>10, <1>11 DEF GThreads

LEMMA ForkChildKeeps ==
  ASSUME GInv, NEW p \in RegThread, fork_child_proc(p), "fork" \in client
  PROVE  GInv'
<1>1. /\ thr[p].pc = "forking" /\ GC_remove_all_threads_but_me(p) /\ Survives(p)
      /\ UNCHANGED <<dontGc, collection, client>>
  BY DEF fork_child_proc, Survives
<1>2. PICK x \in InTable : /\ x = thr[p].me /\ x \in Rec /\ rec[x].stack = p
                           /\ "FINISHED" \notin rec[x].flags
                           /\ thr[p].id \in Id /\ rec[x].id = thr[p].id
                           /\ GC_lookup_thread(thr[p].id) = x /\ x # Null /\ Living(p)
  BY <1>1, MineIs DEF Registers
<1>3. OnlyRecord(thr[p].id, x)
  BY <1>1, <1>2 DEF GC_remove_all_threads_but_me, MyRecord, OnlyRecord
<1>4. /\ thr' \in [RegThread -> RegThr] /\ GThreads'
      /\ thr'[p].pc = "run" /\ thr'[p].id = thr[p].id /\ thr'[p].me = thr[p].me
      /\ thr'[p].saved = Null /\ thr'[p].detached = thr[p].detached
      /\ thr'[p].kind = (IF thr[p].kind = "created" THEN "survivor" ELSE thr[p].kind)
      /\ \A u \in RegThread : u # p =>
           /\ thr'[u].pc \in {"none", "gone"} /\ thr'[u].me = Null /\ thr'[u].saved = Null
           /\ thr'[u].kind = "dtor" => thr'[u].pc = "none" /\ thr'[u] = thr[u]
  BY <1>1, SurvivesIs
<1>5. /\ rec'[x] = rec[x] /\ \A r \in Rec : r # x => rec'[r] = Unused
      /\ rec' \in [Rec -> RegRec]
  <2>1. Unused \in RegRec /\ rec \in [Rec -> RegRec]
    BY DEF Unused, RegRec, GInv, GTypes
  <2> QED
    BY <2>1, <1>2, <1>3 DEF OnlyRecord
<1>6. /\ chain' \in [Chains -> Seq(Rec)] /\ GChains' /\ InTable' = {x}
      /\ GC_lookup_thread(thr[p].id)' = x
  <2>1. PICK id \in Id : id = thr[p].id
    BY <1>2
  <2>2. rec[x].id = id /\ OnlyRecord(id, x) /\ thr'[p].id = id
    BY <2>1, <1>2, <1>3, <1>4
  <2>3. /\ chain' \in [Chains -> Seq(Rec)] /\ GChains' /\ InTable' = {x}
        /\ GC_lookup_thread(id)' = x
    BY <2>2, <1>2, TableOnly DEF GInv
  <2> QED
    BY <2>2, <2>3
<1>7. \A u \in RegThread : u # p => ~Living(u)' /\ ~Joinable(u)'
  BY <1>4 DEF Living, Joinable
<1>8. Living(p)' /\ (Joinable(p)' => Joinable(p))
  BY <1>1, <1>4 DEF Living, Joinable
<1>9. GTypes'
  BY <1>1, <1>6, <1>5, <1>4 DEF GInv, GTypes, Chains, Apart, collection
<1>10. GIds'
  BY <1>7 DEF GIds
<1>11. GTable'
  <2>1. GRecord(x)
    BY OneRecord
  <2>2. GRecord(x)'
    BY <2>1, <1>2, <1>6, <1>5, <1>4 DEF GRecord
  <2> QED
    BY <2>2, <1>6 DEF GTable
<1>12. GUnused'
  BY <1>6, <1>5 DEF GUnused, Unused
<1>13. GMine'
  BY <1>2, <1>6, <1>5, <1>4 DEF GMine
<1>14. GJoin'
  <2>1. ASSUME Joinable(p) PROVE "DETACHED" \notin rec[x].flags
    BY <2>1, <1>2, JoinableIs
  <2> QED
    BY <2>1, <1>2, <1>6, <1>5, <1>7, <1>8 DEF GJoin
<1>15. GForeign'
  <2>1. thr[p].kind = "foreign" => "DETACHED" \in rec[x].flags
    BY <1>2 DEF GInv, GForeign
  <2>2. thr'[p].kind = "foreign" => thr[p].kind = "foreign"
    BY <1>4
  <2> QED
    BY <2>1, <2>2, <1>2, <1>6, <1>5, <1>7 DEF GForeign
<1>16. GSaved'
  <2>1. \A u \in RegThread : thr'[u].saved = Null
    BY <1>4
  <2> QED
    BY <2>1 DEF GSaved
<1>17. GKept'
  <2>1. SUFFICES ASSUME "again" \notin client PROVE GKept'
    BY <1>1 DEF GKept
  <2>2. thr[p].kind = "dtor" => thr[p].pc \in {"out", "dead", "gone"}
    BY <2>1 DEF GInv, GKept
  <2>3. thr[p].kind # "dtor" /\ thr[p].kind \in ThrKinds
    BY <2>2, <1>1, GFlat DEF GInv
  <2>4. thr'[p].kind \in {"survivor", "foreign"}
    BY <2>3, <1>4 DEF ThrKinds
  <2>5. thr[p].kind = "foreign" => "DETACHED" \in rec[x].flags
    BY <1>2 DEF GInv, GForeign
  <2>6. thr'[p].kind = "survivor" => Keeps(x)'
    BY <1>2, <1>5 DEF Keeps
  <2>7. thr'[p].kind = "foreign" => thr[p].kind = "foreign"
    BY <1>4
  <2>8. "DETACHED" \in rec'[x].flags \/ Keeps(x)'
    BY <2>4, <2>5, <2>6, <2>7, <1>5
  <2>9. ASSUME NEW u \in RegThread
        PROVE  /\ thr'[u].pc # "joined"
               /\ thr'[u].kind = "dtor" => thr'[u].pc \in {"out", "dead", "gone"}
    <3>1. CASE u = p
      BY <3>1, <2>4, <1>4
    <3>2. CASE u # p
      <4>1. thr'[u].kind = "dtor" => thr[u].pc = "none" /\ thr[u].kind = "dtor"
        BY <3>2, <1>4
      <4>2. thr[u].kind = "dtor" => thr[u].pc \in {"out", "dead", "gone"}
        BY <2>1 DEF GInv, GKept
      <4> QED
        BY <4>1, <4>2, <3>2, <1>4
    <3> QED
      BY <3>1, <3>2
  <2>10. \A r \in InTable' :
           /\ "FINISHED" \in rec'[r].flags => thr'[rec'[r].stack].pc \in {"out", "dead"} \/ Keeps(r)'
           /\ thr'[rec'[r].stack].detached = TRUE => "DETACHED" \in rec'[r].flags \/ Keeps(r)'
    BY <2>8, <1>2, <1>6, <1>5
  <2> QED
    BY <2>9, <2>10 DEF GKept
<1>18. GDont'
  <2>1. \A r \in InTable : "DISABLED_GC" \notin rec[r].flags
    BY DEF GInv, GTypes, Apart, GDont
  <2>2. \A r \in InTable' : "DISABLED_GC" \notin rec'[r].flags
    BY <2>1, <1>6, <1>5
  <2>3. Disabling = {} /\ Disabling' = {}
    BY <2>1, <2>2 DEF Disabling
  <2> QED
    BY <2>2, <2>3, <1>1 DEF GInv, GDont
<1> QED
  BY <1>6, <1>4, <1>9, <1>10, <1>11, <1>12, <1>13, <1>14, <1>15, <1>16, <1>17, <1>18 DEF GInv

-----------------------------------------------------------------------------
\* Only a client that forks is ever in the middle of a fork.
GForking == \A t \in RegThread : thr[t].pc = "forking" => "fork" \in client

LEMMA ClientSame ==
  ASSUME [RegistryNext]_registryVars
  PROVE  client' = client
<1>1. \A p, t \in RegThread :
        /\ \A id \in Id, detached \in BOOLEAN :
             pthread_create(p, t, id, detached) => client' = client
        /\ pthread_cancel(p, t) \/ pthread_join(p, t) \/ pthread_detach(p, t)
             => client' = client
  BY DEF pthread_create, pthread_cancel, pthread_join, pthread_detach, Begin
<1>2. \A t \in RegThread :
        /\ \A id \in Id : ForeignThread(t, id) => client' = client
        /\ GC_allocobj(t) \/ GC_start_rtn_prepare_thread(t) \/ Registered(t)
             \/ GC_register_my_thread(t) => client' = client
  BY DEF ForeignThread, GC_allocobj, GC_start_rtn_prepare_thread, Registered,
    GC_register_my_thread
<1>3. \A t \in RegThread :
        pthread_exit(t) \/ ReturnFromStart(t) \/ GC_thread_exit_proc(t)
        \/ GC_wait_for_gc_completion(t) \/ Terminate(t) => client' = client
  BY DEF pthread_exit, ReturnFromStart, GC_thread_exit_proc, GC_wait_for_gc_completion,
    GC_unregister_my_thread_inner, Terminate
<1>4. \A t \in RegThread :
        RealJoin(t) \/ RealDetach(t) \/ AfterJoin(t) \/ AfterDetach(t) => client' = client
  BY DEF RealJoin, RealDetach, AfterJoin, AfterDetach, DeleteFinished
<1>5. \A t \in RegThread :
        fork_prepare_proc(t) \/ fork_parent_proc(t) \/ fork_child_proc(t) => client' = client
  BY DEF fork_prepare_proc, fork_parent_proc, fork_child_proc
<1> QED
  BY <1>1, <1>2, <1>3, <1>4, <1>5 DEF RegistryNext, registryVars

LEMMA ForkingKeeps ==
  ASSUME GInv, GForking, [RegistryNext]_registryVars
  PROVE  GForking'
<1>1. client' = client
  BY ClientSame
<1>2. SUFFICES ASSUME NEW u \in RegThread, thr'[u].pc = "forking", thr[u].pc # "forking"
               PROVE  "fork" \in client
  BY <1>1 DEF GForking
<1>3. thr \in [RegThread -> RegThr] /\ thr[u] \in RegThr
  BY DEF GInv, GTypes
<1>4. ASSUME NEW p \in RegThread, NEW t \in RegThread, NEW id \in Id,
             NEW detached \in BOOLEAN, pthread_create(p, t, id, detached)
      PROVE  FALSE
  BY <1>2, <1>3, <1>4 DEF pthread_create, NewThread, RegThr
<1>5. ASSUME NEW p \in RegThread, NEW t \in RegThread,
             pthread_cancel(p, t) \/ pthread_join(p, t) \/ pthread_detach(p, t)
      PROVE  FALSE
  BY <1>2, <1>3, <1>5 DEF pthread_cancel, pthread_join, pthread_detach, Begin, RegThr
<1>6. ASSUME NEW t \in RegThread, NEW id \in Id, ForeignThread(t, id)
      PROVE  FALSE
  BY <1>2, <1>3, <1>6 DEF ForeignThread, NewThread, RegThr
<1>7. ASSUME NEW t \in RegThread,
             GC_allocobj(t) \/ GC_start_rtn_prepare_thread(t) \/ Registered(t)
             \/ GC_register_my_thread(t)
      PROVE  FALSE
  BY <1>2, <1>3, <1>7 DEF GC_allocobj, GC_start_rtn_prepare_thread, Registered,
    GC_register_my_thread, RegThr
<1>8. ASSUME NEW t \in RegThread, pthread_exit(t) \/ ReturnFromStart(t)
      PROVE  FALSE
  BY <1>2, <1>3, <1>8 DEF pthread_exit, ReturnFromStart, RegThr
<1>9. ASSUME NEW t \in RegThread, GC_thread_exit_proc(t) \/ GC_wait_for_gc_completion(t)
      PROVE  FALSE
  <2>1. CASE GC_unregister_my_thread_inner(t)
    BY <2>1, <1>2, <1>3 DEF GC_unregister_my_thread_inner, RegThr
  <2>2. CASE thr' = [thr EXCEPT ![t].pc = "wait"] \/ thr' = thr
    BY <2>2, <1>2, <1>3 DEF RegThr
  <2> QED
    BY <2>1, <2>2, <1>9 DEF GC_thread_exit_proc, GC_wait_for_gc_completion
<1>10. ASSUME NEW t \in RegThread, Terminate(t)
       PROVE  FALSE
  BY <1>2, <1>3, <1>10 DEF Terminate, RegThr
<1>11. ASSUME NEW t \in RegThread, RealJoin(t) \/ RealDetach(t)
       PROVE  FALSE
  BY <1>2, <1>3, <1>11 DEF RealJoin, RealDetach, RegThr
<1>12. ASSUME NEW t \in RegThread, AfterJoin(t) \/ AfterDetach(t)
       PROVE  FALSE
  BY <1>2, <1>3, <1>12 DEF AfterJoin, AfterDetach, DeleteFinished, RegThr
<1>13. ASSUME NEW t \in RegThread, fork_parent_proc(t) \/ fork_child_proc(t)
       PROVE  FALSE
  <2>1. CASE fork_parent_proc(t)
    BY <2>1, <1>2, <1>3 DEF fork_parent_proc, RegThr
  <2>2. CASE fork_child_proc(t)
    <3>1. Survives(t) /\ thr[t].pc = "forking"
      BY <2>2 DEF fork_child_proc, Survives
    <3> QED
      BY <3>1, <1>2, SurvivesIs
  <2> QED
    BY <2>1, <2>2, <1>13
<1>14. ASSUME NEW t \in RegThread, fork_prepare_proc(t)
       PROVE  "fork" \in client
  BY <1>14 DEF fork_prepare_proc
<1>15. ~UNCHANGED registryVars
  BY <1>2 DEF registryVars
<1> QED
  BY <1>4, <1>5, <1>6, <1>7, <1>8, <1>9, <1>10, <1>11, <1>12, <1>13, <1>14, <1>15
  DEF RegistryNext

-----------------------------------------------------------------------------
GAll == GInv /\ GForking /\ client \in Profiles
ProfilesApart == \A c \in Profiles : c \subseteq ClientOps /\ Apart(c)

LEMMA GInvInit ==
  ASSUME ProfilesApart, RegistryInit
  PROVE  GAll
<1>1. PICK id \in Id :
    /\ thr = [t \in RegThread |->
               [pc |-> IF t = Main THEN "run" ELSE "none",
                id |-> IF t = Main THEN id ELSE Null,
                me |-> IF t = Main THEN FirstThread ELSE Null,
                kind |-> "foreign", detached |-> FALSE, cancelled |-> FALSE,
                arg |-> Null, saved |-> Null]]
    /\ chain = [c \in Chains |-> IF c = Index[id] THEN <<FirstThread>> ELSE <<>>]
    /\ rec = [r \in Rec |->
               IF r # FirstThread THEN Unused
               ELSE [id |-> id, flags |-> {"DETACHED", "MAIN_THREAD"}, stack |-> Main]]
    /\ dontGc = 0 /\ gcPhase = "none" /\ passed = {} /\ pushed = {}
    /\ client \in Profiles
  BY DEF RegistryInit
<1>2. PICK f \in Rec : f = FirstThread
  BY RegistryAssumption
<1>3. /\ \A t \in RegThread :
           /\ thr[t] \in RegThr /\ thr[t].kind = "foreign" /\ thr[t].detached = FALSE
           /\ thr[t].arg = Null /\ thr[t].saved = Null
           /\ t # Main => thr[t].pc = "none" /\ thr[t].me = Null
      /\ thr[Main].pc = "run" /\ thr[Main].id = id /\ thr[Main].me = f
      /\ thr \in [RegThread -> RegThr]
  <2>1. ASSUME NEW t \in RegThread
        PROVE  /\ thr[t] \in RegThr /\ thr[t].kind = "foreign" /\ thr[t].detached = FALSE
               /\ thr[t].arg = Null /\ thr[t].saved = Null
               /\ t # Main => thr[t].pc = "none" /\ thr[t].me = Null
               /\ t = Main => thr[t].pc = "run" /\ thr[t].id = id /\ thr[t].me = f
    <3>1. CASE t = Main
      <4>1. thr[t] = [pc |-> "run", id |-> id, me |-> f, kind |-> "foreign",
                      detached |-> FALSE, cancelled |-> FALSE, arg |-> Null, saved |-> Null]
        BY <3>1, <1>1, <1>2
      <4> QED
        BY <4>1, <3>1 DEF RegThr, ThrStates, ThrKinds
    <3>2. CASE t # Main
      <4>1. thr[t] = [pc |-> "none", id |-> Null, me |-> Null, kind |-> "foreign",
                      detached |-> FALSE, cancelled |-> FALSE, arg |-> Null, saved |-> Null]
        BY <3>2, <1>1
      <4> QED
        BY <4>1, <3>2 DEF RegThr, ThrStates, ThrKinds
    <3> QED
      BY <3>1, <3>2
  <2>2. thr = [t \in RegThread |-> thr[t]]
    BY <1>1
  <2> QED
    BY <2>1, <2>2, GNull
<1>4. /\ rec[f].id = id /\ rec[f].flags = {"DETACHED", "MAIN_THREAD"} /\ rec[f].stack = Main
      /\ \A r \in Rec : r # f => rec[r] = Unused
      /\ rec \in [Rec -> RegRec]
  <2>1. rec[f] = [id |-> id, flags |-> {"DETACHED", "MAIN_THREAD"}, stack |-> Main]
    BY <1>1, <1>2
  <2>2. \A r \in Rec : r # f => rec[r] = Unused
    BY <1>1, <1>2
  <2>3. rec[f] \in RegRec /\ Unused \in RegRec
    BY <2>1, GNull DEF RegRec, RegFlags, Unused
  <2>4. rec = [r \in Rec |-> rec[r]]
    BY <1>1
  <2>5. \A r \in Rec : rec[r] \in RegRec
    BY <2>2, <2>3
  <2> QED
    BY <2>1, <2>2, <2>4, <2>5
<1>5. /\ <<f>> \in Seq(Rec) /\ IsInjective(<<f>>) /\ Range(<<f>>) = {f}
      /\ <<>> \in Seq(Rec) /\ IsInjective(<<>>) /\ Range(<<>>) = {}
  BY DEF IsInjective, Range
<1>6. /\ Index[id] \in Chains /\ chain \in [Chains -> Seq(Rec)] /\ chain[Index[id]] = <<f>>
      /\ \A c \in Chains : c # Index[id] => chain[c] = <<>>
  <2>1. Index[id] \in Chains
    BY DEF Chains
  <2> QED
    BY <2>1, <1>1, <1>2, <1>5
<1>7. GTypes
  BY <1>1, <1>3, <1>4, <1>6 DEF GTypes, ProfilesApart
<1>8. GChains
  <2>1. ASSUME NEW c \in Chains
        PROVE  /\ IsInjective(chain[c])
               /\ \A r \in Range(chain[c]) : rec[r].id \in Id /\ Index[rec[r].id] = c
    <3>1. CASE c = Index[id]
      BY <3>1, <1>4, <1>5, <1>6
    <3>2. CASE c # Index[id]
      BY <3>2, <1>5, <1>6
    <3> QED
      BY <3>1, <3>2
  <2> QED
    BY <2>1 DEF GChains
<1>9. InTable = {f}
  <2>1. \A r : r \in InTable <=> \E c \in Chains : r \in Range(chain[c])
    BY DEF InTable
  <2> QED
    BY <2>1, <1>5, <1>6
<1>10. GC_lookup_thread(id) = f
  <2>1. PICK z \in Seq(Rec) : z = <<f>>
    BY <1>5
  <2>2. IsFirst(z, rec, id, 1) /\ z[1] = f
    BY <2>1, <1>4 DEF IsFirst
  <2>3. FindIn(z, rec, id) = f
    BY <2>2, FindFirst
  <2> QED
    BY <2>1, <2>3, <1>6, LookupFinds
<1>11. f # Null /\ Main \in RegThread /\ "run" \in Registers /\ "none" \notin Registers
  BY <1>2, GNull DEF Registers
<1>12. GThreads
  <2>1. GThread(Main)
    BY <1>3, <1>11 DEF GThread
  <2>2. ASSUME NEW t \in RegThread, t # Main PROVE GThread(t)
    BY <2>2, <1>3, <1>11 DEF GThread
  <2> QED
    BY <2>1, <2>2 DEF GThreads
<1>13. \A t \in RegThread : (Living(t) => t = Main) /\ ~Joinable(t)
  BY <1>3 DEF Living, Joinable
<1>14. GIds /\ GJoin
  BY <1>13 DEF GIds, GJoin
<1>15. GTable
  <2>1. GRecord(f)
    BY <1>3, <1>4, <1>10, <1>11 DEF GRecord
  <2> QED
    BY <2>1, <1>9 DEF GTable
<1>16. GUnused
  BY <1>4, <1>9 DEF GUnused
<1>17. GMine
  BY <1>3, <1>4, <1>9 DEF GMine
<1>18. GForeign
  BY <1>4, <1>9, <1>13 DEF GForeign
<1>19. GSaved
  BY <1>3 DEF GSaved
<1>20. GKept
  BY <1>3, <1>4, <1>9, <1>11 DEF GKept
<1>21. GDont
  <2>1. Disabling = {}
    BY <1>4, <1>9 DEF Disabling
  <2>2. Cardinality(Disabling) = 0
    BY <2>1, FS_EmptySet
  <2> QED
    BY <2>2, <1>1, <1>4, <1>9 DEF GDont
<1>22. GForking
  BY <1>3 DEF GForking
<1> QED
  BY <1>1, <1>7, <1>8, <1>12, <1>14, <1>15, <1>16, <1>17, <1>18, <1>19, <1>20, <1>21, <1>22
  DEF GAll, GInv

LEMMA GInvNext ==
  ASSUME GAll, [RegistryNext]_registryVars
  PROVE  GAll'
<1>0. GInv /\ GForking /\ client \in Profiles
  BY DEF GAll
<1>1. client' = client /\ GForking'
  BY <1>0, ClientSame, ForkingKeeps
<1>2. GInv'
  <2>1. ASSUME NEW p \in RegThread, NEW t \in RegThread, NEW id \in Id,
               NEW detached \in BOOLEAN, pthread_create(p, t, id, detached)
        PROVE  GInv'
    BY <2>1, <1>0, PthreadCreateKeeps
  <2>2. ASSUME NEW p \in RegThread, NEW t \in RegThread, pthread_cancel(p, t)
        PROVE  GInv'
    BY <2>2, <1>0, CancelKeeps
  <2>3. ASSUME NEW p \in RegThread, NEW t \in RegThread,
               pthread_join(p, t) \/ pthread_detach(p, t)
        PROVE  GInv'
    <3>1. PICK q \in {"joining", "detaching"} : Begin(p, t, q)
      BY <2>3 DEF pthread_join, pthread_detach
    <3> QED
      BY <3>1, <1>0, BeginKeeps
  <2>4. ASSUME NEW t \in RegThread, NEW id \in Id, ForeignThread(t, id)
        PROVE  GInv'
    BY <2>4, <1>0, ForeignKeeps
  <2>5. ASSUME NEW t \in RegThread, GC_allocobj(t) PROVE GInv'
    BY <2>5, <1>0, AllocobjKeeps
  <2>6. ASSUME NEW t \in RegThread, GC_start_rtn_prepare_thread(t) PROVE GInv'
    BY <2>6, <1>0, StartRtnKeeps
  <2>7. ASSUME NEW t \in RegThread, Registered(t) PROVE GInv'
    BY <2>7, <1>0, RegisteredKeeps
  <2>8. ASSUME NEW t \in RegThread, GC_register_my_thread(t) PROVE GInv'
    BY <2>8, <1>0, RegisterMyThreadKeeps
  <2>9. ASSUME NEW t \in RegThread, pthread_exit(t) PROVE GInv'
    BY <2>9, <1>0, ExitKeeps
  <2>10. ASSUME NEW t \in RegThread, ReturnFromStart(t) PROVE GInv'
    BY <2>10, <1>0, ReturnFromStartKeeps
  <2>11. ASSUME NEW t \in RegThread, GC_thread_exit_proc(t) \/ GC_wait_for_gc_completion(t)
         PROVE  GInv'
    BY <2>11, <1>0, ExitProcKeeps
  <2>12. ASSUME NEW t \in RegThread, Terminate(t) PROVE GInv'
    BY <2>12, <1>0, TerminateKeeps
  <2>13. ASSUME NEW t \in RegThread, RealJoin(t) PROVE GInv'
    BY <2>13, <1>0, RealJoinKeeps
  <2>14. ASSUME NEW t \in RegThread, RealDetach(t) PROVE GInv'
    BY <2>14, <1>0, RealDetachKeeps
  <2>15. ASSUME NEW t \in RegThread, AfterJoin(t) \/ AfterDetach(t) PROVE GInv'
    BY <2>15, <1>0, AfterKeeps
  <2>16. ASSUME NEW t \in RegThread, fork_prepare_proc(t) PROVE GInv'
    BY <2>16, <1>0, ForkPrepareKeeps
  <2>17. ASSUME NEW t \in RegThread, fork_parent_proc(t) PROVE GInv'
    BY <2>17, <1>0, ForkParentKeeps
  <2>18. ASSUME NEW t \in RegThread, fork_child_proc(t) PROVE GInv'
    <3>1. "fork" \in client
      BY <2>18, <1>0 DEF fork_child_proc, GForking
    <3> QED
      BY <3>1, <2>18, <1>0, ForkChildKeeps
  <2>19. ASSUME UNCHANGED registryVars PROVE GInv'
    <3>1. thr' = thr /\ UNCHANGED <<chain, rec, dontGc, client>>
      BY <2>19 DEF registryVars
    <3>2. /\ gcPhase' \in {"none", "marking", "rooted"}
          /\ passed' \subseteq RegThread /\ pushed' \subseteq RegThread
      BY <2>19, <1>0 DEF registryVars, GInv, GTypes
    <3>3. thr' \in [RegThread -> RegThr] /\ GThreads' /\ \A t \in RegThread : CalmStep(t)
      BY <3>1, <1>0, SameThreads
    <3> QED
      BY <3>1, <3>2, <3>3, <1>0, CalmRest
  <2> QED
    BY <2>1, <2>2, <2>3, <2>4, <2>5, <2>6, <2>7, <2>8, <2>9, <2>10, <2>11, <2>12, <2>13,
       <2>14, <2>15, <2>16, <2>17, <2>18, <2>19 DEF RegistryNext
<1> QED
  BY <1>0, <1>1, <1>2 DEF GAll

LEMMA GInvFinds ==
  ASSUME GInv
  PROVE  RegistryTypeOK /\ FoundById /\ DontGcExact
<1>1. RegistryTypeOK
  <2>1. /\ thr \in [RegThread -> [pc : ThrStates, id : Id \cup {Null}, me : Rec \cup {Null},
                                 kind : ThrKinds, detached : BOOLEAN, cancelled : BOOLEAN,
                                 arg : RegThread \cup {Null}, saved : Rec \cup {Null}]]
        /\ DOMAIN chain = Chains
    BY DEF GInv, GTypes, RegThr
  <2>2. \A c \in Chains : IsInjective(chain[c]) /\ Range(chain[c]) \subseteq Rec
    <3>1. TAKE c \in Chains
    <3>2. chain[c] \in Seq(Rec) /\ IsInjective(chain[c])
      BY DEF GInv, GTypes, GChains
    <3> QED
      BY <3>2, RangeIs
  <2>3. \A r \in Rec :
       /\ rec[r].id \in Id \cup {Null} /\ rec[r].stack \in RegThread \cup {Null}
       /\ rec[r].flags \subseteq {"DETACHED", "MAIN_THREAD", "FINISHED", "DISABLED_GC"}
    BY GFlat DEF GInv, RegFlags
  <2> QED
    BY <2>1, <2>2, <2>3 DEF RegistryTypeOK, GInv, GTypes
<1>2. FoundById
  <2>1. ASSUME NEW t \in RegThread, thr[t].me # Null
        PROVE  /\ GC_lookup_thread(thr[t].id) = thr[t].me
               /\ rec[thr[t].me].stack = t /\ ~KNOWN_FINISHED(thr[t].me)
    <3>1. thr[t].pc \in Registers
      BY <2>1 DEF GInv, GThreads, GThread
    <3> QED
      BY <3>1, MineIs DEF KNOWN_FINISHED
  <2> QED
    BY <2>1 DEF FoundById
<1>3. DontGcExact
  <2>1. Disabling = {r \in InTable : "DISABLED_GC" \in rec[r].flags /\ ~KNOWN_FINISHED(r)}
    BY DEF Disabling, KNOWN_FINISHED
  <2> QED
    BY <2>1 DEF DontGcExact, GInv, GDont
<1> QED
  BY <1>1, <1>2, <1>3

\* A record that was freed is not in the table, and nobody holds it.
RecordsHeld ==
  /\ \A r \in Rec \ InTable : rec[r] = Unused
  /\ \A p \in RegThread : thr[p].saved \in InTable \cup {Null}
LEMMA GInvHolds ==
  ASSUME GInv
  PROVE  RecordsHeld
<1>1. \A r \in Rec \ InTable : rec[r] = Unused
  BY DEF GInv, GUnused
<1>2. \A p \in RegThread : thr[p].saved \in InTable \cup {Null}
  BY DEF GInv, GSaved, GSavedOf
<1> QED
  BY <1>1, <1>2 DEF RecordsHeld

LEMMA GInvAccounts ==
  ASSUME GInv, "again" \notin client
  PROVE  RecordsAccounted
<1>1. ASSUME NEW r \in InTable
      PROVE  \/ \E t \in RegThread : thr[t].me = r
             \/ /\ KNOWN_FINISHED(r)
                /\ \/ thr[rec[r].stack].pc \in {"out", "dead"}
                   \/ thr[rec[r].stack].kind = "survivor"
                   \/ \E p \in RegThread : thr[p].saved = r
  <2>1. GRecord(r)
    BY OneRecord
  <2>2. CASE "FINISHED" \in rec[r].flags
    BY <2>2 DEF GInv, GKept, Keeps, KNOWN_FINISHED
  <2>3. CASE "FINISHED" \notin rec[r].flags
    BY <2>1, <2>3 DEF GRecord
  <2> QED
    BY <2>2, <2>3
<1> QED
  BY <1>1, GInvHolds DEF RecordsAccounted, RecordsHeld

LEMMA GInvAlways ==
  ASSUME ProfilesApart
  PROVE  RegistrySpec => []GAll
<1>1. RegistryInit => GAll
  BY GInvInit
<1>2. GAll /\ [RegistryNext]_registryVars => GAll'
  BY GInvNext
<1> QED
  BY <1>1, <1>2, PTL DEF RegistrySpec

(* GC_lookup_thread leads every registered thread to its own record,        *)
(* pthread_join and pthread_detach hold no record that was freed, and       *)
(* GC_dont_gc is the number of threads that are about to leave by           *)
(* pthread_exit or pthread_cancel, for clients that keep the conditions of  *)
(* Apart, those that register again from the destructors of thread keys and *)
(* those that fork included.                                                *)
THEOREM ThreadsAreFound ==
  ASSUME ProfilesApart
  PROVE  RegistrySpec => [](RegistryTypeOK /\ FoundById /\ RecordsHeld /\ DontGcExact)
<1>1. GAll => RegistryTypeOK /\ FoundById /\ RecordsHeld /\ DontGcExact
  BY GInvFinds, GInvHolds DEF GAll
<1>2. RegistrySpec => []GAll
  BY GInvAlways
<1> QED
  BY <1>1, <1>2, PTL

(* The table of threads is sound, RecordsAccounted included, for clients    *)
(* that keep the conditions of Apart and do not register again from the     *)
(* destructors of thread keys: GC_unregister_my_thread_inner, pthread_join, *)
(* pthread_detach and GC_remove_all_threads_but_me free every record once,  *)
(* and none while another of them still holds it.                           *)
THEOREM TableOfThreadsSound ==
  ASSUME ProfilesApart, \A c \in Profiles : "again" \notin c
  PROVE  RegistrySpec => []RegistrySound
<1>1. GAll => RegistrySound
  BY GInvFinds, GInvAccounts DEF GAll, RegistrySound
<1>2. RegistrySpec => []GAll
  BY GInvAlways
<1> QED
  BY <1>1, <1>2, PTL
=============================================================================
