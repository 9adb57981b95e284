------------------------------ MODULE Specific ------------------------------
(* The collector's own thread-specific data (specific.c, specific.h): a     *)
(* hash table of entries that is changed under a lock and read without one,  *)
(* and a cache in front of it that is indexed by a page of the reader's      *)
(* stack.  Ids and stacks of threads that have ended belong to other threads *)
(* later.  Entries are garbage collected.                                    *)
EXTENDS Integers, FiniteSets

CONSTANTS
  TsdThread,    \* threads, in the order of their appearance or not
  TsdId,        \* pthread_t values
  TsdPage,      \* pages of stacks: the quick thread ids
  CacheSlot,    \* CACHE_HASH: from TsdPage to slots of the cache
  Entry,        \* tse objects
  InvalidTse,   \* what the cache holds at first
  NoTse         \* INVALID_QTID, INVALID_THREADID, NULL

\* No entry, thread, id or page is the value for none of them.
ASSUME SpecificNames ==
  /\ InvalidTse \notin Entry \cup TsdThread
  /\ NoTse \notin Entry \cup {InvalidTse} \cup TsdThread \cup TsdId \cup TsdPage

VARIABLES
  tsd,          \* the threads: place in GC_getspecific, id, pages of the stack
  head,         \* hash[h].p for the one hash value all ids have here
  tse,          \* the entries
  tsCache,      \* cache
  result        \* what GC_getspecific returned last

specificVars == <<tsd, head, tse, tsCache, result>>

Tses == Entry \cup {InvalidTse}
Slots == {CacheSlot[q] : q \in TsdPage}
ClearedTse == [qtid |-> NoTse, value |-> NoTse, next |-> NoTse, thread |-> NoTse]
Absent == [pc |-> "none", id |-> NoTse, pages |-> {}, qtid |-> NoTse, p |-> NoTse]

\* GC_key_create_inner
SpecificInit ==
  /\ tsd = [t \in TsdThread |-> Absent]
  /\ head = NoTse
  /\ tse = [e \in Tses |-> ClearedTse]
  /\ tsCache = [s \in Slots |-> InvalidTse]
  /\ result = [t \in TsdThread |-> NoTse]

Alive == {t \in TsdThread : tsd[t].pc \notin {"none", "ended"}}
\* The entries that links of table entries lead to from some of them: those in
\* every set that has these and that no link leaves.
LinkClosed(en, S) == \A e \in S : en[e].next \in S \cup {NoTse}
TseReachable(en, from) ==
  {e \in Tses : \A S \in SUBSET Tses :
                  LinkClosed(en, S) /\ from \subseteq S \cup {NoTse} => e \in S}
\* What the collector finds: from the table, the cache and local variables.
InUse ==
  TseReachable(tse, {head} \cup {tsCache[s] : s \in Slots} \cup {tsd[t].p : t \in TsdThread})
InTableNow == TseReachable(tse, {head})

-----------------------------------------------------------------------------
\* A thread starts, with an id and a stack nobody has now.
Start(t) ==
  /\ tsd[t].pc = "none"
  /\ \E id \in TsdId \ {tsd[u].id : u \in Alive}, q \in SUBSET TsdPage :
       /\ q # {} /\ Cardinality(q) <= 2 /\ \A u \in Alive : tsd[u].pages \cap q = {}
       /\ tsd' = [tsd EXCEPT ![t] = [pc |-> "unset", id |-> id, pages |-> q,
                                     qtid |-> NoTse, p |-> NoTse]]
  /\ UNCHANGED <<head, tse, tsCache, result>>
\* One entry, linked in by one store.  Unused entries are all alike.
GC_setspecific(t) ==
  /\ tsd[t].pc = "unset"
  /\ Entry \ InUse # {}
  /\ \E e \in {CHOOSE x \in Entry : x \notin InUse} :
       /\ tse' = [tse EXCEPT ![e] = [qtid |-> NoTse, value |-> t, next |-> head,
                                     thread |-> tsd[t].id]]
       /\ head' = e
  /\ tsd' = [tsd EXCEPT ![t].pc = "set"]
  /\ UNCHANGED <<tsCache, result>>

\* GC_remove_specific: invalidate the quick id, then unlink.  The walk ends at
\* the first entry of the thread, the one all others of it come after.
FirstOf(id) == {e \in InTableNow : /\ tse[e].thread = id
                                   /\ \A f \in InTableNow : tse[f].thread = id
                                                              => f \in TseReachable(tse, {e})}
Unquick(e) == NoTse
\* The removed entry still leads a reader that is there to the rest of the list.
\* mutated form: its link is cleared
CutOff(e) == [tse[e] EXCEPT !.qtid = Unquick(e), !.next = NoTse]
Removed(e) == [tse[e] EXCEPT !.qtid = Unquick(e)]
RemoveEntry(m) ==
  /\ tse' = [e \in Tses |->
              IF e = m THEN Removed(e)
              ELSE IF e \in InTableNow /\ tse[e].next = m THEN [tse[e] EXCEPT !.next = tse[m].next]
              ELSE tse[e]]
  /\ head' = IF head = m THEN tse[m].next ELSE head
GC_remove_specific_after_fork(t) ==
  /\ tsd[t].pc = "set"
  /\ \E m \in FirstOf(tsd[t].id) : RemoveEntry(m)
  /\ tsd' = [tsd EXCEPT ![t].pc = "removed"]
  /\ UNCHANGED <<tsCache, result>>
End(t) ==
  /\ tsd[t].pc = "removed"
  /\ tsd' = [tsd EXCEPT ![t] = [Absent EXCEPT !.pc = "ended"]]
  /\ result' = [result EXCEPT ![t] = NoTse]
  /\ UNCHANGED <<head, tse, tsCache>>

\* GC_getspecific: the pointer in the cache is loaded once, then the entry is
\* looked at.
GC_getspecific(t) ==
  /\ tsd[t].pc = "set"
  /\ \E q \in tsd[t].pages :
       tsd' = [tsd EXCEPT ![t].pc = "cached", ![t].qtid = q, ![t].p = tsCache[CacheSlot[q]]]
  /\ UNCHANGED <<head, tse, tsCache, result>>
InCache(t) ==
  /\ tsd[t].pc = "cached"
  /\ IF tse[tsd[t].p].qtid = tsd[t].qtid
     THEN /\ result' = [result EXCEPT ![t] = tse[tsd[t].p].value]
          /\ tsd' = [tsd EXCEPT ![t].pc = "set", ![t].p = NoTse, ![t].qtid = NoTse]
     ELSE /\ tsd' = [tsd EXCEPT ![t].pc = "slow", ![t].p = head]
          /\ UNCHANGED result
  /\ UNCHANGED <<head, tse, tsCache>>
\* GC_slow_getspecific: the walk, the quick id, the cache.
WalkChain(t) ==
  /\ tsd[t].pc = "slow"
  /\ \/ /\ tsd[t].p # NoTse /\ tse[tsd[t].p].thread # tsd[t].id
        /\ tsd' = [tsd EXCEPT ![t].p = tse[tsd[t].p].next]
        /\ UNCHANGED <<tse, result>>
     \/ /\ tsd[t].p # NoTse /\ tse[tsd[t].p].thread = tsd[t].id
        /\ tse' = [tse EXCEPT ![tsd[t].p].qtid = tsd[t].qtid]
        /\ tsd' = [tsd EXCEPT ![t].pc = "store"]
        /\ UNCHANGED result
     \/ /\ tsd[t].p = NoTse
        /\ result' = [result EXCEPT ![t] = InvalidTse]
        /\ tsd' = [tsd EXCEPT ![t].pc = "set", ![t].qtid = NoTse]
        /\ UNCHANGED tse
  /\ UNCHANGED <<head, tsCache>>
GC_slow_getspecific(t) ==
  /\ tsd[t].pc = "store"
  /\ tsCache' = [tsCache EXCEPT ![CacheSlot[tsd[t].qtid]] = tsd[t].p]
  /\ result' = [result EXCEPT ![t] = tse[tsd[t].p].value]
  /\ tsd' = [tsd EXCEPT ![t].pc = "set", ![t].p = NoTse, ![t].qtid = NoTse]
  /\ UNCHANGED <<head, tse>>

SpecificNext ==
  \E t \in TsdThread :
    \/ Start(t)
    \/ GC_setspecific(t)
    \/ GC_remove_specific_after_fork(t)
    \/ End(t)
    \/ GC_getspecific(t)
    \/ InCache(t)
    \/ WalkChain(t)
    \/ GC_slow_getspecific(t)

SpecificSpec == SpecificInit /\ [][SpecificNext]_specificVars

-----------------------------------------------------------------------------
\* "if either thread is a valid pthread id or qtid is a valid quick thread id
\* for a thread, then value holds the corresponding thread specific value.
\* This invariant must be preserved at ALL times": for the entries a reader
\* may look at, those in the cache (by their quick ids) and those in the table.
EntriesRight ==
  \A t \in Alive :
    /\ \A e \in {tsCache[s] : s \in Slots} \cup InTableNow :
         tse[e].qtid \in tsd[t].pages => tse[e].value = t
    /\ \A e \in InTableNow : tse[e].thread = tsd[t].id => tse[e].value = t

\* GC_getspecific finds the value its own thread has stored: never that of
\* another thread, of one that had the id or the stack before, or none.
GetsOwn == \A t \in TsdThread : result[t] \in {t, NoTse}

SpecificTypeOK ==
  /\ tsd \in [TsdThread ->
       [pc : {"none", "unset", "set", "cached", "slow", "store", "removed", "ended"},
        id : TsdId \cup {NoTse}, pages : SUBSET TsdPage, qtid : TsdPage \cup {NoTse},
        p : Tses \cup {NoTse}]]
  /\ head \in Entry \cup {NoTse}
  /\ tse \in [Tses -> [qtid : TsdPage \cup {NoTse}, value : TsdThread \cup {NoTse},
                       next : Entry \cup {NoTse}, thread : TsdId \cup {NoTse}]]
  /\ tsCache \in [Slots -> Tses]
  /\ result \in [TsdThread -> TsdThread \cup {NoTse, InvalidTse}]

\* The threads that have stored their value and not removed it.
Setters == {t \in TsdThread : tsd[t].pc \in {"set", "cached", "slow", "store"}}

\* What EntriesRight and GetsOwn rest on.  Threads that live at the same time
\* differ in ids and pages.  The table is a list, with one entry for each thread
\* that has stored its value.  An entry with a quick id is in the table, and the
\* quick id is a page of the thread whose value it has, so that the entries the
\* cache still points to after their removal match nobody.
IdsDiffer ==
  \A t, u \in Alive : t # u => tsd[t].id # tsd[u].id /\ tsd[t].pages \cap tsd[u].pages = {}
TableIsList ==
  /\ \A e, f \in InTableNow : tse[e].next = tse[f].next => e = f \/ tse[e].next = NoTse
  /\ \A e \in InTableNow : tse[e].next # head /\ tse[e].value \in Setters
                           /\ tse[e].thread = tsd[tse[e].value].id
  /\ \A e, f \in InTableNow : tse[e].value = tse[f].value => e = f
  /\ \A t \in Setters : \E e \in InTableNow : tse[e].value = t
QuickIdsRight ==
  \A e \in Tses : tse[e].qtid # NoTse => /\ e \in InTableNow
                                         /\ tse[e].qtid \in tsd[tse[e].value].pages

\* A reader on its walk, at an entry that may have been removed under it: its
\* own entry is still before it, and no entry before it has its id by chance.
WalkLeadsHome(t) ==
  /\ tsd[t].pc \in {"cached", "slow", "store"} =>
       tsd[t].p \in Tses /\ tsd[t].qtid \in tsd[t].pages
  /\ tsd[t].pc = "slow" =>
       /\ \E e \in TseReachable(tse, {tsd[t].p}) : e \in InTableNow /\ tse[e].value = t
       /\ \A e \in TseReachable(tse, {tsd[t].p}) : tse[e].thread = tsd[t].id
                                                => e \in InTableNow /\ tse[e].value = t
  /\ tsd[t].pc = "store" => tsd[t].p \in InTableNow /\ tse[tsd[t].p].value = t

\* Readers without a lock find their own values and no others.
SpecificSound ==
  /\ SpecificTypeOK
  /\ EntriesRight /\ GetsOwn
  /\ IdsDiffer /\ TableIsList /\ QuickIdsRight /\ \A t \in TsdThread : WalkLeadsHome(t)
=============================================================================
