-------------------------- MODULE ThreadRegistry ---------------------------
(* The table of the threads the collector knows of (pthread_support.c,      *)
(* pthread_start.c): threads are created, register and unregister           *)
(* themselves, exit, are cancelled, joined and detached, register again     *)
(* from the destructor of a thread key, and the process forks.  An action   *)
(* is what the code does between LOCK and UNLOCK, or one call of the        *)
(* operating system's pthreads.                                             *)
EXTENDS Integers, Sequences, FiniteSets, SequencesExt

CONSTANTS
  RegThread,       \* the threads of the operating system that may ever exist
  Main,         \* the thread that initializes the collector
  Id,           \* pthread_t values; those of threads that are gone are reused
  Rec,          \* the GC_Thread_Rep records
  FirstThread,  \* the record that is not in the collected heap
  Null,
  Index,        \* THREAD_TABLE_INDEX: from Id to the numbers of the chains
  Profiles      \* what clients do: a set of subsets of ClientOps

ASSUME RegistryAssumption ==
  /\ Main \in RegThread /\ FirstThread \in Rec /\ IsFiniteSet(Rec)
  /\ Null \notin RegThread \cup Id \cup Rec /\ DOMAIN Index = Id

ClientOps == {"again", "cancel", "cancel_finished", "exit", "fork", "foreign",
              "recycle"}

VARIABLES
  thr,          \* the threads
  chain,        \* GC_threads
  rec,          \* the records
  dontGc,       \* GC_dont_gc
  gcPhase,      \* an incremental collection: none, marking, rooted
  passed,       \* waiting threads whose old_gc_no is no longer GC_gc_no
  pushed,       \* threads whose stacks are on the mark stack
  client        \* what the client does in this behaviour

registryVars == <<thr, chain, rec, dontGc, gcPhase, passed, pushed, client>>
collection == <<gcPhase, passed, pushed>>

Chains == {Index[i] : i \in Id}
\* Threads of the kind "dtor" are past GC_thread_exit_proc, a "survivor" is
\* alone after a fork.
ThrKinds == {"created", "dtor", "foreign", "survivor"}
ThrStates == {"none", "starting", "run", "leaving", "wait", "out", "dead", "gone",
              "creating", "joining", "joined", "detaching", "detached", "forking"}
Unused == [id |-> Null, flags |-> {}, stack |-> Null]

\* GC_thr_init registers the thread that initializes the collector.
RegistryInit ==
  \E id \in Id :
    /\ thr = [t \in RegThread |->
               [pc |-> IF t = Main THEN "run" ELSE "none",
                id |-> IF t = Main THEN id ELSE Null,
                me |-> IF t = Main THEN FirstThread ELSE Null,
                kind |-> "foreign", detached |-> FALSE, cancelled |-> FALSE,
                arg |-> Null, saved |-> Null]]
    /\ chain = [c \in Chains |-> IF c = Index[id] THEN <<FirstThread>> ELSE <<>>]
    /\ rec = [r \in Rec |->
               IF r # FirstThread THEN Unused
               ELSE [id |-> id, flags |-> {"DETACHED", "MAIN_THREAD"}, stack |-> Main]]
    /\ dontGc = 0 /\ gcPhase = "none" /\ passed = {} /\ pushed = {}
    /\ client \in Profiles

-----------------------------------------------------------------------------
\* The table.
InTable == UNION {Range(chain[c]) : c \in Chains}
KNOWN_FINISHED(r) == "FINISHED" \in rec[r].flags
\* The most recent record with the id comes first.
GC_lookup_thread(id) ==
  LET found == SelectInSeq(chain[Index[id]], LAMBDA r : rec[r].id = id)
  IN  IF found = 0 THEN Null ELSE chain[Index[id]][found]

\* GC_new_thread, with the id and the stack the caller sets.  A free record
\* always exists: the code aborts if there is no memory.
OnChain(id, r) == [chain EXCEPT ![Index[id]] = <<r>> \o @]
NewRecord(r) == r \notin InTable \cup {FirstThread} /\ rec[r] = Unused
GC_register_my_thread_inner(t, r, flags) ==
  /\ NewRecord(r)
  /\ chain' = OnChain(thr[t].id, r)
  /\ rec' = [rec EXCEPT ![r] = [id |-> thr[t].id, flags |-> flags, stack |-> t]]

\* GC_delete_thread and GC_delete_gc_thread_no_free followed by
\* GC_INTERNAL_FREE: unlink, and free unless it is static.
\* mutated form: the head of the chain is dropped
WithoutHead(r) == [c \in Chains |-> IF r \in Range(chain[c]) THEN Tail(chain[c])
                                   ELSE chain[c]]
Without(r) == [c \in Chains |-> RemoveFirst(chain[c], r)]
Freed(r) == [rec EXCEPT ![r] = Unused]

-----------------------------------------------------------------------------
\* The collector, as far as threads wait for it.
StacksToPush == {rec[r].stack : r \in {x \in InTable : ~KNOWN_FINISHED(x)}}
GC_collect_a_little_inner ==
  IF dontGc # 0 THEN UNCHANGED collection
  ELSE \/ gcPhase = "none" /\ gcPhase' = "marking" /\ UNCHANGED <<passed, pushed>>
       \/ /\ gcPhase = "marking"
          /\ gcPhase' = "rooted" /\ pushed' = StacksToPush
          /\ UNCHANGED passed
       \/ /\ gcPhase = "rooted"
          /\ gcPhase' = "none" /\ pushed' = {}
          /\ passed' = {t \in RegThread : thr'[t].pc = "wait"}
\* A registered thread allocates and does part of a collection.
GC_allocobj(t) ==
  /\ thr[t].pc = "run" /\ thr[t].me # Null /\ dontGc = 0
  /\ UNCHANGED <<thr, chain, rec, dontGc, client>>
  /\ GC_collect_a_little_inner

\* The condition under which GC_wait_for_gc_completion goes on.
WaitMore(all, t) == gcPhase # "none" /\ (all \/ t \notin passed)

-----------------------------------------------------------------------------
\* Creation.
FreeIds == Id \ {thr[t].id : t \in {u \in RegThread : thr[u].pc \notin {"none", "gone"}}}
NewThread(id, kind, detached, pc) ==
  [pc |-> pc, id |-> id, me |-> Null, kind |-> kind, detached |-> detached,
   cancelled |-> FALSE, arg |-> Null, saved |-> Null]

pthread_create(p, t, id, detached) ==
  /\ thr[p].pc = "run" /\ thr[p].me # Null
  /\ thr[t].pc = "none" /\ id \in FreeIds
  /\ thr' = [thr EXCEPT ![p].pc = "creating", ![p].arg = t,
                        ![t] = NewThread(id, "created", detached, "starting")]
  /\ UNCHANGED <<chain, rec, dontGc, collection, client>>

\* The thread is in the table before its creator goes on (sem_post).
GC_start_rtn_prepare_thread(t) ==
  /\ thr[t].pc = "starting"
  /\ \E r \in Rec :
       /\ GC_register_my_thread_inner(t, r, IF thr[t].detached THEN {"DETACHED"} ELSE {})
       /\ thr' = [thr EXCEPT ![t].pc = "run", ![t].me = r]
  /\ UNCHANGED <<dontGc, collection, client>>
Registered(p) ==
  /\ thr[p].pc = "creating" /\ thr[thr[p].arg].pc # "starting"
  /\ thr' = [thr EXCEPT ![p].pc = "run", ![p].arg = Null]
  /\ UNCHANGED <<chain, rec, dontGc, collection, client>>

\* A thread that was not created with GC_pthread_create.  "recycle": it may get
\* the id of a dead thread whose record is still in the table.
ForeignThread(t, id) ==
  /\ "foreign" \in client /\ thr[t].pc = "none" /\ id \in FreeIds
  /\ "recycle" \in client \/ GC_lookup_thread(id) = Null
  /\ thr' = [thr EXCEPT ![t] = NewThread(id, "foreign", TRUE, "out")]
  /\ UNCHANGED <<chain, rec, dontGc, collection, client>>

\* Called by such threads, and by destructors of thread keys.
GC_register_my_thread(t) ==
  /\ thr[t].pc = "out" /\ (thr[t].kind # "foreign" => "again" \in client)
  /\ \/ \E r \in Rec :
          /\ GC_lookup_thread(thr[t].id) = Null
          /\ GC_register_my_thread_inner(t, r, {"DETACHED"})
          /\ thr' = [thr EXCEPT ![t].pc = "run", ![t].me = r]
     \/ \E r \in {GC_lookup_thread(thr[t].id)} :
          /\ r # Null /\ KNOWN_FINISHED(r)
          /\ rec' = [rec EXCEPT ![r].flags = @ \ {"FINISHED"}, ![r].stack = t]
          /\ thr' = [thr EXCEPT ![t].pc = "run", ![t].me = r]
          /\ UNCHANGED chain
  /\ UNCHANGED <<dontGc, collection, client>>

-----------------------------------------------------------------------------
\* Exit.
Disable(r) ==
  IF r # Null /\ "DISABLED_GC" \notin rec[r].flags
  THEN /\ rec' = [rec EXCEPT ![r].flags = @ \cup {"DISABLED_GC"}]
       /\ dontGc' = dontGc + 1
  ELSE UNCHANGED <<rec, dontGc>>
pthread_exit(t) ==
  /\ "exit" \in client /\ thr[t].pc = "run" /\ thr[t].kind = "created"
  /\ Disable(GC_lookup_thread(thr[t].id))
  /\ thr' = [thr EXCEPT ![t].pc = "leaving"]
  /\ UNCHANGED <<chain, collection, client>>
\* The id of a thread is valid until it was joined.
pthread_cancel(p, t) ==
  /\ "cancel" \in client /\ thr[p].pc = "run" /\ t # p
  /\ thr[t].kind # "foreign" /\ ~thr[t].detached
  /\ thr[t].pc \notin {"none", "starting", "gone"} /\ ~thr[t].cancelled
  /\ "cancel_finished" \in client \/ thr[t].pc \notin {"out", "dead"}
  /\ Disable(GC_lookup_thread(thr[t].id))
  /\ thr' = [thr EXCEPT ![t].cancelled = TRUE]
  /\ UNCHANGED <<chain, collection, client>>
\* The start routine returns, the thread acts on a request to cancel it, or a
\* registered thread calls GC_unregister_my_thread.
ReturnFromStart(t) ==
  /\ thr[t].pc = "run" /\ thr[t].me # Null /\ t # Main
  /\ thr' = [thr EXCEPT ![t].pc = "leaving"]
  /\ UNCHANGED <<chain, rec, dontGc, collection, client>>

\* GC_thread_exit_proc has the record as its argument; GC_unregister_my_thread
\* looks it up.  The destructors run after GC_thread_exit_proc.
Enabled(me) == IF "DISABLED_GC" \in rec[me].flags THEN dontGc - 1 ELSE dontGc
GC_unregister_my_thread_inner(t) ==
  LET me == thr[t].me
      mine == GC_lookup_thread(thr[t].id)
  IN  /\ dontGc' = Enabled(me)
      /\ IF "DETACHED" \in rec[me].flags
         THEN chain' = Without(mine) /\ rec' = Freed(mine)
         ELSE /\ rec' = [rec EXCEPT ![me].flags = @ \cup {"FINISHED"}]
              /\ UNCHANGED chain
      /\ thr' = [thr EXCEPT ![t].pc = "out", ![t].me = Null,
                            ![t].kind = IF @ = "created" THEN "dtor" ELSE @]
      /\ passed' = passed \ {t}
      /\ UNCHANGED <<gcPhase, pushed, client>>
\* LOCK, and the wait for the current collection, in which the lock is
\* released again and again.
GC_thread_exit_proc(t) ==
  /\ thr[t].pc = "leaving"
  /\ IF gcPhase = "none" THEN GC_unregister_my_thread_inner(t)
     ELSE /\ thr' = [thr EXCEPT ![t].pc = "wait"]
          /\ GC_collect_a_little_inner
          /\ UNCHANGED <<chain, rec, dontGc, client>>
GC_wait_for_gc_completion(t) ==
  /\ thr[t].pc = "wait"
  /\ IF WaitMore(FALSE, t)
     THEN UNCHANGED <<thr, chain, rec, dontGc, client>> /\ GC_collect_a_little_inner
     ELSE GC_unregister_my_thread_inner(t)
\* The thread ends.
Terminate(t) ==
  /\ thr[t].pc = "out"
  /\ thr' = [thr EXCEPT ![t].pc = IF thr[t].detached THEN "gone" ELSE "dead"]
  /\ UNCHANGED <<chain, rec, dontGc, collection, client>>

-----------------------------------------------------------------------------
\* pthread_join and pthread_detach: the record is looked up by the id before
\* the operating system's call, and dealt with by its address afterwards, when
\* the id may be that of another thread.
Claimed(t) == \E p \in RegThread : thr[p].arg = t /\ thr[p].pc # "creating"
Begin(p, t, pc) ==
  /\ thr[p].pc = "run" /\ thr[p].me # Null /\ p # t
  /\ thr[t].kind # "foreign" /\ ~thr[t].detached /\ ~Claimed(t)
  /\ thr[t].pc \notin {"none", "starting", "gone"}
  /\ thr' = [thr EXCEPT ![p].pc = pc, ![p].arg = t,
                        ![p].saved = GC_lookup_thread(thr[t].id)]
  /\ UNCHANGED <<chain, rec, dontGc, collection, client>>
pthread_join(p, t) == Begin(p, t, "joining")
pthread_detach(p, t) == Begin(p, t, "detaching")
RealJoin(p) ==
  /\ thr[p].pc = "joining" /\ thr[thr[p].arg].pc = "dead"
  /\ thr' = [thr EXCEPT ![p].pc = "joined", ![p].arg = Null, ![thr[p].arg].pc = "gone"]
  /\ UNCHANGED <<chain, rec, dontGc, collection, client>>
RealDetach(p) ==
  /\ thr[p].pc = "detaching"
  /\ thr' = [thr EXCEPT ![p].pc = "detached", ![p].arg = Null,
                        ![thr[p].arg].detached = TRUE,
                        ![thr[p].arg].pc = IF @ = "dead" THEN "gone" ELSE @]
  /\ UNCHANGED <<chain, rec, dontGc, collection, client>>
DeleteFinished(p, flags) ==
  LET r == thr[p].saved
  IN  /\ IF KNOWN_FINISHED(r)
         THEN chain' = Without(r) /\ rec' = Freed(r)
         ELSE rec' = [rec EXCEPT ![r].flags = @ \cup flags] /\ UNCHANGED chain
      /\ thr' = [thr EXCEPT ![p].pc = "run", ![p].saved = Null]
      /\ UNCHANGED <<dontGc, collection, client>>
AfterJoin(p) == thr[p].pc = "joined" /\ DeleteFinished(p, {})
AfterDetach(p) == thr[p].pc = "detached" /\ DeleteFinished(p, {"DETACHED"})

-----------------------------------------------------------------------------
\* fork
fork_prepare_proc(p) ==
  /\ "fork" \in client /\ thr[p].me # Null
  /\ \/ thr[p].pc = "run" /\ thr' = [thr EXCEPT ![p].pc = "forking"]
        /\ UNCHANGED <<chain, rec, dontGc, collection>>
     \/ thr[p].pc = "forking" /\ WaitMore(TRUE, p)
        /\ UNCHANGED <<thr, chain, rec, dontGc>> /\ GC_collect_a_little_inner
  /\ UNCHANGED client
fork_parent_proc(p) ==
  /\ thr[p].pc = "forking" /\ ~WaitMore(TRUE, p)
  /\ thr' = [thr EXCEPT ![p].pc = "run"]
  /\ UNCHANGED <<chain, rec, dontGc, collection, client>>
\* GC_remove_all_threads_but_me keeps the first record with the id of the
\* thread and frees all others that are not static.
MyRecord(p) == GC_lookup_thread(thr[p].id)
GC_remove_all_threads_but_me(p) ==
  /\ chain' = [c \in Chains |-> IF c = Index[thr[p].id] THEN <<MyRecord(p)>> ELSE <<>>]
  /\ rec' = [r \in Rec |-> IF r = MyRecord(p) THEN rec[r] ELSE Unused]
fork_child_proc(p) ==
  /\ thr[p].pc = "forking" /\ ~WaitMore(TRUE, p)
  /\ GC_remove_all_threads_but_me(p)
  /\ thr' = [t \in RegThread |->
              IF t = p
              THEN [thr[p] EXCEPT !.pc = "run",
                                  !.kind = IF @ = "created" THEN "survivor" ELSE @]
              ELSE IF thr[t].pc = "none" THEN thr[t]
              ELSE NewThread(thr[t].id, "foreign", TRUE, "gone")]
  /\ UNCHANGED <<dontGc, collection, client>>

RegistryNext ==
  \/ \E p, t \in RegThread :
       \/ \E id \in Id, detached \in BOOLEAN : pthread_create(p, t, id, detached)
       \/ pthread_cancel(p, t)
       \/ pthread_join(p, t)
       \/ pthread_detach(p, t)
  \/ \E t \in RegThread :
       \/ \E id \in Id : ForeignThread(t, id)
       \/ GC_allocobj(t)
       \/ GC_start_rtn_prepare_thread(t)
       \/ Registered(t)
       \/ GC_register_my_thread(t)
       \/ pthread_exit(t)
       \/ ReturnFromStart(t)
       \/ GC_thread_exit_proc(t)
       \/ GC_wait_for_gc_completion(t)
       \/ Terminate(t)
       \/ RealJoin(t)
       \/ RealDetach(t)
       \/ AfterJoin(t)
       \/ AfterDetach(t)
       \/ fork_prepare_proc(t)
       \/ fork_parent_proc(t)
       \/ fork_child_proc(t)
-----------------------------------------------------------------------------
\* Types of the threads, the records and the table.
RegistryTypeOK ==
  /\ thr \in [RegThread -> [pc : ThrStates, id : Id \cup {Null}, me : Rec \cup {Null},
                         kind : ThrKinds, detached : BOOLEAN, cancelled : BOOLEAN,
                         arg : RegThread \cup {Null}, saved : Rec \cup {Null}]]
  /\ DOMAIN chain = Chains
  /\ \A c \in Chains : IsInjective(chain[c]) /\ Range(chain[c]) \subseteq Rec
  /\ \A r \in Rec :
       /\ rec[r].id \in Id \cup {Null} /\ rec[r].stack \in RegThread \cup {Null}
       /\ rec[r].flags \subseteq {"DETACHED", "MAIN_THREAD", "FINISHED", "DISABLED_GC"}
  /\ dontGc \in Nat /\ gcPhase \in {"none", "marking", "rooted"}
  /\ passed \subseteq RegThread /\ pushed \subseteq RegThread /\ client \subseteq ClientOps

\* GC_lookup_thread finds the record of a registered thread by its id at any
\* time, although records of dead threads with the same id may still be in the
\* table: GC_delete_thread, GC_do_blocking and the others rely on it, and the
\* signal handler finds the place for its stack pointer that way.
FoundById ==
  \A t \in RegThread : thr[t].me # Null =>
    /\ GC_lookup_thread(thr[t].id) = thr[t].me
    /\ rec[thr[t].me].stack = t /\ ~KNOWN_FINISHED(thr[t].me)

\* No record is forgotten, none is used after it was freed: what is in the
\* table belongs to a registered thread, or to one that is finished and still
\* to be joined or detached, and pthread_join and pthread_detach hold records
\* that are in the table until they are through with them.  (The record of a
\* thread that forked while another one was about to mark it as detached stays
\* in the child.)
RecordsAccounted ==
  /\ \A r \in InTable :
       \/ \E t \in RegThread : thr[t].me = r
       \/ /\ KNOWN_FINISHED(r)
          /\ \/ thr[rec[r].stack].pc \in {"out", "dead"}
             \/ thr[rec[r].stack].kind = "survivor"
             \/ \E p \in RegThread : thr[p].saved = r
  /\ \A r \in Rec \ InTable : rec[r] = Unused
  /\ \A p \in RegThread : thr[p].saved \in InTable \cup {Null}

\* GC_dont_gc counts the threads between pthread_cancel or pthread_exit and
\* their exit handlers: "disable the collections until the thread exit handler
\* is called".
DontGcExact ==
  dontGc = Cardinality({r \in InTable : "DISABLED_GC" \in rec[r].flags
                                        /\ ~KNOWN_FINISHED(r)})

RegistryFairness ==
  \A t \in RegThread :
    WF_registryVars(GC_thread_exit_proc(t) \/ GC_wait_for_gc_completion(t))
RegistrySpec == RegistryInit /\ [][RegistryNext]_registryVars /\ RegistryFairness

Leaving(t) == thr[t].pc \in {"leaving", "wait"}
\* A thread that leaves gets past the wait for the collection, in which it does
\* part of the collection itself, unless collections are disabled meanwhile.
LeaveUnlessDisabled == \A t \in RegThread : thr[t].pc = "leaving" ~> ~Leaving(t) \/ dontGc # 0

\* The comment on GC_wait_for_gc_completion: "otherwise we just wait for the
\* current GC to finish".  The thread that called pthread_exit, or that was
\* cancelled, waits for a collection that it has itself disabled.
ThreadsLeave == \A t \in RegThread : thr[t].pc = "leaving" ~> ~Leaving(t)

\* The table of threads: every thread is found, every record is accounted for,
\* and GC_dont_gc is restored by everyone who raised it.
RegistrySound == RegistryTypeOK /\ FoundById /\ RecordsAccounted /\ DontGcExact
=============================================================================
