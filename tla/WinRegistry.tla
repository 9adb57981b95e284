---------------------------- MODULE WinRegistry -----------------------------
(* Explicit registration on Windows (win32_threads.c without DllMain): the   *)
(* table GC_threads, threads made by GC_CreateThread, GC_beginthreadex and   *)
(* the redirected WinMain ("native"), or by GC_pthread_create ("pthreads",   *)
(* as on Cygwin), their start-up records, GC_pthread_join and                *)
(* GC_pthread_detach, which look for the thread's record before they have    *)
(* its lock, and fork, after which the surviving thread has another id.      *)
EXTENDS Integers, Sequences, FiniteSets, SequencesExt

CONSTANTS
  RThread,      \* threads
  RFirst,       \* the one that initialized the collector (its record is static)
  Ids,          \* Win32 ids; IdOf and ChildId give each thread's before and after fork
  IdOf, ChildId,
  Bucket,       \* THREAD_TABLE_INDEX of an id
  MapIndex,     \* PTHREAD_MAP_INDEX of a thread
  Flavors,      \* subset of {"native", "pthreads"}
  MaxFails      \* bound: failures of allocation or thread creation

\* The system gives distinct ids to distinct threads.
ASSUME WinRegistryAssumption ==
  /\ RFirst \in RThread /\ Flavors \subseteq {"native", "pthreads"} /\ MaxFails \in Nat
  /\ \A t \in RThread : {IdOf[t], ChildId[t]} \subseteq Ids
  /\ \A t, u \in RThread : IdOf[t] = IdOf[u] \/ ChildId[t] = ChildId[u] => t = u

VARIABLES
  flavor,
  GC_threads,       \* chain of each bucket, newest first: threads, for their records
  record,           \* id and flags in each record
  mapCache,         \* GC_pthread_map_cache
  life,             \* each thread: where it is in its life
  startInfo,        \* each thread's start record: none, made, freed, twice, or lost in the child of a fork
  joinStep,         \* how far each thread is in GC_pthread_join or GC_pthread_detach
  joinTarget,       \* ... and of which thread
  collecting,       \* an incremental collection is in progress
  inChild, rFails

joinVars == <<joinStep, joinTarget>>
registryWinVars == <<flavor, GC_threads, record, mapCache, life, startInfo, joinVars, collecting,
                     inChild, rFails>>

JoinSteps == {"none", "join", "detach", "deleteJoined", "deleteDetached"}
Buckets == { Bucket[i] : i \in Ids }
MyId(t) == IF inChild THEN ChildId[t] ELSE IdOf[t]

\* GC_thr_init registers the first thread.
WinRegistryInit ==
  /\ flavor \in Flavors
  /\ record = [t \in RThread |-> [id |-> IdOf[t], flags |-> {}]]
  /\ GC_threads = [b \in Buckets |-> IF b = Bucket[IdOf[RFirst]] THEN <<RFirst>> ELSE <<>>]
  /\ mapCache = [i \in { MapIndex[t] : t \in RThread } |-> IdOf[RFirst]]
  /\ life = [t \in RThread |-> IF t = RFirst THEN "run" ELSE "none"]
  /\ startInfo = [t \in RThread |-> "none"]
  /\ joinStep = [t \in RThread |-> "none"]
  /\ joinTarget = [t \in RThread |-> RFirst]
  /\ collecting = FALSE /\ inChild = FALSE /\ rFails = 0

-----------------------------------------------------------------------------
\* The table.
Chain(id) == GC_threads[Bucket[id]]
HasId(p, id) == record[p].id = id
GC_lookup_thread_table(id) == {p \in Range(Chain(id)) : HasId(p, id)}
GC_new_thread(t, id) == [GC_threads EXCEPT ![Bucket[id]] = <<t>> \o @]
Unlinked(t) == [GC_threads EXCEPT ![Bucket[record[t].id]] = RemoveFirst(@, t)]
\* The bucket the cache guesses, then all of them.
GC_lookup_by_pthread(t) == t \in Range(Chain(mapCache[MapIndex[t]])) \/ \E b \in Buckets : t \in Range(GC_threads[b])
Free(t) == startInfo' = [startInfo EXCEPT ![t] = IF @ = "made" THEN "freed" ELSE "twice"]

RunsClient(t) == life[t] = "run" /\ joinStep[t] = "none"
Fails == rFails < MaxFails /\ rFails' = rFails + 1

\* GC_CreateThread, GC_beginthreadex, GC_pthread_create, WinMain (which aborts
\* when it fails).  The start record is uncollectable.
CreateThread(c, t, detached) ==
  /\ RunsClient(c) /\ life[t] = "none" /\ (detached => flavor = "pthreads")
  /\ \/ Fails /\ UNCHANGED <<life, startInfo, record>>      \* no memory; no thread and GC_free
     \/ /\ startInfo' = [startInfo EXCEPT ![t] = "made"]
        /\ record' = [record EXCEPT ![t].flags = IF detached THEN {"DETACHED"} ELSE {}]
        /\ life' = [life EXCEPT ![t] = "starting"]
        /\ UNCHANGED rFails
  /\ UNCHANGED <<flavor, GC_threads, mapCache, joinVars, collecting, inChild>>

\* GC_win32_start_inner, GC_pthread_start_inner: register, then free the record.
StartInner(t) ==
  /\ life[t] = "starting"
  /\ GC_lookup_thread_table(MyId(t)) = {}
  /\ GC_threads' = GC_new_thread(t, MyId(t))
  /\ record' = [record EXCEPT ![t].id = MyId(t)]
  /\ mapCache' = IF flavor = "pthreads" THEN [mapCache EXCEPT ![MapIndex[t]] = MyId(t)] ELSE mapCache
  /\ life' = [life EXCEPT ![t] = "started"]
  /\ UNCHANGED <<flavor, startInfo, joinVars, collecting, inChild, rFails>>
FreeStartInfo(t) ==
  /\ life[t] = "started"
  /\ Free(t)
  /\ life' = [life EXCEPT ![t] = "run"]
  /\ UNCHANGED <<flavor, GC_threads, record, mapCache, joinVars, collecting, inChild, rFails>>

\* GC_register_my_thread of a thread the client made otherwise.
GC_register_my_thread_win32(t) ==
  /\ life[t] = "none" /\ startInfo[t] = "none" /\ flavor = "native"
  /\ GC_lookup_thread_table(MyId(t)) = {}
  /\ GC_threads' = GC_new_thread(t, MyId(t))
  /\ record' = [record EXCEPT ![t] = [id |-> MyId(t), flags |-> {}]]
  /\ life' = [life EXCEPT ![t] = "run"]
  /\ UNCHANGED <<flavor, mapCache, startInfo, joinVars, collecting, inChild, rFails>>

-----------------------------------------------------------------------------
\* GC_unregister_my_thread (GC_ExitThread, GC_endthreadex, the end of
\* GC_win32_start_inner) and GC_thread_exit_proc, after GC_wait_for_gc_completion.
ToDelete(t) == flavor = "native" \/ "DETACHED" \in record[t].flags
GC_unregister_my_thread(t) ==
  /\ RunsClient(t) /\ t # RFirst /\ ~collecting
  /\ IF ToDelete(t)
     THEN GC_threads' = Unlinked(t) /\ UNCHANGED record
     ELSE record' = [record EXCEPT ![t].flags = @ \union {"FINISHED"}] /\ UNCHANGED GC_threads
  /\ life' = [life EXCEPT ![t] = "ended"]
  /\ UNCHANGED <<flavor, mapCache, startInfo, joinVars, collecting, inChild, rFails>>
\* ... where the thread collects itself until the collection is over.
GC_wait_for_gc_completion_win32(t) ==
  /\ RunsClient(t) /\ t # RFirst /\ collecting
  /\ collecting' = FALSE
  /\ UNCHANGED <<flavor, GC_threads, record, mapCache, life, startInfo, joinVars, inChild, rFails>>
StartCollection(t) ==
  /\ RunsClient(t) /\ ~collecting /\ collecting' = TRUE
  /\ UNCHANGED <<flavor, GC_threads, record, mapCache, life, startInfo, joinVars, inChild, rFails>>

\* GC_pthread_join and GC_pthread_detach: wait for the record, then for the
\* thread (join), then with the lock delete what is finished.
OnlyOnce(t) == /\ startInfo[t] # "none" /\ "DETACHED" \notin record[t].flags
               /\ \A u \in RThread : joinStep[u] # "none" => joinTarget[u] # t
               /\ life[t] \notin {"none", "joined"}
BeginWait(c, t, what) ==
  /\ flavor = "pthreads" /\ RunsClient(c) /\ c # t /\ ~inChild /\ OnlyOnce(t)
  /\ joinStep' = [joinStep EXCEPT ![c] = what]
  /\ joinTarget' = [joinTarget EXCEPT ![c] = t]
  /\ UNCHANGED <<flavor, GC_threads, record, mapCache, life, startInfo, collecting, inChild, rFails>>
Waiting(c, step) == joinStep[c] = step /\ GC_lookup_by_pthread(joinTarget[c])
LookupThenJoin(c) ==
  /\ Waiting(c, "join") /\ life[joinTarget[c]] = "ended"
  /\ joinStep' = [joinStep EXCEPT ![c] = "deleteJoined"]
  /\ UNCHANGED <<flavor, GC_threads, record, mapCache, life, startInfo, joinTarget, collecting, inChild, rFails>>
LookupThenDetach(c) ==
  /\ Waiting(c, "detach")
  /\ joinStep' = [joinStep EXCEPT ![c] = "deleteDetached"]
  /\ UNCHANGED <<flavor, GC_threads, record, mapCache, life, startInfo, joinTarget, collecting, inChild, rFails>>
FinishedThen(c) == "FINISHED" \in record[joinTarget[c]].flags
DeleteJoined(c) ==
  /\ joinStep[c] \in {"deleteJoined", "deleteDetached"}
  /\ \E t \in {joinTarget[c]} :
       /\ record' = IF joinStep[c] = "deleteDetached"
                    THEN [record EXCEPT ![t].flags = @ \union {"DETACHED"}] ELSE record
       /\ GC_threads' = IF FinishedThen(c) THEN Unlinked(t) ELSE GC_threads
       /\ life' = IF joinStep[c] = "deleteJoined" THEN [life EXCEPT ![t] = "joined"] ELSE life
  /\ joinStep' = [joinStep EXCEPT ![c] = "none"]
  /\ joinTarget' = [joinTarget EXCEPT ![c] = RFirst]
  /\ UNCHANGED <<flavor, mapCache, startInfo, collecting, inChild, rFails>>

\* fork_child_proc in the child of a thread's fork, GC_remove_all_threads_but_me:
\* the table is made anew with the id the thread has in the child.
\* mutated form: the bucket of the id in the parent
OldBucket(t) == Bucket[IdOf[t]]
NewBucket(t) == Bucket[ChildId[t]]
ChildTable(t) == [b \in Buckets |-> IF b = NewBucket(t) THEN <<t>> ELSE <<>>]
GC_remove_all_threads_but_me_win32(t) ==
  /\ flavor = "pthreads" /\ RunsClient(t) /\ ~inChild /\ ~collecting
  /\ \A u \in RThread : joinStep[u] # "deleteJoined"
  /\ GC_threads' = ChildTable(t)
  /\ record' = [record EXCEPT ![t].id = ChildId[t]]
  /\ life' = [u \in RThread |-> IF u = t THEN "run" ELSE IF life[u] = "none" THEN "none" ELSE "joined"]
  /\ startInfo' = [u \in RThread |-> IF startInfo[u] = "made" THEN "lost" ELSE startInfo[u]]
  /\ joinStep' = [u \in RThread |-> "none"]
  /\ joinTarget' = [u \in RThread |-> RFirst]
  /\ inChild' = TRUE
  /\ UNCHANGED <<flavor, mapCache, collecting, rFails>>

WinRegistryStep(t) ==
  \/ FreeStartInfo(t) \/ StartInner(t)
  \/ LookupThenJoin(t) \/ LookupThenDetach(t) \/ DeleteJoined(t)
WinRegistryNext ==
  \E t \in RThread :
    \/ WinRegistryStep(t) \/ GC_register_my_thread_win32(t) \/ GC_unregister_my_thread(t)
    \/ GC_wait_for_gc_completion_win32(t) \/ StartCollection(t) \/ GC_remove_all_threads_but_me_win32(t)
    \/ \E u \in RThread : (\E d \in BOOLEAN : CreateThread(t, u, d)) \/ \E w \in {"join", "detach"} : BeginWait(t, u, w)

WinRegistryFairness == \A t \in RThread : WF_registryWinVars(WinRegistryStep(t))
WinRegistrySpec ==
  WinRegistryInit /\ [][WinRegistryNext]_registryWinVars /\ WinRegistryFairness

-----------------------------------------------------------------------------
\* Types; a chain of the table has a record once.
WinRegistryTypeOK ==
  /\ GC_threads \in [Buckets -> Seq(RThread)] /\ \A b \in Buckets : IsInjective(GC_threads[b])
  /\ record \in [RThread -> [id : Ids, flags : SUBSET {"DETACHED", "FINISHED"}]]
  /\ life \in [RThread -> {"none", "starting", "started", "run", "ended", "joined"}]
  /\ startInfo \in [RThread -> {"none", "made", "freed", "lost"}]
  /\ joinStep \in [RThread -> JoinSteps] /\ joinTarget \in [RThread -> RThread]
  /\ inChild \in BOOLEAN /\ rFails \in 0 .. MaxFails

\* A thread that runs client code is found under the id it has now, before and
\* after fork, and is the only one with that id.
FoundByCurrentId ==
  \A t \in RThread : life[t] \in {"started", "run"} => GC_lookup_thread_table(MyId(t)) = {t}

Listed(t) == \E b \in Buckets : t \in Range(GC_threads[b])
\* A record in the table belongs to a thread that runs, or to one that ended
\* and still has to be joined or detached: none is left behind, none dangles.
RecordsOfThreads ==
  \A t \in RThread : Listed(t) =>
    \/ life[t] \in {"started", "run"}
    \/ /\ life[t] = "ended" /\ "FINISHED" \in record[t].flags
       /\ "DETACHED" \notin record[t].flags

\* The loops that wait for a record end: a thread that is joined after it
\* ended, or detached, does not keep its caller waiting.
WaitersReturn ==
  \A c \in RThread :
    \/ joinStep[c] = "detach"
    \/ joinStep[c] = "join" /\ life[joinTarget[c]] = "ended"
      ~> joinStep[c] = "none"

\* The inductive invariant behind these properties.

\* A record is in the chain of the id that its thread has now.
InPlace ==
  \A b \in Buckets : \A t \in Range(GC_threads[b]) :
    record[t].id = MyId(t) /\ b = Bucket[MyId(t)]
\* Threads that are up are listed; what is finished has ended; a start record
\* is there until it is freed.
LivesOrdered ==
  \A t \in RThread :
    /\ life[t] \in {"started", "run"} => t \in Range(GC_threads[Bucket[MyId(t)]])
    /\ "FINISHED" \in record[t].flags => life[t] \in {"ended", "joined"}
    /\ life[t] \in {"starting", "started"} => startInfo[t] = "made"
\* A thread whose record pthread_join is about to delete has ended.
JoinedHasEnded ==
  \A c \in RThread : joinStep[c] = "deleteJoined" => life[joinTarget[c]] \in {"ended", "joined"}

\* The table of win32_threads.c has the threads that it should, under the ids
\* they have.
WinRegistrySound ==
  /\ WinRegistryTypeOK /\ FoundByCurrentId /\ RecordsOfThreads
  /\ InPlace /\ LivesOrdered /\ JoinedHasEnded
=============================================================================
