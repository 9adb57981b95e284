----------------------------- MODULE DarwinStop -----------------------------
(* Stopping the world on Darwin (darwin_stop_world.c): the collector         *)
(* suspends the threads of its table, or those the kernel lists, again and   *)
(* again until no new one shows up; write faults on protected pages are      *)
(* messages to a thread of the collector's own, which is told to stop and to *)
(* resume by messages to the same port (os_dep.c, GC_mprotect_thread).       *)
EXTENDS Integers, Sequences, FiniteSets, SequencesExt

CONSTANTS
  DThread,      \* threads of clients that may ever exist, Me among them
  Me,           \* the one that collects
  First,        \* the threads at the beginning, in the kernel's order
  Discover,     \* values of GC_query_task_threads
  MaxCycles     \* bound: collections

\* What is sent to the port besides the faulting threads, and no thread.
STOP == "STOP"
RESUME == "RESUME"
NoThr == "noThread"

ASSUME DarwinAssumption ==
  /\ IsFiniteSet(DThread) /\ Me \in DThread /\ DThread \cap {STOP, RESUME, NoThr} = {}
  /\ First \in Seq(DThread) /\ IsInjective(First)
  /\ Discover \subseteq BOOLEAN /\ MaxCycles \in Nat

VARIABLES
  GC_query_task_threads,
  tasks,        \* the threads of the process, in the order of creation
  suspCount,    \* suspend counts
  ctl,          \* client threads: run, fault, blocking, none, gone
  gp,           \* where Me is
  lists,        \* act_list, prev_list, position in act_list, j, changed
  machThreads,  \* GC_mach_threads
  port,         \* messages to GC_ports.exception
  ack,          \* a message on GC_ports.reply
  mpState,      \* GC_mprotect_state
  mp,           \* what GC_mprotect_thread does: the thread it handles a fault of
  isProt,       \* the page is protected
  isDirty,      \* its bit in GC_dirty_pages
  wasStored,    \* it was written since the bit was read
  lost,         \* ... and the bit was not set when it was read
  dirtyLock,    \* GC_fault_handler_lock is held
  nCycles

darwinVars == <<GC_query_task_threads, tasks, suspCount, ctl, gp, lists, machThreads, port, ack,
                mpState, mp, isProt, isDirty, wasStored, lost, dirtyLock, nCycles>>
pageVars == <<isProt, isDirty, wasStored, lost>>
excVars == <<port, ack, mpState, mp, dirtyLock>>
stopVars == <<gp, lists, machThreads, nCycles>>

NoLists == [act |-> <<>>, prev |-> <<>>, at |-> 1, j |-> 0, changed |-> FALSE]

DarwinInit ==
  /\ GC_query_task_threads \in Discover
  /\ tasks = First
  /\ suspCount = [t \in DThread |-> 0]
  /\ ctl = [t \in DThread |-> IF t \in Range(First) THEN "run" ELSE "none"]
  /\ gp = "idle" /\ lists = NoLists /\ machThreads = <<>>
  /\ port = <<>> /\ ack = FALSE /\ mpState = "normal" /\ mp = [on |-> NoThr, step |-> 0]
  /\ isProt = TRUE /\ isDirty = FALSE /\ wasStored = FALSE /\ lost = FALSE
  /\ dirtyLock = FALSE /\ nCycles = 0

-----------------------------------------------------------------------------
\* Clients.  A thread that faults waits for the reply to the kernel's message.
Moves(t) == t # Me /\ suspCount[t] = 0 /\ ctl[t] = "run"
StoreWord(t) ==
  /\ Moves(t)
  /\ IF isProt
     THEN /\ ctl' = [ctl EXCEPT ![t] = "fault"] /\ port' = Append(port, t)
          /\ UNCHANGED wasStored
     ELSE wasStored' = TRUE /\ UNCHANGED <<ctl, port>>
  /\ UNCHANGED <<GC_query_task_threads, tasks, suspCount, stopVars, ack, mpState, mp, isProt,
                 isDirty, lost, dirtyLock>>
\* Registered threads are created under the allocation lock.
Create(t, u) ==
  /\ Moves(t) /\ ctl[u] = "none" /\ (gp = "idle" \/ GC_query_task_threads)
  /\ tasks' = Append(tasks, u) /\ ctl' = [ctl EXCEPT ![u] = "run"]
  /\ UNCHANGED <<GC_query_task_threads, suspCount, stopVars, excVars, pageVars>>
Exit(t) ==
  /\ Moves(t) /\ (gp = "idle" \/ GC_query_task_threads)
  /\ tasks' = RemoveFirst(tasks, t) /\ ctl' = [ctl EXCEPT ![t] = "gone"]
  /\ UNCHANGED <<GC_query_task_threads, suspCount, stopVars, excVars, pageVars>>
\* GC_do_blocking, entered and left with the allocation lock.
Blocking(t) ==
  /\ t # Me /\ suspCount[t] = 0 /\ ~GC_query_task_threads /\ gp = "idle"
  /\ \/ ctl[t] = "run" /\ ctl' = [ctl EXCEPT ![t] = "blocking"]
     \/ ctl[t] = "blocking" /\ ctl' = [ctl EXCEPT ![t] = "run"]
  /\ UNCHANGED <<GC_query_task_threads, tasks, suspCount, stopVars, excVars, pageVars>>

-----------------------------------------------------------------------------
\* GC_mprotect_thread: one message after the other.
Reply == ack' = TRUE
\* mutated form: the kernel gets no answer to its message
NotAnswered(t) == ctl
Answered(t) == [ctl EXCEPT ![t] = "run"]
MprotectThread ==
  /\ mp.on = NoThr
  /\ \/ /\ mpState = "discarding" /\ port = <<>>                  \* timed out
        /\ mpState' = "stopped" /\ Reply /\ UNCHANGED <<port, mp, ctl>>
     \/ /\ port # <<>> /\ Head(port) = STOP
        /\ mpState' = IF mpState = "normal" THEN "discarding" ELSE "abort"
        /\ port' = Tail(port) /\ UNCHANGED <<ack, mp, ctl>>
     \/ /\ port # <<>> /\ Head(port) = RESUME
        /\ mpState' = IF mpState = "stopped" THEN "normal" ELSE "abort"
        /\ port' = Tail(port) /\ Reply /\ UNCHANGED <<mp, ctl>>
     \/ /\ port # <<>> /\ Head(port) \notin {STOP, RESUME}
        /\ port' = Tail(port) /\ UNCHANGED ack
        /\ \/ mpState = "normal" /\ mp' = [on |-> Head(port), step |-> 1]
              /\ UNCHANGED <<mpState, ctl>>
           \/ mpState = "discarding" /\ ctl' = Answered(Head(port))
              /\ UNCHANGED <<mpState, mp>>
           \/ mpState = "stopped" /\ mpState' = "abort" /\ UNCHANGED <<mp, ctl>>
  /\ UNCHANGED <<GC_query_task_threads, tasks, suspCount, stopVars, pageVars, dirtyLock>>
\* catch_exception_raise in state GC_MP_NORMAL: unprotect, set the bit with the
\* lock, reply.
catch_exception_raise ==
  /\ mp.on # NoThr
  /\ \/ mp.step = 1 /\ isProt' = FALSE /\ mp' = [mp EXCEPT !.step = 2]
        /\ UNCHANGED <<isDirty, dirtyLock, ctl>>
     \/ mp.step = 2 /\ ~dirtyLock /\ dirtyLock' = TRUE /\ mp' = [mp EXCEPT !.step = 3]
        /\ UNCHANGED <<isProt, isDirty, ctl>>
     \/ mp.step = 3 /\ isDirty' = TRUE /\ dirtyLock' = FALSE
        /\ mp' = [mp EXCEPT !.step = 4] /\ UNCHANGED <<isProt, ctl>>
     \/ mp.step = 4 /\ ctl' = Answered(mp.on)
        /\ mp' = [on |-> NoThr, step |-> 0] /\ UNCHANGED <<isProt, isDirty, dirtyLock>>
  /\ UNCHANGED <<GC_query_task_threads, tasks, suspCount, stopVars, port, ack, mpState,
                 wasStored, lost>>

-----------------------------------------------------------------------------
\* GC_stop_world
task_threads == [lists EXCEPT !.act = tasks, !.at = 1, !.j = 0, !.changed = FALSE]
GC_stop_world_darwin ==
  /\ gp = "idle" /\ nCycles < MaxCycles
  /\ gp' = "list" /\ lists' = NoLists /\ machThreads' = <<>> /\ nCycles' = nCycles + 1
  /\ UNCHANGED <<GC_query_task_threads, tasks, suspCount, ctl, excVars, pageVars>>
GetList ==
  /\ gp = "list"
  /\ lists' = task_threads
  /\ gp' = "suspend"
  /\ UNCHANGED <<GC_query_task_threads, tasks, suspCount, ctl, machThreads, excVars, pageVars, nCycles>>

\* The search in old from the place of the last find on: where it ends, and
\* there is nothing found unless thread is at this place.  (Places count from
\* 1; after a search that finds nothing before any find, the next one begins
\* behind the first place.)
Search(thread, old, j) ==
  LET later == {k \in j + 1..Len(old) : old[k] = thread}
      earlier == {k \in 1..j - 1 : old[k] = thread}
  IN  IF later # {} THEN CHOOSE k \in later : \A m \in later : k <= m
      ELSE IF earlier # {} THEN CHOOSE k \in earlier : \A m \in earlier : k <= m
      ELSE IF j = 0 THEN 1 ELSE j
FoundAt(thread, old, from, j) == j # from /\ j \in 1..Len(old) /\ old[j] = thread

\* The dirty lock is held so that no suspended thread has it.  A thread that
\* has quit cannot be suspended.
GC_suspend_thread_list ==
  /\ gp = "suspend" /\ GC_query_task_threads /\ lists.at <= Len(lists.act) /\ ~dirtyLock
  /\ \E t \in {lists.act[lists.at]} : \E j \in {Search(t, lists.prev, lists.j)} :
       \/ /\ t = Me
          /\ lists' = [lists EXCEPT !.at = @ + 1]
          /\ UNCHANGED <<suspCount, machThreads>>
       \/ /\ t # Me /\ FoundAt(t, lists.prev, lists.j, j)
          /\ lists' = [lists EXCEPT !.at = @ + 1, !.j = j]
          /\ UNCHANGED <<suspCount, machThreads>>
       \/ /\ t # Me /\ ~FoundAt(t, lists.prev, lists.j, j)
          /\ lists' = [lists EXCEPT !.at = @ + 1, !.j = j, !.changed = TRUE]
          /\ machThreads' = Append(machThreads, [thread |-> t, suspended |-> ctl[t] # "gone"])
          /\ suspCount' = [suspCount EXCEPT ![t] = IF ctl[t] = "gone" THEN @ ELSE @ + 1]
  /\ UNCHANGED <<GC_query_task_threads, tasks, ctl, gp, excVars, pageVars, nCycles>>
NoneNew == ~lists.changed
EndOfList ==
  /\ gp = "suspend" /\ GC_query_task_threads /\ lists.at > Len(lists.act)
  /\ lists' = [lists EXCEPT !.prev = lists.act]
  /\ gp' = IF NoneNew THEN "mprotect_stop" ELSE "list"
  /\ UNCHANGED <<GC_query_task_threads, tasks, suspCount, ctl, machThreads, excVars, pageVars, nCycles>>
\* With the table: the threads that are not in GC_do_blocking, in any order.
SuspendRegistered ==
  /\ gp = "suspend" /\ ~GC_query_task_threads /\ ~dirtyLock
  /\ \/ \E t \in Range(tasks) \ {Me} :
          /\ ctl[t] # "blocking" /\ suspCount[t] = 0
          /\ suspCount' = [suspCount EXCEPT ![t] = 1] /\ UNCHANGED gp
     \/ /\ \A t \in Range(tasks) \ {Me} : ctl[t] = "blocking" \/ suspCount[t] > 0
        /\ gp' = "mprotect_stop" /\ UNCHANGED suspCount
  /\ UNCHANGED <<GC_query_task_threads, tasks, ctl, lists, machThreads, excVars, pageVars, nCycles>>

\* GC_mprotect_thread_notify: send, and wait for the answer.
\* mutated form: the answer is not waited for
NotAwaited == TRUE
Acknowledged == ack
GC_mprotect_stop ==
  \/ /\ gp = "mprotect_stop"
     /\ port' = Append(port, STOP) /\ gp' = "stopping"
     /\ UNCHANGED <<GC_query_task_threads, tasks, suspCount, ctl, lists, machThreads, ack, mpState,
                    mp, dirtyLock, pageVars, nCycles>>
  \/ /\ gp = "stopping" /\ Acknowledged
     /\ ack' = FALSE /\ gp' = "stopped"
     /\ UNCHANGED <<GC_query_task_threads, tasks, suspCount, ctl, lists, machThreads, port, mpState,
                    mp, dirtyLock, pageVars, nCycles>>
\* GC_read_dirty
ReadDirty ==
  /\ gp = "stopped"
  /\ lost' = (wasStored /\ ~isDirty)
  /\ isDirty' = FALSE /\ wasStored' = FALSE /\ isProt' = TRUE /\ gp' = "mprotect_resume"
  /\ UNCHANGED <<GC_query_task_threads, tasks, suspCount, ctl, lists, machThreads, excVars, nCycles>>
GC_mprotect_resume ==
  \/ /\ gp = "mprotect_resume"
     /\ port' = Append(port, RESUME) /\ gp' = "resuming"
     /\ UNCHANGED <<GC_query_task_threads, tasks, suspCount, ctl, lists, machThreads, ack, mpState,
                    mp, dirtyLock, pageVars, nCycles>>
  \/ /\ gp = "resuming" /\ Acknowledged
     /\ ack' = FALSE /\ gp' = "resume"
     /\ lists' = [NoLists EXCEPT !.act = tasks, !.j = Len(tasks) + 1]
     /\ UNCHANGED <<GC_query_task_threads, tasks, suspCount, ctl, machThreads, port, mpState, mp,
                    dirtyLock, pageVars, nCycles>>
\* GC_start_world: threads that are still there, one after the other.
GC_thread_resume(t) == suspCount' = [suspCount EXCEPT ![t] = @ - 1]
ResumeSearch(thread, act, j) ==
  LET later == {k \in j + 1..Len(act) : act[k] = thread}
      earlier == {k \in 1..j - 1 : act[k] = thread}
  IN  IF later # {} THEN CHOOSE k \in later : TRUE
      ELSE IF earlier # {} THEN CHOOSE k \in earlier : TRUE ELSE j
GC_start_world_darwin ==
  /\ gp = "resume" /\ GC_query_task_threads
  /\ \/ /\ machThreads = <<>> /\ gp' = "idle"
        /\ UNCHANGED <<lists, suspCount, machThreads>>
     \/ /\ machThreads # <<>> /\ machThreads' = Tail(machThreads) /\ UNCHANGED gp
        /\ \E j \in {ResumeSearch(Head(machThreads).thread, lists.act, lists.j)} :
             IF Head(machThreads).suspended
             THEN /\ lists' = [lists EXCEPT !.j = j]
                  /\ IF j # lists.j THEN GC_thread_resume(Head(machThreads).thread)
                     ELSE UNCHANGED suspCount
             ELSE UNCHANGED <<lists, suspCount>>
  /\ UNCHANGED <<GC_query_task_threads, tasks, ctl, excVars, pageVars, nCycles>>
ResumeRegistered ==
  /\ gp = "resume" /\ ~GC_query_task_threads
  /\ \/ \E t \in Range(tasks) \ {Me} :
          /\ ctl[t] # "blocking" /\ suspCount[t] > 0 /\ GC_thread_resume(t) /\ UNCHANGED gp
     \/ /\ \A t \in Range(tasks) : ctl[t] = "blocking" \/ suspCount[t] = 0
        /\ gp' = "idle" /\ UNCHANGED suspCount
  /\ UNCHANGED <<GC_query_task_threads, tasks, ctl, lists, machThreads, excVars, pageVars, nCycles>>

CollectorStep ==
  \/ GetList \/ GC_suspend_thread_list \/ EndOfList \/ SuspendRegistered
  \/ GC_mprotect_stop \/ ReadDirty \/ GC_mprotect_resume
  \/ GC_start_world_darwin \/ ResumeRegistered
DarwinNext ==
  \/ \E t \in DThread : \/ StoreWord(t) \/ Exit(t) \/ Blocking(t)
                        \/ \E u \in DThread : Create(t, u)
  \/ MprotectThread
  \/ catch_exception_raise
  \/ GC_stop_world_darwin
  \/ CollectorStep

-----------------------------------------------------------------------------
\* Types; the kernel lists each thread that exists once.
DarwinTypeOK ==
  /\ IsInjective(tasks) /\ Range(tasks) = {t \in DThread : ctl[t] \in {"run", "fault", "blocking"}}
  /\ suspCount \in [DThread -> 0..1]
  /\ mpState \in {"normal", "discarding", "stopped", "abort"} /\ mp.step \in 0..4
  /\ Len(port) <= Cardinality(DThread) /\ lists.at \in 1..Len(lists.act) + 1
  /\ {isProt, isDirty, wasStored, lost, ack, dirtyLock} \subseteq BOOLEAN /\ nCycles \in 0..MaxCycles

\* GC_stop_world "recognizes" all threads, also those that were created by
\* threads not suspended yet; nothing runs from then on but what is inside
\* GC_do_blocking, nobody has the dirty lock, and no fault is being handled.
StoppedForGood ==
  gp \in {"stopped", "mprotect_resume", "resuming"} =>
    /\ \A t \in Range(tasks) \ {Me} : suspCount[t] > 0 \/ ctl[t] = "blocking"
    /\ ~dirtyLock /\ (gp = "stopped" => mp.on = NoThr /\ port = <<>>)

\* Every thread is resumed as often as it was suspended: none hangs after a
\* collection ("GC_start_world will not find the thread to resume which will
\* cause app to hang").
AllResumed == gp = "idle" => \A t \in Range(tasks) : suspCount[t] = 0

\* The stops and resumes reach GC_mprotect_thread in the states it expects them
\* in, and no fault arrives "while world is stopped".
MprotectOrder == mpState # "abort"

\* No store to the page is missed, although the fault is handled by another
\* thread which is not suspended.
NoStoreLost == ~lost

DarwinFairness ==
  /\ WF_darwinVars(MprotectThread \/ catch_exception_raise)
  /\ WF_darwinVars(CollectorStep)
DarwinSpec == DarwinInit /\ [][DarwinNext]_darwinVars /\ DarwinFairness

\* A collection that begins stops the world, and it ends: GC_stop_world finds no
\* new threads for ever and GC_mprotect_thread answers each message.
StopsAndStarts == gp # "idle" ~> gp = "idle"
\* A thread that faulted on a protected page is not left waiting, although the
\* thread that handles faults is being stopped meanwhile and discards them.
FaultsServed == \A t \in DThread \ {Me} : ctl[t] = "fault" ~> ctl[t] # "fault"

\* The world is stopped when GC_stop_world returns, runs after GC_start_world,
\* and no store in between or around is missed.
DarwinSound ==
  DarwinTypeOK /\ StoppedForGood /\ AllResumed /\ MprotectOrder /\ NoStoreLost
=============================================================================
