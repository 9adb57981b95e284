----------------------------- MODULE WinThreads -----------------------------
(* Thread discovery on Windows (win32_threads.c with GC_win32_dll_threads).  *)
(* DllMain runs in a thread that starts or ends and may not wait, so threads *)
(* enter and leave dll_thread_table without a lock while another one stops   *)
(* the world; a thread that attaches while the world is stopped makes the    *)
(* collector redo its marking (GC_mark_some in mark.c, WRAP_MARK_SOME).      *)
EXTENDS Integers, FiniteSets

CONSTANTS
  WThread,      \* the threads of the process
  WMain,        \* the one that initialized the collector, and collects
  MAX_THREADS,  \* slots of dll_thread_table
  WinGcs        \* bound: collections


VARIABLES
  dll_table,            \* dll_thread_table
  wt,                   \* each thread: where it is, its slot, suspended or not
  GC_max_thread_index,
  GC_please_stop,
  GC_attached_thread,
  wg,                   \* the collector: where it is, i and my_max of its loop
  pushedStacks,         \* threads GC_push_all_stacks has pushed in this marking
  lateThreads,          \* threads that saw GC_please_stop when they attached
  winGcs

winVars == <<dll_table, wt, GC_max_thread_index, GC_please_stop, GC_attached_thread, wg,
             pushedStacks, lateThreads, winGcs>>

WNone == "none"
ASSUME WinAssumption ==
  /\ WMain \in WThread /\ WNone \notin WThread
  /\ MAX_THREADS \in Nat \ {0} /\ WinGcs \in Nat

WSlot == 0 .. MAX_THREADS - 1
EmptySlot == [in_use |-> FALSE, handle |-> WNone, stack_end |-> FALSE, id |-> WNone, flags |-> {}]
SlotOf(t) == [in_use |-> TRUE, handle |-> t, stack_end |-> TRUE, id |-> t, flags |-> {}]

\* GC_thr_init registers the main thread.
WinInit ==
  /\ dll_table = [i \in WSlot |-> IF i = 0 THEN SlotOf(WMain) ELSE EmptySlot]
  /\ wt = [t \in WThread |-> [pc |-> IF t = WMain THEN "run" ELSE "new", at |-> 0, suspended |-> FALSE]]
  /\ GC_max_thread_index = 0
  /\ GC_please_stop = FALSE /\ GC_attached_thread = FALSE
  /\ wg = [pc |-> "idle", i |-> 0, max |-> 0]
  /\ pushedStacks = {} /\ lateThreads = {} /\ winGcs = 0

stopFlags == <<GC_please_stop, GC_attached_thread>>
gcSide == <<wg, pushedStacks, winGcs>>
WAborts == wg' = [wg EXCEPT !.pc = "aborted"]

-----------------------------------------------------------------------------
\* DLL_THREAD_ATTACH: GC_register_my_thread_inner, one shared access a step.
WAt(t, p) == wt[t].pc = p /\ ~wt[t].suspended /\ t # WMain /\ wg.pc \notin {"aborted", "ended"}
WGoto(t, p) == wt' = [wt EXCEPT ![t].pc = p]
MySlot(t) == dll_table[wt[t].at]

StartThread(t) ==
  /\ WAt(t, "new") /\ WGoto(t, "claim")
  /\ UNCHANGED <<dll_table, GC_max_thread_index, stopFlags, gcSide, lateThreads>>

\* What InterlockedExchange leaves in the slot.
\* mutated form: the slot is only read
NotExchanged(s) == s
Exchanged(s) == [s EXCEPT !.in_use = TRUE]
ClaimSlot(t) ==
  /\ WAt(t, "claim")
  /\ dll_table' = [dll_table EXCEPT ![wt[t].at] = Exchanged(@)]
  /\ \/ ~MySlot(t).in_use /\ WGoto(t, "max") /\ UNCHANGED wg
     \/ /\ MySlot(t).in_use /\ wt[t].at < MAX_THREADS - 1
        /\ wt' = [wt EXCEPT ![t].at = @ + 1]
        /\ UNCHANGED wg
     \/ MySlot(t).in_use /\ wt[t].at = MAX_THREADS - 1 /\ WAborts /\ UNCHANGED wt
  /\ UNCHANGED <<GC_max_thread_index, stopFlags, pushedStacks, lateThreads, winGcs>>

TestMax(t) ==
  /\ WAt(t, "max")
  /\ WGoto(t, IF wt[t].at > GC_max_thread_index THEN "increment" ELSE "overshot")
  /\ UNCHANGED <<dll_table, GC_max_thread_index, stopFlags, gcSide, lateThreads>>

IncrementMax(t) ==
  /\ WAt(t, "increment")
  /\ GC_max_thread_index' = GC_max_thread_index + 1
  /\ WGoto(t, "max")
  /\ UNCHANGED <<dll_table, stopFlags, gcSide, lateThreads>>

TestOvershot(t) ==
  /\ WAt(t, "overshot")
  /\ WGoto(t, IF GC_max_thread_index >= MAX_THREADS THEN "clamp" ELSE "fill")
  /\ UNCHANGED <<dll_table, GC_max_thread_index, stopFlags, gcSide, lateThreads>>

Clamped(t) == MAX_THREADS - 1
ClampMax(t) ==
  /\ WAt(t, "clamp")
  /\ GC_max_thread_index' = Clamped(t)
  /\ WGoto(t, "fill")
  /\ UNCHANGED <<dll_table, stopFlags, gcSide, lateThreads>>

\* DuplicateHandle and GC_record_stack_base; from here on the entry counts.
FillSlot(t) ==
  /\ WAt(t, "fill")
  /\ dll_table' = [dll_table EXCEPT ![wt[t].at].handle = t, ![wt[t].at].stack_end = TRUE]
  /\ WGoto(t, "id")
  /\ UNCHANGED <<GC_max_thread_index, stopFlags, gcSide, lateThreads>>

StoreId(t) ==
  /\ WAt(t, "id")
  /\ dll_table' = [dll_table EXCEPT ![wt[t].at].id = t]
  /\ WGoto(t, "test_stop")
  /\ UNCHANGED <<GC_max_thread_index, stopFlags, gcSide, lateThreads>>

\* mutated form: GC_please_stop is not looked at
NeverSeesStop(t) == FALSE
SeesStop(t) == GC_please_stop
TestPleaseStop(t) ==
  /\ WAt(t, "test_stop")
  /\ WGoto(t, IF SeesStop(t) THEN "tell" ELSE "run")
  /\ lateThreads' = IF GC_please_stop THEN lateThreads \union {t} ELSE lateThreads
  /\ UNCHANGED <<dll_table, GC_max_thread_index, stopFlags, gcSide>>

TellAttached(t) ==
  /\ WAt(t, "tell")
  /\ GC_attached_thread' = TRUE
  /\ WGoto(t, "run")
  /\ UNCHANGED <<dll_table, GC_max_thread_index, GC_please_stop, gcSide, lateThreads>>

-----------------------------------------------------------------------------
(* DLL_THREAD_DETACH: GC_delete_thread, GC_delete_gc_thread_no_free.         *)
GC_get_max_thread_index == IF GC_max_thread_index >= MAX_THREADS THEN MAX_THREADS - 1
                                                                 ELSE GC_max_thread_index
GC_lookup_thread(t) == { i \in 0 .. GC_get_max_thread_index : dll_table[i].in_use /\ dll_table[i].id = t }

CloseSlotHandle(t) ==
  /\ WAt(t, "run")
  /\ \/ /\ GC_lookup_thread(t) # {}
        /\ dll_table' = [i \in WSlot |-> IF i \in GC_lookup_thread(t) THEN [dll_table[i] EXCEPT !.handle = WNone]
                                                                  ELSE dll_table[i]]
        /\ WGoto(t, "unstack")
     \/ GC_lookup_thread(t) = {} /\ WGoto(t, "gone") /\ UNCHANGED dll_table
  /\ UNCHANGED <<GC_max_thread_index, stopFlags, gcSide, lateThreads>>

ClearStackEnd(t) ==
  /\ WAt(t, "unstack")
  /\ dll_table' = [dll_table EXCEPT ![wt[t].at].stack_end = FALSE]
  /\ WGoto(t, "unid")
  /\ UNCHANGED <<GC_max_thread_index, stopFlags, gcSide, lateThreads>>

ClearIdAndFlags(t) ==
  /\ WAt(t, "unid")
  /\ dll_table' = [dll_table EXCEPT ![wt[t].at].id = WNone, ![wt[t].at].flags = {}]
  /\ WGoto(t, "unuse")
  /\ UNCHANGED <<GC_max_thread_index, stopFlags, gcSide, lateThreads>>

ReleaseSlot(t) ==
  /\ WAt(t, "unuse")
  /\ dll_table' = [dll_table EXCEPT ![wt[t].at].in_use = FALSE]
  /\ WGoto(t, "gone")
  /\ UNCHANGED <<GC_max_thread_index, stopFlags, gcSide, lateThreads>>

\* A thread that is terminated never gets to DllMain.
TerminateThread(t) ==
  /\ WAt(t, "run") /\ WGoto(t, "dead")
  /\ UNCHANGED <<dll_table, GC_max_thread_index, stopFlags, gcSide, lateThreads>>

\* GC_do_blocking_inner: the flag changes with the allocation lock held.
DoBlocking(t) ==
  /\ WAt(t, "run") /\ wg.pc = "idle" /\ GC_lookup_thread(t) # {}
  /\ dll_table' = [dll_table EXCEPT ![wt[t].at].flags =
                 IF "DO_BLOCKING" \in @ THEN @ \ {"DO_BLOCKING"} ELSE @ \union {"DO_BLOCKING"}]
  /\ UNCHANGED <<wt, GC_max_thread_index, stopFlags, gcSide, lateThreads>>

-----------------------------------------------------------------------------
\* GC_stop_world, by the main thread.
threadSide == <<GC_max_thread_index, lateThreads>>

GC_stop_world ==
  /\ wg.pc = "idle" /\ winGcs < WinGcs
  /\ GC_please_stop' = TRUE /\ winGcs' = winGcs + 1
  /\ wg' = [wg EXCEPT !.pc = "reset"]
  /\ UNCHANGED <<dll_table, wt, GC_attached_thread, pushedStacks, threadSide>>

ResetAttached ==
  /\ wg.pc = "reset"
  /\ GC_attached_thread' = FALSE
  /\ wg' = [wg EXCEPT !.pc = "stop_max"]
  /\ UNCHANGED <<dll_table, wt, GC_please_stop, pushedStacks, winGcs, threadSide>>

\* my_max, read anew by each loop over the table.
BeginLoop(from, to) ==
  /\ wg.pc = from
  /\ wg' = [pc |-> to, i |-> 0, max |-> GC_get_max_thread_index]
  /\ UNCHANGED <<dll_table, wt, stopFlags, winGcs, threadSide>>
StopLoop == BeginLoop("stop_max", "stop") /\ UNCHANGED pushedStacks
PushLoop == BeginLoop("push_max", "push") /\ pushedStacks' = {}
ResumeLoop == BeginLoop("resume_max", "resume") /\ UNCHANGED pushedStacks

Passed(next) == wg' = IF wg.i < wg.max THEN [wg EXCEPT !.i = @ + 1] ELSE [wg EXCEPT !.pc = next]

ToSuspend(s) == s.stack_end /\ "DO_BLOCKING" \notin s.flags /\ s.id # WMain
StopTest ==
  /\ wg.pc = "stop"
  /\ IF ToSuspend(dll_table[wg.i]) THEN wg' = [wg EXCEPT !.pc = "suspend"] ELSE Passed("push_max")
  /\ UNCHANGED <<dll_table, wt, stopFlags, pushedStacks, winGcs, threadSide>>

\* GC_suspend: a dead thread is deleted here; a handle closed since the test
\* makes SuspendThread fail, and the process is aborted.
GC_suspend ==
  /\ wg.pc = "suspend"
  /\ \E s \in {dll_table[wg.i]} :
       \/ s.handle = WNone /\ WAborts /\ UNCHANGED <<dll_table, wt>>
       \/ /\ s.handle # WNone /\ wt[s.handle].pc \in {"dead", "gone"}
          /\ dll_table' = [dll_table EXCEPT ![wg.i] = EmptySlot]
          /\ wg' = [wg EXCEPT !.pc = "suspended"]
          /\ UNCHANGED wt
       \/ /\ s.handle # WNone /\ wt[s.handle].pc \notin {"dead", "gone"}
          /\ dll_table' = [dll_table EXCEPT ![wg.i].flags = @ \union {"IS_SUSPENDED"}]
          /\ wt' = [wt EXCEPT ![s.handle].suspended = TRUE]
          /\ wg' = [wg EXCEPT !.pc = "suspended"]
  /\ UNCHANGED <<stopFlags, pushedStacks, winGcs, threadSide>>
NextToStop ==
  /\ wg.pc = "suspended"
  /\ wg' = IF wg.i < wg.max THEN [wg EXCEPT !.pc = "stop", !.i = @ + 1] ELSE [wg EXCEPT !.pc = "push_max"]
  /\ UNCHANGED <<dll_table, wt, stopFlags, pushedStacks, winGcs, threadSide>>

\* GC_push_all_stacks; GetThreadContext fails on a closed handle.
GC_push_all_stacks ==
  /\ wg.pc = "push"
  /\ \E s \in {dll_table[wg.i]} :
       \/ ~(s.in_use /\ s.stack_end) /\ Passed("check") /\ UNCHANGED pushedStacks
       \/ s.in_use /\ s.stack_end /\ s.handle = WNone /\ WAborts /\ UNCHANGED pushedStacks
       \/ /\ s.in_use /\ s.stack_end /\ s.handle # WNone
          /\ pushedStacks' = pushedStacks \union {s.handle}
          /\ Passed("check")
  /\ UNCHANGED <<dll_table, wt, stopFlags, winGcs, threadSide>>

\* The end of GC_mark_some: marking starts over if a thread was attached.
GC_started_thread_while_stopped ==
  /\ wg.pc = "check"
  /\ \/ /\ GC_attached_thread /\ GC_attached_thread' = FALSE
        /\ wg' = [wg EXCEPT !.pc = "push_max"]
     \/ ~GC_attached_thread /\ wg' = [wg EXCEPT !.pc = "resume_max"] /\ UNCHANGED GC_attached_thread
  /\ UNCHANGED <<dll_table, wt, GC_please_stop, pushedStacks, winGcs, threadSide>>

\* GC_start_world.
ToResume(s) == "IS_SUSPENDED" \in s.flags
GC_start_world ==
  /\ wg.pc = "resume"
  /\ Passed("unstop")
  /\ IF ToResume(dll_table[wg.i])
     THEN /\ wt' = [wt EXCEPT ![dll_table[wg.i].handle].suspended = FALSE]
          /\ dll_table' = [dll_table EXCEPT ![wg.i].flags = @ \ {"IS_SUSPENDED"}]
     ELSE UNCHANGED <<wt, dll_table>>
  /\ UNCHANGED <<stopFlags, pushedStacks, winGcs, threadSide>>
ClearPleaseStop ==
  /\ wg.pc = "unstop"
  /\ GC_please_stop' = FALSE /\ lateThreads' = {}
  /\ wg' = [wg EXCEPT !.pc = "idle"]
  /\ UNCHANGED <<dll_table, wt, GC_attached_thread, pushedStacks, winGcs, GC_max_thread_index>>

\* DLL_PROCESS_DETACH.
ProcessDetach ==
  /\ wg.pc = "idle"
  /\ dll_table' = [i \in WSlot |-> IF i <= GC_get_max_thread_index /\ dll_table[i].in_use THEN EmptySlot ELSE dll_table[i]]
  /\ wg' = [wg EXCEPT !.pc = "ended"]
  /\ UNCHANGED <<wt, stopFlags, pushedStacks, winGcs, threadSide>>

AttachStep(t) ==
  \/ StartThread(t) \/ ClaimSlot(t) \/ TestMax(t) \/ IncrementMax(t) \/ TestOvershot(t)
  \/ ClampMax(t) \/ FillSlot(t) \/ StoreId(t) \/ TestPleaseStop(t) \/ TellAttached(t)
DetachStep(t) ==
  CloseSlotHandle(t) \/ ClearStackEnd(t) \/ ClearIdAndFlags(t) \/ ReleaseSlot(t)
WinGcStep ==
  \/ GC_stop_world \/ ResetAttached \/ StopLoop \/ StopTest \/ GC_suspend \/ NextToStop \/ PushLoop
  \/ GC_push_all_stacks \/ GC_started_thread_while_stopped \/ ResumeLoop \/ GC_start_world
  \/ ClearPleaseStop \/ ProcessDetach

WinNext ==
  \/ \E t \in WThread : AttachStep(t) \/ DetachStep(t) \/ TerminateThread(t) \/ DoBlocking(t)
  \/ WinGcStep

WinSpec == WinInit /\ [][WinNext]_winVars

-----------------------------------------------------------------------------
WPc == {"new", "claim", "max", "increment", "overshot", "clamp", "fill", "id", "test_stop", "tell",
        "run", "unstack", "unid", "unuse", "gone", "dead"}

\* Types; GC_get_max_thread_index never gives a loop an index beyond the table.
WinTypeOK ==
  /\ \A i \in WSlot : /\ dll_table[i].in_use \in BOOLEAN /\ dll_table[i].stack_end \in BOOLEAN
                      /\ {dll_table[i].handle, dll_table[i].id} \subseteq WThread \union {WNone}
                      /\ dll_table[i].flags \subseteq {"IS_SUSPENDED", "DO_BLOCKING"}
  /\ \A t \in WThread : wt[t].pc \in WPc /\ wt[t].at \in WSlot
  /\ wg.i \in WSlot /\ wg.max \in WSlot
  /\ pushedStacks \subseteq WThread /\ lateThreads \subseteq WThread

Reserved(t) == wt[t].pc \in WPc \ {"new", "claim", "gone", "dead"}
SlotCovered(t) == Reserved(t) /\ wt[t].pc \notin {"max", "increment"}
\* A slot has one owner, and once GC_register_my_thread_inner has raised
\* GC_max_thread_index every loop over the table reaches the owner's slot,
\* although increments race and one thread may set the index back.
SlotsReached ==
  \A t \in WThread :
    wg.pc # "ended" =>
    /\ SlotCovered(t) => wt[t].at <= GC_get_max_thread_index
    /\ Reserved(t) => /\ dll_table[wt[t].at].in_use
                      /\ \A u \in WThread \ {t} : Reserved(u) => wt[u].at # wt[t].at

\* While marking, a registered thread that runs is one that attached after
\* GC_stop_world had set GC_please_stop, or is inside GC_do_blocking.
RunnersAttachedLate ==
  wg.pc \in {"push_max", "push", "check"} =>
    \A t \in WThread \ {WMain} :
      wt[t].pc = "run" /\ ~wt[t].suspended =>
        t \in lateThreads \/ "DO_BLOCKING" \in dll_table[wt[t].at].flags

\* Marking is not finished without the stack of a thread that had attached.
AttachedScanned ==
  [][wg.pc = "check" /\ wg'.pc = "resume_max" =>
       \A t \in WThread : wt[t].pc = "run" => t \in pushedStacks]_winVars

\* When the world runs again, no thread is left suspended.
AllResumedAfterGc ==
  wg.pc \in {"idle", "ended"} => \A t \in WThread : ~wt[t].suspended

\* A stop reaches every thread that was attached before it, and is undone.
WinThreadsSound ==
  WinTypeOK /\ SlotsReached /\ RunnersAttachedLate /\ AllResumedAfterGc
=============================================================================
