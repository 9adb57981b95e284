---------------------------- MODULE ThreadStacks ----------------------------
(* What the collector scans of the stacks of threads: GC_do_blocking,       *)
(* GC_call_with_gc_active and the "traced stack sections" they leave        *)
(* (pthread_support.c, mark_rts.c), the suspend handler's stack pointer, and *)
(* threads suspended by the client (pthread_stop_world.c).  A stack is the   *)
(* sequence of its frames, the hottest last; an address in it is an index.   *)
EXTENDS Integers, Sequences, FiniteSets, SequencesExt

CONSTANTS
  StackThread,  \* registered threads
  NoThread,     \* not one of them
  MaxFrames,    \* how deep the stack of each thread may get
  MaxSuspend    \* bound of ext_suspend_cnt

ASSUME StacksAssumption ==
  MaxFrames \in [StackThread -> Nat \ {0}] /\ MaxSuspend \in Nat /\ NoThread \notin StackThread

\* The frames: of the client, of GC_do_blocking_inner, of functions that run
\* inside GC_do_blocking, and of GC_call_with_gc_active.
FrameKinds == {"client", "blocking", "inside", "active"}

VARIABLES
  stk,          \* the stacks
  stackPtr,     \* stack_ptr
  stackEnd,     \* stack_end (GC_stackbottom for the main thread)
  blocking,     \* DO_BLOCKING in flags
  sects,        \* traced_stack_sect and what its prev fields lead to, last first
  extCnt,       \* ext_suspend_cnt
  inHandler,    \* the suspend_cnt a thread in GC_suspend_handler_inner waits with
  selfWait,     \* the suspend_cnt in GC_suspend_self_inner
  stacksStopper       \* the thread that has stopped the world

stacksVars == <<stk, stackPtr, stackEnd, blocking, sects, extCnt, inHandler, selfWait, stacksStopper>>
suspension == <<extCnt, inHandler, selfWait, stacksStopper>>

NotWaiting == -1
Odd(n) == n % 2 = 1

StacksInit ==
  /\ stk = [t \in StackThread |-> <<"client">>]
  /\ stackPtr = [t \in StackThread |-> 1]
  /\ stackEnd = [t \in StackThread |-> 0]
  /\ blocking = [t \in StackThread |-> FALSE]
  /\ sects = [t \in StackThread |-> <<>>]
  /\ extCnt = [t \in StackThread |-> 0]
  /\ inHandler = [t \in StackThread |-> NotWaiting]
  /\ selfWait = [t \in StackThread |-> NotWaiting]
  /\ stacksStopper = NoThread

-----------------------------------------------------------------------------
\* Which threads run.  A thread inside GC_do_blocking is not stopped.
Sp(t) == Len(stk[t])
Hottest(t) == stk[t][Sp(t)]
Runs(t) == selfWait[t] = NotWaiting /\
           (blocking[t] \/ (stacksStopper = NoThread /\ inHandler[t] = NotWaiting))
LockFree == stacksStopper = NoThread

\* The client calls and returns.
Call(t) ==
  /\ Runs(t) /\ Sp(t) < MaxFrames[t]
  /\ stk' = [stk EXCEPT ![t] = Append(@, IF blocking[t] THEN "inside" ELSE "client")]
  /\ UNCHANGED <<stackPtr, stackEnd, blocking, sects, suspension>>
Return(t) ==
  /\ Runs(t) /\ Hottest(t) \in {"client", "inside"} /\ Sp(t) > 1
  /\ stk' = [stk EXCEPT ![t] = Front(@)]
  /\ UNCHANGED <<stackPtr, stackEnd, blocking, sects, suspension>>

SaveSp(t) == stackPtr' = [stackPtr EXCEPT ![t] = Sp(t) + 1]
do_blocking_enter(t) ==
  /\ SaveSp(t)
  /\ blocking' = [blocking EXCEPT ![t] = TRUE]
  /\ stk' = [stk EXCEPT ![t] = Append(@, "blocking")]
GC_do_blocking(t) ==
  /\ Runs(t) /\ LockFree /\ ~blocking[t] /\ Sp(t) < MaxFrames[t]
  /\ do_blocking_enter(t)
  /\ UNCHANGED <<stackEnd, sects, suspension>>

\* The function has returned: LOCK, and wait as long as the thread is
\* suspended; the number of the suspension is read before UNLOCK.
do_blocking_leave(t) ==
  /\ blocking[t] /\ Runs(t) /\ LockFree /\ Hottest(t) = "blocking"
  /\ IF Odd(extCnt[t])
     THEN selfWait' = [selfWait EXCEPT ![t] = extCnt[t]] /\ UNCHANGED <<stk, blocking>>
     ELSE /\ blocking' = [blocking EXCEPT ![t] = FALSE]
          /\ stk' = [stk EXCEPT ![t] = Front(@)]
          /\ UNCHANGED selfWait
  /\ UNCHANGED <<stackPtr, stackEnd, sects, extCnt, inHandler, stacksStopper>>
Passed(t) == extCnt[t] # selfWait[t]
GC_suspend_self_inner(t) ==
  /\ selfWait[t] # NotWaiting /\ Passed(t)
  /\ selfWait' = [selfWait EXCEPT ![t] = NotWaiting]
  /\ UNCHANGED <<stk, stackPtr, stackEnd, blocking, sects, extCnt, inHandler, stacksStopper>>

\* mutated forms: the waiting is left out; the stack pointer is cleared
WaitedNot(t) == TRUE
Resumed(t) == ~Odd(extCnt[t])
SavedPtr(t) == [stackPtr EXCEPT ![t] = Head(sects[t]).saved]
GC_call_with_gc_active(t) ==
  /\ Runs(t) /\ LockFree /\ Sp(t) < MaxFrames[t]
  /\ \/ /\ ~(blocking[t] /\ ~Resumed(t))
        /\ stackEnd' = [stackEnd EXCEPT ![t] = IF @ > Sp(t) THEN Sp(t) ELSE @]
        /\ stk' = [stk EXCEPT ![t] = Append(@, IF blocking[t] THEN "active" ELSE "client")]
        /\ sects' = IF ~blocking[t] THEN sects
                    ELSE [sects EXCEPT ![t] = <<[at |-> Sp(t) + 1, saved |-> stackPtr[t]]>> \o @]
        /\ blocking' = [blocking EXCEPT ![t] = FALSE]
        /\ UNCHANGED selfWait
     \/ /\ blocking[t] /\ ~Resumed(t)
        /\ selfWait' = [selfWait EXCEPT ![t] = extCnt[t]]
        /\ stackEnd' = [stackEnd EXCEPT ![t] = IF @ > Sp(t) THEN Sp(t) ELSE @]
        /\ UNCHANGED <<stk, blocking, sects>>
  /\ UNCHANGED <<stackPtr, extCnt, inHandler, stacksStopper>>
LeaveGcActive(t) ==
  /\ Runs(t) /\ LockFree /\ Hottest(t) = "active"
  /\ sects' = [sects EXCEPT ![t] = Tail(@)]
  /\ stackPtr' = SavedPtr(t)
  /\ blocking' = [blocking EXCEPT ![t] = TRUE]
  /\ stk' = [stk EXCEPT ![t] = Front(@)]
  /\ UNCHANGED <<stackEnd, suspension>>

\* The client says where the stack begins (coroutines).
GC_set_stackbottom(t, b) ==
  /\ Runs(t) /\ LockFree /\ ~blocking[t] /\ sects[t] = <<>> /\ b < Sp(t) /\ b \in 0..1
  /\ stackEnd' = [stackEnd EXCEPT ![t] = b]
  /\ UNCHANGED <<stk, stackPtr, blocking, sects, suspension>>

-----------------------------------------------------------------------------
\* Stopping: see StopWorld for the protocol.
GC_store_stack_ptr(S) == [t \in StackThread |-> IF t \in S THEN Sp(t) ELSE stackPtr[t]]
StopStacks(s) ==
  /\ LockFree /\ Runs(s) /\ ~blocking[s] /\ Hottest(s) # "active"
  /\ stacksStopper' = s
  /\ stackPtr' = GC_store_stack_ptr({t \in StackThread \ {s} :
                                       ~blocking[t] /\ ~Odd(extCnt[t])})
  /\ UNCHANGED <<stk, stackEnd, blocking, sects, extCnt, inHandler, selfWait>>
StartStacks ==
  /\ stacksStopper # NoThread
  /\ stacksStopper' = NoThread
  /\ UNCHANGED <<stk, stackPtr, stackEnd, blocking, sects, extCnt, inHandler, selfWait>>

\* A thread inside GC_do_blocking is only marked as suspended; one that suspends
\* itself waits as if inside GC_do_blocking; others are sent the signal.
GC_suspend_thread(p, t) ==
  /\ LockFree /\ Runs(p) /\ ~blocking[p]
  /\ ~Odd(extCnt[t]) /\ extCnt[t] < MaxSuspend
  /\ extCnt' = [extCnt EXCEPT ![t] = @ + 1]
  /\ \/ blocking[t] /\ UNCHANGED <<stackPtr, inHandler, stk, blocking>>
     \/ p = t /\ Sp(t) < MaxFrames[t] /\ do_blocking_enter(t) /\ UNCHANGED inHandler
     \/ /\ ~blocking[t] /\ p # t
        /\ stackPtr' = GC_store_stack_ptr({t})
        /\ inHandler' = [inHandler EXCEPT ![t] = extCnt[t] + 1]
        /\ UNCHANGED <<stk, blocking>>
  /\ UNCHANGED <<stackEnd, sects, selfWait, stacksStopper>>
GC_suspend_handler_inner(t) ==
  /\ inHandler[t] # NotWaiting /\ extCnt[t] # inHandler[t]
  /\ inHandler' = [inHandler EXCEPT ![t] = NotWaiting]
  /\ UNCHANGED <<stk, stackPtr, stackEnd, blocking, sects, extCnt, selfWait, stacksStopper>>
GC_resume_thread(p, t) ==
  /\ LockFree /\ Runs(p) /\ ~blocking[p] /\ p # t
  /\ Odd(extCnt[t])
  /\ extCnt' = [extCnt EXCEPT ![t] = @ + 1]
  /\ UNCHANGED <<stk, stackPtr, stackEnd, blocking, sects, inHandler, selfWait, stacksStopper>>

StacksNext ==
  \E t \in StackThread :
    \/ Call(t)
    \/ Return(t)
    \/ GC_do_blocking(t)
    \/ do_blocking_leave(t)
    \/ GC_suspend_self_inner(t)
    \/ GC_call_with_gc_active(t)
    \/ LeaveGcActive(t)
    \/ \E b \in 0..1 : GC_set_stackbottom(t, b)
    \/ StopStacks(t)
    \/ stacksStopper = t /\ StartStacks
    \/ GC_suspend_handler_inner(t)
    \/ \E p \in StackThread : GC_suspend_thread(p, t) \/ GC_resume_thread(p, t)

StacksSpec == StacksInit /\ [][StacksNext]_stacksVars

-----------------------------------------------------------------------------
\* Scanning.  A range from a to b holds the frames hotter than a, up to b.
Lo(self, t) == IF t = self THEN Sp(t) ELSE stackPtr[t]
\* mutated form: the hottest section is always scanned from its beginning
NoneSkipped(self, t) == sects[t]
\* If the thread was not stopped since GC_call_with_gc_active, its stack pointer
\* is still the one before the hottest section.
SectsToPush(self, t) ==
  IF t # self /\ sects[t] # <<>> /\ Head(sects[t]).saved = stackPtr[t]
  THEN Tail(sects[t]) ELSE sects[t]
\* The hot end of the k-th range, and the ranges.
HotEnd(lo, ss, k) == IF k = 1 THEN lo ELSE ss[k - 1].saved
GC_push_all_stack_sections(lo, hi, ss) ==
  {<<ss[k].at - 1, HotEnd(lo, ss, k)>> : k \in 1..Len(ss)}
    \cup {<<hi, HotEnd(lo, ss, Len(ss) + 1)>>}
\* Without threads, the part hotter than cold_gc_frame is scanned at once: it
\* is part of the hottest range.
GC_push_all_stack_part_eager_sections(lo, hi, cold, ss) ==
  UNION {IF r[2] = lo THEN {<<r[1], cold>>, <<cold, lo>>} ELSE {r} :
         r \in GC_push_all_stack_sections(lo, hi, ss)}
Frames(ranges) == UNION {(r[1] + 1)..r[2] : r \in ranges}
PushedFrames(self, t) ==
  Frames(GC_push_all_stack_sections(Lo(self, t), stackEnd[t], SectsToPush(self, t)))

\* The frames that may hold pointers to objects: all but those inside
\* GC_do_blocking that are not in GC_call_with_gc_active again.
Holding(t) == {k \in 1..Sp(t) : k > stackEnd[t] /\ stk[t][k] # "inside"}

-----------------------------------------------------------------------------
\* Types; stack pointers and sections lie in the stack of their thread.
StacksTypeOK ==
  /\ stk \in [StackThread -> Seq(FrameKinds)]
  /\ stackPtr \in [StackThread -> Nat] /\ stackEnd \in [StackThread -> Nat]
  /\ sects \in [StackThread -> Seq([at : Nat, saved : Nat])]
  /\ \A t \in StackThread : Sp(t) \in 1..MaxFrames[t] /\ stackPtr[t] \in 1..MaxFrames[t]
  /\ blocking \in [StackThread -> BOOLEAN]
  /\ extCnt \in [StackThread -> 0..MaxSuspend + 1]
  /\ inHandler \in [StackThread -> NotWaiting..MaxSuspend]
  /\ selfWait \in [StackThread -> NotWaiting..MaxSuspend]
  /\ stacksStopper \in StackThread \cup {NoThread}

\* With the world stopped, GC_push_all_stacks pushes exactly the frames of each
\* stack that may hold pointers, however GC_do_blocking and
\* GC_call_with_gc_active are nested and whoever was suspended before.
StacksCovered ==
  stacksStopper # NoThread => \A t \in StackThread : PushedFrames(stacksStopper, t) = Holding(t)

\* GC_push_all_stacks "should not fail if [the world] is not [stopped]": stack
\* pointers are then those of earlier stops, and still the assertions about
\* sections hold: each begins in the stack and is colder than its hot end.
PushNeverFails ==
  \A self, t \in StackThread :
    \A r \in GC_push_all_stack_sections(Lo(self, t), stackEnd[t], SectsToPush(self, t)) :
      (self = t => ~blocking[t]) /\ (LockFree \/ stacksStopper = self)
        => /\ r[1] <= r[2]
           /\ r[1] = stackEnd[t] \/ stk[t][r[1] + 1] = "active"

\* Pushing a part of the current stack at once leaves nothing out.
EagerSame ==
  \A t \in StackThread : \A cold \in stackEnd[t]..Sp(t) :
    ~blocking[t] /\ (sects[t] # <<>> => cold >= Head(sects[t]).at) =>
      Frames(GC_push_all_stack_part_eager_sections(Sp(t), stackEnd[t], cold, sects[t]))
        = Frames(GC_push_all_stack_sections(Sp(t), stackEnd[t], sects[t]))

\* Between GC_suspend_thread and GC_resume_thread a thread does nothing outside
\* GC_do_blocking: its frames that may hold pointers stay as they are.
SuspendedStays ==
  [][\A t \in StackThread : Odd(extCnt[t]) /\ Odd(extCnt'[t]) => Holding(t)' = Holding(t)
                            \/ stackEnd'[t] # stackEnd[t]]_stacksVars

StacksFairness ==
  \A t \in StackThread :
    WF_stacksVars(\/ GC_suspend_self_inner(t) \/ GC_suspend_handler_inner(t)
                  \/ stacksStopper = t /\ StartStacks)
\* A thread that was resumed goes on, unless it is suspended again.
GoesOn ==
  \A t \in StackThread :
    (~Odd(extCnt[t]) /\ (inHandler[t] # NotWaiting \/ selfWait[t] # NotWaiting))
      ~> (Odd(extCnt[t]) \/ (inHandler[t] = NotWaiting /\ selfWait[t] = NotWaiting))

-----------------------------------------------------------------------------
\* The inductive invariant behind these properties.

\* The sections of a stack are nested calls: each begins at a frame of
\* GC_call_with_gc_active, hotter than the frame of GC_do_blocking it saved,
\* and the sections do not overlap.
SectsOrdered(t) ==
  /\ \A k \in 1..Len(sects[t]) :
       /\ 2 <= sects[t][k].saved /\ sects[t][k].saved < sects[t][k].at
       /\ sects[t][k].at <= Sp(t)
       /\ blocking[t] => sects[t][k].at < stackPtr[t]
  /\ \A k, l \in 1..Len(sects[t]) : k < l => sects[t][l].at < sects[t][k].saved

\* They tell the frames inside GC_do_blocking, of which nothing is scanned, and
\* those of GC_call_with_gc_active from the rest.
FramesTold(t) ==
  \A j \in 1..Sp(t) :
    /\ stk[t][j] = "active" <=> \E k \in 1..Len(sects[t]) : sects[t][k].at = j
    /\ stk[t][j] = "inside" <=>
         \/ blocking[t] /\ stackPtr[t] < j
         \/ \E k \in 1..Len(sects[t]) : sects[t][k].saved < j /\ j < sects[t][k].at
    /\ blocking[t] /\ j = stackPtr[t] => stk[t][j] = "blocking"
    /\ (\E k \in 1..Len(sects[t]) : sects[t][k].saved = j) => stk[t][j] = "blocking"

\* The stack pointer of a thread that runs is that of its last stop, or the one
\* it had before its hottest section.
PtrPlausible(t) ==
  /\ stackEnd[t] \in 0..1
  /\ blocking[t] => 2 <= stackPtr[t] /\ stackPtr[t] <= Sp(t)
  /\ ~blocking[t] /\ sects[t] # <<>> =>
       stackPtr[t] = sects[t][1].saved \/ stackPtr[t] >= sects[t][1].at

\* A thread that the client suspended is in the handler until it is resumed, or
\* inside GC_do_blocking.
HandlerHolds(t) ==
  /\ Odd(extCnt[t]) => extCnt[t] <= MaxSuspend
  /\ Odd(extCnt[t]) /\ ~blocking[t] => inHandler[t] = extCnt[t] /\ stackPtr[t] = Sp(t)
StopHolds ==
  stacksStopper # NoThread =>
    /\ ~blocking[stacksStopper]
    /\ \A t \in StackThread \ {stacksStopper} : ~blocking[t] => stackPtr[t] = Sp(t)
StacksNested ==
  /\ \A t \in StackThread : SectsOrdered(t) /\ FramesTold(t) /\ PtrPlausible(t) /\ HandlerHolds(t)
  /\ StopHolds

\* What is pushed of the stacks is what may hold pointers, at every stop, for
\* every way of pushing it.
StacksSound ==
  StacksTypeOK /\ StacksNested /\ StacksCovered /\ PushNeverFails /\ EagerSame
=============================================================================
