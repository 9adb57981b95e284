--------------------------- MODULE ParallelMark ----------------------------
(***************************************************************************)
(* The parallel marker: GC_do_parallel_mark run by the thread that holds   *)
(* the allocation lock (marker 0), and the helper threads of GC_mark_thread*)
(* (mark.c, pthread_support.c).  The markers share the global mark stack,  *)
(* steal entries from it without a lock, and detect together that there is *)
(* nothing left to do.  Collector.tla has the sequential marker, and what  *)
(* happens before and after a parallel mark phase.                         *)
(*                                                                         *)
(* A code section under the mark lock is one action where everything it    *)
(* reads is protected by the lock; GC_first_nonempty, the entries below    *)
(* GC_mark_stack_top and the mark bits are not, so each access to them is  *)
(* an action of its own.  Memory is sequentially consistent.               *)
(***************************************************************************)
EXTENDS Integers, FiniteSets

CONSTANTS Obj,          \* the objects of the heap
          Root,         \* the objects that the roots point to
          MarkConfigs,  \* heaps and sizes, with the fields below
          MaxHelpers,   \* the greatest number of helper threads among them
          EntriesToGet, \* ENTRIES_TO_GET
          NoEntry,      \* a mark stack entry with a zero descriptor
          NoLock        \* the mark lock is free

ASSUME MarkConfigsAssumption ==
  /\ MarkConfigs \subseteq [succ : [Obj -> SUBSET Obj], helpers : 0..MaxHelpers,
                            stack : Nat, local : Nat \ {0}, phases : Nat]
  /\ MaxHelpers \in Nat /\ EntriesToGet \in Nat \ {0}
ASSUME RootsAssumption == Root \subseteq Obj /\ IsFiniteSet(Obj)
ASSUME NoEntryNotObj == NoEntry \notin Obj
ASSUME NoLockNotMarker == NoLock \notin 0..MaxHelpers

VARIABLES
  mconf,         \* the member of MarkConfigs that is in force
  \* protected by the mark lock
  lock,          \* the holder of the mark lock
  helpWanted,    \* GC_help_wanted
  helperCount,   \* GC_helper_count
  activeCount,   \* GC_active_count
  markNo,        \* GC_mark_no
  top,           \* GC_mark_stack_top; written under the lock, read anywhere
  \* not protected
  firstNonempty, \* GC_first_nonempty
  gstack,        \* the entries of the global mark stack
  marked,        \* the mark bits
  markState,     \* GC_mark_state
  \* local to a marker
  pc,            \* where it is
  sleeping,      \* the markers waiting on the condition variable
  myMarkNo,      \* my_mark_no of GC_mark_thread
  myFirst,       \* my_first_nonempty, also the p of GC_steal_mark_stack
  myTop,         \* my_top
  seen,          \* global_first_nonempty
  toGet,         \* entries GC_steal_mark_stack may still take
  hand,          \* what a marker has read and not yet acted on
  local          \* its local mark stack

counts  == <<helpWanted, helperCount, activeCount, markNo>>
global  == <<top, firstNonempty, gstack>>
steal   == <<myFirst, myTop, seen, toGet>>
marking == <<lock, counts, global, marked, markState, pc, sleeping, myMarkNo,
             steal, hand, local>>
vars    == <<mconf, marking>>

Succ      == mconf.succ     \* Succ[o]: the objects that the words of o point to
MarkersM1 == mconf.helpers  \* GC_markers_m1: the number of helper threads
StackSize == mconf.stack    \* GC_mark_stack_size
LocalSize == mconf.local    \* LOCAL_MARK_STACK_SIZE
MaxMarkNo == mconf.phases   \* bound on the number of mark phases

Marker == 0..MarkersM1
Helper == 1..MarkersM1
Slot == 1..StackSize

Init ==
  /\ mconf \in MarkConfigs
  /\ lock = NoLock
  /\ helpWanted = FALSE
  /\ helperCount = 0
  /\ activeCount = 0
  /\ markNo = 0
  /\ top = 0
  /\ firstNonempty = 1
  /\ gstack = [s \in Slot |-> NoEntry]
  /\ marked = {}
  /\ markState = "NONE"
  /\ pc = [m \in Marker |-> IF m = 0 THEN "idle" ELSE "help"]
  /\ sleeping = {}
  /\ myMarkNo = [m \in Marker |-> 0]
  /\ myFirst = [m \in Marker |-> 1]
  /\ myTop = [m \in Marker |-> 0]
  /\ seen = [m \in Marker |-> 1]
  /\ toGet = [m \in Marker |-> 0]
  /\ hand = [m \in Marker |-> {}]
  /\ local = [m \in Marker |-> {}]

Goto(m, label) == pc' = [pc EXCEPT ![m] = label]
\* the marker may run under the lock: it holds it, or takes it now
MayLock(m) == lock \in {NoLock, m} /\ m \notin sleeping

-----------------------------------------------------------------------------
(***************************************************************************)
(* What GC_mark_some does before and after the parallel phase.             *)
(***************************************************************************)

\* Objects whose pointers may not have been followed yet.
Unfinished == {o \in marked : ~(Succ[o] \subseteq marked)}

\* The stack holds exactly the objects of W, in some order.
Loaded(W) ==
  /\ Cardinality(W) <= StackSize
  /\ top' = Cardinality(W)
  /\ \E g \in [1..Cardinality(W) -> W] :
       /\ \A o \in W : \E s \in 1..Cardinality(W) : g[s] = o
       /\ gstack' = [s \in Slot |-> IF s <= Cardinality(W) THEN g[s] ELSE NoEntry]

\* The roots of a new collection are pushed, or, after an overflow, the
\* marked objects with pointers to follow and the roots (cf. Collector.tla).
PushRoots ==
  /\ pc[0] = "idle"
  /\ markNo < MaxMarkNo
  /\ \/ markState = "NONE" /\ marked' = Root /\ Loaded(Root)
     \/ /\ markState = "INVALID"
        /\ marked' = marked \cup Root
        /\ Loaded(Unfinished \cup (Root \ marked))
  /\ markState' = "ROOTS_PUSHED"
  /\ UNCHANGED <<lock, counts, firstNonempty, pc, sleeping, myMarkNo, steal,
                 hand, local>>

\* GC_do_parallel_mark, up to the release of the lock in GC_mark_local.
GC_do_parallel_mark ==
  /\ pc[0] = "idle"
  /\ markState = "ROOTS_PUSHED"
  /\ lock = NoLock
  /\ helpWanted' = TRUE
  /\ helperCount' = 1
  /\ activeCount' = 1
  /\ firstNonempty' = 1
  /\ myFirst' = [myFirst EXCEPT ![0] = 1]
  /\ sleeping' = {}
  /\ Goto(0, "loop")
  /\ UNCHANGED <<lock, markNo, top, gstack, marked, markState, myMarkNo, myTop,
                 seen, toGet, hand, local>>

HelpersRunning == helperCount > 0

\* ... after GC_mark_local: no more helpers, and wait for those that run
StopHelp ==
  /\ pc[0] = "cleanup"
  /\ MayLock(0)
  /\ helpWanted' = FALSE
  /\ IF HelpersRunning
     THEN /\ lock' = NoLock
          /\ sleeping' = sleeping \cup {0}
          /\ UNCHANGED <<markNo, pc, top, markState>>
     ELSE /\ lock' = NoLock
          /\ sleeping' = {}
          /\ markNo' = markNo + 1
          /\ top' = 0                       \* back in GC_mark_some
          /\ markState' = IF markState = "ROOTS_PUSHED" THEN "NONE" ELSE markState
          /\ Goto(0, "idle")
  /\ UNCHANGED <<helperCount, activeCount, firstNonempty, gstack, marked,
                 myMarkNo, steal, hand, local>>

\* GC_help_marker, called again and again by GC_mark_thread
NextMarkNo(m) ==
  LET n == myMarkNo[m] + 1
  IN IF n < markNo \/ n > markNo + 2 THEN markNo ELSE n
GC_help_marker(m) ==
  /\ pc[m] = "help"
  /\ MayLock(m)
  /\ IF \/ markNo < myMarkNo[m]
        \/ ~helpWanted /\ markNo = myMarkNo[m]
     THEN /\ lock' = NoLock
          /\ sleeping' = sleeping \cup {m}
          /\ UNCHANGED <<counts, pc, myMarkNo, myFirst>>
     ELSE IF markNo # myMarkNo[m] \/ helperCount > MarkersM1
     THEN /\ lock' = m
          /\ myMarkNo' = [myMarkNo EXCEPT ![m] = NextMarkNo(m)]
          /\ UNCHANGED <<counts, pc, sleeping, myFirst>>
     ELSE /\ lock' = NoLock
          /\ helperCount' = helperCount + 1
          /\ activeCount' = activeCount + 1
          /\ myFirst' = [myFirst EXCEPT ![m] = firstNonempty]
          /\ Goto(m, "loop")
          /\ UNCHANGED <<helpWanted, markNo, sleeping, myMarkNo>>
  /\ UNCHANGED <<global, marked, markState, myTop, seen, toGet, hand, local>>

-----------------------------------------------------------------------------
(***************************************************************************)
(* GC_mark_local.                                                          *)
(***************************************************************************)

\* The head of its loop: look at GC_first_nonempty ...
ReadFirst(m) ==
  /\ pc[m] = "loop"
  /\ seen' = [seen EXCEPT ![m] = firstNonempty]
  /\ IF myFirst[m] < firstNonempty
     THEN myFirst' = [myFirst EXCEPT ![m] = firstNonempty] /\ Goto(m, "top")
     ELSE /\ UNCHANGED myFirst
          /\ Goto(m, IF firstNonempty < myFirst[m] THEN "cas" ELSE "top")
  /\ UNCHANGED <<lock, counts, global, marked, markState, sleeping, myMarkNo,
                 myTop, toGet, hand, local>>

\* ... and try to advance it.
AdvanceBlindly(m) == myFirst[m]   \* mutant: a plain store instead of the CAS
AdvancedFirst(m) == IF firstNonempty = seen[m] THEN myFirst[m] ELSE firstNonempty
CasFirst(m) ==
  /\ pc[m] = "cas"
  /\ firstNonempty' = AdvancedFirst(m)
  /\ Goto(m, "top")
  /\ UNCHANGED <<lock, counts, top, gstack, marked, markState, sleeping,
                 myMarkNo, steal, hand, local>>

\* How many entries GC_steal_mark_stack takes of n: n_to_get, and one more
\* (its loop runs while i <= max).
ToGet(n) == 1 + IF n < 2 * EntriesToGet THEN 1 ELSE EntriesToGet

\* Is there something above my_first_nonempty?
ReadTop(m) ==
  /\ pc[m] = "top"
  /\ myTop' = [myTop EXCEPT ![m] = top]
  /\ toGet' = [toGet EXCEPT ![m] = ToGet(top - myFirst[m] + 1)]
  /\ Goto(m, IF top < myFirst[m] THEN "empty" ELSE "steal")
  /\ UNCHANGED <<lock, counts, global, marked, markState, sleeping, myMarkNo,
                 myFirst, seen, hand, local>>

\* GC_notify_all_marker, if this was the last active marker
NoWakeup == sleeping          \* mutant: the others are not notified
WokenWhenIdle == IF activeCount = 1 THEN {} ELSE sleeping

\* If not, ask again with the lock held, and become inactive.
StackEmpty(m) ==
  /\ pc[m] = "empty"
  /\ lock = NoLock
  /\ myTop' = [myTop EXCEPT ![m] = top]
  /\ toGet' = [toGet EXCEPT ![m] = ToGet(top - myFirst[m] + 1)]
  /\ IF top - myFirst[m] + 1 = 0
     THEN /\ lock' = m
          /\ activeCount' = activeCount - 1
          /\ sleeping' = WokenWhenIdle
          /\ Goto(m, "inactive")
     ELSE Goto(m, "steal") /\ UNCHANGED <<lock, activeCount, sleeping>>
  /\ UNCHANGED <<helpWanted, helperCount, markNo, global, marked, markState,
                 myMarkNo, myFirst, seen, hand, local>>

\* while (GC_active_count > 0 && GC_first_nonempty > GC_mark_stack_top)
WaitForWork(m) ==
  /\ pc[m] = "inactive"
  /\ MayLock(m)
  /\ IF activeCount > 0 /\ firstNonempty > top
     THEN lock' = NoLock /\ sleeping' = sleeping \cup {m} /\ UNCHANGED pc
     ELSE lock' = m /\ Goto(m, "over") /\ UNCHANGED sleeping
  /\ UNCHANGED <<counts, global, marked, markState, myMarkNo, steal, hand, local>>

\* Everybody is inactive and nothing is left: return, with the lock held.
\* Otherwise become active again.
NothingLeft == activeCount = 0 /\ firstNonempty > top
FinishOrResume(m) ==
  /\ pc[m] = "over"
  /\ lock = m
  /\ IF NothingLeft
     THEN /\ helperCount' = helperCount - 1
          /\ sleeping' = IF helperCount = 1 THEN {} ELSE sleeping
          /\ IF m = 0
             THEN Goto(m, "cleanup") /\ UNCHANGED myMarkNo
             ELSE Goto(m, "help") /\ myMarkNo' = [myMarkNo EXCEPT ![m] = NextMarkNo(m)]
          /\ UNCHANGED <<lock, activeCount>>
     ELSE /\ activeCount' = activeCount + 1
          /\ lock' = NoLock
          /\ Goto(m, "loop")
          /\ UNCHANGED <<helperCount, sleeping, myMarkNo>>
  /\ UNCHANGED <<helpWanted, markNo, global, marked, markState, steal, hand, local>>

\* GC_steal_mark_stack: read the descriptor of the next entry ...
StealLoad(m) ==
  /\ pc[m] = "steal"
  /\ myFirst[m] <= myTop[m]
  /\ toGet[m] > 0
  /\ IF gstack[myFirst[m]] = NoEntry
     THEN /\ myFirst' = [myFirst EXCEPT ![m] = @ + 1]
          /\ UNCHANGED <<pc, hand>>
     ELSE /\ hand' = [hand EXCEPT ![m] = {gstack[myFirst[m]]}]
          /\ Goto(m, "take")
          /\ UNCHANGED myFirst
  /\ UNCHANGED <<lock, counts, global, marked, markState, sleeping, myMarkNo,
                 myTop, seen, toGet, local>>

\* ... and clear it: another marker may have read it in between.
StealStore(m) ==
  /\ pc[m] = "take"
  /\ gstack' = [gstack EXCEPT ![myFirst[m]] = NoEntry]
  /\ local' = [local EXCEPT ![m] = @ \cup hand[m]]
  /\ hand' = [hand EXCEPT ![m] = {}]
  /\ myFirst' = [myFirst EXCEPT ![m] = @ + 1]
  /\ toGet' = [toGet EXCEPT ![m] = @ - 1]
  /\ Goto(m, "steal")
  /\ UNCHANGED <<lock, counts, top, firstNonempty, marked, markState, sleeping,
                 myMarkNo, myTop, seen>>

\* mutant: *next is one too far
StealEndSkips(m) ==
  /\ pc[m] = "steal"
  /\ myFirst[m] > myTop[m] \/ toGet[m] = 0
  /\ Goto(m, "local")
  /\ myFirst' = [myFirst EXCEPT ![m] = @ + 1]
  /\ UNCHANGED <<lock, counts, global, marked, markState, sleeping, myMarkNo,
                 myTop, seen, toGet, hand, local>>

\* The stolen entries are all there is, or enough.
StealEnd(m) ==
  /\ pc[m] = "steal"
  /\ myFirst[m] > myTop[m] \/ toGet[m] = 0
  /\ Goto(m, "local")
  /\ UNCHANGED <<lock, counts, global, marked, markState, sleeping, myMarkNo,
                 steal, hand, local>>

-----------------------------------------------------------------------------
(***************************************************************************)
(* GC_do_local_mark.                                                       *)
(***************************************************************************)

\* GC_mark_from on the local stack: test the mark bits of what an entry
\* points to ...
TestMarks(m) ==
  /\ pc[m] \in {"local", "credit"}
  /\ \E o \in local[m] :
       /\ local' = [local EXCEPT ![m] = @ \ {o}]
       /\ hand' = [hand EXCEPT ![m] = Succ[o] \ marked]
  /\ Goto(m, "push")
  /\ UNCHANGED <<lock, counts, global, marked, markState, sleeping, myMarkNo, steal>>

\* ... and set them and push the objects.  Two markers may both do so.  If
\* the local stack overflows, entries are discarded.
Overflown(kept, all) == kept \subseteq all /\ Cardinality(kept) < LocalSize
SetMarks(m) ==
  LET all == local[m] \cup hand[m]
  IN /\ pc[m] = "push"
     /\ marked' = marked \cup hand[m]
     /\ IF Cardinality(all) <= LocalSize
        THEN local' = [local EXCEPT ![m] = all] /\ UNCHANGED markState
        ELSE /\ \E kept \in SUBSET all :
                  /\ Overflown(kept, all)
                  /\ local' = [local EXCEPT ![m] = kept]
             /\ markState' = "INVALID"
     /\ hand' = [hand EXCEPT ![m] = {}]
     /\ Goto(m, "credit")
     /\ UNCHANGED <<lock, counts, global, sleeping, myMarkNo, steal>>

StillValid == markState       \* mutant: the entries are dropped silently
StateAfterDrop == "INVALID"
NoRoom(n) == top + n > StackSize

\* GC_return_mark_stack: R is copied to the global stack, or dropped.
GC_return_mark_stack(m, R) ==
  /\ lock = NoLock
  /\ IF NoRoom(Cardinality(R))
     THEN markState' = StateAfterDrop /\ UNCHANGED <<top, gstack>>
     ELSE /\ top' = top + Cardinality(R)
          /\ \E g \in [1..Cardinality(R) -> R] :
               /\ \A o \in R : \E s \in 1..Cardinality(R) : g[s] = o
               /\ gstack' = [s \in Slot |-> IF s > top /\ s <= top + Cardinality(R)
                                            THEN g[s - top] ELSE gstack[s]]
          /\ UNCHANGED markState
  /\ sleeping' = {}
  /\ local' = [local EXCEPT ![m] = @ \ R]
  /\ UNCHANGED <<lock, counts, firstNonempty, marked, myMarkNo, steal, hand>>

\* GC_mark_from has used up its credit, and half of the stack is in use.
HalfFull(m) == Cardinality(local[m]) - 1 >= LocalSize \div 2
ReturnAll(m) ==
  /\ pc[m] = "credit"
  /\ local[m] # {}
  /\ HalfFull(m)
  /\ GC_return_mark_stack(m, local[m])
  /\ Goto(m, "loop")

\* The global stack is empty, and has_inactive_helpers() ...
OfferWork(m) ==
  /\ pc[m] = "credit"
  /\ ~HalfFull(m)
  /\ Cardinality(local[m]) > 2
  /\ top < firstNonempty
  /\ lock = NoLock
  /\ activeCount < helperCount
  /\ Goto(m, "share")
  /\ UNCHANGED <<lock, counts, global, marked, markState, sleeping, myMarkNo,
                 steal, hand, local>>

\* ... so the lower half goes back to it.
ShareWork(m) ==
  /\ pc[m] = "share"
  /\ \E R \in SUBSET local[m] :
       /\ Cardinality(R) = (Cardinality(local[m]) - 1) \div 2
       /\ GC_return_mark_stack(m, R)
  /\ Goto(m, "local")

\* The local stack is empty.
LocalDone(m) ==
  /\ pc[m] \in {"local", "credit"}
  /\ local[m] = {}
  /\ Goto(m, "loop")
  /\ UNCHANGED <<lock, counts, global, marked, markState, sleeping, myMarkNo,
                 steal, hand, local>>

-----------------------------------------------------------------------------
MarkLocal(m) ==
  \/ ReadFirst(m) \/ CasFirst(m) \/ ReadTop(m) \/ StackEmpty(m)
  \/ WaitForWork(m) \/ FinishOrResume(m)
  \/ StealLoad(m) \/ StealStore(m) \/ StealEnd(m)
  \/ TestMarks(m) \/ SetMarks(m) \/ ReturnAll(m) \/ OfferWork(m) \/ ShareWork(m)
  \/ LocalDone(m)

Next ==
  /\ \/ PushRoots \/ GC_do_parallel_mark \/ StopHelp
     \/ \E m \in Helper : GC_help_marker(m)
     \/ \E m \in Marker : MarkLocal(m)
  /\ UNCHANGED mconf

Spec == Init /\ [][Next]_vars

\* The threads are scheduled; the mutex and the condition variable let every
\* waiter that is not asleep get the lock in the end.
FairSpec ==
  /\ Spec
  /\ WF_marking(GC_do_parallel_mark) /\ WF_marking(StopHelp)
  /\ \A m \in 1..MaxHelpers : WF_marking(m \in Helper /\ GC_help_marker(m))
  /\ \A m \in 0..MaxHelpers : WF_marking(m \in Marker /\ MarkLocal(m))

-----------------------------------------------------------------------------
(***************************************************************************)
(* Properties.                                                             *)
(***************************************************************************)
Working == {"loop", "cas", "top", "empty", "steal", "take", "local", "push",
            "credit", "share"}
Joined == Working \cup {"inactive", "over"}

\* Every variable has its type.
TypeOK ==
  /\ mconf \in MarkConfigs
  /\ lock \in Marker \cup {NoLock}
  /\ helpWanted \in BOOLEAN
  /\ helperCount \in 0..(MarkersM1 + 1) /\ activeCount \in 0..(MarkersM1 + 1)
  /\ markNo \in Nat
  /\ top \in 0..StackSize
  /\ firstNonempty \in 1..(StackSize + 1)
  /\ gstack \in [Slot -> Obj \cup {NoEntry}]
  /\ marked \subseteq Obj
  /\ markState \in {"NONE", "ROOTS_PUSHED", "INVALID"}
  /\ pc \in [Marker -> Joined \cup {"idle", "cleanup", "help"}]
  /\ sleeping \subseteq Marker
  /\ myMarkNo \in [Marker -> Nat]
  /\ myFirst \in [Marker -> 1..(StackSize + 1)]
  /\ myTop \in [Marker -> 0..StackSize]
  /\ seen \in [Marker -> 1..(StackSize + 1)]
  /\ toGet \in [Marker -> Nat]
  /\ hand \in [Marker -> SUBSET Obj]
  /\ local \in [Marker -> SUBSET Obj]

\* The objects reachable from the roots.
Reachable == {o \in Obj : \A S \in SUBSET Obj :
                 Root \subseteq S /\ (\A x \in S : Succ[x] \subseteq S) => o \in S}

\* When GC_mark_some reports that the mark phase is over, exactly what is
\* reachable is marked, however the entries were stolen, duplicated, returned
\* and shared.
NoWorkLost == markNo > 0 /\ markState = "NONE" => marked = Reachable

\* The assertions of GC_mark_local (my_first_nonempty lies at most one entry
\* past the top, no more active than running helpers), the ABORT at the start
\* of GC_do_parallel_mark, and the assertion of GC_mark_some after it.
MarkerAsserts ==
  /\ \A m \in Marker : pc[m] \in Working => myFirst[m] <= top + 1
  /\ activeCount <= helperCount
  /\ pc[0] = "idle" => ~helpWanted /\ activeCount = 0 /\ helperCount = 0
  /\ pc[0] = "cleanup" /\ helperCount = 0 => top < firstNonempty

\* GC_first_nonempty "can only be incremented" while the markers run.
FirstOnlyAdvances ==
  [][helpWanted /\ helpWanted' => firstNonempty' >= firstNonempty]_vars

\* No marker sleeps through the end of a mark phase: GC_do_parallel_mark
\* returns, and every helper that joined it gets back to GC_mark_thread.
PhaseEnds == /\ pc[0] = "loop" ~> pc[0] = "idle"
             /\ \A m \in 1..MaxHelpers :
                  m \in Helper /\ pc[m] = "loop" ~> (m \in Helper => pc[m] = "help")

(***************************************************************************)
(* The inductive invariant behind NoWorkLost and MarkerAsserts.            *)
(***************************************************************************)

\* GC_helper_count and GC_active_count count what they are meant to, although
\* markers join and leave in any order.
CountsExact ==
  /\ helperCount = Cardinality({m \in Marker : pc[m] \in Joined})
  /\ activeCount = Cardinality({m \in Marker : pc[m] \in Working})

\* Helpers mark only while marker 0 is in GC_do_parallel_mark; when it is about
\* to leave, none can join any more.
PhaseConsistent ==
  /\ pc[0] = "idle" => ~helpWanted /\ \A m \in Marker : pc[m] \notin Joined
  /\ pc[0] = "cleanup" /\ helpWanted => lock = 0
  /\ pc[0] # "idle" => markState # "NONE"
  /\ pc[0] # "help" /\ \A m \in Helper : pc[m] \notin {"idle", "cleanup"}

\* Slots below n of the global stack have been emptied.
Emptied(n) == n <= top + 1 /\ \A s \in Slot : s < n => gstack[s] = NoEntry

\* What a marker remembers is still true of the stack: slots it has passed, as
\* those below GC_first_nonempty, stay empty; an entry it has read is there
\* unless another marker has taken it too; and it leaves no entry behind.
Placed(m) ==
  /\ pc[m] \in Joined => Emptied(myFirst[m])
  /\ pc[m] = "cas" => seen[m] < myFirst[m]
  /\ pc[m] \in {"steal", "take"} => myTop[m] <= top
  /\ pc[m] = "take" => /\ myFirst[m] <= myTop[m] /\ toGet[m] > 0
                       /\ \E o \in Obj : /\ hand[m] = {o}
                                         /\ gstack[myFirst[m]] \in {o, NoEntry}
  /\ pc[m] \notin {"steal", "take", "local", "push", "credit", "share"} => local[m] = {}
  /\ pc[m] = "share" => local[m] # {}
  /\ pc[m] \notin {"take", "push"} => hand[m] = {}
MarkersPlaced ==
  /\ pc[0] # "idle" => Emptied(firstNonempty)
  /\ \A m \in Marker : Placed(m)

\* When marker 0 has found nothing left to do, nothing turns up again, though
\* helpers that join late may still look for it.
Quiet ==
  /\ \A s \in Slot : s <= top => gstack[s] = NoEntry
  /\ \A m \in Marker : local[m] = {} /\ hand[m] = {}
QuietAtCleanup == pc[0] = "cleanup" => Quiet /\ firstNonempty > top

\* An object is still to be scanned: it is on the global stack or on a local
\* one, or between them.
Pending(o) ==
  \/ \E s \in Slot : s <= top /\ gstack[s] = o
  \/ \E m \in Marker : o \in local[m] \/ (pc[m] = "take" /\ o \in hand[m])

\* Unless entries were dropped, what a marked object points to is marked, about
\* to be marked, or the object is still to be scanned; and only what is
\* reachable is marked.
WorkCovered ==
  /\ marked \subseteq Reachable
  /\ markState = "ROOTS_PUSHED" =>
       /\ Root \subseteq marked
       /\ \A o \in marked : \A x \in Succ[o] :
            \/ x \in marked \/ Pending(o)
            \/ \E m \in Marker : pc[m] = "push" /\ x \in hand[m]
  /\ \A o \in Obj : Pending(o) => o \in marked
  /\ \A m \in Marker : pc[m] = "push" => hand[m] \subseteq Reachable

\* The counters, indices and entries that the markers share stay in their ranges
\* and agree, as the assertions of mark.c say, and no work is lost.
MarkersConsistent ==
  /\ TypeOK /\ MarkerAsserts /\ NoWorkLost
  /\ CountsExact /\ PhaseConsistent /\ MarkersPlaced /\ QuietAtCleanup /\ WorkCovered
=============================================================================
