-------------------------- MODULE StopWorldProofs --------------------------
(***************************************************************************)
(* Machine-checked proofs about StopWorld, for any number of threads and   *)
(* of stops: when every signal arrives (GC_retry_signals is off), a stop   *)
(* that returns has stopped everybody, its acknowledgements are used up,   *)
(* and the protocol implements AtomicStop.  And about HeapGrowth: the      *)
(* blocks always add up to the heap, and with GC_max_retries set no NULL   *)
(* is returned while there is garbage.                                     *)
(***************************************************************************)
EXTENDS StopWorld, HeapGrowth, FiniteSetTheorems, TLAPS

\* The invariant, without its hypothesis.
Inv == StopTypeOK /\ AcksCounted /\ StopperPlaced /\ \A t \in Thread : ThreadPlaced(t)

(***************************************************************************)
(* Parity of the stop count, and counting.                                 *)
(***************************************************************************)

\* GC_stop_count is odd and even in turn.
LEMMA Parity ==
  ASSUME NEW n \in Nat
  PROVE  Restarted(n + 1) <=> ~Restarted(n)
BY DEF Restarted

\* A thread that has seen only earlier stops does not take a signal for a
\* duplicate.
LEMMA NotDuplicate ==
  ASSUME NEW t, lastStop[t] \in Nat, stopCount \in Nat, lastStop[t] < stopCount
  PROVE  ~Duplicate(t)
<1>1. \A n, c \in Nat : n < c => n - (n % 2) # c
  OBVIOUS
<1> QED BY <1>1 DEF Duplicate

\* The number of threads that have yet to acknowledge.
LEMMA PostingFinite ==
  /\ IsFiniteSet(Posting) /\ Cardinality(Posting) \in Nat
  /\ Cardinality(Posting) = 0 <=> Posting = {}
<1>1. Posting \subseteq Thread
  BY DEF Posting
<1>2. IsFiniteSet(Posting)
  BY <1>1, ThreadsFinite, FS_Subset
<1> QED BY <1>2, FS_CardinalityType, FS_EmptySet

\* One thread more, or less.
LEMMA PostingStep ==
  ASSUME NEW t \in Thread
  PROVE  /\ t \notin Posting /\ Posting' = Posting \cup {t} =>
              Cardinality(Posting') = Cardinality(Posting) + 1
         /\ t \in Posting /\ Posting' = Posting \ {t} =>
              Cardinality(Posting') = Cardinality(Posting) - 1
<1>1. IsFiniteSet(Posting)
  BY PostingFinite
<1>2. Cardinality(Posting \cup {t}) =
        IF t \in Posting THEN Cardinality(Posting) ELSE Cardinality(Posting) + 1
  BY <1>1, FS_AddElement
<1>3. Cardinality(Posting \ {t}) =
        IF t \in Posting THEN Cardinality(Posting) - 1 ELSE Cardinality(Posting)
  BY <1>1, FS_RemoveElement
<1> QED BY <1>2, <1>3

\* A thread does not notice the steps of other threads.
LEMMA ThreadKept ==
  ASSUME NEW k \in Thread, ThreadPlaced(k), UNCHANGED <<stopCount, spc, todo>>,
         tpc'[k] = tpc[k], back'[k] = back[k], myStop'[k] = myStop[k], lastStop'[k] = lastStop[k],
         "suspend" \in pending'[k] <=> "suspend" \in pending[k]
  PROVE  ThreadPlaced(k)' /\ (k \in Posting' <=> k \in Posting)
<1>1. k \in Posting' <=> k \in Posting
  BY DEF Posting
<1>2. /\ InHandler(k)' <=> InHandler(k)
      /\ Blocking(k)' <=> Blocking(k)
      /\ Fresh(k)' <=> Fresh(k)
      /\ Stopping' <=> Stopping
      /\ Restarted(stopCount)' <=> Restarted(stopCount)
  BY DEF InHandler, Blocking, Fresh, Stopping
<1> QED BY <1>1, <1>2 DEF ThreadPlaced

\* What the invariant says of the types.
LEMMA StopTyped ==
  ASSUME Inv
  PROVE  /\ stopCount \in Nat /\ sem \in Nat /\ sent \in Nat /\ nLive \in Nat /\ todo \subseteq Thread
         /\ pending \in [Thread -> SUBSET {"suspend", "restart"}] /\ lastStop \in [Thread -> Nat]
         /\ tpc \in [Thread -> {"run", "dirty", "blocking"} \cup HandlerLabels]
         /\ back \in [Thread -> {"run", "dirty", "blocking"}] /\ myStop \in [Thread -> Nat]
BY DEF Inv, StopTypeOK

(***************************************************************************)
(* The threads' steps.                                                     *)
(***************************************************************************)

\* A step of a thread that moves nobody in or out of Posting: what has to be
\* shown of it.
LEMMA QuietStep ==
  ASSUME Inv, NEW t \in Thread, StopTypeOK',
         UNCHANGED <<stopCount, sem, spc, todo, sent, nLive>>,
         \A k \in Thread : k # t => /\ tpc'[k] = tpc[k] /\ back'[k] = back[k] /\ myStop'[k] = myStop[k]
                                    /\ lastStop'[k] = lastStop[k] /\ pending'[k] = pending[k],
         t \in Posting' <=> t \in Posting,
         tpc'[t] \in {"enter", "post"} => "suspend" \notin pending'[t],
         dirtyLock' = Stopper <=> dirtyLock = Stopper,
         \A k \in Thread : tpc'[k] = "dirty" <=> dirtyLock' = k,
         ThreadPlaced(t)'
  PROVE  Inv'
<1>1. ASSUME NEW k \in Thread, k # t PROVE ThreadPlaced(k)' /\ (k \in Posting' <=> k \in Posting)
  BY <1>1, ThreadKept DEF Inv
<1>2. Posting' = Posting
  BY <1>1 DEF Posting
<1>3. Stopping' <=> Stopping
  BY DEF Stopping
<1>4. AcksCounted'
  BY <1>2, <1>3 DEF Inv, AcksCounted
<1>5. StopperPlaced'
  BY <1>3 DEF Inv, StopperPlaced
<1> QED BY <1>1, <1>4, <1>5 DEF Inv

\* A thread takes the dirty lock: the world is not stopped.
LEMMA DirtyBeginStep ==
  ASSUME Inv, sconf' = sconf, ~RetrySignals, NEW t \in Thread, DirtyBegin(t)
  PROVE  Inv'
<1>t. /\ stopCount \in Nat /\ pending \in [Thread -> SUBSET {"suspend", "restart"}]
      /\ tpc \in [Thread -> {"run", "dirty", "blocking"} \cup HandlerLabels]
      /\ back \in [Thread -> {"run", "dirty", "blocking"}]
      /\ myStop \in [Thread -> Nat] /\ lastStop \in [Thread -> Nat]
      /\ ThreadPlaced(t) /\ StopTypeOK /\ AcksCounted /\ StopperPlaced
  BY StopTyped DEF Inv
<1>u. /\ UNCHANGED <<stopCount, sem, lost, spc, todo, sent, nLive, prevSent, retry, pending, back, myStop, lastStop>>
      /\ tpc[t] = "run" /\ dirtyLock = Nobody /\ dirtyLock' = t /\ tpc' = [tpc EXCEPT ![t] = "dirty"]
  BY DEF DirtyBegin, stopper, resend, Goto
<1>9. \A k \in Thread : k # t => /\ tpc'[k] = tpc[k] /\ back'[k] = back[k] /\ myStop'[k] = myStop[k]
                                 /\ lastStop'[k] = lastStop[k] /\ pending'[k] = pending[k]
  BY <1>t, <1>u
<1>1. StopTypeOK'
  BY <1>t, <1>u DEF StopTypeOK, MaxLost
<1>2. t \in Posting' <=> t \in Posting
  BY <1>t, <1>u DEF Posting
<1>3. \A k \in Thread : tpc'[k] = "dirty" <=> dirtyLock' = k
  BY <1>t, <1>u, OwnersDiffer DEF StopperPlaced
<1>4. ThreadPlaced(t)'
  <2>1. ~InHandler(t)' /\ ~Blocking(t)' /\ ~InHandler(t) /\ ~Blocking(t)
    BY <1>t, <1>u DEF InHandler, Blocking
  <2> QED BY <1>t, <1>u, <1>2, <2>1 DEF ThreadPlaced, Fresh, Stopping, HandlerLabels
<1> QED BY <1>t, <1>u, <1>1, <1>2, <1>3, <1>4, <1>9, QuietStep, OwnersDiffer

\* A thread releases the dirty lock.
LEMMA DirtyEndStep ==
  ASSUME Inv, sconf' = sconf, ~RetrySignals, NEW t \in Thread, DirtyEnd(t)
  PROVE  Inv'
<1>t. /\ stopCount \in Nat /\ pending \in [Thread -> SUBSET {"suspend", "restart"}]
      /\ tpc \in [Thread -> {"run", "dirty", "blocking"} \cup HandlerLabels]
      /\ back \in [Thread -> {"run", "dirty", "blocking"}]
      /\ myStop \in [Thread -> Nat] /\ lastStop \in [Thread -> Nat]
      /\ ThreadPlaced(t) /\ StopTypeOK /\ AcksCounted /\ StopperPlaced
  BY StopTyped DEF Inv
<1>u. /\ UNCHANGED <<stopCount, sem, lost, spc, todo, sent, nLive, prevSent, retry, pending, back, myStop, lastStop>>
      /\ tpc[t] = "dirty" /\ dirtyLock' = Nobody /\ tpc' = [tpc EXCEPT ![t] = "run"]
  BY DEF DirtyEnd, stopper, resend, Goto
<1>9. \A k \in Thread : k # t => /\ tpc'[k] = tpc[k] /\ back'[k] = back[k] /\ myStop'[k] = myStop[k]
                                 /\ lastStop'[k] = lastStop[k] /\ pending'[k] = pending[k]
  BY <1>t, <1>u
<1>1. StopTypeOK'
  BY <1>t, <1>u DEF StopTypeOK, MaxLost
<1>2. t \in Posting' <=> t \in Posting
  BY <1>t, <1>u DEF Posting
<1>3. dirtyLock = t /\ \A k \in Thread : tpc'[k] = "dirty" <=> dirtyLock' = k
  BY <1>t, <1>u, OwnersDiffer DEF StopperPlaced
<1>4. ThreadPlaced(t)'
  <2>1. ~InHandler(t)' /\ ~Blocking(t)' /\ ~InHandler(t) /\ ~Blocking(t)
    BY <1>t, <1>u DEF InHandler, Blocking
  <2> QED BY <1>t, <1>u, <1>2, <2>1 DEF ThreadPlaced, Fresh, Stopping, HandlerLabels
<1> QED BY <1>t, <1>u, <1>1, <1>2, <1>3, <1>4, <1>9, QuietStep, OwnersDiffer

\* A blocking call begins: no stop is under way.
LEMMA BlockingBeginsStep ==
  ASSUME Inv, sconf' = sconf, ~RetrySignals, NEW t \in Thread, BlockingBegins(t)
  PROVE  Inv'
<1>t. /\ stopCount \in Nat /\ pending \in [Thread -> SUBSET {"suspend", "restart"}]
      /\ tpc \in [Thread -> {"run", "dirty", "blocking"} \cup HandlerLabels]
      /\ back \in [Thread -> {"run", "dirty", "blocking"}]
      /\ myStop \in [Thread -> Nat] /\ lastStop \in [Thread -> Nat]
      /\ ThreadPlaced(t) /\ StopTypeOK /\ AcksCounted /\ StopperPlaced
  BY StopTyped DEF Inv
<1>u. /\ UNCHANGED <<stopCount, sem, lost, spc, todo, sent, nLive, prevSent, retry, dirtyLock, pending, back, myStop, lastStop>>
      /\ tpc[t] = "run" /\ spc = "idle" /\ tpc' = [tpc EXCEPT ![t] = "blocking"]
  BY DEF BlockingBegins, shared, stopper, resend, Goto
<1>9. \A k \in Thread : k # t => /\ tpc'[k] = tpc[k] /\ back'[k] = back[k] /\ myStop'[k] = myStop[k]
                                 /\ lastStop'[k] = lastStop[k] /\ pending'[k] = pending[k]
  BY <1>t, <1>u
<1>1. StopTypeOK'
  BY <1>t, <1>u DEF StopTypeOK, MaxLost
<1>2. t \in Posting' <=> t \in Posting
  BY <1>t, <1>u DEF Posting
<1>3. \A k \in Thread : tpc'[k] = "dirty" <=> dirtyLock' = k
  BY <1>t, <1>u DEF StopperPlaced
<1>4. ThreadPlaced(t)'
  <2>1. ~InHandler(t)' /\ Restarted(stopCount) /\ t \notin Posting
    BY <1>t, <1>u DEF InHandler, StopperPlaced, ThreadPlaced
  <2> QED BY <1>t, <1>u, <1>2, <2>1 DEF ThreadPlaced, Fresh, Stopping, HandlerLabels
<1> QED BY <1>t, <1>u, <1>1, <1>2, <1>3, <1>4, <1>9, QuietStep

\* A blocking call ends.
LEMMA BlockingEndsStep ==
  ASSUME Inv, sconf' = sconf, ~RetrySignals, NEW t \in Thread, BlockingEnds(t)
  PROVE  Inv'
<1>t. /\ stopCount \in Nat /\ pending \in [Thread -> SUBSET {"suspend", "restart"}]
      /\ tpc \in [Thread -> {"run", "dirty", "blocking"} \cup HandlerLabels]
      /\ back \in [Thread -> {"run", "dirty", "blocking"}]
      /\ myStop \in [Thread -> Nat] /\ lastStop \in [Thread -> Nat]
      /\ ThreadPlaced(t) /\ StopTypeOK /\ AcksCounted /\ StopperPlaced
  BY StopTyped DEF Inv
<1>u. /\ UNCHANGED <<stopCount, sem, lost, spc, todo, sent, nLive, prevSent, retry, dirtyLock, pending, back, myStop, lastStop>>
      /\ tpc[t] = "blocking" /\ spc = "idle" /\ tpc' = [tpc EXCEPT ![t] = "run"]
  BY DEF BlockingEnds, shared, stopper, resend, Goto
<1>9. \A k \in Thread : k # t => /\ tpc'[k] = tpc[k] /\ back'[k] = back[k] /\ myStop'[k] = myStop[k]
                                 /\ lastStop'[k] = lastStop[k] /\ pending'[k] = pending[k]
  BY <1>t, <1>u
<1>1. StopTypeOK'
  BY <1>t, <1>u DEF StopTypeOK, MaxLost
<1>2. t \in Posting' <=> t \in Posting
  BY <1>t, <1>u DEF Posting
<1>3. \A k \in Thread : tpc'[k] = "dirty" <=> dirtyLock' = k
  BY <1>t, <1>u DEF StopperPlaced
<1>4. ThreadPlaced(t)'
  <2>1. ~InHandler(t)' /\ Restarted(stopCount) /\ t \notin Posting
    BY <1>t, <1>u DEF InHandler, StopperPlaced, ThreadPlaced
  <2> QED BY <1>t, <1>u, <1>2, <2>1 DEF ThreadPlaced, Fresh, Stopping, HandlerLabels
<1> QED BY <1>t, <1>u, <1>1, <1>2, <1>3, <1>4, <1>9, QuietStep

\* A late restart signal is dropped.
LEMMA RestartHandlerStep ==
  ASSUME Inv, sconf' = sconf, ~RetrySignals, NEW t \in Thread, GC_restart_handler(t)
  PROVE  Inv'
<1>t. /\ stopCount \in Nat /\ pending \in [Thread -> SUBSET {"suspend", "restart"}]
      /\ tpc \in [Thread -> {"run", "dirty", "blocking"} \cup HandlerLabels]
      /\ back \in [Thread -> {"run", "dirty", "blocking"}]
      /\ myStop \in [Thread -> Nat] /\ lastStop \in [Thread -> Nat]
      /\ ThreadPlaced(t) /\ StopTypeOK /\ AcksCounted /\ StopperPlaced
  BY StopTyped DEF Inv
<1>u. /\ UNCHANGED <<stopCount, sem, lost, spc, todo, sent, nLive, prevSent, retry, dirtyLock, tpc, back, myStop, lastStop>>
      /\ ~InHandler(t) /\ pending' = [pending EXCEPT ![t] = @ \ {"restart"}]
  BY DEF GC_restart_handler, shared, thread, stopper, resend
<1>9. \A k \in Thread : k # t => /\ tpc'[k] = tpc[k] /\ back'[k] = back[k] /\ myStop'[k] = myStop[k]
                                 /\ lastStop'[k] = lastStop[k] /\ pending'[k] = pending[k]
  BY <1>t, <1>u
<1>1. StopTypeOK'
  BY <1>t, <1>u DEF StopTypeOK, MaxLost
<1>2. "suspend" \in pending'[t] <=> "suspend" \in pending[t]
  BY <1>t, <1>u
<1>3. ThreadPlaced(t)' /\ (t \in Posting' <=> t \in Posting)
  BY <1>t, <1>u, <1>2, ThreadKept
<1>4. tpc'[t] \in {"enter", "post"} => "suspend" \notin pending'[t]
  BY <1>t, <1>u, <1>2 DEF AcksCounted
<1>5. \A k \in Thread : tpc'[k] = "dirty" <=> dirtyLock' = k
  BY <1>t, <1>u DEF StopperPlaced
<1> QED BY <1>t, <1>u, <1>1, <1>3, <1>4, <1>5, <1>9, QuietStep

\* The suspend handler is entered.
LEMMA SigactionStep ==
  ASSUME Inv, sconf' = sconf, ~RetrySignals, NEW t \in Thread, GC_suspend_sigaction(t)
  PROVE  Inv'
<1>t. /\ stopCount \in Nat /\ pending \in [Thread -> SUBSET {"suspend", "restart"}]
      /\ tpc \in [Thread -> {"run", "dirty", "blocking"} \cup HandlerLabels]
      /\ back \in [Thread -> {"run", "dirty", "blocking"}]
      /\ myStop \in [Thread -> Nat] /\ lastStop \in [Thread -> Nat]
      /\ ThreadPlaced(t) /\ StopTypeOK /\ AcksCounted /\ StopperPlaced
  BY StopTyped DEF Inv
<1>u. /\ UNCHANGED <<stopCount, sem, lost, spc, todo, sent, nLive, prevSent, retry, dirtyLock, myStop, lastStop>>
      /\ ~InHandler(t) /\ "suspend" \in pending[t] /\ pending' = [pending EXCEPT ![t] = @ \ {"suspend"}]
      /\ tpc' = [tpc EXCEPT ![t] = "enter"] /\ back' = [back EXCEPT ![t] = tpc[t]]
  BY DEF GC_suspend_sigaction, shared, stopper, resend, Goto
<1>9. \A k \in Thread : k # t => /\ tpc'[k] = tpc[k] /\ back'[k] = back[k] /\ myStop'[k] = myStop[k]
                                 /\ lastStop'[k] = lastStop[k] /\ pending'[k] = pending[k]
  BY <1>t, <1>u
<1>1. t \in Posting /\ t \in Posting' /\ Stopping
  BY <1>t, <1>u DEF Posting, AcksCounted
<1>2. tpc[t] = "run"
  <2>1. dirtyLock = Stopper /\ ~Blocking(t)
    BY <1>t, <1>1 DEF StopperPlaced, ThreadPlaced
  <2>2. tpc[t] # "dirty"
    BY <1>t, <2>1, OwnersDiffer DEF StopperPlaced
  <2> QED BY <1>u, <2>1, <2>2 DEF Blocking, InHandler
<1>3. StopTypeOK'
  BY <1>t, <1>u, <1>2 DEF StopTypeOK, MaxLost, HandlerLabels
<1>4. tpc'[t] = "enter" /\ back'[t] = "run" /\ "suspend" \notin pending'[t]
  BY <1>t, <1>u, <1>2
<1>5. \A k \in Thread : tpc'[k] = "dirty" <=> dirtyLock' = k
  BY <1>t, <1>u, <1>2, <1>4 DEF StopperPlaced
<1>6. ThreadPlaced(t)'
  <2>1. InHandler(t)' /\ ~Blocking(t)'
    BY <1>4 DEF InHandler, Blocking
  <2>2. ThreadPlaced(t) /\ tpc[t] # "post"
    BY <1>t, <1>2
  <2> QED BY <1>u, <1>1, <1>4, <2>1, <2>2 DEF ThreadPlaced, Fresh, Stopping
<1> QED BY <1>t, <1>u, <1>1, <1>3, <1>4, <1>5, <1>6, <1>9, QuietStep

\* The handler reads the stop count: it is a new stop.
LEMMA LoadStopCountStep ==
  ASSUME Inv, sconf' = sconf, ~RetrySignals, NEW t \in Thread, LoadStopCount(t)
  PROVE  Inv'
<1>t. /\ stopCount \in Nat /\ pending \in [Thread -> SUBSET {"suspend", "restart"}]
      /\ tpc \in [Thread -> {"run", "dirty", "blocking"} \cup HandlerLabels]
      /\ back \in [Thread -> {"run", "dirty", "blocking"}]
      /\ myStop \in [Thread -> Nat] /\ lastStop \in [Thread -> Nat]
      /\ ThreadPlaced(t) /\ StopTypeOK /\ AcksCounted /\ StopperPlaced
  BY StopTyped DEF Inv
<1>u. /\ UNCHANGED <<stopCount, sem, lost, spc, todo, sent, nLive, prevSent, retry, dirtyLock, pending, back, lastStop>> /\ tpc[t] = "enter"
  BY DEF LoadStopCount, shared, stopper, resend
<1>1. t \in Posting /\ Stopping /\ ~Restarted(stopCount)
  BY <1>u, <1>t DEF Posting, AcksCounted, Stopping
<1>2. ~Duplicate(t)
  BY <1>t, <1>1, NotDuplicate DEF ThreadPlaced
<1>3. tpc' = [tpc EXCEPT ![t] = "post"] /\ myStop' = [myStop EXCEPT ![t] = stopCount]
  BY <1>1, <1>2 DEF LoadStopCount, Goto, Following
<1>9. \A k \in Thread : k # t => /\ tpc'[k] = tpc[k] /\ back'[k] = back[k] /\ myStop'[k] = myStop[k]
                                 /\ lastStop'[k] = lastStop[k] /\ pending'[k] = pending[k]
  BY <1>t, <1>u, <1>3
<1>4. StopTypeOK'
  BY <1>t, <1>u, <1>3 DEF StopTypeOK, MaxLost, HandlerLabels
<1>5. tpc'[t] = "post" /\ myStop'[t] = stopCount /\ "suspend" \notin pending'[t]
  BY <1>t, <1>u, <1>3 DEF AcksCounted
<1>6. t \in Posting'
  BY <1>5 DEF Posting
<1>7. \A k \in Thread : tpc'[k] = "dirty" <=> dirtyLock' = k
  BY <1>t, <1>u, <1>3 DEF StopperPlaced
<1>8. ThreadPlaced(t)'
  <2>1. InHandler(t)' /\ ~Blocking(t)' /\ back[t] = "run"
    BY <1>t, <1>u, <1>5 DEF InHandler, Blocking, ThreadPlaced
  <2> QED BY <1>t, <1>u, <1>1, <1>5, <1>6, <2>1 DEF ThreadPlaced, Fresh, Stopping
<1> QED BY <1>t, <1>u, <1>1, <1>4, <1>5, <1>6, <1>7, <1>8, <1>9, QuietStep

\* The handler posts the semaphore: the acknowledgement moves there.
LEMMA AcknowledgeStep ==
  ASSUME Inv, sconf' = sconf, ~RetrySignals, NEW t \in Thread, Acknowledge(t)
  PROVE  Inv'
<1>t. /\ stopCount \in Nat /\ pending \in [Thread -> SUBSET {"suspend", "restart"}]
      /\ tpc \in [Thread -> {"run", "dirty", "blocking"} \cup HandlerLabels]
      /\ back \in [Thread -> {"run", "dirty", "blocking"}]
      /\ myStop \in [Thread -> Nat] /\ lastStop \in [Thread -> Nat]
      /\ ThreadPlaced(t) /\ StopTypeOK /\ AcksCounted /\ StopperPlaced
  BY StopTyped DEF Inv
<1>u. /\ UNCHANGED <<stopCount, lost, spc, todo, sent, nLive, prevSent, retry, dirtyLock, pending>>
      /\ UNCHANGED <<back, myStop, lastStop>>
      /\ tpc[t] = "post" /\ sem' = sem + 1 /\ tpc' = [tpc EXCEPT ![t] = "store"]
  BY DEF Acknowledge, stopper, resend, Goto, Following
<1>9. \A k \in Thread : k # t => /\ tpc'[k] = tpc[k] /\ back'[k] = back[k] /\ myStop'[k] = myStop[k]
                                 /\ lastStop'[k] = lastStop[k] /\ pending'[k] = pending[k]
  BY <1>t, <1>u
<1>1. t \in Posting /\ Stopping /\ "suspend" \notin pending[t] /\ sem \in Nat /\ nLive \in Nat /\ sent \in Nat
  BY <1>t, <1>u DEF Posting, AcksCounted, StopTypeOK
<1>2. StopTypeOK'
  BY <1>t, <1>u, <1>1 DEF StopTypeOK, MaxLost, HandlerLabels
<1>3. Posting' = Posting \ {t} /\ Cardinality(Posting') = Cardinality(Posting) - 1 /\ Cardinality(Posting) \in Nat
  <2>1. Posting' = Posting \ {t}
    BY <1>t, <1>u, <1>1 DEF Posting
  <2> QED BY <1>1, <2>1, PostingStep, PostingFinite
<1>4. Stopping'
  BY <1>u, <1>1 DEF Stopping
<1>5. AcksCounted'
  <2>1. \A k \in Thread : tpc'[k] \in {"enter", "post"} => "suspend" \notin pending'[k]
    BY <1>t, <1>u DEF AcksCounted
  <2>2. (spc = "signal" => sent = sem + Cardinality(Posting)) /\ (spc = "barrier" => nLive = sem + Cardinality(Posting))
    BY <1>t, <1>1 DEF AcksCounted
  <2>3. (spc = "signal" => sent = sem' + Cardinality(Posting')) /\ (spc = "barrier" => nLive = sem' + Cardinality(Posting'))
    BY <1>u, <1>1, <1>3, <2>2
  <2> QED BY <1>u, <1>4, <2>1, <2>3 DEF AcksCounted
<1>6. StopperPlaced'
  BY <1>t, <1>u, <1>1, <1>4 DEF StopperPlaced
<1>7. ThreadPlaced(t)'
  <2>1. InHandler(t)' /\ ~Blocking(t)' /\ back[t] = "run" /\ tpc'[t] = "store" /\ myStop[t] = stopCount
    BY <1>t, <1>u DEF InHandler, Blocking, ThreadPlaced
  <2> QED BY <1>t, <1>u, <1>1, <1>3, <2>1 DEF ThreadPlaced, Stopping
<1>8. ASSUME NEW k \in Thread, k # t PROVE ThreadPlaced(k)'
  BY <1>8, <1>9, <1>u, ThreadKept DEF Inv
<1> QED BY <1>2, <1>5, <1>6, <1>7, <1>8 DEF Inv

\* The handler stores the stop it has acknowledged.
LEMMA StoreStopCountStep ==
  ASSUME Inv, sconf' = sconf, ~RetrySignals, NEW t \in Thread, StoreStopCount(t)
  PROVE  Inv'
<1>t. /\ stopCount \in Nat /\ pending \in [Thread -> SUBSET {"suspend", "restart"}]
      /\ tpc \in [Thread -> {"run", "dirty", "blocking"} \cup HandlerLabels]
      /\ back \in [Thread -> {"run", "dirty", "blocking"}]
      /\ myStop \in [Thread -> Nat] /\ lastStop \in [Thread -> Nat]
      /\ ThreadPlaced(t) /\ StopTypeOK /\ AcksCounted /\ StopperPlaced
  BY StopTyped DEF Inv
<1>u. /\ UNCHANGED <<stopCount, sem, lost, spc, todo, sent, nLive, prevSent, retry, dirtyLock, pending, back, myStop>> /\ tpc[t] = "store"
      /\ lastStop' = [lastStop EXCEPT ![t] = myStop[t]] /\ tpc' = [tpc EXCEPT ![t] = "wait"]
  BY DEF StoreStopCount, shared, stopper, resend, Goto, Following
<1>9. \A k \in Thread : k # t => /\ tpc'[k] = tpc[k] /\ back'[k] = back[k] /\ myStop'[k] = myStop[k]
                                 /\ lastStop'[k] = lastStop[k] /\ pending'[k] = pending[k]
  BY <1>t, <1>u
<1>1. StopTypeOK'
  BY <1>t, <1>u DEF StopTypeOK, MaxLost, HandlerLabels
<1>2. t \in Posting' <=> t \in Posting
  BY <1>t, <1>u DEF Posting
<1>3. tpc'[t] = "wait" /\ lastStop'[t] = myStop[t]
  BY <1>t, <1>u
<1>4. \A k \in Thread : tpc'[k] = "dirty" <=> dirtyLock' = k
  BY <1>t, <1>u DEF StopperPlaced
<1>5. ThreadPlaced(t)'
  <2>1. InHandler(t) /\ InHandler(t)' /\ (Blocking(t)' <=> Blocking(t)) /\ back[t] = "run"
    BY <1>t, <1>u, <1>3 DEF InHandler, Blocking, ThreadPlaced
  <2> QED BY <1>t, <1>u, <1>2, <1>3, <2>1 DEF ThreadPlaced, Fresh, Stopping
<1> QED BY <1>t, <1>u, <1>1, <1>2, <1>3, <1>4, <1>5, <1>9, QuietStep

\* A signal ends sigsuspend.
LEMMA AwakeStep ==
  ASSUME Inv, sconf' = sconf, ~RetrySignals, NEW t \in Thread, Awake(t)
  PROVE  Inv'
<1>t. /\ stopCount \in Nat /\ pending \in [Thread -> SUBSET {"suspend", "restart"}]
      /\ tpc \in [Thread -> {"run", "dirty", "blocking"} \cup HandlerLabels]
      /\ back \in [Thread -> {"run", "dirty", "blocking"}]
      /\ myStop \in [Thread -> Nat] /\ lastStop \in [Thread -> Nat]
      /\ ThreadPlaced(t) /\ StopTypeOK /\ AcksCounted /\ StopperPlaced
  BY StopTyped DEF Inv
<1>u. /\ UNCHANGED <<stopCount, sem, lost, spc, todo, sent, nLive, prevSent, retry, dirtyLock, back, myStop, lastStop>> /\ tpc[t] = "wait"
      /\ pending' = [pending EXCEPT ![t] = @ \ {"restart"}] /\ tpc' = [tpc EXCEPT ![t] = "check"]
  BY DEF Awake, shared, stopper, resend, Goto
<1>9. \A k \in Thread : k # t => /\ tpc'[k] = tpc[k] /\ back'[k] = back[k] /\ myStop'[k] = myStop[k]
                                 /\ lastStop'[k] = lastStop[k] /\ pending'[k] = pending[k]
  BY <1>t, <1>u
<1>1. StopTypeOK'
  BY <1>t, <1>u DEF StopTypeOK, MaxLost, HandlerLabels
<1>2. t \in Posting' <=> t \in Posting
  BY <1>t, <1>u DEF Posting
<1>3. tpc'[t] = "check"
  BY <1>t, <1>u
<1>4. \A k \in Thread : tpc'[k] = "dirty" <=> dirtyLock' = k
  BY <1>t, <1>u DEF StopperPlaced
<1>5. ThreadPlaced(t)'
  <2>1. InHandler(t) /\ InHandler(t)' /\ (Blocking(t)' <=> Blocking(t)) /\ back[t] = "run"
    BY <1>t, <1>u, <1>3 DEF InHandler, Blocking, ThreadPlaced
  <2> QED BY <1>t, <1>u, <1>2, <1>3, <2>1 DEF ThreadPlaced, Fresh, Stopping
<1> QED BY <1>t, <1>u, <1>1, <1>2, <1>3, <1>4, <1>5, <1>9, QuietStep

\* The handler sleeps again, unless the stop is over.
LEMMA CheckStopCountStep ==
  ASSUME Inv, sconf' = sconf, ~RetrySignals, NEW t \in Thread, CheckStopCount(t)
  PROVE  Inv'
<1>t. /\ stopCount \in Nat /\ pending \in [Thread -> SUBSET {"suspend", "restart"}]
      /\ tpc \in [Thread -> {"run", "dirty", "blocking"} \cup HandlerLabels]
      /\ back \in [Thread -> {"run", "dirty", "blocking"}]
      /\ myStop \in [Thread -> Nat] /\ lastStop \in [Thread -> Nat]
      /\ ThreadPlaced(t) /\ StopTypeOK /\ AcksCounted /\ StopperPlaced
  BY StopTyped DEF Inv
<1>u. /\ UNCHANGED <<stopCount, sem, lost, spc, todo, sent, nLive, prevSent, retry, dirtyLock, pending, back, myStop, lastStop>> /\ tpc[t] = "check"
      /\ tpc' = [tpc EXCEPT ![t] = IF stopCount = myStop[t] THEN "wait" ELSE "return"]
  BY DEF CheckStopCount, shared, stopper, resend, Goto, GoesBack
<1>9. \A k \in Thread : k # t => /\ tpc'[k] = tpc[k] /\ back'[k] = back[k] /\ myStop'[k] = myStop[k]
                                 /\ lastStop'[k] = lastStop[k] /\ pending'[k] = pending[k]
  BY <1>t, <1>u
<1>1. StopTypeOK'
  BY <1>t, <1>u DEF StopTypeOK, MaxLost, HandlerLabels
<1>2. t \in Posting' <=> t \in Posting
  BY <1>t, <1>u DEF Posting
<1>3. tpc'[t] = IF stopCount = myStop[t] THEN "wait" ELSE "return"
  BY <1>t, <1>u
<1>4. \A k \in Thread : tpc'[k] = "dirty" <=> dirtyLock' = k
  BY <1>t, <1>u DEF StopperPlaced
<1>5. ThreadPlaced(t)'
  <2>1. InHandler(t) /\ InHandler(t)' /\ (Blocking(t)' <=> Blocking(t)) /\ back[t] = "run"
    BY <1>t, <1>u, <1>3 DEF InHandler, Blocking, ThreadPlaced
  <2> QED BY <1>t, <1>u, <1>2, <1>3, <2>1 DEF ThreadPlaced, Fresh, Stopping
<1> QED BY <1>t, <1>u, <1>1, <1>2, <1>3, <1>4, <1>5, <1>9, QuietStep

\* The handler returns, or is entered again for the next stop.
LEMMA HandlerReturnsStep ==
  ASSUME Inv, sconf' = sconf, ~RetrySignals, NEW t \in Thread, HandlerReturns(t)
  PROVE  Inv'
<1>t. /\ stopCount \in Nat /\ pending \in [Thread -> SUBSET {"suspend", "restart"}]
      /\ tpc \in [Thread -> {"run", "dirty", "blocking"} \cup HandlerLabels]
      /\ back \in [Thread -> {"run", "dirty", "blocking"}]
      /\ myStop \in [Thread -> Nat] /\ lastStop \in [Thread -> Nat]
      /\ ThreadPlaced(t) /\ StopTypeOK /\ AcksCounted /\ StopperPlaced
  BY StopTyped DEF Inv
<1>u. /\ UNCHANGED <<stopCount, sem, lost, spc, todo, sent, nLive, prevSent, retry, dirtyLock, back, myStop, lastStop>> /\ tpc[t] = "return"
      /\ tpc' = [tpc EXCEPT ![t] = IF "suspend" \in pending[t] THEN "enter" ELSE back[t]]
      /\ pending' = [pending EXCEPT ![t] = @ \ {"suspend"}]
  BY DEF HandlerReturns, shared, stopper, resend, Goto
<1>9. \A k \in Thread : k # t => /\ tpc'[k] = tpc[k] /\ back'[k] = back[k] /\ myStop'[k] = myStop[k]
                                 /\ lastStop'[k] = lastStop[k] /\ pending'[k] = pending[k]
  BY <1>t, <1>u
<1>1. back[t] = "run"
  BY <1>t, <1>u DEF ThreadPlaced, InHandler
<1>2. tpc'[t] = (IF "suspend" \in pending[t] THEN "enter" ELSE "run") /\ "suspend" \notin pending'[t]
  BY <1>t, <1>u, <1>1
<1>3. StopTypeOK'
  BY <1>t, <1>u DEF StopTypeOK, MaxLost, HandlerLabels
<1>4. t \in Posting' <=> t \in Posting
  BY <1>t, <1>u, <1>2 DEF Posting
<1>5. \A k \in Thread : tpc'[k] = "dirty" <=> dirtyLock' = k
  BY <1>t, <1>u, <1>2 DEF StopperPlaced
<1>6. ThreadPlaced(t)'
  <2>1. InHandler(t) /\ ~Blocking(t)' /\ ~Blocking(t) /\ back'[t] = "run"
    BY <1>t, <1>u, <1>1, <1>2 DEF InHandler, Blocking
  <2> QED BY <1>t, <1>u, <1>2, <1>4, <2>1 DEF ThreadPlaced, Fresh, Stopping
<1> QED BY <1>t, <1>u, <1>2, <1>3, <1>4, <1>5, <1>6, <1>9, QuietStep

(***************************************************************************)
(* The collecting thread's steps.                                          *)
(***************************************************************************)

\* A stop begins, after the last one is over.
LEMMA StopWorldStep ==
  ASSUME Inv, sconf' = sconf, ~RetrySignals, GC_stop_world
  PROVE  Inv'
<1>t. /\ stopCount \in Nat /\ sem \in Nat /\ sent \in Nat /\ nLive \in Nat /\ todo \subseteq Thread
      /\ pending \in [Thread -> SUBSET {"suspend", "restart"}] /\ lastStop \in [Thread -> Nat]
      /\ myStop \in [Thread -> Nat] /\ StopTypeOK /\ AcksCounted /\ StopperPlaced
      /\ \A k \in Thread : ThreadPlaced(k)
  BY StopTyped DEF Inv
<1>u. /\ UNCHANGED <<sem, dirtyLock, lost, pending, tpc, back, myStop, lastStop, todo, sent, nLive, prevSent, retry>>
      /\ spc = "idle" /\ stopCount' = stopCount + 1 /\ spc' = "dirtylock"
  BY DEF GC_stop_world, thread, resend
<1>b. \A k \in Thread : (Blocking(k)' <=> Blocking(k)) /\ (InHandler(k)' <=> InHandler(k))
  BY <1>u DEF Blocking, InHandler
<1>1. StopTypeOK'
  BY <1>t, <1>u DEF StopTypeOK, MaxLost
<1>2. Posting' = Posting
  BY <1>u DEF Posting
<1>3. Restarted(stopCount) /\ ~Restarted(stopCount') /\ ~Stopping /\ ~Stopping'
  BY <1>t, <1>u, Parity DEF StopperPlaced, Stopping
<1>4. AcksCounted'
  BY <1>t, <1>u, <1>2, <1>3 DEF AcksCounted
<1>5. StopperPlaced'
  BY <1>t, <1>u, <1>3 DEF StopperPlaced
<1>6. ASSUME NEW k \in Thread PROVE ThreadPlaced(k)'
  <2>1. k \notin Posting /\ lastStop[k] < stopCount /\ myStop[k] < stopCount /\ lastStop[k] \in Nat /\ myStop[k] \in Nat
    BY <1>t, <1>3 DEF ThreadPlaced, Fresh
  <2>2. lastStop[k] < stopCount' /\ myStop[k] < stopCount'
    BY <1>t, <1>u, <2>1
  <2>3. tpc[k] # "post"
    BY <2>1 DEF Posting
  <2> QED BY <1>t, <1>u, <1>b, <1>2, <1>3, <2>1, <2>2, <2>3 DEF ThreadPlaced, Fresh
<1> QED BY <1>1, <1>4, <1>5, <1>6 DEF Inv

\* The dirty lock is taken.
LEMMA LockDirtyStep ==
  ASSUME Inv, sconf' = sconf, ~RetrySignals, LockDirty
  PROVE  Inv'
<1>t. /\ stopCount \in Nat /\ sem \in Nat /\ sent \in Nat /\ nLive \in Nat /\ todo \subseteq Thread
      /\ pending \in [Thread -> SUBSET {"suspend", "restart"}] /\ lastStop \in [Thread -> Nat]
      /\ myStop \in [Thread -> Nat] /\ StopTypeOK /\ AcksCounted /\ StopperPlaced
      /\ \A k \in Thread : ThreadPlaced(k)
  BY StopTyped DEF Inv
<1>u. /\ UNCHANGED <<stopCount, sem, lost, pending, tpc, back, myStop, lastStop, nLive, prevSent, retry>>
      /\ spc = "dirtylock" /\ dirtyLock = Nobody /\ dirtyLock' = Stopper
      /\ spc' = "signal" /\ todo' = Thread /\ sent' = 0
  BY DEF LockDirty, GC_acquire_dirty_lock, VisitAll, thread, resend
<1>b. \A k \in Thread : (Blocking(k)' <=> Blocking(k)) /\ (InHandler(k)' <=> InHandler(k))
  BY <1>u DEF Blocking, InHandler
<1>1. StopTypeOK'
  BY <1>t, <1>u DEF StopTypeOK, MaxLost
<1>2. Posting' = Posting
  BY <1>u DEF Posting
<1>3. ~Restarted(stopCount) /\ ~Stopping /\ Stopping' /\ Posting = {} /\ sem = 0
  BY <1>t, <1>u DEF StopperPlaced, Stopping, AcksCounted
<1>4. Cardinality(Posting') = 0
  BY <1>2, <1>3, FS_EmptySet
<1>5. AcksCounted'
  <2>1. sent' = sem' + Cardinality(Posting')
    BY <1>u, <1>3, <1>4
  <2> QED BY <1>t, <1>u, <1>3, <2>1 DEF AcksCounted
<1>6. StopperPlaced'
  BY <1>t, <1>u, <1>3, OwnersDiffer DEF StopperPlaced
<1>7. ASSUME NEW k \in Thread PROVE ThreadPlaced(k)'
  BY <1>t, <1>u, <1>b, <1>2, <1>3 DEF ThreadPlaced, Fresh
<1> QED BY <1>1, <1>5, <1>6, <1>7 DEF Inv

\* The world is started: nobody owes an acknowledgement.
LEMMA StartWorldStep ==
  ASSUME Inv, sconf' = sconf, ~RetrySignals, GC_start_world
  PROVE  Inv'
<1>t. /\ stopCount \in Nat /\ sem \in Nat /\ sent \in Nat /\ nLive \in Nat /\ todo \subseteq Thread
      /\ pending \in [Thread -> SUBSET {"suspend", "restart"}] /\ lastStop \in [Thread -> Nat]
      /\ myStop \in [Thread -> Nat] /\ StopTypeOK /\ AcksCounted /\ StopperPlaced
      /\ \A k \in Thread : ThreadPlaced(k)
  BY StopTyped DEF Inv
<1>u. /\ UNCHANGED <<sem, dirtyLock, lost, pending, tpc, back, myStop, lastStop, nLive, prevSent, retry>>
      /\ spc = "stopped" /\ stopCount' = stopCount + 1
      /\ spc' = "signal" /\ todo' = Thread /\ sent' = 0
  BY DEF GC_start_world, VisitAll, thread, resend
<1>b. \A k \in Thread : (Blocking(k)' <=> Blocking(k)) /\ (InHandler(k)' <=> InHandler(k))
  BY <1>u DEF Blocking, InHandler
<1>1. StopTypeOK'
  BY <1>t, <1>u DEF StopTypeOK, MaxLost
<1>2. Posting' = Posting
  BY <1>u DEF Posting
<1>3. ~Restarted(stopCount) /\ Restarted(stopCount') /\ ~Stopping /\ ~Stopping' /\ Posting = {} /\ sem = 0
  BY <1>t, <1>u, Parity DEF StopperPlaced, Stopping, AcksCounted
<1>4. AcksCounted'
  BY <1>t, <1>u, <1>2, <1>3 DEF AcksCounted
<1>5. StopperPlaced'
  BY <1>t, <1>u, <1>3 DEF StopperPlaced
<1>6. ASSUME NEW k \in Thread PROVE ThreadPlaced(k)'
  <2>1. lastStop[k] <= stopCount /\ myStop[k] <= stopCount /\ lastStop[k] \in Nat /\ myStop[k] \in Nat
    BY <1>t DEF ThreadPlaced
  <2>2. lastStop[k] < stopCount' /\ myStop[k] < stopCount'
    BY <1>t, <1>u, <2>1
  <2>3. tpc[k] # "post"
    BY <1>3 DEF Posting
  <2> QED BY <1>t, <1>u, <1>b, <1>2, <1>3, <2>1, <2>2, <2>3 DEF ThreadPlaced, Fresh
<1> QED BY <1>1, <1>4, <1>5, <1>6 DEF Inv

\* A thread is sent a signal, or skipped because it is in a blocking call.
LEMMA VisitThreadStep ==
  ASSUME Inv, sconf' = sconf, ~RetrySignals, NEW t \in Thread, VisitThread(t)
  PROVE  Inv'
<1>t. /\ stopCount \in Nat /\ sem \in Nat /\ sent \in Nat /\ nLive \in Nat /\ todo \subseteq Thread
      /\ pending \in [Thread -> SUBSET {"suspend", "restart"}] /\ lastStop \in [Thread -> Nat]
      /\ myStop \in [Thread -> Nat] /\ StopTypeOK /\ AcksCounted /\ StopperPlaced
      /\ \A k \in Thread : ThreadPlaced(k)
  BY StopTyped DEF Inv
<1>u. /\ UNCHANGED <<stopCount, sem, dirtyLock, tpc, back, myStop, lastStop, spc, nLive, prevSent, retry>>
      /\ spc = "signal" /\ t \in todo /\ todo' = todo \ {t}
  BY <1>t DEF VisitThread, StopperPlaced, thread, resend
<1>b. \A k \in Thread : (Blocking(k)' <=> Blocking(k)) /\ (InHandler(k)' <=> InHandler(k))
  BY <1>u DEF Blocking, InHandler
<1>1. \/ UNCHANGED <<pending, lost, sent>> /\ (Blocking(t) \/ Skipped(t))
      \/ /\ pending' = [pending EXCEPT ![t] = @ \cup {Sig}] /\ UNCHANGED lost /\ sent' = sent + 1
         /\ ~Blocking(t)
  BY DEF VisitThread, raise_signal
<1>2. StopTypeOK'
  <2>1. Sig \in {"suspend", "restart"}
    BY DEF Sig
  <2>2. pending' \in [Thread -> SUBSET {"suspend", "restart"}] /\ sent' \in Nat /\ UNCHANGED lost
    BY <1>t, <1>1, <2>1
  <2> QED BY <1>t, <1>u, <2>2 DEF StopTypeOK, MaxLost
<1>3. \A k \in Thread : k # t => pending'[k] = pending[k]
  BY <1>t, <1>1
<1>4. /\ t \notin Posting /\ lastStop[t] < stopCount /\ lastStop[t] \in Nat
      /\ Stopping' <=> Stopping
      /\ Stopping <=> ~Restarted(stopCount)
  BY <1>t, <1>u DEF ThreadPlaced, Fresh, Stopping
<1>5. CASE ~Stopping
  <2>1. \A k \in Thread : "suspend" \in pending'[k] <=> "suspend" \in pending[k]
    BY <1>t, <1>1, <1>3, <1>4, <1>5 DEF Sig
  <2>2. Posting' = Posting
    BY <1>u, <2>1 DEF Posting
  <2>3. AcksCounted'
    BY <1>t, <1>u, <1>4, <1>5, <2>1, <2>2 DEF AcksCounted
  <2>4. StopperPlaced'
    BY <1>t, <1>u, <1>4, <1>5 DEF StopperPlaced
  <2>5. ASSUME NEW k \in Thread PROVE ThreadPlaced(k)'
    BY <1>t, <1>u, <1>b, <1>4, <1>5, <2>2 DEF ThreadPlaced, Fresh
  <2> QED BY <1>2, <2>3, <2>4, <2>5 DEF Inv
<1>6. CASE Stopping /\ pending' = pending
  <2>1. Blocking(t) /\ sent' = sent
    <3>1. ~Skipped(t)
      BY <1>t, <1>4 DEF Skipped
    <3>2. "suspend" \notin pending[t]
      BY <1>4 DEF Posting
    <3>3. Sig = "suspend"
      BY <1>4, <1>6 DEF Sig
    <3>4. pending' # [pending EXCEPT ![t] = @ \cup {Sig}]
      BY <1>t, <1>6, <3>2, <3>3
    <3> QED BY <1>1, <3>1, <3>4
  <2>2. Posting' = Posting
    BY <1>u, <1>6 DEF Posting
  <2>3. AcksCounted'
    BY <1>t, <1>u, <1>4, <1>6, <2>1, <2>2 DEF AcksCounted
  <2>4. StopperPlaced'
    BY <1>t, <1>u, <1>4, <1>6 DEF StopperPlaced
  <2>5. ASSUME NEW k \in Thread PROVE ThreadPlaced(k)'
    BY <1>t, <1>u, <1>b, <1>4, <1>6, <2>1, <2>2 DEF ThreadPlaced, Fresh
  <2> QED BY <1>2, <2>3, <2>4, <2>5 DEF Inv
<1>7. CASE Stopping /\ pending' # pending
  <2>1. pending' = [pending EXCEPT ![t] = @ \cup {"suspend"}] /\ sent' = sent + 1 /\ ~Blocking(t)
    BY <1>1, <1>4, <1>7 DEF Sig
  <2>2. Posting' = Posting \cup {t} /\ tpc[t] \notin {"enter", "post"}
    BY <1>t, <1>u, <1>4, <2>1 DEF Posting
  <2>3. Cardinality(Posting') = Cardinality(Posting) + 1 /\ Cardinality(Posting) \in Nat
    BY <1>4, <2>2, PostingStep, PostingFinite
  <2>4. AcksCounted'
    <3>1. sent = sem + Cardinality(Posting)
      BY <1>t, <1>u, <1>7 DEF AcksCounted
    <3>2. sent' = sem' + Cardinality(Posting')
      BY <1>t, <1>u, <2>1, <2>3, <3>1
    <3>3. \A k \in Thread : tpc'[k] \in {"enter", "post"} => "suspend" \notin pending'[k]
      BY <1>t, <1>u, <1>3, <2>2 DEF AcksCounted
    <3> QED BY <1>u, <1>4, <1>7, <3>2, <3>3 DEF AcksCounted
  <2>5. StopperPlaced'
    BY <1>t, <1>u, <1>4, <1>7 DEF StopperPlaced
  <2>6. ASSUME NEW k \in Thread, k # t PROVE ThreadPlaced(k)'
    BY <1>t, <1>u, <1>b, <1>4, <1>7, <2>2, <2>6 DEF ThreadPlaced, Fresh
  <2>7. ThreadPlaced(t)'
    BY <1>t, <1>u, <1>b, <1>4, <1>7, <2>1, <2>2 DEF ThreadPlaced, Fresh
  <2> QED BY <1>2, <2>4, <2>5, <2>6, <2>7 DEF Inv
<1> QED BY <1>5, <1>6, <1>7

\* All signals are out.
LEMMA AllSignalledStep ==
  ASSUME Inv, sconf' = sconf, ~RetrySignals, AllSignalled
  PROVE  Inv'
<1>t. /\ stopCount \in Nat /\ sem \in Nat /\ sent \in Nat /\ nLive \in Nat /\ todo \subseteq Thread
      /\ pending \in [Thread -> SUBSET {"suspend", "restart"}] /\ lastStop \in [Thread -> Nat]
      /\ myStop \in [Thread -> Nat] /\ StopTypeOK /\ AcksCounted /\ StopperPlaced
      /\ \A k \in Thread : ThreadPlaced(k)
  BY StopTyped DEF Inv
<1>u. /\ UNCHANGED <<stopCount, sem, dirtyLock, lost, pending, tpc, back, myStop, lastStop, todo, sent, prevSent, retry>>
      /\ spc = "signal" /\ todo = {} /\ nLive' = sent
      /\ spc' = IF Restarted(stopCount) THEN "idle" ELSE "barrier"
  BY DEF AllSignalled, shared, thread, resend
<1>b. \A k \in Thread : (Blocking(k)' <=> Blocking(k)) /\ (InHandler(k)' <=> InHandler(k))
  BY <1>u DEF Blocking, InHandler
<1>1. StopTypeOK'
  BY <1>t, <1>u DEF StopTypeOK, MaxLost
<1>2. Posting' = Posting
  BY <1>u DEF Posting
<1>3. (Stopping' <=> Stopping) /\ (Stopping <=> ~Restarted(stopCount))
  BY <1>u DEF Stopping
<1>4. AcksCounted'
  BY <1>t, <1>u, <1>2, <1>3 DEF AcksCounted
<1>5. StopperPlaced'
  BY <1>t, <1>u, <1>3 DEF StopperPlaced
<1>6. ASSUME NEW k \in Thread PROVE ThreadPlaced(k)'
  BY <1>t, <1>u, <1>b, <1>2, <1>3 DEF ThreadPlaced, Fresh
<1> QED BY <1>1, <1>4, <1>5, <1>6 DEF Inv

\* An acknowledgement is taken from the semaphore.
LEMMA SemWaitStep ==
  ASSUME Inv, sconf' = sconf, ~RetrySignals, SemWait
  PROVE  Inv'
<1>t. /\ stopCount \in Nat /\ sem \in Nat /\ sent \in Nat /\ nLive \in Nat /\ todo \subseteq Thread
      /\ pending \in [Thread -> SUBSET {"suspend", "restart"}] /\ lastStop \in [Thread -> Nat]
      /\ myStop \in [Thread -> Nat] /\ StopTypeOK /\ AcksCounted /\ StopperPlaced
      /\ \A k \in Thread : ThreadPlaced(k)
  BY StopTyped DEF Inv
<1>u. /\ UNCHANGED <<stopCount, dirtyLock, lost, pending, tpc, back, myStop, lastStop, spc, todo, sent, prevSent, retry>>
      /\ spc = "barrier" /\ nLive > 0 /\ sem > 0 /\ sem' = sem - 1 /\ nLive' = nLive - 1
  BY DEF SemWait, Taken, thread, resend
<1>b. \A k \in Thread : (Blocking(k)' <=> Blocking(k)) /\ (InHandler(k)' <=> InHandler(k))
  BY <1>u DEF Blocking, InHandler
<1>1. StopTypeOK'
  <2>1. sem' \in Nat /\ nLive' \in Nat
    BY <1>t, <1>u
  <2> QED BY <1>t, <1>u, <2>1 DEF StopTypeOK, MaxLost
<1>2. Posting' = Posting /\ Cardinality(Posting) \in Nat
  BY <1>u, PostingFinite DEF Posting
<1>3. Stopping' /\ Stopping
  BY <1>t, <1>u DEF Stopping, StopperPlaced
<1>4. AcksCounted'
  <2>1. nLive = sem + Cardinality(Posting)
    BY <1>t, <1>u DEF AcksCounted
  <2>2. nLive' = sem' + Cardinality(Posting')
    BY <1>t, <1>u, <1>2, <2>1
  <2> QED BY <1>t, <1>u, <1>3, <2>2 DEF AcksCounted
<1>5. StopperPlaced'
  BY <1>t, <1>u, <1>3 DEF StopperPlaced
<1>6. ASSUME NEW k \in Thread PROVE ThreadPlaced(k)'
  BY <1>t, <1>u, <1>b, <1>2, <1>3 DEF ThreadPlaced, Fresh
<1> QED BY <1>1, <1>4, <1>5, <1>6 DEF Inv

\* Everybody has been waited for, so nobody owes an acknowledgement.
LEMMA BarrierEndsStep ==
  ASSUME Inv, sconf' = sconf, ~RetrySignals, BarrierEnds
  PROVE  Inv'
<1>t. /\ stopCount \in Nat /\ sem \in Nat /\ sent \in Nat /\ nLive \in Nat /\ todo \subseteq Thread
      /\ pending \in [Thread -> SUBSET {"suspend", "restart"}] /\ lastStop \in [Thread -> Nat]
      /\ myStop \in [Thread -> Nat] /\ StopTypeOK /\ AcksCounted /\ StopperPlaced
      /\ \A k \in Thread : ThreadPlaced(k)
  BY StopTyped DEF Inv
<1>u. /\ UNCHANGED <<stopCount, sem, lost, pending, tpc, back, myStop, lastStop, todo, sent, nLive, prevSent, retry>>
      /\ spc = "barrier" /\ nLive = 0 /\ ~Restarted(stopCount)
      /\ spc' = "stopped" /\ dirtyLock' = Nobody
  BY <1>t DEF BarrierEnds, AllWaitedFor, StopperPlaced, thread, resend
<1>b. \A k \in Thread : (Blocking(k)' <=> Blocking(k)) /\ (InHandler(k)' <=> InHandler(k))
  BY <1>u DEF Blocking, InHandler
<1>1. StopTypeOK'
  BY <1>t, <1>u DEF StopTypeOK, MaxLost
<1>2. Posting' = Posting
  BY <1>u DEF Posting
<1>3. ~Stopping' /\ Stopping
  BY <1>t, <1>u DEF Stopping
<1>4. Posting = {} /\ sem = 0
  <2>1. nLive = sem + Cardinality(Posting)
    BY <1>t, <1>u DEF AcksCounted
  <2>2. sem = 0 /\ Cardinality(Posting) = 0
    BY <1>t, <1>u, <2>1, PostingFinite
  <2> QED BY <2>2, PostingFinite
<1>5. AcksCounted'
  BY <1>t, <1>u, <1>2, <1>3, <1>4 DEF AcksCounted
<1>6. StopperPlaced'
  BY <1>t, <1>u, <1>3, OwnersDiffer DEF StopperPlaced
<1>7. ASSUME NEW k \in Thread PROVE ThreadPlaced(k)'
  BY <1>t, <1>u, <1>b, <1>2, <1>3, <1>4 DEF ThreadPlaced, Fresh
<1> QED BY <1>1, <1>5, <1>6, <1>7 DEF Inv

(***************************************************************************)
(* The theorems.                                                           *)
(***************************************************************************)

\* The first state.
LEMMA StopInitial == StopInit => Inv
<1> SUFFICES ASSUME StopInit PROVE Inv
  OBVIOUS
<1>1. MaxLost \in Nat
  BY StopConfigsAssumption DEF StopInit, MaxLost
<1>2. StopTypeOK
  <2>1. lost \in 0..MaxLost /\ stopCount \in Nat /\ sem \in Nat
    BY <1>1 DEF StopInit
  <2> QED BY <2>1 DEF StopInit, StopTypeOK
<1>3. Posting = {} /\ Restarted(stopCount) /\ ~Stopping
  BY DEF StopInit, Posting, Restarted, Stopping
<1>4. AcksCounted
  BY <1>3 DEF AcksCounted, StopInit
<1>5. StopperPlaced
  BY <1>3, OwnersDiffer DEF StopperPlaced, StopInit
<1>6. ASSUME NEW t \in Thread PROVE ThreadPlaced(t)
  BY <1>3 DEF ThreadPlaced, InHandler, Fresh, StopInit
<1> QED BY <1>2, <1>4, <1>5, <1>6 DEF Inv

\* Every step keeps the invariant when nothing is sent again.
LEMMA StopStep ==
  ASSUME Inv, ~RetrySignals, [StopNext]_stopVars
  PROVE  Inv' /\ ~RetrySignals'
<1>1. CASE UNCHANGED stopVars
  <2>1. /\ UNCHANGED <<sconf, stopCount, sem, dirtyLock, lost, pending, tpc, back, myStop, lastStop>>
        /\ UNCHANGED <<spc, todo, sent, nLive, prevSent, retry>>
    BY <1>1 DEF stopVars, protocol, shared, thread, stopper, resend
  <2>2. Posting' = Posting /\ (Stopping' <=> Stopping)
    BY <2>1 DEF Posting, Stopping
  <2>3. StopTypeOK' /\ AcksCounted' /\ StopperPlaced'
    BY <2>1, <2>2 DEF Inv, StopTypeOK, AcksCounted, StopperPlaced, MaxLost
  <2>4. ASSUME NEW k \in Thread PROVE ThreadPlaced(k)'
    BY <2>1, ThreadKept DEF Inv
  <2> QED BY <2>1, <2>3, <2>4 DEF Inv, RetrySignals
<1>2. CASE StopNext
  <2>1. sconf' = sconf /\ ~RetrySignals'
    BY <1>2 DEF StopNext, RetrySignals
  <2>2. spc \in {"idle", "dirtylock", "signal", "barrier", "stopped"}
    BY DEF Inv, StopperPlaced
  <2>3. \A t \in Thread : tpc[t] \notin {"repost", "restore"}
    BY DEF Inv, ThreadPlaced
  <2>4. ASSUME NEW t \in Thread, ThreadStep(t) PROVE Inv'
    <3>1. ~AcknowledgeRestart(t) /\ ~StoreRestarted(t)
      BY <2>3 DEF AcknowledgeRestart, StoreRestarted
    <3>2. WokenByOther(t) \/ WokenByRestart(t) => Awake(t)
      BY DEF WokenByOther, WokenByRestart
    <3> QED BY <2>1, <2>4, <3>1, <3>2, DirtyBeginStep, DirtyEndStep, BlockingBeginsStep, BlockingEndsStep,
               RestartHandlerStep, SigactionStep, LoadStopCountStep, AcknowledgeStep, StoreStopCountStep,
               AwakeStep, CheckStopCountStep, HandlerReturnsStep DEF ThreadStep, Handler
  <2>5. CASE GC_stop_world \/ Collect
    <3>1. ~SemTimedWait /\ ~TimedWaitEnds /\ ~AllAnswered /\ ~SendAgain /\ ~Resent
      BY <2>2 DEF SemTimedWait, TimedWaitEnds, AllAnswered, SendAgain, Resent
    <3> QED BY <2>1, <2>5, <3>1, StopWorldStep, LockDirtyStep, StartWorldStep, VisitThreadStep,
               AllSignalledStep, SemWaitStep, BarrierEndsStep DEF Collect
  <2> QED BY <1>2, <2>1, <2>4, <2>5 DEF StopNext
<1> QED BY <1>1, <1>2

\* A stop by signals that all arrive is exact in every state: when GC_stop_world
\* has returned, every thread that is not in a blocking call sleeps in the handler
\* of this very stop, and no acknowledgement is left in the semaphore.
THEOREM ReliableStopIsSound == StopSpec /\ ~RetrySignals => []StopSound
<1>1. Inv => StopSound
  <2> SUFFICES ASSUME Inv PROVE StopSound
    OBVIOUS
  <2>1. StopTypeOK /\ spc # "resend"
    BY DEF Inv, StopperPlaced
  <2>2. SemBalanced
    BY DEF Inv, AcksCounted, Stopping, SemBalanced
  <2>3. AllStopped
    <3> SUFFICES ASSUME spc = "stopped", NEW t \in Thread, ~Blocking(t)
                 PROVE  tpc[t] \in {"store", "wait", "check"} /\ myStop[t] = stopCount
      BY DEF AllStopped
    <3>1. todo = {} /\ Posting = {} /\ ThreadPlaced(t)
      BY DEF Inv, StopperPlaced, AcksCounted, Stopping
    <3> QED BY <3>1 DEF ThreadPlaced
  <2> QED BY <2>1, <2>2, <2>3 DEF StopSound, NobodyLost
<1>2. Inv /\ ~RetrySignals /\ [StopNext]_stopVars => Inv' /\ ~RetrySignals'
  BY StopStep
<1> QED BY <1>1, <1>2, StopInitial, PTL DEF StopSpec

\* Stopping the world by signals that all arrive implements stopping it in one
\* step: a stopped world does nothing, and no thread is stopped inside GC_dirty.
THEOREM SignalsImplementAtomicStop == StopSpec /\ ~RetrySignals => ImplementsAtomicStop
<1>1. StopInit => Atomic!Init
  BY OwnersDiffer DEF StopInit, Atomic!Init
<1>2. ASSUME Inv, ~RetrySignals, [StopNext]_stopVars
      PROVE  [Atomic!Next]_<<spc = "stopped", IF dirtyLock \in Thread THEN dirtyLock ELSE Nobody>>
  <2> DEFINE stopped == spc = "stopped"
             dirtying == IF dirtyLock \in Thread THEN dirtyLock ELSE Nobody
  <2>1. CASE UNCHANGED <<spc, dirtyLock>>
    BY <2>1
  <2>2. CASE dirtyLock' = dirtyLock /\ spc # "stopped" /\ spc' # "stopped"
    BY <2>2
  <2>3. ASSUME NEW t \in Thread, DirtyBegin(t) \/ DirtyEnd(t) PROVE Atomic!Next
    <3>1. tpc[t] \in {"run", "dirty"} /\ ~Blocking(t) /\ ThreadPlaced(t) /\ UNCHANGED spc
      BY <1>2, <2>3 DEF DirtyBegin, DirtyEnd, Blocking, InHandler, Inv, stopper
    <3>2. spc # "stopped"
      <4> SUFFICES ASSUME spc = "stopped" PROVE FALSE
        OBVIOUS
      <4>1. todo = {} /\ Posting = {}
        BY <1>2 DEF Inv, StopperPlaced, AcksCounted, Stopping
      <4> QED BY <3>1, <4>1 DEF ThreadPlaced
    <3>3. CASE DirtyBegin(t)
      BY <3>1, <3>2, <3>3, OwnersDiffer DEF DirtyBegin, Atomic!Next, Atomic!Begin
    <3>4. CASE DirtyEnd(t)
      <4>1. dirtyLock = t /\ dirtyLock' = Nobody
        BY <1>2, <3>4 DEF DirtyEnd, Inv, StopperPlaced
      <4> QED BY <3>1, <3>2, <4>1, OwnersDiffer DEF Atomic!Next, Atomic!End
    <3> QED BY <2>3, <3>3, <3>4
  <2>4. CASE BarrierEnds
    <3>1. spc = "barrier" /\ spc' = "stopped" /\ dirtyLock = Stopper /\ dirtyLock' = Nobody
      BY <1>2, <2>4 DEF BarrierEnds, Inv, StopperPlaced, Stopping
    <3> QED BY <3>1, OwnersDiffer DEF Atomic!Next, Atomic!Stop
  <2>5. CASE GC_start_world
    BY <2>5 DEF GC_start_world, VisitAll, Atomic!Next, Atomic!Start
  <2>6. CASE LockDirty
    BY <2>6, OwnersDiffer DEF LockDirty, GC_acquire_dirty_lock, VisitAll
  <2>7. ASSUME NEW t \in Thread, ThreadStep(t), ~DirtyBegin(t), ~DirtyEnd(t) PROVE UNCHANGED <<spc, dirtyLock>>
    BY <2>7 DEF ThreadStep, BlockingBegins, BlockingEnds, GC_restart_handler, WokenByOther, WokenByRestart,
                Awake, Handler, GC_suspend_sigaction, LoadStopCount, Acknowledge, StoreStopCount,
                CheckStopCount, AcknowledgeRestart, StoreRestarted, HandlerReturns, shared, stopper
  <2>8. ASSUME NEW t \in Thread, VisitThread(t) PROVE UNCHANGED <<spc, dirtyLock>>
    BY <2>8 DEF VisitThread
  <2>9. CASE GC_stop_world \/ AllSignalled \/ SemTimedWait \/ TimedWaitEnds \/ AllAnswered \/ SendAgain
             \/ Resent \/ SemWait
    BY <2>2, <2>9 DEF GC_stop_world, AllSignalled, SemTimedWait, TimedWaitEnds, AllAnswered, SendAgain,
                      VisitAll, Resent, SemWait, shared
  <2>10. CASE UNCHANGED stopVars
    BY <2>1, <2>10 DEF stopVars, protocol, shared, stopper
  <2> QED BY <1>2, <2>1, <2>3, <2>4, <2>5, <2>6, <2>7, <2>8, <2>9, <2>10 DEF StopNext, Collect
<1>3. Inv /\ ~RetrySignals /\ [StopNext]_stopVars => Inv' /\ ~RetrySignals'
  BY StopStep
<1> QED BY <1>1, <1>2, <1>3, StopInitial, PTL DEF StopSpec, ImplementsAtomicStop, Atomic!Spec

-----------------------------------------------------------------------------
(***************************************************************************)
(* HeapGrowth: how the heap grows, for every heap size and every sequence  *)
(* of calls.                                                               *)
(***************************************************************************)

\* What the variables of HeapGrowth range over.
Sizes == [heap : Nat, left : 0 .. SystemBlocks]
Paces == [allocd : Nat, freed : 0 .. MaxFreed, finalized : Nat, grown : BOOLEAN, lastMin : Int,
          lastFo : Nat, lastFin : Nat, fail : Nat, unmapAt : Nat]
Uses == [free : Nat, live : Nat, fin : Nat, junk : Nat, doomed : Nat]
Calls == [pc : {"start", "idle", "try", "more", "exited"}, kind : {"small", "large", "offPage"},
          need : Wanted \cup {1}, retry : BOOLEAN, clean : BOOLEAN]

\* The blocks that are in use, or were when they were last looked at.
InUse(u) == u.live + u.fin + u.junk + u.doomed

\* The blocks add up to the heap, and what was allocated since the last
\* collection is still there or was freed explicitly.
AddsUp(s, p, u) ==
  /\ s \in Sizes /\ p \in Paces /\ u \in Uses
  /\ s.heap = u.free * HBLKSIZE + InUse(u) * HBLKSIZE
  /\ p.allocd <= InUse(u) * HBLKSIZE + p.freed
  /\ p.unmapAt <= s.heap /\ p.fail <= gconf.retries + 1

\* An allocation that began after a success and was refused memory since has
\* been through a collection that nobody stopped.
CollectedSince ==
  (call.pc \in {"try", "more"} /\ call.clean /\ ~gconf.dontGc /\ pace.fail > 0) => use.junk = 0

\* The inductive invariant of HeapGrowth.
GrowthInv ==
  /\ gconf \in GrowthConfigs /\ call \in Calls
  /\ AddsUp(size, pace, use) /\ CollectedSince

(***************************************************************************)
(* Arithmetic of blocks and words.                                         *)
(***************************************************************************)

\* Words of blocks.
LEMMA BlockWords ==
  /\ HBLKSIZE \in Nat \ {0}
  /\ \A m, n \in Nat : m * HBLKSIZE \in Nat /\ (m + n) * HBLKSIZE = m * HBLKSIZE + n * HBLKSIZE
  /\ 0 * HBLKSIZE = 0 /\ 1 * HBLKSIZE = HBLKSIZE
<1>1. HBLKSIZE \in Nat \ {0}
  BY GrowthAssumption
<1>2. \A h, m, n \in Nat : m * h \in Nat /\ (m + n) * h = m * h + n * h
  OBVIOUS
<1>3. \A h \in Nat : 0 * h = 0 /\ 1 * h = h
  OBVIOUS
<1> QED BY <1>1, <1>2, <1>3

\* Blocks of whole numbers of blocks.
LEMMA WholeBlocks ==
  ASSUME NEW n \in Nat
  PROVE  (n * HBLKSIZE) \div HBLKSIZE = n
<1>1. \A h \in Nat \ {0} : (n * h) \div h = n
  <2> SUFFICES ASSUME NEW h \in Nat \ {0}
               PROVE  (n * h) \div h = n
    OBVIOUS
  <2> DEFINE q == (n * h) \div h
  <2>1. q \in Int /\ h * q <= n * h /\ n * h < h * q + h
    OBVIOUS
  <2>2. ASSUME q < n PROVE FALSE
    <3>1. q + 1 <= n
      BY <2>1, <2>2
    <3> HIDE DEF q
    <3>2. h * (q + 1) <= h * n
      BY <3>1, <2>1
    <3> QED BY <3>2, <2>1
  <2>3. ASSUME q > n PROVE FALSE
    <3>1. n + 1 <= q
      BY <2>1, <2>3
    <3> HIDE DEF q
    <3>2. h * (n + 1) <= h * q
      BY <3>1, <2>1
    <3> QED BY <3>2, <2>1
  <2> QED BY <2>1, <2>2, <2>3
<1> QED BY <1>1, GrowthAssumption

(***************************************************************************)
(* The operators that the actions are made of.                             *)
(***************************************************************************)

\* The settings.
LEMMA Settings ==
  ASSUME gconf \in GrowthConfigs
  PROVE  gconf.retries \in Nat /\ gconf.max \in Nat /\ gconf.dontGc \in BOOLEAN
BY GrowthAssumption

\* The threshold is a number.
LEMMA Threshold ==
  ASSUME NEW n \in Nat
  PROVE  min_bytes_allocd(n) \in Int
<1>1. \A d \in Nat \ {0}, w \in Nat : (2 * n + w) \div d \in Int /\ ((2 * n + w) \div d) \div 2 \in Int
  OBVIOUS
<1>2. FreeSpaceDivisor \in Nat \ {0} /\ RootWords \in Nat
  BY GrowthAssumption
<1> QED BY <1>1, <1>2 DEF min_bytes_allocd

\* A collection that is not stopped.
LEMMA AfterGc ==
  ASSUME NEW s, NEW p, NEW u, AddsUp(s, p, u)
  PROVE  /\ AddsUp(s, PaceAfterGc(p, u), UseAfterGc(u))
         /\ PaceAfterGc(p, u).fail = p.fail /\ UseAfterGc(u).junk = 0
<1> DEFINE q == PaceAfterGc(p, u)
           v == UseAfterGc(u)
<1>1. p \in Paces /\ u \in Uses /\ s \in Sizes
  BY DEF AddsUp
<1>2. /\ u.free \in Nat /\ u.live \in Nat /\ u.fin \in Nat /\ u.junk \in Nat /\ u.doomed \in Nat
      /\ p.fail \in Nat /\ p.unmapAt \in Nat
  BY <1>1 DEF Uses, Paces
<1>3. u.doomed * HBLKSIZE \in Nat /\ 0 \in 0 .. MaxFreed
  BY <1>2, BlockWords, GrowthAssumption
<1>4. min_bytes_allocd((u.live + u.fin + u.doomed) * HBLKSIZE) \in Int
  <2>1. u.live + u.fin + u.doomed \in Nat
    BY <1>2
  <2> QED BY <2>1, BlockWords, Threshold
<1>5. v \in Uses /\ v.free = u.free + u.junk /\ v.junk = 0 /\ v.live = u.live + u.doomed
        /\ v.doomed = 0 /\ v.fin = u.fin
  <2>1. u.free + u.junk \in Nat /\ u.live + u.doomed \in Nat
    BY <1>2
  <2>2. v \in Uses
    BY <1>1, <2>1 DEF UseAfterGc, Uses
  <2>3. v.free = u.free + u.junk /\ v.junk = 0
    BY <1>1, <2>1 DEF UseAfterGc, Uses
  <2>4. v.live = u.live + u.doomed /\ v.doomed = 0 /\ v.fin = u.fin
    BY <1>1, <2>1 DEF UseAfterGc, Uses
  <2> QED BY <2>2, <2>3, <2>4
<1>6. /\ q \in Paces
      /\ q.allocd = 0 /\ q.freed = 0 /\ q.fail = p.fail /\ q.unmapAt = p.unmapAt
  BY <1>1, <1>2, <1>3, <1>4 DEF PaceAfterGc, Paces
<1>7. InUse(u) = InUse(v) + u.junk /\ InUse(v) \in Nat
  BY <1>2, <1>5 DEF InUse
<1> HIDE DEF q, v
<1>8. s.heap = v.free * HBLKSIZE + InUse(v) * HBLKSIZE
  <2>1. s.heap = u.free * HBLKSIZE + InUse(u) * HBLKSIZE
    BY DEF AddsUp
  <2>2. InUse(u) * HBLKSIZE = InUse(v) * HBLKSIZE + u.junk * HBLKSIZE
    BY <1>2, <1>7, BlockWords
  <2>3. v.free * HBLKSIZE = u.free * HBLKSIZE + u.junk * HBLKSIZE
    BY <1>2, <1>5, BlockWords
  <2> QED BY <2>1, <2>2, <2>3, <1>2, <1>7, BlockWords
<1>9. AddsUp(s, q, v)
  <2>1. q.allocd <= InUse(v) * HBLKSIZE + q.freed
    BY <1>6, <1>7, BlockWords
  <2>2. q.unmapAt <= s.heap /\ q.fail <= gconf.retries + 1
    BY <1>6 DEF AddsUp
  <2> QED BY <1>1, <1>5, <1>6, <1>8, <2>1, <2>2 DEF AddsUp
<1> QED BY <1>9, <1>5, <1>6 DEF q, v

\* A collection that is not stopped, unless collections are off.
LEMMA AfterCollected ==
  ASSUME NEW s, NEW p, NEW u, AddsUp(s, p, u)
  PROVE  /\ AddsUp(s, Collected(p, u).p, Collected(p, u).u)
         /\ Collected(p, u).p.fail = p.fail
         /\ ~gconf.dontGc => Collected(p, u).u.junk = 0
BY AfterGc DEF Collected

\* The heap has grown.
LEMMA AfterGrowth ==
  ASSUME gconf \in GrowthConfigs, AddsUp(size, pace, use), NEW n \in Nat,
         NEW r \in GC_expand_hp_inner(n)
  PROVE  /\ r.ok \in BOOLEAN
         /\ AddsUp(r.s, pace, WithMemory(r.s)) /\ WithMemory(r.s).junk = use.junk
         /\ ~r.ok => r.s = size
<1>1. /\ use \in Uses /\ pace \in Paces /\ size \in Sizes
      /\ use.free \in Nat /\ InUse(use) \in Nat /\ size.heap \in Nat /\ size.left \in 0 .. SystemBlocks
      /\ pace.unmapAt \in Nat
  BY DEF AddsUp, Uses, Paces, Sizes, InUse
<1>2. ASSUME NEW i \in Nat, NEW k \in Nat, k <= size.left,
             r = [ok |-> TRUE, s |-> [heap |-> size.heap + i * HBLKSIZE, left |-> size.left - k]]
      PROVE  AddsUp(r.s, pace, WithMemory(r.s)) /\ WithMemory(r.s).junk = use.junk /\ r.ok = TRUE
  <2> DEFINE s == r.s
             u == WithMemory(r.s)
  <2>1. s.heap = size.heap + i * HBLKSIZE /\ s.left = size.left - k
    BY <1>2
  <2>2. i * HBLKSIZE \in Nat
    BY BlockWords
  <2>3. s \in Sizes
    BY <1>2, <1>1, <2>2, GrowthAssumption DEF Sizes
  <2>4. (s.heap - size.heap) \div HBLKSIZE = i
    <3>1. s.heap - size.heap = i * HBLKSIZE
      BY <2>1, <2>2, <1>1
    <3> QED BY <3>1, WholeBlocks
  <2>5. u = [use EXCEPT !.free = @ + i]
    BY <2>4 DEF WithMemory
  <2>6. /\ u \in Uses /\ u.free = use.free + i /\ u.live = use.live /\ u.fin = use.fin
        /\ u.junk = use.junk /\ u.doomed = use.doomed
    BY <2>5, <1>1 DEF Uses
  <2>7. InUse(u) = InUse(use)
    BY <2>6 DEF InUse
  <2> HIDE DEF s, u
  <2>8. s.heap = u.free * HBLKSIZE + InUse(u) * HBLKSIZE
    <3>1. u.free * HBLKSIZE = use.free * HBLKSIZE + i * HBLKSIZE
      BY <2>6, <1>1, BlockWords
    <3>2. size.heap = use.free * HBLKSIZE + InUse(use) * HBLKSIZE
      BY DEF AddsUp
    <3>3. use.free * HBLKSIZE \in Nat /\ InUse(use) * HBLKSIZE \in Nat
      BY <1>1, BlockWords
    <3> QED BY <3>1, <3>2, <3>3, <2>1, <2>2, <2>7
  <2>9. pace.allocd <= InUse(u) * HBLKSIZE + pace.freed /\ pace.fail <= gconf.retries + 1
    BY <2>7 DEF AddsUp
  <2>10. pace.unmapAt <= s.heap
    <3>1. pace.unmapAt <= size.heap
      BY DEF AddsUp
    <3> QED BY <3>1, <2>1, <2>2, <1>1
  <2>11. AddsUp(s, pace, u)
    BY <1>1, <2>3, <2>6, <2>8, <2>9, <2>10 DEF AddsUp
  <2>12. r.ok = TRUE
    BY <1>2
  <2> QED BY <2>6, <2>11, <2>12 DEF s, u
<1>3. CASE r = [ok |-> FALSE, s |-> size]
  <2>1. r.s = size /\ r.ok = FALSE
    BY <1>3
  <2>2. WithMemory(r.s) = use
    <3>1. size.heap - size.heap = 0 * HBLKSIZE
      BY <1>1, BlockWords
    <3>2. (r.s.heap - size.heap) \div HBLKSIZE = 0
      BY <2>1, <3>1, WholeBlocks
    <3> QED BY <3>2, <1>1 DEF WithMemory, Uses
  <2> QED BY <2>1, <2>2
<1>4. CASE r # [ok |-> FALSE, s |-> size]
  <2> DEFINE k == AtLeastOne(n)
  <2>1. k \in Nat /\ k >= 1
    BY DEF AtLeastOne
  <2>2. PICK i \in IF ExceedsLimit(k * HBLKSIZE) \/ k > size.left THEN {} ELSE {0, k - 1, k} :
          r = [ok |-> TRUE, s |-> [heap |-> size.heap + i * HBLKSIZE, left |-> size.left - k]]
    BY <1>4 DEF GC_expand_hp_inner
  <2> HIDE DEF k
  <2>3. i \in Nat /\ k <= size.left
    BY <2>1, <2>2, <1>1, GrowthAssumption
  <2> QED BY <1>2, <2>1, <2>2, <2>3
<1> QED BY <1>3, <1>4


\* The number of blocks to get is one.
LEMMA ToGet ==
  ASSUME gconf \in GrowthConfigs, AddsUp(size, pace, use), NEW needed \in Nat \ {0},
         NEW ignore \in BOOLEAN
  PROVE  BlocksToGet(needed, ignore) \in Nat
<1> DEFINE usual == (size.heap - pace.unmapAt) \div (HBLKSIZE * FreeSpaceDivisor) + needed
           room == (gconf.max - size.heap) \div HBLKSIZE
<1>1. \A a \in Nat, h, d \in Nat \ {0} : h * d \in Nat \ {0} /\ a \div (h * d) \in Nat
  <2>1. \A a \in Nat, e \in Nat \ {0} : a \div e \in Nat
    OBVIOUS
  <2>2. \A h, d \in Nat \ {0} : h * d \in Nat \ {0}
    OBVIOUS
  <2> QED BY <2>1, <2>2
<1>2. size.heap - pace.unmapAt \in Nat
  BY DEF AddsUp, Sizes, Paces
<1>3. usual \in Nat
  <2>1. HBLKSIZE \in Nat \ {0} /\ FreeSpaceDivisor \in Nat \ {0}
    BY GrowthAssumption
  <2>2. (size.heap - pace.unmapAt) \div (HBLKSIZE * FreeSpaceDivisor) \in Nat
    BY <2>1, <1>1, <1>2
  <2> QED BY <2>2
<1>4. room \in Int
  <2>1. \A a \in Int, h \in Nat \ {0} : a \div h \in Int
    OBVIOUS
  <2>2. gconf.max - size.heap \in Int /\ HBLKSIZE \in Nat \ {0}
    BY Settings, GrowthAssumption DEF AddsUp, Sizes
  <2> QED BY <2>1, <2>2
<1>5. BlackListSlop \in Nat /\ MAXHINCR \in Nat /\ MINHINCR \in Nat
  BY GrowthAssumption
<1> HIDE DEF usual, room
<1>6. \A slop \in Nat :
        \A sized \in {needed + slop, MAXHINCR, MINHINCR, usual} :
           /\ sized \in Nat
           /\ (IF gconf.max > size.heap /\ sized > room THEN IF room > needed THEN room ELSE needed
               ELSE sized) \in Nat
  BY <1>3, <1>4, <1>5
<1> QED BY <1>5, <1>6 DEF BlocksToGet, usual, room

\* The results of an expansion, with what was asked for or what is needed.
LEMMA AfterExpansion ==
  ASSUME gconf \in GrowthConfigs, AddsUp(size, pace, use), NEW needed \in Nat \ {0},
         NEW ignore \in BOOLEAN, NEW r \in Expansions(BlocksToGet(needed, ignore), needed)
  PROVE  /\ r.ok \in BOOLEAN
         /\ AddsUp(r.s, pace, WithMemory(r.s)) /\ WithMemory(r.s).junk = use.junk
         /\ ~r.ok => r.s = size
<1>1. PICK n \in Nat : r \in GC_expand_hp_inner(n)
  BY ToGet DEF Expansions
<1> QED BY <1>1, AfterGrowth

\* The heap has grown since the last collection.
LEMMA AfterPaceGrown ==
  ASSUME NEW s, NEW p, NEW u, AddsUp(s, p, u), NEW ok
  PROVE  AddsUp(s, PaceGrown(p, ok), u) /\ PaceGrown(p, ok).fail = p.fail
<1>1. p \in Paces
  BY DEF AddsUp
<1> DEFINE q == [p EXCEPT !.grown = TRUE]
<1>2. q \in Paces /\ q.fail = p.fail /\ q.allocd = p.allocd /\ q.freed = p.freed /\ q.unmapAt = p.unmapAt
  BY <1>1 DEF Paces
<1> HIDE DEF q
<1>3. AddsUp(s, q, u)
  BY <1>2 DEF AddsUp
<1> QED BY <1>2, <1>3 DEF PaceGrown, q

\* A failure is counted.
LEMMA AfterFailure ==
  ASSUME NEW s, NEW p, NEW u, AddsUp(s, p, u), gconf \in GrowthConfigs, NEW stopped \in BOOLEAN
  PROVE  AddsUp(s, [p EXCEPT !.fail = IF stopped THEN @ ELSE Counted(@)], u)
<1>1. p \in Paces /\ p.fail \in Nat /\ gconf.retries \in Nat /\ p.fail <= gconf.retries + 1
  BY Settings DEF AddsUp, Paces
<1> DEFINE f == IF stopped THEN p.fail ELSE Counted(p.fail)
           q == [p EXCEPT !.fail = f]
<1>2. f \in Nat /\ f <= gconf.retries + 1
  BY <1>1 DEF Counted
<1> HIDE DEF f
<1>3. q \in Paces /\ q.fail = f /\ q.allocd = p.allocd /\ q.freed = p.freed /\ q.unmapAt = p.unmapAt
  BY <1>1, <1>2 DEF Paces
<1> HIDE DEF q
<1>4. AddsUp(s, q, u)
  BY <1>2, <1>3 DEF AddsUp
<1> QED BY <1>4 DEF q, f

\* The finalizers registered by now are remembered.
LEMMA AfterSeen ==
  ASSUME NEW s, NEW p, NEW u, AddsUp(s, p, u)
  PROVE  AddsUp(s, FinalizersSeen(p, u), u) /\ FinalizersSeen(p, u).fail = p.fail
<1>1. p \in Paces /\ GC_fo_entries(u) \in Nat /\ p.finalized \in Nat
  BY DEF AddsUp, Paces, Uses, GC_fo_entries
<1> DEFINE q == FinalizersSeen(p, u)
<1>2. q \in Paces /\ q.fail = p.fail /\ q.allocd = p.allocd /\ q.freed = p.freed /\ q.unmapAt = p.unmapAt
  BY <1>1 DEF Paces, FinalizersSeen
<1> HIDE DEF q
<1>3. AddsUp(s, q, u)
  BY <1>2 DEF AddsUp
<1> QED BY <1>2, <1>3 DEF q


(***************************************************************************)
(* One lemma per action.  What each of them proves is put together with    *)
(* the typing of the call.                                                 *)
(***************************************************************************)

\* The invariant after a step, from its parts.
LEMMA GrowthKept ==
  ASSUME gconf \in GrowthConfigs, gconf' = gconf, call' \in Calls, AddsUp(size', pace', use'),
         (call'.pc \in {"try", "more"} /\ call'.clean /\ ~gconf.dontGc /\ pace'.fail > 0) => use'.junk = 0
  PROVE  GrowthInv'
BY DEF GrowthInv, AddsUp, CollectedSince

\* Between calls.
LEMMA BetweenCalls ==
  ASSUME NEW pc \in {"start", "idle", "exited"}
  PROVE  NoCall(pc) \in Calls /\ NoCall(pc).pc = pc
BY DEF NoCall, Calls

\* The call goes round its loop.
LEMMA GoesRound ==
  ASSUME call \in Calls
  PROVE  /\ Again \in Calls /\ Again.pc = "try" /\ Again.clean = call.clean
         /\ [call EXCEPT !.pc = "more"] \in Calls
         /\ [call EXCEPT !.pc = "more"].clean = call.clean
BY DEF Again, Calls

\* GC_init: the first expansion, or none.
LEMMA GcInitStep == GrowthInv /\ GC_init => GrowthInv'
<1> SUFFICES ASSUME GrowthInv, GC_init PROVE GrowthInv'
  OBVIOUS
<1>1. gconf \in GrowthConfigs /\ AddsUp(size, pace, use)
  BY DEF GrowthInv
<1>2. PICK r \in IF InitialBlocks = 0 THEN {[ok |-> TRUE, s |-> size]} ELSE GC_expand_hp_inner(InitialBlocks),
           precollect \in {TRUE, gconf.incremental} :
         LET u == WithMemory(r.s)
             c == IF precollect THEN Collected(PaceGrown(pace, r.ok), u) ELSE [p |-> PaceGrown(pace, r.ok), u |-> u]
         IN /\ size' = r.s
            /\ pace' = c.p /\ use' = c.u
            /\ call' = NoCall(IF r.ok THEN "idle" ELSE "exited")
  BY DEF GC_init
<1>3. AddsUp(r.s, pace, WithMemory(r.s))
  <2>1. CASE InitialBlocks = 0
    <3>1. r.s = size
      BY <1>2, <2>1
    <3>2. WithMemory(size) = use
      <4>1. size.heap - size.heap = 0 * HBLKSIZE
        BY <1>1, BlockWords DEF AddsUp, Sizes
      <4>2. (size.heap - size.heap) \div HBLKSIZE = 0
        BY <4>1, WholeBlocks
      <4> QED BY <4>2, <1>1 DEF WithMemory, AddsUp, Uses
    <3> QED BY <3>1, <3>2, <1>1
  <2>2. CASE InitialBlocks # 0
    BY <1>1, <1>2, <2>2, AfterGrowth, GrowthAssumption
  <2> QED BY <2>1, <2>2
<1>4. AddsUp(r.s, PaceGrown(pace, r.ok), WithMemory(r.s))
  BY <1>3, AfterPaceGrown
<1>5. AddsUp(size', pace', use')
  BY <1>2, <1>4, AfterCollected
<1>6. call' \in Calls /\ call'.pc \in {"idle", "exited"}
  BY <1>2, BetweenCalls
<1>7. gconf' = gconf
  BY DEF GC_init
<1> QED BY <1>1, <1>5, <1>6, <1>7, GrowthKept

\* A call begins.
LEMMA AllocateStep == GrowthInv /\ Allocate => GrowthInv'
<1> SUFFICES ASSUME GrowthInv, Allocate PROVE GrowthInv'
  OBVIOUS
<1>1. gconf \in GrowthConfigs /\ AddsUp(size, pace, use) /\ call \in Calls
  BY DEF GrowthInv
<1>2. PICK kind \in {"small", "large", "offPage"}, n \in Wanted, done \in MayComplete :
         /\ kind = "small" => n = 1
         /\ call' = [call EXCEPT !.pc = "try", !.kind = kind, !.need = n, !.retry = FALSE,
                                 !.clean = pace.fail = 0]
         /\ pace' = IF done THEN PaceAfterGc(pace, use) ELSE pace
         /\ use' = IF done THEN UseAfterGc(use) ELSE use
  BY DEF Allocate
<1>3. size' = size /\ gconf' = gconf
  BY DEF Allocate
<1>4. AddsUp(size', pace', use') /\ pace'.fail = pace.fail
  BY <1>1, <1>2, <1>3, AfterGc
<1>5. call' \in Calls /\ (call'.clean => pace.fail = 0)
  <2>1. PICK b \in BOOLEAN : b = (pace.fail = 0)
    OBVIOUS
  <2>2. PICK c \in BOOLEAN : c = FALSE
    OBVIOUS
  <2>3. call' = [call EXCEPT !.pc = "try", !.kind = kind, !.need = n, !.retry = c, !.clean = b]
    BY <1>2, <2>1, <2>2
  <2>4. call' \in Calls /\ call'.clean = b
    BY <1>1, <2>3 DEF Calls
  <2> QED BY <2>1, <2>4
<1>6. pace'.fail > 0 => pace.fail # 0
  BY <1>4
<1>7. ~(call'.clean /\ pace'.fail > 0)
  BY <1>5, <1>6, Zenon
<1> QED BY <1>1, <1>3, <1>4, <1>5, <1>7, GrowthKept

\* A call finds a block, and uses it.
LEMMA SucceedStep == GrowthInv /\ Succeed => GrowthInv'
<1> SUFFICES ASSUME GrowthInv, Succeed PROVE GrowthInv'
  OBVIOUS
<1>1. gconf \in GrowthConfigs /\ AddsUp(size, pace, use) /\ call \in Calls
  BY DEF GrowthInv
<1> DEFINE n == call.need
<1>2. /\ use \in Uses /\ use.free \in Nat /\ use.live \in Nat /\ InUse(use) \in Nat /\ pace \in Paces
      /\ pace.allocd \in Nat /\ pace.freed \in Nat /\ size.heap \in Nat
  BY <1>1 DEF AddsUp, Uses, Paces, Sizes, InUse
<1>3. n \in Nat /\ n <= use.free
  BY <1>1, <1>2, GrowthAssumption DEF Succeed, Calls
<1>4. use.free - n \in Nat /\ use.live + n \in Nat /\ n * HBLKSIZE \in Nat
        /\ (use.free - n) * HBLKSIZE \in Nat /\ InUse(use) * HBLKSIZE \in Nat
  <2>1. use.free - n \in Nat /\ use.live + n \in Nat
    BY <1>2, <1>3
  <2> QED BY <2>1, <1>2, <1>3, BlockWords
<1>5. size' = size /\ gconf' = gconf /\ call' = NoCall("idle")
  BY DEF Succeed
<1>6. /\ use' \in Uses /\ use'.free = use.free - n /\ use'.live = use.live + n
      /\ use'.fin = use.fin /\ use'.junk = use.junk /\ use'.doomed = use.doomed
  <2>1. use' = [use EXCEPT !.free = use.free - n, !.live = use.live + n]
    BY <1>2 DEF Succeed, Uses
  <2> HIDE DEF n
  <2> QED BY <2>1, <1>2, <1>4 DEF Uses
<1>7. /\ pace' \in Paces /\ pace'.allocd = pace.allocd + n * HBLKSIZE /\ pace'.fail = 0
      /\ pace'.freed = pace.freed /\ pace'.unmapAt = pace.unmapAt
  <2>1. pace' = [pace EXCEPT !.allocd = pace.allocd + n * HBLKSIZE, !.fail = 0]
    BY <1>2 DEF Succeed, Paces
  <2> HIDE DEF n
  <2>2. pace.allocd + n * HBLKSIZE \in Nat
    BY <1>2, <1>4
  <2> QED BY <2>1, <2>2, <1>2 DEF Paces
<1> HIDE DEF n
<1>8. InUse(use') = InUse(use) + n
  BY <1>2, <1>3, <1>6 DEF InUse, Uses
<1>9. /\ use.free * HBLKSIZE = use'.free * HBLKSIZE + n * HBLKSIZE
      /\ InUse(use') * HBLKSIZE = InUse(use) * HBLKSIZE + n * HBLKSIZE
  <2>1. use.free = (use.free - n) + n
    BY <1>2, <1>3
  <2>2. ((use.free - n) + n) * HBLKSIZE = (use.free - n) * HBLKSIZE + n * HBLKSIZE
    BY <1>3, <1>4, BlockWords
  <2> QED BY <2>1, <2>2, <1>2, <1>3, <1>6, <1>8, BlockWords
<1>10. AddsUp(size', pace', use')
  <2>1. /\ size.heap = use.free * HBLKSIZE + InUse(use) * HBLKSIZE
        /\ pace.allocd <= InUse(use) * HBLKSIZE + pace.freed
        /\ pace.unmapAt <= size.heap
    BY <1>1 DEF AddsUp
  <2>2. size.heap = use'.free * HBLKSIZE + InUse(use') * HBLKSIZE
    BY <2>1, <1>4, <1>6, <1>9
  <2>3. pace'.allocd <= InUse(use') * HBLKSIZE + pace'.freed
    BY <2>1, <1>2, <1>4, <1>7, <1>9
  <2>4. pace'.fail <= gconf.retries + 1
    BY <1>7, <1>1, Settings
  <2>5. size \in Sizes
    BY <1>1 DEF AddsUp
  <2> QED BY <2>1, <2>2, <2>3, <2>4, <2>5, <1>5, <1>6, <1>7 DEF AddsUp
<1>11. call' \in Calls /\ call'.pc = "idle"
  BY <1>5, BetweenCalls
<1> QED BY <1>1, <1>5, <1>10, <1>11, GrowthKept

\* A call finds no block and goes on to GC_collect_or_expand.
LEMMA NotFoundStep == GrowthInv /\ NotFound => GrowthInv'
<1> SUFFICES ASSUME GrowthInv, NotFound PROVE GrowthInv'
  OBVIOUS
<1>1. gconf \in GrowthConfigs /\ AddsUp(size, pace, use) /\ call \in Calls /\ CollectedSince
  BY DEF GrowthInv
<1>2. size' = size /\ gconf' = gconf /\ pace' = pace /\ use' = use /\ call.pc = "try"
  BY DEF NotFound
<1>3. call' \in Calls /\ call'.clean = call.clean
  BY <1>1, GoesRound DEF NotFound
<1> QED BY <1>1, <1>2, <1>3, GrowthKept DEF CollectedSince

\* GC_collect_or_expand collects and the call tries again.
LEMMA CollectFirstStep == GrowthInv /\ CollectFirst => GrowthInv'
<1> SUFFICES ASSUME GrowthInv, CollectFirst PROVE GrowthInv'
  OBVIOUS
<1>1. gconf \in GrowthConfigs /\ AddsUp(size, pace, use) /\ call \in Calls /\ CollectedSince
  BY DEF GrowthInv
<1>2. size' = size /\ gconf' = gconf /\ call' = Again /\ call.pc = "more"
  BY DEF CollectFirst
<1>3. CASE use' = UseAfterGc(use) /\ pace' = FinalizersSeen(PaceAfterGc(pace, use), UseAfterGc(use))
  <2>1. AddsUp(size, PaceAfterGc(pace, use), UseAfterGc(use)) /\ UseAfterGc(use).junk = 0
    BY <1>1, AfterGc
  <2>2. AddsUp(size', pace', use') /\ use'.junk = 0
    BY <2>1, <1>2, <1>3, AfterSeen
  <2> QED BY <1>1, <1>2, <2>2, GoesRound, GrowthKept
<1>4. CASE pace' = FinalizersSeen(pace, use) /\ use' = use
  <2>1. AddsUp(size', pace', use') /\ pace'.fail = pace.fail
    BY <1>1, <1>2, <1>4, AfterSeen
  <2>2. call' \in Calls /\ call'.clean = call.clean
    BY <1>1, <1>2, GoesRound
  <2> QED BY <1>1, <1>2, <1>4, <2>1, <2>2, GrowthKept DEF CollectedSince
<1> QED BY <1>3, <1>4 DEF CollectFirst


\* GC_collect_or_expand grows the heap, collects, or gives up.
LEMMA ExpandStep == GrowthInv /\ Expand => GrowthInv'
<1> SUFFICES ASSUME GrowthInv, Expand PROVE GrowthInv'
  OBVIOUS
<1>1. gconf \in GrowthConfigs /\ AddsUp(size, pace, use) /\ call \in Calls /\ CollectedSince
  BY DEF GrowthInv
<1>2. call.pc = "more" /\ gconf' = gconf
  BY DEF Expand
<1>3. PICK stopped \in StoppedBefore,
           r \in Expansions(BlocksToGet(call.need, call.kind = "offPage"), call.need) :
         /\ size' = r.s
         /\ \/ /\ r.ok
               /\ pace' = PaceGrown(pace, TRUE)
               /\ use' = WithMemory(r.s)
               /\ call' = Again
            \/ /\ ~r.ok /\ ~GiveUp(stopped)
               /\ pace' = Collected([pace EXCEPT !.fail = IF stopped THEN @ ELSE Counted(@)], use).p
               /\ use' = Collected(pace, use).u
               /\ call' = Again
            \/ /\ ~r.ok /\ GiveUp(stopped)
               /\ pace' = [pace EXCEPT !.fail = Counted(@)]
               /\ call' = NoCall("idle")
               /\ UNCHANGED use
  BY DEF Expand
<1>4. call.need \in Nat \ {0} /\ stopped \in BOOLEAN
  <2>1. call.need \in Nat \ {0}
    <3>1. call.need \in Wanted \cup {1}
      BY <1>1 DEF Calls
    <3>2. Wanted \subseteq Nat \ {0} /\ 1 \in Nat \ {0}
      BY GrowthAssumption
    <3> QED BY <3>1, <3>2
  <2>2. StoppedBefore \subseteq BOOLEAN
    BY DEF StoppedBefore
  <2> QED BY <2>1, <2>2
<1>5. /\ AddsUp(r.s, pace, WithMemory(r.s)) /\ WithMemory(r.s).junk = use.junk
      /\ ~r.ok => r.s = size
  <2>1. PICK b \in BOOLEAN : b = (call.kind = "offPage")
    OBVIOUS
  <2>2. r \in Expansions(BlocksToGet(call.need, b), call.need)
    BY <2>1
  <2> QED BY <2>2, <1>1, <1>4, AfterExpansion
<1>6. CASE r.ok /\ pace' = PaceGrown(pace, TRUE) /\ use' = WithMemory(r.s) /\ call' = Again
  <2>1. AddsUp(size', pace', use') /\ pace'.fail = pace.fail /\ use'.junk = use.junk
    BY <1>3, <1>5, <1>6, AfterPaceGrown
  <2>2. call' \in Calls /\ call'.clean = call.clean
    BY <1>1, <1>6, GoesRound
  <2> QED BY <1>1, <1>2, <2>1, <2>2, GrowthKept DEF CollectedSince
<1>7. CASE /\ ~r.ok /\ call' = Again
           /\ pace' = Collected([pace EXCEPT !.fail = IF stopped THEN @ ELSE Counted(@)], use).p
           /\ use' = Collected(pace, use).u
  <2> DEFINE p == [pace EXCEPT !.fail = IF stopped THEN @ ELSE Counted(@)]
  <2>1. AddsUp(size, p, use)
    BY <1>1, <1>4, AfterFailure
  <2>2. pace' = Collected(p, use).p
    BY <1>7
  <2> HIDE DEF p
  <2>3. Collected(pace, use).u = Collected(p, use).u
    BY DEF Collected
  <2>4. size' = size
    BY <1>3, <1>5, <1>7
  <2>5. AddsUp(size', pace', use') /\ (~gconf.dontGc => use'.junk = 0)
    BY <1>7, <2>1, <2>2, <2>3, <2>4, AfterCollected
  <2>6. call' \in Calls
    BY <1>1, <1>7, GoesRound
  <2> QED BY <1>1, <1>2, <2>5, <2>6, GrowthKept
<1>8. CASE ~r.ok /\ pace' = [pace EXCEPT !.fail = Counted(@)] /\ call' = NoCall("idle") /\ use' = use
  <2>1. size' = size
    BY <1>3, <1>5, <1>8
  <2>2. AddsUp(size, [pace EXCEPT !.fail = IF FALSE THEN @ ELSE Counted(@)], use)
    BY <1>1, AfterFailure
  <2>3. AddsUp(size', pace', use')
    BY <1>8, <2>1, <2>2
  <2>4. call' \in Calls /\ call'.pc = "idle"
    BY <1>8, BetweenCalls
  <2> QED BY <1>1, <1>2, <2>3, <2>4, GrowthKept
<1> QED BY <1>3, <1>6, <1>7, <1>8

\* A block changes its use, between calls.
LEMMA BlockMoves ==
  ASSUME GrowthInv, size' = size, gconf' = gconf, call' = call, call.pc = "idle",
         pace' \in Paces, pace'.allocd = pace.allocd, pace'.fail = pace.fail,
         pace'.unmapAt = pace.unmapAt, use' \in Uses,
         \/ use'.free = use.free /\ InUse(use') = InUse(use) /\ pace'.freed = pace.freed
         \/ /\ use'.free = use.free + 1 /\ InUse(use') = InUse(use) - 1
            /\ pace'.freed = pace.freed + HBLKSIZE
  PROVE  GrowthInv'
<1>1. gconf \in GrowthConfigs /\ AddsUp(size, pace, use) /\ call \in Calls
  BY DEF GrowthInv
<1>2. /\ size \in Sizes /\ use \in Uses /\ pace \in Paces
      /\ size.heap = use.free * HBLKSIZE + InUse(use) * HBLKSIZE
      /\ pace.allocd <= InUse(use) * HBLKSIZE + pace.freed
      /\ pace.unmapAt <= size.heap /\ pace.fail <= gconf.retries + 1
  BY <1>1 DEF AddsUp
<1>3. AddsUp(size', pace', use')
  <2>1. CASE use'.free = use.free /\ InUse(use') = InUse(use) /\ pace'.freed = pace.freed
    BY <1>2, <2>1 DEF AddsUp
  <2>2. CASE /\ use'.free = use.free + 1 /\ InUse(use') = InUse(use) - 1
             /\ pace'.freed = pace.freed + HBLKSIZE
    <3>1. /\ use.free \in Nat /\ InUse(use) \in Nat /\ InUse(use') \in Nat
          /\ pace.freed \in Nat /\ pace.allocd \in Nat /\ HBLKSIZE \in Nat
      BY <1>2, BlockWords DEF Uses, InUse, Paces
    <3>2. InUse(use) = InUse(use') + 1
      BY <2>2, <3>1
    <3>3. /\ use'.free * HBLKSIZE = use.free * HBLKSIZE + HBLKSIZE
          /\ InUse(use) * HBLKSIZE = InUse(use') * HBLKSIZE + HBLKSIZE
      BY <2>2, <3>1, <3>2, BlockWords
    <3>4. use.free * HBLKSIZE \in Nat /\ InUse(use') * HBLKSIZE \in Nat
      BY <3>1, BlockWords
    <3>5. /\ size.heap = use'.free * HBLKSIZE + InUse(use') * HBLKSIZE
          /\ pace'.allocd <= InUse(use') * HBLKSIZE + pace'.freed
      BY <1>2, <2>2, <3>1, <3>3, <3>4
    <3> QED BY <1>2, <3>5 DEF AddsUp
  <2> QED BY <2>1, <2>2
<1> QED BY <1>1, <1>3, GrowthKept

\* A finalizer is registered for a live block.
LEMMA RegisterFinalizerStep == GrowthInv /\ RegisterFinalizer => GrowthInv'
<1> SUFFICES ASSUME GrowthInv, RegisterFinalizer PROVE GrowthInv'
  OBVIOUS
<1>1. use \in Uses /\ pace \in Paces
  BY DEF GrowthInv, AddsUp
<1>2. use.live \in Nat /\ use.live - 1 \in Nat /\ use.fin \in Nat /\ use.fin + 1 \in Nat
  BY <1>1 DEF RegisterFinalizer, Uses
<1>3. use' = [use EXCEPT !.live = use.live - 1, !.fin = use.fin + 1]
  BY <1>1 DEF RegisterFinalizer, Uses
<1>4. /\ use' \in Uses /\ use'.free = use.free /\ use'.live = use.live - 1
      /\ use'.fin = use.fin + 1 /\ use'.junk = use.junk /\ use'.doomed = use.doomed
  BY <1>1, <1>2, <1>3 DEF Uses
<1>5. InUse(use') = InUse(use)
  BY <1>1, <1>2, <1>4 DEF InUse, Uses
<1>6. size' = size /\ pace' = pace /\ call' = call /\ gconf' = gconf /\ call.pc = "idle"
  BY DEF RegisterFinalizer
<1> QED BY <1>1, <1>4, <1>5, <1>6, BlockMoves

\* The client drops a block.
LEMMA DropStep == GrowthInv /\ Drop => GrowthInv'
<1> SUFFICES ASSUME GrowthInv, Drop PROVE GrowthInv'
  OBVIOUS
<1>1. use \in Uses /\ pace \in Paces
  BY DEF GrowthInv, AddsUp
<1>2. use.live \in Nat /\ use.fin \in Nat /\ use.junk \in Nat /\ use.doomed \in Nat
  BY <1>1 DEF Uses
<1>3. use' \in Uses /\ use'.free = use.free /\ InUse(use') = InUse(use)
  <2>1. CASE use.live > 0 /\ use' = [use EXCEPT !.live = @ - 1, !.junk = @ + 1]
    <3>1. /\ use' \in Uses /\ use'.free = use.free /\ use'.live = use.live - 1
          /\ use'.fin = use.fin /\ use'.junk = use.junk + 1 /\ use'.doomed = use.doomed
      <4>1. use.live - 1 \in Nat /\ use.junk + 1 \in Nat
        BY <1>2, <2>1
      <4>2. use' = [use EXCEPT !.live = use.live - 1, !.junk = use.junk + 1]
        BY <1>1, <2>1 DEF Uses
      <4> QED BY <1>1, <4>1, <4>2 DEF Uses
    <3> QED BY <1>2, <3>1 DEF InUse
  <2>2. CASE use.fin > 0 /\ use' = [use EXCEPT !.fin = @ - 1, !.doomed = @ + 1]
    <3>1. /\ use' \in Uses /\ use'.free = use.free /\ use'.live = use.live
          /\ use'.fin = use.fin - 1 /\ use'.junk = use.junk /\ use'.doomed = use.doomed + 1
      <4>1. use.fin - 1 \in Nat /\ use.doomed + 1 \in Nat
        BY <1>2, <2>2
      <4>2. use' = [use EXCEPT !.fin = use.fin - 1, !.doomed = use.doomed + 1]
        BY <1>1, <2>2 DEF Uses
      <4> QED BY <1>1, <4>1, <4>2 DEF Uses
    <3> QED BY <1>2, <3>1 DEF InUse
  <2> QED BY <2>1, <2>2 DEF Drop
<1>4. size' = size /\ pace' = pace /\ call' = call /\ gconf' = gconf /\ call.pc = "idle"
  BY DEF Drop
<1> QED BY <1>1, <1>3, <1>4, BlockMoves

\* A block is freed explicitly.
LEMMA GcFreeStep == GrowthInv /\ GC_free => GrowthInv'
<1> SUFFICES ASSUME GrowthInv, GC_free PROVE GrowthInv'
  OBVIOUS
<1>1. use \in Uses /\ pace \in Paces
  BY DEF GrowthInv, AddsUp
<1>2. /\ use.live \in Nat /\ use.live - 1 \in Nat /\ use.free \in Nat /\ use.free + 1 \in Nat
      /\ pace.freed \in Nat /\ pace.freed + HBLKSIZE \in 0 .. MaxFreed
  BY <1>1, GrowthAssumption DEF GC_free, Uses, Paces
<1>3. /\ use' \in Uses /\ use'.free = use.free + 1 /\ use'.live = use.live - 1
      /\ use'.fin = use.fin /\ use'.junk = use.junk /\ use'.doomed = use.doomed
  <2>1. use' = [use EXCEPT !.live = use.live - 1, !.free = use.free + 1]
    BY <1>1 DEF GC_free, Uses
  <2> QED BY <1>1, <1>2, <2>1 DEF Uses
<1>4. InUse(use') = InUse(use) - 1
  BY <1>1, <1>2, <1>3 DEF InUse, Uses
<1>5. /\ pace' \in Paces /\ pace'.allocd = pace.allocd /\ pace'.fail = pace.fail
      /\ pace'.unmapAt = pace.unmapAt /\ pace'.freed = pace.freed + HBLKSIZE
  <2>1. pace' = [pace EXCEPT !.freed = pace.freed + HBLKSIZE]
    BY <1>1 DEF GC_free, Paces
  <2> QED BY <1>1, <1>2, <2>1 DEF Paces
<1>6. size' = size /\ call' = call /\ gconf' = gconf /\ call.pc = "idle"
  BY DEF GC_free
<1> QED BY <1>3, <1>4, <1>5, <1>6, BlockMoves

\* The client asks for a collection.
LEMMA TryToCollectStep == GrowthInv /\ GC_try_to_collect_general => GrowthInv'
<1> SUFFICES ASSUME GrowthInv, GC_try_to_collect_general PROVE GrowthInv'
  OBVIOUS
<1>1. gconf \in GrowthConfigs /\ AddsUp(size, pace, use) /\ call \in Calls
  BY DEF GrowthInv
<1>2. PICK unmap \in BOOLEAN, stopped \in BOOLEAN :
         LET p == IF unmap THEN [pace EXCEPT !.unmapAt = size.heap] ELSE pace
             c == IF stopped THEN [p |-> p, u |-> use] ELSE Collected(p, use)
         IN /\ unmap => ~stopped
            /\ pace' = c.p /\ use' = c.u
  BY DEF GC_try_to_collect_general
<1> DEFINE q == [pace EXCEPT !.unmapAt = size.heap]
           p == IF unmap THEN q ELSE pace
<1>3. AddsUp(size, q, use)
  <2>1. pace \in Paces /\ size.heap \in Nat
    BY <1>1 DEF AddsUp, Sizes
  <2>2. q \in Paces /\ q.allocd = pace.allocd /\ q.freed = pace.freed /\ q.fail = pace.fail
          /\ q.unmapAt = size.heap
    BY <2>1 DEF Paces
  <2> HIDE DEF q
  <2> QED BY <1>1, <2>1, <2>2 DEF AddsUp
<1>4. AddsUp(size, p, use)
  BY <1>1, <1>3
<1>5. \/ pace' = p /\ use' = use
      \/ pace' = Collected(p, use).p /\ use' = Collected(p, use).u
  BY <1>2
<1> HIDE DEF p
<1>6. size' = size /\ call' = call /\ gconf' = gconf /\ call.pc = "idle"
  BY DEF GC_try_to_collect_general
<1>7. AddsUp(size', pace', use')
  BY <1>4, <1>5, <1>6, AfterCollected
<1> QED BY <1>1, <1>6, <1>7, GrowthKept

\* The client asks for a larger heap.
LEMMA ExpandHpStep == GrowthInv /\ GC_expand_hp => GrowthInv'
<1> SUFFICES ASSUME GrowthInv, GC_expand_hp PROVE GrowthInv'
  OBVIOUS
<1>1. gconf \in GrowthConfigs /\ AddsUp(size, pace, use) /\ call \in Calls
  BY DEF GrowthInv
<1>2. PICK n \in Wanted : \E r \in GC_expand_hp_inner(n) :
         /\ r.ok
         /\ size' = r.s /\ use' = WithMemory(r.s) /\ pace' = PaceGrown(pace, TRUE)
  BY DEF GC_expand_hp
<1>3. PICK r \in GC_expand_hp_inner(n) :
         size' = r.s /\ use' = WithMemory(r.s) /\ pace' = PaceGrown(pace, TRUE)
  BY <1>2
<1>4. AddsUp(r.s, pace, WithMemory(r.s))
  BY <1>1, AfterGrowth, GrowthAssumption
<1>5. AddsUp(size', pace', use')
  BY <1>3, <1>4, AfterPaceGrown
<1>6. call' = call /\ gconf' = gconf /\ call.pc = "idle"
  BY DEF GC_expand_hp
<1> QED BY <1>1, <1>5, <1>6, GrowthKept

\* The initial states.
LEMMA GrowthInitial == GrowthInit => GrowthInv
<1> SUFFICES ASSUME GrowthInit PROVE GrowthInv
  OBVIOUS
<1>1. call \in Calls /\ call.pc = "start" /\ gconf \in GrowthConfigs
  BY BetweenCalls DEF GrowthInit
<1>2. AddsUp(size, pace, use)
  <2>1. SystemBlocks \in Nat /\ MaxFreed \in Nat /\ gconf.retries \in Nat
    BY <1>1, GrowthAssumption, Settings
  <2>2. size \in Sizes /\ size.heap = 0
    BY <2>1 DEF GrowthInit, Sizes
  <2>3. use \in Uses /\ use.free = 0 /\ InUse(use) = 0
    BY DEF GrowthInit, Uses, InUse
  <2>4. pace \in Paces /\ pace.allocd = 0 /\ pace.freed = 0 /\ pace.unmapAt = 0 /\ pace.fail = 0
    <3>1. PICK b \in BOOLEAN : b = TRUE
      OBVIOUS
    <3>2. pace = [allocd |-> 0, freed |-> 0, finalized |-> 0, grown |-> b, lastMin |-> 0,
                  lastFo |-> 0, lastFin |-> 0, fail |-> 0, unmapAt |-> 0]
      BY <3>1 DEF GrowthInit
    <3> QED BY <2>1, <3>2 DEF Paces
  <2> QED BY <2>1, <2>2, <2>3, <2>4, BlockWords DEF AddsUp
<1> QED BY <1>1, <1>2 DEF GrowthInv, CollectedSince

\* Every step.
LEMMA GrowthStep == GrowthInv /\ [GrowthNext]_growthVars => GrowthInv'
<1>1. GrowthInv /\ GrowthNext => GrowthInv'
  BY GcInitStep, AllocateStep, SucceedStep, NotFoundStep, CollectFirstStep, ExpandStep,
     RegisterFinalizerStep, DropStep, GcFreeStep, TryToCollectStep, ExpandHpStep
  DEF GrowthNext
<1>2. GrowthInv /\ UNCHANGED growthVars => GrowthInv'
  BY DEF GrowthInv, growthVars, AddsUp, CollectedSince
<1> QED BY <1>1, <1>2

\* The invariant implies the one that the run checks.
LEMMA GrowthInvType == GrowthInv => GrowthTypeOK
<1> SUFFICES ASSUME GrowthInv PROVE GrowthTypeOK
  OBVIOUS
<1>1. /\ gconf \in GrowthConfigs /\ call \in Calls /\ AddsUp(size, pace, use)
      /\ size \in Sizes /\ pace \in Paces /\ use \in Uses
  BY DEF GrowthInv, AddsUp
<1>2. /\ call.pc \in {"start", "idle", "try", "more", "exited"}
      /\ call.need \in Wanted \cup {1} /\ call.retry \in BOOLEAN
  BY <1>1 DEF Calls
<1>3. /\ use.free \in Nat /\ InUse(use) \in Nat
      /\ use.free + use.live + use.fin + use.junk + use.doomed = use.free + InUse(use)
  BY <1>1 DEF Uses, InUse
<1>4. (use.free + InUse(use)) * HBLKSIZE = use.free * HBLKSIZE + InUse(use) * HBLKSIZE
  BY <1>3, BlockWords
<1>5. size.heap = (use.free + use.live + use.fin + use.junk + use.doomed) * HBLKSIZE
  BY <1>1, <1>3, <1>4 DEF AddsUp
<1>6. /\ size.heap \in Nat /\ size.left \in 0 .. SystemBlocks
      /\ pace.allocd \in Nat /\ pace.freed \in 0 .. MaxFreed /\ pace.unmapAt \in Nat /\ pace.fail \in Nat
      /\ gconf.retries \in Nat
  BY <1>1, Settings DEF Sizes, Paces
<1>7. pace.allocd <= size.heap + MaxFreed
  <2>1. use.free * HBLKSIZE \in Nat /\ InUse(use) * HBLKSIZE \in Nat
    BY <1>3, BlockWords
  <2>2. /\ size.heap = use.free * HBLKSIZE + InUse(use) * HBLKSIZE
        /\ pace.allocd <= InUse(use) * HBLKSIZE + pace.freed
    BY <1>1 DEF AddsUp
  <2>3. MaxFreed \in Nat
    BY GrowthAssumption
  <2> QED BY <2>1, <2>2, <2>3, <1>6
<1>8. pace.unmapAt <= size.heap /\ pace.fail <= gconf.retries + 1
  BY <1>1 DEF AddsUp
<1>9. /\ pace.allocd \in 0 .. size.heap + MaxFreed
      /\ pace.fail \in 0 .. gconf.retries + 1 /\ pace.unmapAt \in 0 .. size.heap
  BY <1>6, <1>7, <1>8, GrowthAssumption
<1> QED BY <1>2, <1>5, <1>6, <1>9 DEF GrowthTypeOK

(***************************************************************************)
(* GC_heapsize is what the blocks of the heap add up to, the system is     *)
(* never asked for more than it has, and the bytes counted since the last  *)
(* collection never exceed the heap and what was freed, for every size of  *)
(* blocks, limit, increment and setting.                                   *)
(***************************************************************************)
THEOREM BlocksAddUp == GrowthSpec => []GrowthTypeOK
<1>1. GrowthSpec => []GrowthInv
  BY GrowthInitial, GrowthStep, PTL DEF GrowthSpec
<1> QED BY <1>1, GrowthInvType, PTL

(***************************************************************************)
(* GC_allocobj and GC_alloc_large return NULL after an earlier success     *)
(* only when no garbage is left, for every setting with GC_max_retries and *)
(* collections: GC_collect_or_expand has then been through a collection    *)
(* that nobody may stop, and the program has not moved since.              *)
(***************************************************************************)
THEOREM NullOnlyWhenFull == GrowthSpec => NullWhenFull
<1> DEFINE Null == (call.pc = "more" /\ call'.pc = "idle" /\ call.clean /\ gconf.retries > 0 /\ ~gconf.dontGc)
                     => use.junk = 0
<1>1. GrowthSpec => []GrowthInv
  BY GrowthInitial, GrowthStep, PTL DEF GrowthSpec
<1>2. GrowthInv /\ [GrowthNext]_growthVars => [Null]_growthVars
  <2> SUFFICES ASSUME GrowthInv, GrowthNext, call.pc = "more", call'.pc = "idle", call.clean,
                      gconf.retries > 0, ~gconf.dontGc
               PROVE  use.junk = 0
    OBVIOUS
  <2>1. call \in Calls /\ CollectedSince /\ pace.fail \in Nat /\ gconf.retries \in Nat
    BY Settings DEF GrowthInv, AddsUp, Paces
  <2>2. ~CollectFirst
    BY <2>1, GoesRound DEF CollectFirst
  <2>3. Expand
    BY <2>2 DEF GrowthNext, GC_init, Allocate, Succeed, NotFound, RegisterFinalizer, Drop, GC_free,
       GC_try_to_collect_general, GC_expand_hp
  <2>4. \E stopped \in StoppedBefore : GiveUp(stopped)
    BY <2>1, <2>3, GoesRound DEF Expand
  <2>5. pace.fail > 0
    BY <2>1, <2>4 DEF GiveUp
  <2> QED BY <2>1, <2>5 DEF CollectedSince
<1>3. [][Null]_growthVars <=> NullWhenFull
  BY DEF NullWhenFull
<1> QED BY <1>1, <1>2, <1>3, PTL DEF GrowthSpec
=============================================================================
