---------------------------- MODULE AtomicStop -----------------------------
(***************************************************************************)
(* What stopping the world promises to the rest of the collector, as       *)
(* Collector.tla uses it (StopWorld, and the guard ~WorldStopped of the    *)
(* client's actions): stopping and starting are one step each, a stopped   *)
(* world does nothing, and it is never stopped in the middle of setting a  *)
(* dirty bit.                                                              *)
(***************************************************************************)
CONSTANTS Thread,    \* the threads other than the one that collects
          Nobody

VARIABLES stopped,   \* the world is stopped
          dirtying   \* the thread that is setting a dirty bit

Init == stopped = FALSE /\ dirtying = Nobody

Stop == /\ ~stopped /\ dirtying = Nobody
        /\ stopped' = TRUE
        /\ UNCHANGED dirtying
Start == /\ stopped
         /\ stopped' = FALSE
         /\ UNCHANGED dirtying

\* A thread begins and ends the critical section of GC_dirty.
Begin(t) == /\ ~stopped /\ dirtying = Nobody
            /\ dirtying' = t
            /\ UNCHANGED stopped
End(t) == /\ ~stopped /\ dirtying = t
          /\ dirtying' = Nobody
          /\ UNCHANGED stopped

Next == Stop \/ Start \/ \E t \in Thread : Begin(t) \/ End(t)
Spec == Init /\ [][Next]_<<stopped, dirtying>>
=============================================================================
