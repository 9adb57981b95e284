---------------------------- MODULE MCStopWorld ----------------------------
(* StopWorld for TLC: two threads that are interchangeable, and signals    *)
(* that all arrive and are sent again all the same.                        *)
EXTENDS StopWorld, TLC

CONSTANTS t1, t2

Threads == Permutations({t1, t2})
Resending == {[retry |-> TRUE, other |-> FALSE, stops |-> 2, lost |-> 0]}
=============================================================================
