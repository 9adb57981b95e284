---------------------------- MODULE MCFinalize -----------------------------
(* Finalize for TLC: where the links lie.                                  *)
EXTENDS Finalize

CONSTANTS a, b, c, word1, word2, word3

\* one short link lies in an object, the other links outside of the heap
MCHome == [l \in Link |-> IF l = word1 THEN a ELSE Null]
=============================================================================
