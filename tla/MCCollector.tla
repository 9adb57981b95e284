---------------------------- MODULE MCCollector ----------------------------
(* Small instances of Collector for TLC: which objects share a block, and   *)
(* the kinds of the two blocks.                                             *)
EXTENDS Collector, TLC

CONSTANTS a, b, c

MCBlockOf == [o \in Obj |-> IF o = c THEN 2 ELSE 1]
NormalKinds == [x \in 1..NBlocks |-> "normal"]
\* the first block holds uncollectable objects, the second a normal one
UncollectableFirst == <<"uncollectable", "normal">>

\* the objects of the first block are interchangeable
BlockMates == Permutations({a, b})
=============================================================================
