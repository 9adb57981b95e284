------------------------------ MODULE RootSet ------------------------------
(* What the table of static roots promises: a set of words to be scanned,   *)
(* part of which, the data of dynamic libraries, lasts only until the       *)
(* libraries are registered again.  How the words are kept in intervals,    *)
(* found again and merged is not visible.  Implemented by Roots.            *)
EXTENDS Integers

CONSTANT Word
VARIABLES
  words,        \* what is scanned
  lasting,      \* what was added for good
  libs,         \* the data of the libraries that are loaded now
  noAccess      \* memory that may not be touched

Intervals == {{w \in Word : b <= w /\ w <= e} : b, e \in Word}

RootSetInit == words = {} /\ lasting = {}

\* An interval that is added for good may turn temporary words into lasting ones.
Added(W) ==
  /\ words' = words \cup W
  /\ lasting \cup W \subseteq lasting' /\ lasting' \subseteq words'
  /\ UNCHANGED <<libs, noAccess>>
\* Removing an interval touches nothing outside of it.
Removed(W) ==
  /\ words' \subseteq words /\ lasting' \subseteq lasting
  /\ words \ W = words' \ W /\ lasting \ W = lasting' \ W
  /\ UNCHANGED <<libs, noAccess>>
Registered ==
  /\ lasting' = lasting \ noAccess
  /\ words' = lasting' \cup libs
  /\ UNCHANGED <<libs, noAccess>>
Cleared == words' = {} /\ lasting' = {} /\ UNCHANGED <<libs, noAccess>>
Loaded == UNCHANGED <<words, lasting>>

RootSetNext ==
  \/ Loaded \/ Registered \/ Cleared
  \/ \E W \in Intervals : Added(W) \/ Removed(W)
RootSetSpec == RootSetInit /\ [][RootSetNext]_<<words, lasting, libs, noAccess>>
=============================================================================
