------------------------------ MODULE LazyFile ------------------------------
(***************************************************************************)
(* Cords that read a file lazily (CORD_from_file_lazy and CORD_lf_func in  *)
(* cord/cordxtra.c).                                                       *)
(*                                                                         *)
(* The characters come from a direct-mapped cache of lines.  Threads read  *)
(* it without a lock; a miss is served with the allocation lock held, by a *)
(* new line that replaces the old one.  A character is represented by its  *)
(* position in the file.                                                   *)
(***************************************************************************)
EXTENDS Integers, FiniteSets

CONSTANTS
    Reader,       \* threads
    FileLength,   \* characters in the file
    LINE_SZ,      \* characters in a line
    CacheLines,   \* CACHE_SZ / LINE_SZ
    LineId,       \* addresses of lines
    NoLine        \* a null pointer

ASSUME LazyAssumption ==
    /\ FileLength \in Nat /\ {LINE_SZ, CacheLines} \subseteq Nat \ {0}
    /\ NoLine \notin LineId
    /\ Cardinality(LineId) >= CacheLines + Cardinality(Reader)

VARIABLES
    file,      \* the stream: its position, lf_current, and whether it is open
    cache,     \* lf_cache: a line or NoLine in every slot
    line,      \* what each line holds: its tag, and the position its data were read from
    reading    \* each thread's call of CORD_lf_func

lazyVars == <<file, cache, line, reading>>

Position == 0 .. FileLength - 1
LineStart(i) == (i \div LINE_SZ) * LINE_SZ
Tag(i) == i \div LINE_SZ
Slot(i) == (i \div LINE_SZ) % CacheLines

Idle == [pc |-> "idle", i |-> 0, cl |-> NoLine, got |-> 0]

LazyInit ==
    /\ file = [pos |-> 0, current |-> 0, state |-> "open"]
    /\ cache = [s \in 0 .. CacheLines - 1 |-> NoLine]
    /\ line = [l \in LineId |-> [tag |-> 0, from |-> 0, n |-> 0]]
    /\ reading = [t \in Reader |-> Idle]

------------------------------------------------------------------------------
(* CORD_lf_func *)

CORD_lf_func(t) ==
    /\ reading[t].pc = "idle" /\ file.state = "open"
    /\ \E i \in Position :
         reading' = [reading EXCEPT ![t] = [pc |-> "test", i |-> i, cl |-> cache[Slot(i)], got |-> 0]]
    /\ UNCHANGED <<file, cache, line>>

IsHit(cl, i) == cl # NoLine /\ line[cl].tag = Tag(i)

TestTag(t) ==
    /\ reading[t].pc = "test"
    /\ reading' = [reading EXCEPT ![t] =
                     IF IsHit(@.cl, @.i) THEN [@ EXCEPT !.pc = "hit"]
                     ELSE [@ EXCEPT !.pc = "miss", !.cl = NoLine]]
    /\ UNCHANGED <<file, cache, line>>

\* The character at offset i % LINE_SZ of the line, or garbage after its end.
Char(l, i) == IF i % LINE_SZ < l.n THEN l.from + (i % LINE_SZ) ELSE -1

ReadLine(t) ==
    /\ reading[t].pc = "hit"
    /\ \E got \in {Char(line[reading[t].cl], reading[t].i)} :
         reading' = [reading EXCEPT ![t].pc = "done", ![t].cl = NoLine, ![t].got = got]
    /\ UNCHANGED <<file, cache, line>>

\* GC_NEW_ATOMIC: an address that neither the cache nor a thread refers to.
Unused == LineId \ ({cache[s] : s \in DOMAIN cache} \cup {reading[t].cl : t \in Reader})
\* mutated form: the old line is overwritten
ReplacedInPlace(i) == IF cache[Slot(i)] # NoLine THEN cache[Slot(i)] ELSE CHOOSE l \in Unused : TRUE
NewLine(i) == CHOOSE l \in Unused : TRUE

\* fseek unless the stream is already there.
Sought(start) == IF start # file.current THEN start ELSE file.pos

(***************************************************************************)
(* refill_cache, with the allocation lock held: the line is read, tagged   *)
(* and published, in this order, and no other thread sees it before.       *)
(***************************************************************************)
refill_cache(t) ==
    /\ reading[t].pc = "miss"
    /\ LET i     == reading[t].i
           start == LineStart(i)
           from  == Sought(start)
           n     == IF FileLength - from < LINE_SZ THEN FileLength - from ELSE LINE_SZ
           new   == [tag |-> Tag(i), from |-> from, n |-> n]
       IN IF n <= i - start
          THEN /\ file' = [file EXCEPT !.state = "aborted"]
               /\ UNCHANGED <<cache, line, reading>>
          ELSE \E l \in {NewLine(i)} :
                 /\ line' = [line EXCEPT ![l] = new]
                 /\ cache' = [cache EXCEPT ![Slot(i)] = l]
                 /\ file' = [file EXCEPT !.pos = from + n, !.current = start + LINE_SZ]
                 /\ reading' = [reading EXCEPT ![t].pc = "done", ![t].got = Char(new, i)]

\* The character is returned.
Fetched(t) ==
    /\ reading[t].pc = "done"
    /\ reading' = [reading EXCEPT ![t] = Idle]
    /\ UNCHANGED <<file, cache, line>>

\* The finalizer of the state, once no thread has a pointer to the cord.
CORD_lf_close_proc ==
    /\ file.state = "open" /\ \A t \in Reader : reading[t].pc = "idle"
    /\ file' = [file EXCEPT !.state = "closed"]
    /\ UNCHANGED <<cache, line, reading>>

LazyNext ==
    \/ \E t \in Reader : CORD_lf_func(t) \/ TestTag(t) \/ ReadLine(t) \/ refill_cache(t) \/ Fetched(t)
    \/ CORD_lf_close_proc

------------------------------------------------------------------------------
(* Properties *)

(***************************************************************************)
(* A thread gets the character of the file at the position it asks for,    *)
(* although other threads replace lines of the cache under it and the      *)
(* stream is left at its end by a short last line, and refill_cache never  *)
(* aborts.                                                                 *)
(***************************************************************************)
CharsRight ==
    /\ file.state # "aborted"
    /\ \A t \in Reader : reading[t].pc = "done" => reading[t].got = reading[t].i

(***************************************************************************)
(* cord/cordxtra.c: data[i%LINE_SZ] is the i-th character of the file if   *)
(* the tag is i/LINE_SZ, for every line in the cache, each in its slot.    *)
(***************************************************************************)
LinesTagged ==
    \A s \in DOMAIN cache :
        cache[s] # NoLine =>
            LET l == line[cache[s]]
            IN l.tag % CacheLines = s /\ l.from = l.tag * LINE_SZ
=============================================================================
