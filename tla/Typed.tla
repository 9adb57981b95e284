------------------------------- MODULE Typed -------------------------------
(* Typed allocation (typd_mlc.c): descriptors that tell the marker which    *)
(* words of an object are pointers.  Short ones are a length or a bitmap;   *)
(* long ones are in a table, GC_ext_descriptors, that threads extend with    *)
(* the allocation lock released in between; arrays have trees of them.       *)
(* Sizes are in words: a bitmap is the set of the words that are pointers.   *)
EXTENDS Integers, Sequences, FiniteSets, FiniteSetsExt, SequencesExt

CONSTANTS
  TypThread,
  WORDSZ, BITMAP_BITS, ED_INITIAL_SIZE, MAX_ENV, OPT_THRESHOLD,
  Bitmaps,      \* what clients pass: [bm, len]; bm may have bits beyond len
  ArraySizes,   \* [n, size]: numbers and sizes of elements
  Rooms,        \* free entries of the mark stack
  MaxMade       \* how many descriptors are made

\* Half of an array that is halved has more than one element.
ASSUME TypedAssumption == BITMAP_BITS < WORDSZ /\ OPT_THRESHOLD >= 3

VARIABLES
  typing,       \* GC_explicit_typing_initialized
  inits,        \* calls of GC_init_explicit_typing
  ext,          \* GC_ext_descriptors
  edSize,       \* GC_ed_size
  availDescr,   \* GC_avail_descr
  ty,           \* where each thread is in GC_make_descriptor, and its ed_size
  made,         \* descriptors and what they were made from
  arr           \* the array that was allocated last, and what the marker pushed
typedVars == <<typing, inits, ext, edSize, availDescr, ty, made, arr>>
edVars == <<ext, edSize, availDescr>>

Length(n) == [tag |-> "length", n |-> n, bits |-> {}]
Bitmap(S) == [tag |-> "bitmap", n |-> 0, bits |-> S]
Proc(env) == [tag |-> "proc", n |-> env, bits |-> {}]
TyIdle == [pc |-> "idle", arg |-> [bm |-> {}, len |-> 0], edSize |-> 0]
NoEntry == [bitmap |-> {}, continued |-> FALSE]
NoArray == [kind |-> "none"]

TypedInit ==
  /\ typing = FALSE /\ inits = 0
  /\ ext = <<>> /\ edSize = 0 /\ availDescr = 0
  /\ ty = [t \in TypThread |-> TyIdle] /\ made = {} /\ arr = NoArray

-----------------------------------------------------------------------------
\* GC_make_descriptor
Pointers(arg) == {b \in arg.bm : b < arg.len}
LastSetBit(arg) == Max(Pointers(arg))
Returned(t, d, failed) ==
  /\ made' = made \cup {[arg |-> ty[t].arg, d |-> d, failed |-> failed]}
  /\ ty' = [ty EXCEPT ![t] = TyIdle]

\* The flag is tested without the lock, and again with it.
NotYet == ~typing
CallMakeDescriptor(t, arg) ==
  /\ ty[t].pc = "idle" /\ Cardinality(made) < MaxMade
  /\ ty' = [ty EXCEPT ![t].pc = IF typing THEN "make" ELSE "init", ![t].arg = arg]
  /\ UNCHANGED <<typing, inits, edVars, made, arr>>
GC_init_explicit_typing(t) ==
  /\ ty[t].pc = "init"
  /\ typing' = TRUE /\ inits' = IF NotYet THEN inits + 1 ELSE inits
  /\ ty' = [ty EXCEPT ![t].pc = "make"]
  /\ UNCHANGED <<edVars, made, arr>>

Dense(arg) == Pointers(arg) = 0..LastSetBit(arg)
GC_make_descriptor(t) ==
  LET arg == ty[t].arg
  IN  /\ ty[t].pc = "make"
      /\ \/ Pointers(arg) = {} /\ Returned(t, Length(0), FALSE)
         \/ /\ Pointers(arg) # {} /\ Dense(arg)
            /\ Returned(t, Length(LastSetBit(arg) + 1), FALSE)
         \/ /\ Pointers(arg) # {} /\ ~Dense(arg) /\ LastSetBit(arg) < BITMAP_BITS
            /\ Returned(t, Bitmap(Pointers(arg)), FALSE)
         \/ /\ Pointers(arg) # {} /\ ~Dense(arg) /\ LastSetBit(arg) >= BITMAP_BITS
            /\ ty' = [ty EXCEPT ![t].pc = "add"] /\ UNCHANGED made
      /\ UNCHANGED <<typing, inits, edVars, arr>>

\* GC_add_ext_descriptor: with the lock, as long as there is room.
NWords(arg) == (LastSetBit(arg) + WORDSZ) \div WORDSZ
Conservative(t) == Returned(t, Length(LastSetBit(ty[t].arg) + 1), TRUE)
RelevantBits(arg) == {b \in arg.bm : b <= LastSetBit(arg)}
EntryOf(arg, i) ==
  [bitmap |-> {b - i * WORDSZ : b \in {c \in RelevantBits(arg) : c \div WORDSZ = i}},
   continued |-> i < NWords(arg) - 1]
Enter(t, table) ==
  LET arg == ty[t].arg
  IN  /\ ext' = [k \in 1..Len(table) |->
                  IF k - 1 \in availDescr..(availDescr + NWords(arg) - 1)
                  THEN EntryOf(arg, k - 1 - availDescr) ELSE table[k]]
      /\ availDescr' = availDescr + NWords(arg)
      /\ Returned(t, Proc(availDescr), FALSE)
TooSmall(t, size) == availDescr + NWords(ty[t].arg) >= size
AddOrUnlock(t, table, size) ==
  /\ edSize' = size
  /\ \/ ~TooSmall(t, size) /\ Enter(t, table)
     \/ /\ TooSmall(t, size)
        /\ ty' = [ty EXCEPT ![t].pc = "grow", ![t].edSize = size]
        /\ ext' = table
        /\ UNCHANGED <<availDescr, made>>
GC_add_ext_descriptor(t) ==
  /\ ty[t].pc = "add"
  /\ AddOrUnlock(t, ext, edSize)
  /\ UNCHANGED <<typing, inits, arr>>
\* Without the lock: a new table.  It is used if the size is still the same.
StillTheSize(t) == ty[t].edSize = edSize
NewSize(t) == IF ty[t].edSize = 0 THEN ED_INITIAL_SIZE ELSE 2 * ty[t].edSize
NewTable(t) == [k \in 1..NewSize(t) |-> IF k <= availDescr THEN ext[k] ELSE NoEntry]
GrowTable(t) ==
  /\ ty[t].pc = "grow"
  /\ \/ Conservative(t) /\ UNCHANGED edVars              \* no memory
     \/ NewSize(t) > MAX_ENV /\ Conservative(t) /\ UNCHANGED edVars
     \/ /\ NewSize(t) <= MAX_ENV
        /\ IF StillTheSize(t) THEN AddOrUnlock(t, NewTable(t), NewSize(t))
                              ELSE AddOrUnlock(t, ext, edSize)
  /\ UNCHANGED <<typing, inits, arr>>

-----------------------------------------------------------------------------
\* What the marker looks at.
RECURSIVE GC_typed_mark_proc(_, _)
GC_typed_mark_proc(addr, env) ==
  IF env >= Len(ext) THEN {}
  ELSE {addr + b : b \in ext[env + 1].bitmap}
         \cup IF ext[env + 1].continued THEN GC_typed_mark_proc(addr + WORDSZ, env + 1) ELSE {}
Scanned(addr, d) ==
  CASE d.tag = "length" -> addr..(addr + d.n - 1)
    [] d.tag = "bitmap" -> {addr + b : b \in d.bits}
    [] d.tag = "proc"   -> GC_typed_mark_proc(addr, d.n)

\* GC_bm_table and GC_double_descr: two elements in one bitmap.  Bits that are
\* shifted out at its end are lost.
GC_bm_table(n) == Bitmap(0..(n - 1))
GC_double_descr(d, nwords) ==
  LET bits == IF d.tag = "length" THEN GC_bm_table(d.n).bits ELSE d.bits
  IN  Bitmap({b \in bits \cup {c + nwords : c \in bits} : b < BITMAP_BITS})

Simple(d) == [kind |-> "simple", d |-> d, size |-> 0, n |-> 0]
Leaf(size, n, d) == [kind |-> "leaf", d |-> d, size |-> size, n |-> n]
Sequence2(a, b) == [kind |-> "sequence", first |-> a, second |-> b]
\* mutated form: the last element of an odd number is not described
EvenPart(n, size, d, half) == half
WithOdd(n, size, d, half) ==
  IF n % 2 = 0 THEN half
  ELSE Sequence2(IF half.kind = "simple" THEN Leaf(size, 1, half.d) ELSE half, Leaf(size, 1, d))
MayDouble(n, size, d) == n > OPT_THRESHOLD /\ size <= BITMAP_BITS \div 2 /\ d.tag # "proc"
RECURSIVE GC_make_array_descriptor(_, _, _)
GC_make_array_descriptor(n, size, d) ==
  IF d = Length(size) THEN Simple(Length(n * size))
  ELSE IF d = Length(0) THEN Simple(d)
  ELSE IF n <= OPT_THRESHOLD /\ n <= 1 THEN Simple(IF n = 1 THEN d ELSE Length(0))
  ELSE IF MayDouble(n, size, d)
  THEN WithOdd(n, size, d, GC_make_array_descriptor(n \div 2, 2 * size,
                                                    GC_double_descr(d, size)))
  ELSE Leaf(size, n, d)

\* GC_calloc_explicitly_typed: a leaf is inside of the object, a sequence is
\* an object of its own with a disappearing link to it; failures return NULL.
LeafWords == 4
GC_calloc_explicitly_typed(n, size, d) ==
  /\ typing
  /\ \/ arr' = NoArray
     \/ \E c \in {GC_make_array_descriptor(n, size, d)} :
          arr' = [kind |-> "array", n |-> n, size |-> size, d |-> d, descr |-> c, pushed |-> {},
                  words |-> n * size + 1 + (IF c.kind = "leaf" THEN LeafWords ELSE 0),
                  whole |-> FALSE]
  /\ UNCHANGED <<typing, inits, edVars, ty, made>>

\* GC_push_complex_descriptor: entries for the elements, if they fit.
RECURSIVE GC_descr_obj_size(_)
GC_descr_obj_size(c) ==
  IF c.kind = "sequence" THEN GC_descr_obj_size(c.first) + GC_descr_obj_size(c.second)
  ELSE c.n * c.size
Failed == [ok |-> FALSE, entries |-> {}, room |-> 0]
RECURSIVE GC_push_complex_descriptor(_, _, _)
GC_push_complex_descriptor(addr, c, room) ==
  IF c.kind = "leaf"
  THEN IF room <= c.n THEN Failed
       ELSE [ok |-> TRUE, room |-> room - c.n,
             entries |-> {[start |-> addr + i * c.size, d |-> c.d] : i \in 0..(c.n - 1)}]
  ELSE LET a == GC_push_complex_descriptor(addr, c.first, room)
           b == GC_push_complex_descriptor(addr + GC_descr_obj_size(c.first), c.second, a.room)
       IN  IF a.ok /\ b.ok THEN [b EXCEPT !.entries = @ \cup a.entries] ELSE Failed

\* The whole array is pushed if its elements do not fit.  An array with a
\* simple descriptor is an object of GC_explicit_kind: it has no other entry.
Simply == arr.descr.kind = "simple"
GC_array_mark_proc(room) ==
  /\ arr.kind = "array" /\ arr.pushed = {}
  /\ \/ Simply /\ arr' = [arr EXCEPT !.pushed = {[start |-> 0, d |-> arr.descr.d]}]
     \/ /\ ~Simply
        /\ \E p \in {GC_push_complex_descriptor(0, arr.descr, room - 1)} :
             arr' = [arr EXCEPT !.whole = ~p.ok,
                                !.pushed = IF p.ok THEN p.entries \cup
                                             {[start |-> arr.words - 1, d |-> Length(1)]}
                                           ELSE {[start |-> 0, d |-> Length(arr.words)]}]
  /\ UNCHANGED <<typing, inits, edVars, ty, made>>

TypedNext ==
  \/ \E t \in TypThread :
       \/ \E arg \in Bitmaps : CallMakeDescriptor(t, arg)
       \/ GC_init_explicit_typing(t) \/ GC_make_descriptor(t)
       \/ GC_add_ext_descriptor(t) \/ GrowTable(t)
  \/ \E s \in ArraySizes, x \in made :
       /\ \A t \in TypThread : ty[t].pc = "idle"
       /\ Scanned(0, x.d) \subseteq 0..(s.size - 1)
       /\ GC_calloc_explicitly_typed(s.n, s.size, x.d)
  \/ \E room \in Rooms : GC_array_mark_proc(room)
TypedSpec == TypedInit /\ [][TypedNext]_typedVars

-----------------------------------------------------------------------------
\* Types.  The table has room for what is in it, and typed allocation is
\* initialized once although threads race for it.
TypedTypeOK ==
  /\ typing \in BOOLEAN /\ inits = (IF typing THEN 1 ELSE 0)
  /\ Len(ext) = edSize /\ (availDescr < edSize \/ edSize = 0) /\ edSize <= MAX_ENV
  /\ \A t \in TypThread : ty[t].pc \in {"idle", "init", "make", "add", "grow"}

\* Every descriptor describes what it was made for, however the table has been
\* extended and copied since: no pointer is missed, and nothing else is looked
\* at, unless there was no memory for the table.
DescriptorsExact ==
  \A x \in made :
    LET S == Scanned(0, x.d)
    IN  IF x.failed THEN Pointers(x.arg) \subseteq S /\ S = 0..LastSetBit(x.arg)
        ELSE S = Pointers(x.arg)

ElementWords == {i * arr.size + w : i \in 0..(arr.n - 1), w \in Scanned(0, arr.d)}
PushedWords == UNION {Scanned(e.start, e.d) : e \in arr.pushed}
\* Marking an array looks at the pointers of all its elements and, if it has
\* one, at the word that holds the address of its descriptor; at more only if the mark stack is too small.
ArraysExact ==
  arr.kind = "array" /\ arr.pushed # {} =>
    IF arr.whole THEN PushedWords = 0..(arr.words - 1)
    ELSE PushedWords = ElementWords \cup (IF Simply THEN {} ELSE {arr.words - 1})

\* Descriptors and arrays are scanned as their makers said.
TypedSound == TypedTypeOK /\ DescriptorsExact /\ ArraysExact
=============================================================================
