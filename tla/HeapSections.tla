----------------------------- MODULE HeapSections -----------------------------
(***************************************************************************)
(* The memory that the collector gets from the system and what becomes of  *)
(* it: heap sections (GC_expand_hp_inner and GC_add_to_heap in alloc.c),   *)
(* and tables, which are taken from a scratch area (GC_scratch_alloc in    *)
(* headers.c) and recycled into the heap when they are replaced.           *)
(*                                                                         *)
(* The system places memory anywhere in an address space of NPages pages;  *)
(* addresses are words of that space and wrap around.  HeapGrowth models   *)
(* when the heap grows and by how much, HeapBlocks what happens inside it. *)
(* All of this runs with the allocation lock held.                         *)
(***************************************************************************)
EXTENDS Integers, FiniteSets, Sequences, SequencesExt

CONSTANTS
    NPages,              \* pages of the address space; a block (HBLKSIZE) is a page
    PageWords,           \* HBLKSIZE, in words
    LeastIncrement,      \* MINHINCR, in blocks
    Increments,          \* numbers of blocks by which the heap is to grow
    Slops,               \* values of expansion_slop
    HeapLimits,          \* values of GC_max_heapsize, 0 for none
    FirstCapacity,       \* INITIAL_HEAP_SECTS
    SectWords,           \* words of an entry of GC_heap_sects
    TableWords           \* sizes of other tables that are replaced (the mark stack)

ASSUME SectionsAssumption ==
    /\ {NPages, PageWords, LeastIncrement, SectWords} \subseteq Nat \ {0}
    /\ FirstCapacity \in Nat /\ FirstCapacity >= 2
    /\ Increments \subseteq Nat /\ Slops \subseteq Nat /\ HeapLimits \subseteq Nat
    /\ TableWords \subseteq Nat \ {0}

VARIABLES
    mem,       \* the memory obtained and the tables that describe it
    maxHeap    \* GC_max_heapsize

sectionVars == <<mem, maxHeap>>

------------------------------------------------------------------------------
(* Words and pages *)

W == NPages * PageWords

\* GC_WORD_MAX, the first value of GC_least_plausible_heap_addr.
WordMax == W - 1

PagesFor(words) == (words + PageWords - 1) \div PageWords

\* The pages of bytes words from address a.
SectionPages(a, bytes) == {i \in 0 .. NPages - 1 : i * PageWords >= a /\ i * PageWords < a + bytes}

\* GET_MEM: the system refuses (0), or gives n pages in a row, never page 0.
GET_MEM(m, n) ==
    {[m |-> m, a |-> 0]}
      \cup {[m |-> [m EXCEPT !.got = @ \cup i .. i + n - 1], a |-> i * PageWords]
              : i \in {k \in 1 .. NPages - n : k .. k + n - 1 \cap m.got = {}}}

------------------------------------------------------------------------------
(* Memory for the collector's own tables *)

FromScratch(m, words) == [m |-> [m EXCEPT !.sfree = @ + words], a |-> m.sfree]

\* A new scratch area; what was left of the old one is never used.
NewScratch(g) == [g.m EXCEPT !.sfree = g.a, !.send = g.a + LeastIncrement * PageWords]

GC_scratch_alloc(m, words) ==
    IF words <= m.send - m.sfree THEN {FromScratch(m, words)}
    ELSE IF words >= LeastIncrement * PageWords THEN GET_MEM(m, PagesFor(words))
    ELSE UNION {IF g.a = 0 THEN GET_MEM(m, PagesFor(words))
                ELSE {FromScratch(NewScratch(g), words)} : g \in GET_MEM(m, LeastIncrement)}

------------------------------------------------------------------------------
(* GC_add_to_heap *)

\* Memory near address zero is left out.
Start(p) == IF p <= PageWords THEN 2 * PageWords ELSE p

\* So is the last page of the address space, whose end is address 0.
EndUnwrapped(p, endp) == IF endp <= p THEN endp - PageWords + W ELSE endp

LeastAfter(least, p) == IF p <= least \/ least = 0 THEN p - 1 ELSE least

GreatestAfter(greatest, endp) == IF endp % W >= greatest THEN endp % W ELSE greatest

Section(m, p, endp) ==
    [m EXCEPT !.sects = Append(@, <<p, endp>>),
              !.heapsize = @ + endp - p,
              !.least = LeastAfter(@, p),
              !.greatest = GreatestAfter(@, endp)]

(***************************************************************************)
(* The results of adding bytes words at p when GC_heap_sects has room: the *)
(* section is added, or there is no memory for its header, or nothing is   *)
(* left of it.                                                             *)
(***************************************************************************)
AddSection(m, p, bytes) ==
    LET first == Start(p)
        endp  == EndUnwrapped(p, (p + bytes) % W)
    IN IF first >= endp THEN {m} ELSE {m, Section(m, first, endp)}

\* The whole pages of a table that is no longer needed.
\* mutated form: the pages at the ends as well
PagesTouched(a, words) ==
    [a |-> (a \div PageWords) * PageWords, n |-> PagesFor(words) * PageWords]
WholePages(a, words) ==
    LET displ == (-a) % PageWords
    IN IF words > displ
       THEN [a |-> a + displ, n |-> ((words - displ) \div PageWords) * PageWords]
       ELSE [a |-> a, n |-> 0]

\* They become part of the heap, by Add.
Recycled(m, r, Add(_, _, _)) ==
    IF r.n = 0 THEN {m}
    ELSE {[x EXCEPT !.recycled = @ + x.heapsize - m.heapsize] : x \in Add(m, r.a, r.n)}

\* A larger GC_heap_sects: twice as large, or at least large enough.
Sufficient(n) == n + FirstCapacity
GrowSects(m) ==
    LET n   == Len(m.sects)
        big == IF n > 0 THEN 2 * n ELSE FirstCapacity
        Try(x, cap) == {[g EXCEPT !.m.cap = cap, !.m.arr = g.a] : g \in GC_scratch_alloc(x, cap * SectWords)}
    IN UNION {IF t.a # 0 THEN {t} ELSE Try(m, Sufficient(n)) : t \in Try(m, big)}

\* The old array is recycled; its section finds room in the new one.
AddToHeap(m, p, bytes) ==
    IF Len(m.sects) < m.cap THEN AddSection(m, p, bytes)
    ELSE UNION {IF t.a = 0 THEN {[m EXCEPT !.aborted = TRUE]}
                ELSE UNION {IF m.cap > 0 /\ Len(x.sects) > Len(m.sects)
                            THEN Recycled(x, WholePages(m.arr, m.cap * SectWords), AddSection)
                            ELSE {x} : x \in AddSection(t.m, p, bytes)}
                  : t \in GrowSects(m)}

GC_scratch_recycle_inner(m, a, words) == Recycled(m, WholePages(a, words), AddToHeap)

------------------------------------------------------------------------------
(* The heap grows *)

ExceedsLimit(m, bytes) ==
    /\ maxHeap # 0
    /\ maxHeap < bytes \/ m.heapsize > maxHeap - bytes

\* Whether the heap seems to grow up.
GrowsUp(m, space) ==
    \/ m.last = 0 /\ space < W \div 2
    \/ m.last # 0 /\ m.last < space
\* Adjust the limits generously for black listing to work better.
Generous(m, space, bytes, slop) ==
    LET above == (space + bytes + slop) % W
        below == (space - slop) % W
        m1    == IF GrowsUp(m, space)
                 THEN IF above > space /\ m.greatest < above THEN [m EXCEPT !.greatest = above] ELSE m
                 ELSE IF below < space /\ m.least > below THEN [m EXCEPT !.least = below] ELSE m
    IN [m1 EXCEPT !.last = space]

AtLeastOne(n) == IF n = 0 THEN 1 ELSE n

\* The results of GC_expand_hp_inner(n): whether it succeeds, and the memory.
GC_expand_hp_inner(m, n, slop) ==
    IF ExceedsLimit(m, AtLeastOne(n) * PageWords) THEN {[ok |-> FALSE, m |-> m]}
    ELSE UNION {IF g.a = 0 THEN {[ok |-> FALSE, m |-> m]}
                ELSE {[ok |-> TRUE, m |-> x] :
                        x \in AddToHeap(Generous(g.m, g.a, AtLeastOne(n) * PageWords, slop),
                                             g.a, AtLeastOne(n) * PageWords)}
                  : g \in GET_MEM(m, AtLeastOne(n))}

------------------------------------------------------------------------------
SectionsInit ==
    /\ mem = [got |-> {}, sects |-> <<>>, cap |-> 0, arr |-> 0, sfree |-> 0, send |-> 0,
              table |-> 0, words |-> 0, heapsize |-> 0, recycled |-> 0,
              least |-> WordMax, greatest |-> 0, last |-> 0, aborted |-> FALSE]
    /\ maxHeap \in HeapLimits

\* The heap grows, on behalf of GC_init, of an allocation or of GC_expand_hp.
GrowHeap ==
    /\ ~mem.aborted
    /\ \E n \in Increments, slop \in Slops :
          \E r \in GC_expand_hp_inner(mem, n, slop) : r.ok /\ mem' = r.m
    /\ UNCHANGED maxHeap

(***************************************************************************)
(* A larger mark stack is allocated and the old one is recycled, or there  *)
(* is no memory for it: at the start the program then exits, later nothing *)
(* happens.                                                                *)
(***************************************************************************)
alloc_mark_stack ==
    /\ ~mem.aborted
    /\ \E words \in {w \in TableWords : w > mem.words} :
          \E g \in GC_scratch_alloc(mem, words) :
             IF g.a = 0 THEN mem.words = 0 /\ mem' = [mem EXCEPT !.aborted = TRUE]
             ELSE \E x \in IF mem.words = 0 THEN {g.m}
                           ELSE GC_scratch_recycle_inner(g.m, mem.table, mem.words) :
                     mem' = [x EXCEPT !.table = g.a, !.words = words]
    /\ UNCHANGED maxHeap

SectionsNext == GrowHeap \/ alloc_mark_stack

SectionsSpec == SectionsInit /\ [][SectionsNext]_sectionVars

------------------------------------------------------------------------------
(* Properties *)

\* Addresses stay in the address space and GC_heap_sects has room for its entries.
SectionsTypeOK ==
    /\ mem.got \subseteq 1 .. NPages - 1
    /\ mem.least \in 0 .. WordMax /\ mem.greatest \in 0 .. WordMax
    /\ \A i \in DOMAIN mem.sects : mem.sects[i] \in (1 .. WordMax) \X (1 .. WordMax)
    /\ Len(mem.sects) <= mem.cap /\ mem.sfree <= mem.send
    /\ maxHeap \in HeapLimits

(***************************************************************************)
(* Every word of the heap lies between GC_least_plausible_heap_addr and    *)
(* GC_greatest_plausible_heap_addr, wherever the system placed the         *)
(* sections and in whatever order: the marker takes nothing outside for a  *)
(* pointer, so an object there would be freed while in use.                *)
(***************************************************************************)
HeapPlausible ==
    \A i \in DOMAIN mem.sects :
        mem.least <= mem.sects[i][1] /\ mem.sects[i][2] <= mem.greatest

(***************************************************************************)
(* Heap sections are disjoint memory that the system gave, none of it      *)
(* still in use for GC_heap_sects or for later tables, and the sections    *)
(* add up to GC_heapsize, although tables are recycled into the heap.      *)
(***************************************************************************)
SectionsOwned ==
    LET pages == {SectionPages(s[1], s[2] - s[1]) : s \in Range(mem.sects)}
        inTables == {i \in 0 .. NPages - 1 :
                       \/ i * PageWords < mem.arr + mem.cap * SectWords /\ (i + 1) * PageWords > mem.arr
                       \/ i * PageWords < mem.table + mem.words /\ (i + 1) * PageWords > mem.table
                       \/ i * PageWords < mem.send /\ (i + 1) * PageWords > mem.sfree}
    IN /\ \A i, j \in DOMAIN mem.sects :
             i # j => mem.sects[i][2] <= mem.sects[j][1] \/ mem.sects[j][2] <= mem.sects[i][1]
       /\ UNION pages \subseteq mem.got
       /\ mem.cap > 0 => (UNION pages) \cap inTables = {}
       /\ Cardinality(UNION pages) * PageWords = mem.heapsize

(***************************************************************************)
(* GC_set_max_heap_size: the heap never exceeds the limit, except by the   *)
(* recycled tables, which GC_add_to_heap adds without asking.              *)
(***************************************************************************)
LimitButRecycled == maxHeap # 0 => mem.heapsize <= maxHeap + mem.recycled

(***************************************************************************)
(* What GC_add_to_heap has recorded of the heap is true: which memory it   *)
(* is, how much, and between which addresses.                              *)
(***************************************************************************)
SectionsSound ==
    SectionsTypeOK /\ HeapPlausible /\ SectionsOwned /\ LimitButRecycled
=============================================================================
