------------------------------- MODULE Roots -------------------------------
(* The static roots (mark_rts.c) and their registration for dynamic         *)
(* libraries (dyn_load.c): a table of intervals with a hash index by start  *)
(* address, or merged by a search on Windows; exclusions; what              *)
(* GC_push_roots scans of them.  Every operation holds the allocation lock  *)
(* and is one step.  Addresses are bytes; WordBytes is sizeof(word).        *)
EXTENDS Integers, Sequences, FiniteSets, FiniteSetsExt, SequencesExt

CONSTANTS
  LastByte, WordBytes,
  MAX_ROOT_SETS, MAX_EXCLUSIONS, MAX_LOAD_SEGS,
  RtHash,       \* rt_hash, from addresses to buckets
  Ranges,       \* the intervals the client adds and removes
  Excluded,     \* the intervals the client excludes
  Variants,     \* of {"merge", "windows", "phdr", "maps", "linkmap", "modules", "dyld"}
  Library,      \* a sequence of [load, relro]: two intervals, relro may be <<>>
  StartLibs,    \* libraries that are loaded at program start, and for good
  MapLists,     \* sequences of [from, to, prot] the system may show
  OurMemory,    \* GC_our_memory, the sections of the heap in order of creation
  StackBottom

Addr == 0..LastByte
Buckets == {RtHash[a] : a \in Addr}
RWord == 0..LastByte \div WordBytes

VARIABLES
  variant,
  table,        \* GC_static_roots with its index and GC_root_size
  excl,         \* GC_excl_table
  loaded,       \* the libraries that are loaded, by number
  firstMap,     \* cachedResult of GC_FirstDLOpenedLinkMap
  maps          \* what /proc/self/maps shows
rootsVars == <<variant, table, excl, loaded, firstMap, maps>>

NoRoots == [set |-> <<>>, index |-> [h \in Buckets |-> <<>>], size |-> 0, at |-> 1,
            rebuild |-> FALSE, full |-> FALSE]
RootsInit ==
  /\ variant \in Variants
  /\ table = NoRoots /\ excl = <<>> /\ firstMap = 0
  /\ loaded = IF variant = "dyld" THEN {} ELSE StartLibs      \* dyld tells of those too
  /\ maps \in IF variant = "maps" THEN MapLists ELSE {<<>>}

-----------------------------------------------------------------------------
Merging == variant \in {"merge", "windows"}

\* The index: a chain of places in the table for each bucket.
GC_roots_present(T, b) ==
  LET same == SelectSeq(T.index[RtHash[b]], LAMBDA p : T.set[p].from = b)
  IN  IF same = <<>> THEN 0 ELSE Head(same)
add_roots_to_index(T, p) ==
  IF Merging THEN T
  ELSE [T EXCEPT !.index[RtHash[T.set[p].from]] = <<p>> \o @]
\* mutated form: the places stay as they are
IndexKept(T) == T
GC_rebuild_root_index(T) ==
  FoldLeft(add_roots_to_index, [T EXCEPT !.index = NoRoots.index],
           [p \in 1..Len(T.set) |-> p])

NewRoot(T, b, e, tmp) ==
  IF Len(T.set) = MAX_ROOT_SETS THEN [T EXCEPT !.full = TRUE]      \* ABORT
  ELSE add_roots_to_index([T EXCEPT !.set = Append(@, [from |-> b, to |-> e, tmp |-> tmp]),
                                    !.size = @ + (e - b)], Len(T.set) + 1)
\* All but Windows: an interval with the same start is extended, unless it is
\* to last and the new one is not.
MayExtend(T, p, tmp) == T.set[p].tmp = tmp \/ ~tmp
AddIndexed(T, p, b, e, tmp) ==
  IF p # 0 /\ e <= T.set[p].to THEN [T EXCEPT !.set[p].tmp = @ /\ tmp]
  ELSE IF p # 0 /\ MayExtend(T, p, tmp)
  THEN [T EXCEPT !.size = @ + (e - T.set[p].to), !.set[p].to = e, !.set[p].tmp = tmp]
  ELSE NewRoot(T, IF p # 0 THEN T.set[p].to ELSE b, e, tmp)

\* Windows: the first interval that overlaps or adjoins grows, and takes in
\* others behind it.  An entry that is taken in is replaced by the last one,
\* which is not looked at then and does not bring its r_tmp with it.
Touch(r, b, e) == b <= r.to /\ e >= r.from
Grown(T, p, b, e, tmp) ==
  [T EXCEPT !.size = @ + Max({0, T.set[p].from - b}) + Max({0, e - T.set[p].to}),
            !.set[p] = [from |-> Min({@.from, b}), to |-> Max({@.to, e}),
                        tmp |-> @.tmp /\ tmp]]
TakenIn(T, q) == [T EXCEPT !.size = @ - (T.set[q].to - T.set[q].from),
                           !.set[q].from = Last(T.set).from, !.set[q].to = Last(T.set).to]
DropLast(T) == [T EXCEPT !.set = Front(@)]
MergeInto(T, p, q) ==
  IF q <= Len(T.set) /\ Touch(T.set[p], T.set[q].from, T.set[q].to)
  THEN DropLast(TakenIn(Grown(T, p, T.set[q].from, T.set[q].to, T.set[q].tmp), q))
  ELSE T
AddMerged(T, b, e, tmp) ==
  LET hit == {p \in 1..Len(T.set) : Touch(T.set[p], b, e)}
      p == Min(hit)
  IN  IF hit = {} THEN NewRoot(T, b, e, tmp)
      ELSE FoldLeft(LAMBDA R, q : MergeInto(R, p, q), Grown(T, p, b, e, tmp),
                    [k \in 1..(Len(T.set) - p) |-> p + k])

Up(b) == ((b + WordBytes - 1) \div WordBytes) * WordBytes
Down(e) == (e \div WordBytes) * WordBytes
NoWord(b, e) == Up(b) >= Down(e)
GC_add_roots_inner(T, b, e, tmp) ==
  IF NoWord(b, e) THEN T
  ELSE IF Merging THEN AddMerged(T, Up(b), Down(e), tmp)
  ELSE AddIndexed(T, GC_roots_present(T, Up(b)), Up(b), Down(e), tmp)

-----------------------------------------------------------------------------
\* Removal.  The last entry takes the place of one that is removed.
GC_remove_root_at_pos(T, i) ==
  DropLast([T EXCEPT !.size = @ - (T.set[i].to - T.set[i].from), !.set[i] = Last(T.set)])
\* One step of the loops: remove the entry and look at the place again, or go on.
RemoveOrGoOn(T, P(_)) ==
  IF P(T.set[T.at]) THEN GC_remove_root_at_pos(T, T.at) ELSE [T EXCEPT !.at = @ + 1]
RemoveIf(T, P(_)) ==
  LET R == FoldLeft(LAMBDA Q, k : RemoveOrGoOn(Q, P), [T EXCEPT !.at = 1], T.set)
  IN  [IF Len(R.set) < Len(T.set) THEN GC_rebuild_root_index(R) ELSE R EXCEPT !.at = 1]
GC_remove_tmp_roots(T) == RemoveIf(T, LAMBDA r : r.tmp)
GC_remove_roots_inner(T, b, e) == RemoveIf(T, LAMBDA r : r.from >= b /\ r.to <= e)

swap_static_roots(T, i, j) == [T EXCEPT !.set[i] = T.set[j], !.set[j] = T.set[i]]
\* The first temporary entry from i on, or the place behind the last entry.
FirstTmp(T, i) == Min({k \in i..Len(T.set) : T.set[k].tmp} \cup {Len(T.set) + 1})
\* The part behind the hole is added as a new entry, before the temporary ones.
TmpToEnd(T, i) ==
  IF FirstTmp(T, i + 1) < Len(T.set) /\ ~Last(T.set).tmp
  THEN [swap_static_roots(T, FirstTmp(T, i + 1), Len(T.set)) EXCEPT !.rebuild = TRUE]
  ELSE T
SplitOff(T, i, e, to) ==
  LET R == IF T.rebuild THEN [GC_rebuild_root_index(T) EXCEPT !.rebuild = FALSE] ELSE T
  IN  TmpToEnd(GC_add_roots_inner(R, e, to, FALSE), i)
WithoutRoot(T, i) ==
  LET R == GC_remove_root_at_pos(T, i)
  IN  IF i < Len(R.set) /\ R.set[i].tmp /\ ~R.set[i + 1].tmp
      THEN swap_static_roots(R, i, FirstTmp(R, i + 2) - 1) ELSE R
CutOne(T, b, e) ==
  LET i == T.at
      r == T.set[i]
  IN  IF i > Len(T.set) \/ T.set[i].tmp THEN T
      ELSE IF e <= r.from \/ r.to <= b THEN [T EXCEPT !.at = @ + 1]
      ELSE IF r.from < b
      THEN LET R == [T EXCEPT !.size = @ - (r.to - b), !.set[i].to = b]
           IN  [IF e < r.to THEN SplitOff(R, i, e, r.to) ELSE R EXCEPT !.at = @ + 1]
      ELSE IF e < r.to
      THEN [T EXCEPT !.size = @ - (e - r.from), !.set[i].from = e, !.at = @ + 1,
                     !.rebuild = TRUE]
      ELSE [WithoutRoot(T, i) EXCEPT !.rebuild = TRUE]
GC_remove_roots_subregion(T, b, e) ==
  LET R == FoldLeft(LAMBDA Q, k : CutOne(Q, b, e), [T EXCEPT !.at = 1, !.rebuild = FALSE],
                    [k \in 1..(2 * MAX_ROOT_SETS) |-> k])
  IN  [IF R.rebuild THEN GC_rebuild_root_index(R) ELSE R EXCEPT !.at = 1, !.rebuild = FALSE]

-----------------------------------------------------------------------------
\* Exclusions, in ascending order.

\* The first one that ends behind the address, by bisection; 0 if there is none.
EndsBefore(m, a) == excl[m][2] <= a
GC_next_exclusion(a) ==
  LET search[low \in 1..Len(excl), high \in 1..Len(excl)] ==
        LET mid == (low + high) \div 2
        IN  IF high <= low THEN low
            ELSE IF EndsBefore(mid, a) THEN search[mid + 1, high] ELSE search[low, mid]
      found == search[1, Len(excl)]
  IN  IF EndsBefore(found, a) THEN 0 ELSE found
NextExclusion(a) == IF excl = <<>> THEN 0 ELSE GC_next_exclusion(a)

NoOverlap(next, to) == next # 0 => excl[next][1] >= to
WithExclusion(next, x) == IF next = 0 THEN Append(excl, x) ELSE InsertAt(excl, next, x)
\* Ranges that overlap an earlier one, or too many, abort the program.
GC_exclude_static_roots(b, e) ==
  LET from == Down(b)
      to == Up(e)
      next == NextExclusion(from)
  IN  /\ b # e /\ NoOverlap(next, to)
      /\ IF next # 0 /\ excl[next][1] = to
         THEN excl' = [excl EXCEPT ![next][1] = from]
         ELSE Len(excl) < MAX_EXCLUSIONS /\ excl' = WithExclusion(next, <<from, to>>)
      /\ UNCHANGED <<variant, table, loaded, firstMap, maps>>
GC_clear_exclusion_table ==
  /\ excl # <<>> /\ excl' = <<>>
  /\ UNCHANGED <<variant, table, loaded, firstMap, maps>>

Gap(bottom, next) == IF excl[next][1] > bottom THEN {<<bottom, excl[next][1]>>} ELSE {}
\* The intervals GC_push_roots scans of one root: the gaps between exclusions.
GC_push_conditional_with_exclusions(r) ==
  LET push[bottom \in Addr \cup {LastByte + 1}] ==
        IF bottom >= r.to THEN {}
        ELSE LET next == NextExclusion(bottom)
             IN  IF next = 0 THEN {<<bottom, r.to>>}
                 ELSE IF excl[next][1] >= r.to THEN {<<bottom, r.to>>}
                 ELSE Gap(bottom, next) \cup push[excl[next][2]]
  IN  push[r.from]

-----------------------------------------------------------------------------
\* Dynamic libraries.

\* dl_iterate_phdr: the writable segments, in a list of limited length, and
\* what is left of each when its GNU_RELRO part is taken out.
Seg(i) == [from |-> Down(Library[i].load[1]), to |-> Library[i].load[2], from2 |-> 0, to2 |-> 0]
InSeg(a, s) == a >= s.from /\ a < s.to
\* mutated form: what is behind the read-only part is dropped
BeforeRelro(s, relro) == [s EXCEPT !.to = relro[1]]
CutRelro(s, relro) ==
  IF s.from2 # 0 THEN s                                            \* WARN
  ELSE [from |-> s.from, to |-> relro[1], from2 |-> relro[2], to2 |-> s.to]
WithoutRelro(segs, relro) ==
  LET hit == {j \in 1..Len(segs) : relro # <<>> /\ InSeg(relro[1], segs[j])}
  IN  IF hit = {} THEN segs
      ELSE [segs EXCEPT ![Max(hit)] = CutRelro(@, relro)]
GC_register_dynlib_callback(D, i) ==
  IF Len(D.segs) >= MAX_LOAD_SEGS
  THEN [D EXCEPT !.table = GC_add_roots_inner(@, Seg(i).from, Seg(i).to, TRUE),
                 !.segs = WithoutRelro(@, Library[i].relro)]
  ELSE [D EXCEPT !.segs = WithoutRelro(Append(@, Seg(i)), Library[i].relro)]
AddSeg(T, s) ==
  LET R == IF s.to > s.from THEN GC_add_roots_inner(T, s.from, s.to, TRUE) ELSE T
  IN  IF s.to2 > s.from2 THEN GC_add_roots_inner(R, s.from2, s.to2, TRUE) ELSE R
GC_register_dynamic_libraries_dl_iterate_phdr(T) ==
  LET D == FoldLeft(GC_register_dynlib_callback, [table |-> T, segs |-> <<>>],
                    SetToSortSeq(loaded, <))
  IN  FoldLeft(AddSeg, D.table, D.segs)

\* The link map: from the library after the main program, which is remembered.
FirstLoaded == IF loaded = {} THEN 0 ELSE Min(loaded)
GC_FirstDLOpenedLinkMap == IF firstMap = 0 THEN FirstLoaded ELSE firstMap
AddLibrary(T, i) == GC_add_roots_inner(T, Library[i].load[1], Library[i].load[2], TRUE)
GC_register_link_map(T) ==
  FoldLeft(AddLibrary, T, SetToSortSeq({i \in loaded : i >= GC_FirstDLOpenedLinkMap}, <))
\* Loaders that list all modules, in no order that is known.
GC_register_modules(T) == FoldLeft(AddLibrary, T, SetToSortSeq(loaded, >))

\* /proc/self/maps.  sort_heap_sects is an insertion sort.
Swapped(s, i) == [s EXCEPT ![i] = s[i + 1], ![i + 1] = s[i]]
SinkAt(s, n) == FoldLeft(LAMBDA t, k : IF t[n - k][1] > t[n - k + 1][1]
                                       THEN Swapped(t, n - k) ELSE t, s,
                         [k \in 1..(n - 1) |-> k])
sort_heap_sects(s) == FoldLeft(SinkAt, s, [n \in 1..Len(s) |-> n])
\* The gaps between the sections of the heap.  A section that ends where the
\* mapping begins is passed by.
GapsFrom(T, m) ==
  LET ours == sort_heap_sects(OurMemory)
      i == Min({k \in 1..Len(ours) : ours[k][2] >= m.from})
      inside == ours[i][1] <= m.from
      G == FoldLeft(LAMBDA R, k :
             IF ours[k][1] < m.to /\ R.from < m.to
             THEN [from |-> ours[k][2],
                   table |-> IF R.from < ours[k][1]
                             THEN GC_add_roots_inner(R.table, R.from, ours[k][1], TRUE)
                             ELSE R.table]
             ELSE R,
             [from |-> IF inside THEN ours[i][2] ELSE m.from, table |-> T],
             [k \in 1..(Len(ours) - (IF inside THEN i ELSE i - 1)) |->
                k + (IF inside THEN i ELSE i - 1)])
  IN  IF G.from < m.to THEN GC_add_roots_inner(G.table, G.from, m.to, TRUE) ELSE G.table
LeastHa == Min({OurMemory[k][1] : k \in 1..Len(OurMemory)})
GreatestHa == Max({OurMemory[k][2] : k \in 1..Len(OurMemory)})
StackMapping(m) == m.from <= StackBottom /\ m.to >= StackBottom
GC_register_map_entry(T, m) ==
  IF m.prot = "w" /\ ~StackMapping(m)
  THEN IF m.to <= LeastHa \/ m.from >= GreatestHa
       THEN GC_add_roots_inner(T, m.from, m.to, TRUE) ELSE GapsFrom(T, m)
  ELSE IF m.prot = "none" THEN GC_remove_roots_subregion(T, m.from, m.to) ELSE T
GC_register_map_entries(T) == FoldLeft(GC_register_map_entry, T, maps)

\* A program that aborts takes no further step: its table is left as it was.
OrAbort(T) == IF T.full THEN [table EXCEPT !.full = TRUE] ELSE T

GC_register_dynamic_libraries(T) ==
  CASE variant = "phdr" -> GC_register_dynamic_libraries_dl_iterate_phdr(T)
    [] variant = "linkmap" -> GC_register_link_map(T)
    [] variant \in {"modules", "windows"} -> GC_register_modules(T)
    [] variant = "maps" -> GC_register_map_entries(T)
    [] OTHER -> T
\* GC_FirstDLOpenedLinkMap remembers what it found.
GC_cond_register_dynamic_libraries ==
  /\ table' = OrAbort(GC_register_dynamic_libraries(GC_remove_tmp_roots(table)))
  /\ firstMap' = IF variant = "linkmap" THEN GC_FirstDLOpenedLinkMap ELSE firstMap
  /\ UNCHANGED <<variant, excl, loaded, maps>>

\* The system loads and unloads; dyld calls the collector when it does.
GC_dyld_image_add(i) ==
  OrAbort(GC_add_roots_inner(table, Library[i].load[1], Library[i].load[2], FALSE))
GC_dyld_image_remove(i) == GC_remove_roots_inner(table, Library[i].load[1], Library[i].load[2])
Load(i) ==
  /\ variant \notin {"merge", "maps"} /\ i \notin loaded
  /\ loaded' = loaded \cup {i}
  /\ table' = IF variant = "dyld" THEN GC_dyld_image_add(i) ELSE table
  /\ UNCHANGED <<variant, excl, firstMap, maps>>
Unload(i) ==
  /\ i \in loaded \ StartLibs
  /\ loaded' = loaded \ {i}
  /\ table' = IF variant = "dyld" THEN GC_dyld_image_remove(i) ELSE table
  /\ UNCHANGED <<variant, excl, firstMap, maps>>
Remap ==
  /\ variant = "maps" /\ maps' \in MapLists \ {maps}
  /\ UNCHANGED <<variant, table, excl, loaded, firstMap>>

-----------------------------------------------------------------------------
GC_add_roots(b, e) ==
  /\ table' = OrAbort(GC_add_roots_inner(table, b, e, FALSE))
  /\ UNCHANGED <<variant, excl, loaded, firstMap, maps>>
GC_remove_roots(b, e) ==
  /\ ~NoWord(b, e)
  /\ table' = GC_remove_roots_inner(table, b, e)
  /\ UNCHANGED <<variant, excl, loaded, firstMap, maps>>
GC_clear_roots ==
  /\ table.set # <<>> /\ table' = NoRoots
  /\ UNCHANGED <<variant, excl, loaded, firstMap, maps>>

RootsNext ==
  /\ ~table.full
  /\ \/ \E r \in Ranges : \/ GC_add_roots(r[1], r[2])
                          \/ GC_remove_roots(r[1], r[2])
     \/ \E r \in Excluded : GC_exclude_static_roots(r[1], r[2])
     \/ GC_clear_roots
     \/ GC_clear_exclusion_table
     \/ GC_cond_register_dynamic_libraries
     \/ \E i \in 1..Len(Library) : Load(i) \/ Unload(i)
     \/ Remap
RootsSpec == RootsInit /\ [][RootsNext]_rootsVars

-----------------------------------------------------------------------------
WordsOf(b, e) == {w \in RWord : b <= w * WordBytes /\ (w + 1) * WordBytes <= e}
Covered(rs) == UNION {WordsOf(rs[p].from, rs[p].to) : p \in 1..Len(rs)}
ForGood == Covered(SelectSeq(table.set, LAMBDA r : ~r.tmp))
GC_compute_root_size ==
  FoldLeft(LAMBDA n, r : n + (r.to - r.from), 0, table.set)

\* Types; the table and the exclusions do not outgrow their arrays.
RootsTypeOK ==
  /\ Len(table.set) <= MAX_ROOT_SETS
  /\ \A p \in 1..Len(table.set) : /\ {table.set[p].from, table.set[p].to} \subseteq 0..LastByte + 1
                                  /\ table.set[p].from < table.set[p].to
                                  /\ table.set[p].tmp \in BOOLEAN
  /\ Len(excl) <= MAX_EXCLUSIONS /\ loaded \subseteq 1..Len(Library)
  /\ firstMap \in 0..Len(Library) /\ table.at = 1 /\ ~table.rebuild

\* "Should return the same value as GC_root_size": the counter by which
\* GC_should_collect estimates the work of a collection is right after any
\* sequence of additions, merges, splits and removals.
RootSizeExact == table.size = GC_compute_root_size

\* Every place of the table is in the chain of the bucket of its start, once:
\* GC_add_roots_inner sees an interval that is there already, although entries
\* move when others are removed.
IndexExact ==
  ~Merging =>
    \A h \in Buckets :
      /\ IsInjective(table.index[h])
      /\ Range(table.index[h]) = {p \in 1..Len(table.set) : RtHash[table.set[p].from] = h}

\* GC_excl_table is ascending and without overlaps, as GC_next_exclusion needs it.
ExclusionsAscend ==
  /\ \A k \in 1..Len(excl) : excl[k][1] < excl[k][2]
  /\ \A k \in 1..Len(excl) - 1 : excl[k][2] <= excl[k + 1][1]

ExcludedWords == UNION {WordsOf(excl[k][1], excl[k][2]) : k \in 1..Len(excl)}
\* What GC_push_roots scans of a root is what is not excluded, all of it.
PushedExactly ==
  \A p \in 1..Len(table.set) :
    UNION {WordsOf(i[1], i[2]) : i \in GC_push_conditional_with_exclusions(table.set[p])}
      = WordsOf(table.set[p].from, table.set[p].to) \ ExcludedWords

\* The table implements RootSet.  The data of a library is its writable segment
\* without the part that gets read-only, unless there are too many segments; of
\* the process's mappings it is what is writable and neither the stack nor the
\* collector's own memory.
Earlier(i) == Cardinality({j \in loaded : j < i})
SegWords(i) ==
  WordsOf(Down(Library[i].load[1]), Library[i].load[2]) \
    (IF Library[i].relro = <<>> \/ Earlier(i) >= MAX_LOAD_SEGS THEN {}
     ELSE WordsOf(Down(Library[i].relro[1]), Up(Library[i].relro[2])))
LibWords ==
  CASE variant = "phdr" -> UNION {SegWords(i) : i \in loaded}
    [] variant \in {"linkmap", "modules", "windows"} ->
         UNION {WordsOf(Library[i].load[1], Library[i].load[2]) : i \in loaded}
    [] variant = "maps" ->
         UNION {WordsOf(maps[k].from, maps[k].to) :
                k \in {n \in 1..Len(maps) : maps[n].prot = "w" /\ ~StackMapping(maps[n])}}
           \ UNION {WordsOf(OurMemory[k][1], OurMemory[k][2]) : k \in 1..Len(OurMemory)}
    [] OTHER -> {}
NoAccessWords == UNION {WordsOf(maps[k].from, maps[k].to) :
                        k \in {n \in 1..Len(maps) : maps[n].prot = "none"}}
Promise == INSTANCE RootSet WITH Word <- RWord, words <- Covered(table.set),
                                 lasting <- ForGood, libs <- LibWords,
                                 noAccess <- NoAccessWords
\* Adding, removing and registering again change the set of words that are
\* scanned as RootSet says, however intervals are merged, split and moved.
ImplementsRootSet == Promise!RootSetSpec

\* "We do not handle different but overlapping intervals efficiently. (We do
\* handle them correctly.)": adding roots does not make others temporary.
LastingKept ==
  [][\A r \in Ranges : GC_add_roots(r[1], r[2]) => ForGood \subseteq ForGood']_rootsVars

\* The tables of mark_rts.c agree with each other and with what is scanned.
RootsSound ==
  RootsTypeOK /\ RootSizeExact /\ IndexExact /\ ExclusionsAscend /\ PushedExactly
=============================================================================
