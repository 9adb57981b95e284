----------------------------- MODULE HeapBlocks -----------------------------
(***************************************************************************)
(* The allocator of heap blocks (allchblk.c), the table of block headers   *)
(* (headers.c), black lists (blacklst.c) and the growth of the heap.       *)
(*                                                                         *)
(* An address is the number of a page of HBLKSIZE bytes, sizes are numbers *)
(* of pages and 0 is NULL.  A free list is the sequence of the blocks on   *)
(* it.  Everything here happens with the allocation lock held, so each     *)
(* action is a whole call; the routines it is made of are operators on the *)
(* record of the allocator's state.  Headers are always to be had: the     *)
(* code says of the opposite that it is "likely to be very bad news".      *)
(***************************************************************************)
EXTENDS Integers, FiniteSets, SequencesExt

CONSTANTS
  N,               \* the pages of the address space
  UniqueThreshold, HugeThreshold, FlCompression,
  MaxJump,         \* MAX_JUMP, the greatest forwarding count
  MaxBlackListAlloc, BlLimit,
  SoftLimit,       \* GC_UNMAPPED_REGIONS_SOFT_LIMIT
  DropEvery,       \* one in so many blacklisted blocks is dropped: 4
  Builds,          \* the values of USE_MUNMAP that are of interest
  FalsePtrs,       \* the pages that integers on stacks may address
  Requests,        \* the requests the program may make
  Growths          \* the sizes by which the heap grows

Page == 1..N
N_HBLK_FLS == (HugeThreshold - UniqueThreshold) \div FlCompression
                + UniqueThreshold
Lists == 0..N_HBLK_FLS
Kinds == {"ptrfree", "normal", "uncollectable"}
\* A request has a size, a kind and the flag IGNORE_OFF_PAGE.
Request == [sz : Page, kind : Kinds, ignoreOffPage : BOOLEAN]

ASSUME ThresholdsAssumption ==
  /\ {N, UniqueThreshold, FlCompression, MaxJump, DropEvery} \subseteq Nat \ {0}
  /\ HugeThreshold \in Nat /\ HugeThreshold > UniqueThreshold
  /\ {MaxBlackListAlloc, BlLimit} \subseteq Nat \ {0}
  /\ SoftLimit \in Nat
  /\ Builds \subseteq BOOLEAN /\ FalsePtrs \subseteq Page
  /\ Growths \subseteq Page /\ Requests \subseteq Request

VARIABLES
  hdr,          \* the header table
  fl,           \* GC_hblkfreelist
  freeBytes,    \* GC_free_bytes
  largeFree,    \* GC_large_free_bytes
  regions,      \* GC_num_unmapped_regions
  unmapped,     \* the pages that GC_unmap gave back to the system
  dropCount,    \* the static count in GC_allochblk_nth
  sects,        \* the pages of GC_heap_sects
  largeAllocd,  \* GC_large_allocd_bytes
  maxLarge,     \* GC_max_large_allocd_bytes
  oldBl, incompleteBl,  \* GC_old_stack_bl, GC_incomplete_stack_bl
  munmap        \* USE_MUNMAP

alloc == <<hdr, fl, freeBytes, largeFree, regions, unmapped, dropCount>>
black == <<oldBl, incompleteBl>>
blockVars == <<alloc, sects, largeAllocd, maxLarge, black, munmap>>

State == [hdr |-> hdr, fl |-> fl, freeBytes |-> freeBytes,
          largeFree |-> largeFree, regions |-> regions,
          unmapped |-> unmapped, dropCount |-> dropCount]
Become(s) ==
  /\ hdr' = s.hdr /\ fl' = s.fl /\ freeBytes' = s.freeBytes
  /\ largeFree' = s.largeFree /\ regions' = s.regions
  /\ unmapped' = s.unmapped /\ dropCount' = s.dropCount

-----------------------------------------------------------------------------
\* The header table: a page has no entry, a forwarding count or a header.
Nil == [tag |-> "nil"]
Forward(n) == [tag |-> "forward", by |-> n]
Header(sz, free, mapped) ==
  [tag |-> "header", sz |-> sz, free |-> free, mapped |-> mapped]
HDR(s, p) == IF p \in Page THEN s.hdr[p] ELSE Nil
HasHeader(s, p) == HDR(s, p).tag = "header"
HBLK_IS_FREE(s, p) == HasHeader(s, p) /\ s.hdr[p].free
IS_MAPPED(s, p) == s.hdr[p].mapped
Size(s, p) == s.hdr[p].sz
Span(p, sz) == p .. p + sz - 1

SetHdr(s, p, h) == [s EXCEPT !.hdr[p] = h]
GC_remove_header(s, p) == SetHdr(s, p, Nil)

\* The forwarding counts of a block of more than one page.
GC_install_counts(s, p, sz) ==
  [s EXCEPT !.hdr = [q \in Page |->
     IF q \in Span(p + 1, sz - 1)
     THEN Forward(IF q - p > MaxJump THEN MaxJump ELSE q - p) ELSE @[q]]]
GC_remove_counts(s, p, sz) ==
  IF sz <= 1 \/ HDR(s, p + 1) = Nil THEN s
  ELSE [s EXCEPT !.hdr = [q \in Page |->
          IF q \in Span(p + 1, sz - 1) THEN Nil ELSE @[q]]]

GC_next_block(s, p) ==
  LET headers == {q \in p..N : HasHeader(s, q)}
  IN  IF headers = {} THEN 0 ELSE Min(headers)
GC_prev_block(s, p) ==
  LET prev[q \in 0..N] ==
        IF q = 0 \/ HasHeader(s, q) THEN q
        ELSE IF s.hdr[q] = Nil THEN prev[q - 1]
        ELSE IF s.hdr[q].by >= q THEN 0 ELSE prev[q - s.hdr[q].by]
  IN  prev[p]

\* Where following the forwarding counts from p ends: FORWARDED_ADDR.
Forwarded(s, p) ==
  LET start[q \in 0..N] ==
        IF q # 0 /\ s.hdr[q].tag = "forward" /\ s.hdr[q].by <= q
        THEN start[q - s.hdr[q].by] ELSE q
  IN  start[p]

IfEndsAt(s, p, end) == IF p # 0 /\ p + Size(s, p) = end THEN p ELSE 0
get_block_ending_at(s, p) ==
  LET q == Forwarded(s, p - 1)
  IN  IF HasHeader(s, q) THEN q ELSE IfEndsAt(s, GC_prev_block(s, p - 1), p)
IfFree(s, p) == IF HBLK_IS_FREE(s, p) THEN p ELSE 0
GC_free_block_ending_at(s, p) == IfFree(s, get_block_ending_at(s, p))

-----------------------------------------------------------------------------
\* The free lists.
GC_hblk_fl_from_blocks(n) ==
  CASE n <= UniqueThreshold -> n
    [] n >= HugeThreshold -> N_HBLK_FLS
    [] OTHER -> (n - UniqueThreshold) \div FlCompression + UniqueThreshold

\* The links of the block serve to take it out of its list, unless it is the
\* first one: then the list is the one with the given index.
GC_remove_from_fl_at(s, p, index) ==
  LET list == CHOOSE i \in Lists : Contains(s.fl[i], p)
      rest == Remove(s.fl[list], p)
  IN  [s EXCEPT !.fl[IF Head(s.fl[list]) = p THEN index ELSE list] = rest,
                !.freeBytes[index] = @ - Size(s, p)]
GC_remove_from_fl(s, p) ==
  GC_remove_from_fl_at(s, p, GC_hblk_fl_from_blocks(Size(s, p)))
GC_add_to_fl(s, p) ==
  LET index == GC_hblk_fl_from_blocks(Size(s, p))
  IN  [s EXCEPT !.fl[index] = <<p>> \o @,
                !.freeBytes[index] = @ + Size(s, p),
                !.hdr[p].free = TRUE]

-----------------------------------------------------------------------------
\* Unmapping.  The system's pages are no larger than a heap block.
\* mutant: the end is rounded up, not down
UnmapRoundedUp(s, p) ==
  [s EXCEPT !.unmapped = @ \cup (Span(p, Size(s, p) + 1) \cap sects)]
GC_unmap(s, p) == [s EXCEPT !.unmapped = @ \cup Span(p, Size(s, p))]
GC_remap(s, p) == [s EXCEPT !.unmapped = @ \ Span(p, Size(s, p))]

IsUnmapped(s, p) == p # 0 /\ ~IS_MAPPED(s, p)
calc_num_unmapped_regions_delta(s, p) ==
  LET end == p + Size(s, p)
      neighbours == {IsUnmapped(s, get_block_ending_at(s, p)),
                     GC_next_block(s, end) = end /\ IsUnmapped(s, end)}
      unmapping == IF IS_MAPPED(s, p) THEN 1 ELSE -1
  IN  CASE neighbours = {TRUE} -> -unmapping
        [] neighbours = {FALSE} -> unmapping
        [] OTHER -> 0
GC_adjust_num_unmapped(s, p) ==
  [s EXCEPT !.regions = @ + calc_num_unmapped_regions_delta(s, p)]

SwitchPages(s, p) ==
  [(IF IS_MAPPED(s, p) THEN GC_unmap(s, p) ELSE GC_remap(s, p))
     EXCEPT !.hdr[p].mapped = ~@]
\* A block that is mapped gets unmapped, and the other way round.
Switch(s, p) == SwitchPages(GC_adjust_num_unmapped(s, p), p)
\* The block p of which a part is to be used.
Remapped(s, p) == IF IS_MAPPED(s, p) THEN s ELSE Switch(s, p)

FreeBlocksInOrder(s) == FlattenSeq([i \in 1..N_HBLK_FLS |-> s.fl[i]])

\* old are the blocks that have not been used for long enough.
GC_unmap_old(s, old) ==
  LET Limit(t, p) ==
        LET delta == calc_num_unmapped_regions_delta(t, p)
        IN  delta >= 0 /\ t.regions + delta >= SoftLimit
      Visit(acc, p) ==
        IF acc.stop \/ ~IS_MAPPED(acc.s, p) \/ p \notin old THEN acc
        ELSE IF Limit(acc.s, p) THEN [acc EXCEPT !.stop = TRUE]
        ELSE [acc EXCEPT !.s = Switch(@, p)]
  IN  FoldLeft(Visit, [s |-> s, stop |-> s.regions >= SoftLimit],
               FreeBlocksInOrder(s)).s

\* q, which follows p, is made a part of it.
Absorb(s, p, q) ==
  GC_remove_header([s EXCEPT !.hdr[p].sz = @ + Size(s, q)], q)

\* Make p and its successor both mapped or both unmapped: the smaller of the
\* two changes.
Consistent(s, p, next) ==
  IF IS_MAPPED(s, p) = IS_MAPPED(s, next) THEN s
  ELSE Switch(s, IF Size(s, p) > Size(s, next) THEN next ELSE p)
MergeWithNext(s, p) ==
  LET next == p + Size(s, p)
      index == CHOOSE i \in Lists : Contains(s.fl[i], p)
      removed == GC_remove_from_fl_at(Consistent(s, p, next), p, index)
  IN  GC_add_to_fl(Absorb(GC_remove_from_fl(removed, next), p, next), p)

\* Each merge goes back to the beginning of its list; the lists before it hold
\* nothing to merge.  So each one merges the first block that can be.
GC_merge_unmapped(s) ==
  LET Mergeable(t, p) == HBLK_IS_FREE(t, p + Size(t, p))
      Step(t, i) ==
        LET todo == SelectSeq(FreeBlocksInOrder(t), LAMBDA p : Mergeable(t, p))
        IN  IF todo = <<>> THEN t ELSE MergeWithNext(t, Head(todo))
  IN  FoldLeft(Step, s, [i \in Page |-> i])

-----------------------------------------------------------------------------
\* Black lists.  GC_all_interior_pointers is set.
BlackListed == oldBl \cup incompleteBl
\* 0, or the first address at which a block of that size may lie.
GC_is_black_listed(p, sz) ==
  LET bad == BlackListed \cap Span(p, sz) IN IF bad = {} THEN 0 ELSE Min(bad) + 1

\* p is an integer on a stack that addresses no object.
GC_add_to_black_list_stack(p) ==
  /\ hdr[p] = Nil \/ p \in oldBl
  /\ incompleteBl' = incompleteBl \cup {p}
  /\ UNCHANGED <<alloc, sects, largeAllocd, maxLarge, oldBl, munmap>>
\* At the beginning of a full collection.
GC_promote_black_lists ==
  /\ oldBl' = incompleteBl
  /\ incompleteBl' = {}
  /\ UNCHANGED <<alloc, sects, largeAllocd, maxLarge, munmap>>
\* When such a collection is abandoned.
GC_unpromote_black_lists ==
  /\ incompleteBl' = oldBl
  /\ UNCHANGED <<alloc, sects, largeAllocd, maxLarge, oldBl, munmap>>

-----------------------------------------------------------------------------
\* Allocation.
\* split is may_split: "no", "yes" or "avoid_remapped" (AVOID_SPLIT_REMAPPED).

\* The rest of the block goes back to a free list.
AddRest(s, p, sz, total) ==
  IF total = sz THEN s
  ELSE GC_add_to_fl(SetHdr(s, p + sz, Header(total - sz, FALSE, TRUE)), p + sz)
\* mutant: the list is taken to be the one for the block's size
FirstPartBySize(s, p, sz, index) ==
  AddRest(GC_remove_from_fl(s, p), p, sz, Size(s, p))
GC_get_first_part(s, p, sz, index) ==
  AddRest(GC_remove_from_fl_at(s, p, index), p, sz, Size(s, p))

\* n takes the place of p on its list.
GC_split_block(s, p, n, index) ==
  LET total == Size(s, p)
      t == SetHdr([s EXCEPT !.fl[index] = [i \in DOMAIN @ |-> IF @[i] = p THEN n ELSE @[i]],
                            !.freeBytes[index] = @ - (n - p),
                            !.hdr[p].sz = n - p],
                  n, Header(total - (n - p), TRUE, TRUE))
  IN  GC_add_to_fl(t, p)

\* The end of GC_allochblk_nth, with setup_header.
TakeBlock(s, p, sz, index) ==
  LET t == GC_install_counts(GC_get_first_part(Remapped(s, p), p, sz, index), p, sz)
  IN  [SetHdr(t, p, Header(sz, FALSE, TRUE)) EXCEPT !.largeFree = @ - sz]

\* A block that is black listed as a whole is cut into pages that are in use
\* until the next collection.
DropBlock(s, p, index) ==
  LET sz == Size(s, p)
      t == GC_remove_from_fl_at(s, p, index)
  IN  [t EXCEPT !.largeFree = @ - sz,
                !.hdr = [q \in Page |->
                   IF q \in Span(p, sz) THEN Header(1, FALSE, TRUE) ELSE @[q]]]

\* The next block is obviously better.
BetterNext(s, list, k, sz) ==
  /\ k < Len(list)
  /\ Size(s, list[k + 1]) < Size(s, list[k])
  /\ Size(s, list[k + 1]) >= sz
  /\ GC_is_black_listed(list[k + 1], sz) = 0

AvoidsBlackListed(r) ==
  /\ r.kind # "uncollectable"
  /\ r.kind # "ptrfree" \/ r.sz > MaxBlackListAlloc
EffectiveSize(r) == IF r.ignoreOffPage THEN 1 ELSE r.sz

\* Where in the free block p the request goes, or 0 if the search goes on.
PlaceIn(s, p, r, split) ==
  LET spare == Size(s, p) - r.sz
      white == {q \in p..p + spare : GC_is_black_listed(q, EffectiveSize(r)) = 0}
  IN  IF ~AvoidsBlackListed(r) THEN p
      ELSE IF white = {} THEN IF r.sz > BlLimit /\ spare > BlLimit THEN p ELSE 0
      ELSE IF Min(white) # p /\ split = "avoid_remapped" /\ ~IS_MAPPED(s, p) THEN 0
      ELSE Min(white)
Allocate(s, p, place, r, index) ==
  TakeBlock(IF place = p THEN s
            ELSE GC_split_block(Remapped(s, p), p, place, index),
            place, r.sz, index)

\* A block with nothing but black listed pages counts, and may be dropped.
CountBlack(s, p, r, index) ==
  LET count == (s.dropCount + 1) % DropEvery
      t == [s EXCEPT !.dropCount = count]
  IN  IF r.sz > 1 \/ ~IS_MAPPED(s, p) THEN s
      ELSE IF count = 0 THEN DropBlock(t, p, index) ELSE t

\* One turn of the loop over the list with that index, list as it was at first.
\* acc.at is the block allocated, or 0.
VisitBlock(acc, list, k, r, index, split) ==
  LET p == list[k]
      avail == Size(acc.s, p)
      place == PlaceIn(acc.s, p, r, split)
  IN  IF \/ acc.at # 0 \/ avail < r.sz
         \/ avail > r.sz /\ (split = "no" \/ BetterNext(acc.s, list, k, r.sz))
      THEN acc
      ELSE IF place # 0
      THEN [s |-> Allocate(acc.s, p, place, r, index), at |-> place]
      ELSE [acc EXCEPT !.s = CountBlack(@, p, r, index)]

GC_allochblk_nth(s, r, index, split) ==
  LET list == s.fl[index]
      Visit(acc, k) == VisitBlock(acc, list, k, r, index, split)
  IN  FoldLeftDomain(Visit, [s |-> s, at |-> 0], list)

\* The bytes free on lists from..N_HBLK_FLS.
FreeFrom(s, from) == SumFunctionOnSet(s.freeBytes, from..N_HBLK_FLS)
GC_enough_large_bytes_left(s) ==
  LET enough == {n \in Lists : largeAllocd + FreeFrom(s, n) >= maxLarge}
  IN  IF enough = {} THEN 0 ELSE Max(enough)

\* What GC_allochblk makes of GC_should_collect and its other conditions: use
\* the entire heap, fail soon, or keep enough large blocks.
Policy == {"entire", "fail", "keep_large"}

\* mutant: the last list of a single size is taken to be one of them
SplitFromNext(first) == IF first <= UniqueThreshold THEN first + 1 ELSE first
\* The list at which the search for a block to split begins.
SplitFrom(first) == IF first < UniqueThreshold THEN first + 1 ELSE first
SplitLimit(s, policy) ==
  CASE policy = "entire" -> N_HBLK_FLS
    [] policy = "fail" -> 0
    [] OTHER -> GC_enough_large_bytes_left(s)
\* The lists from..limit in turn.
SearchLists(s, r, from, limit, split) ==
  LET Search(acc, index) ==
        IF acc.at # 0 \/ index \notin from..limit THEN acc
        ELSE GC_allochblk_nth(acc.s, r, index, split)
  IN  FoldLeft(Search, [s |-> s, at |-> 0], [i \in 1..N_HBLK_FLS |-> i])

\* The search goes on, with the limit as it is by then, unless there was an
\* exact match.
SplitUpTo(s, r, from, limit, policy) ==
  SearchLists(s, r, from, limit,
              IF policy = "keep_large" /\ munmap /\ limit > 0
              THEN "avoid_remapped" ELSE "yes")
OrSplit(exact, r, from, policy) ==
  IF exact.at # 0 THEN exact
  ELSE SplitUpTo(exact.s, r, from, SplitLimit(exact.s, policy), policy)
GC_allochblk(s, r, policy) ==
  LET first == GC_hblk_fl_from_blocks(r.sz)
  IN  OrSplit(GC_allochblk_nth(s, r, first, "no"), r, SplitFrom(first), policy)

\* A block for small objects: GC_new_hblk and GC_generic_malloc_many.
GC_new_hblk(r) ==
  /\ r.sz = 1 /\ ~r.ignoreOffPage
  /\ \E policy \in Policy : Become(GC_allochblk(State, r, policy).s)
  /\ UNCHANGED <<sects, largeAllocd, maxLarge, black, munmap>>

\* A request that fails is repeated after a collection or once the heap has
\* grown; both are steps of their own here.
GC_alloc_large(r) ==
  \E policy \in Policy :
  \E try \in {GC_allochblk(State, r, policy)} :
  \E res \in {IF try.at = 0 /\ munmap
             THEN GC_allochblk(GC_merge_unmapped(try.s), r, policy) ELSE try} :
    /\ Become(res.s)
    /\ largeAllocd' = largeAllocd + IF res.at # 0 /\ r.sz > 1 THEN r.sz ELSE 0
    /\ maxLarge' = IF largeAllocd' > maxLarge THEN largeAllocd' ELSE maxLarge
    /\ UNCHANGED <<sects, black, munmap>>

-----------------------------------------------------------------------------
\* Freeing.
MergeNextMapped(s, p) ==
  LET next == p + Size(s, p)
  IN  IF HBLK_IS_FREE(s, next) /\ IS_MAPPED(s, next)
      THEN Absorb(GC_remove_from_fl(s, next), p, next) ELSE s
AddMergedToFl(s, p, prev) ==
  IF prev # 0 /\ IS_MAPPED(s, prev)
  THEN GC_add_to_fl(Absorb(GC_remove_from_fl(s, prev), prev, p), prev)
  ELSE GC_add_to_fl(s, p)
GC_freehblk(s, p) ==
  LET sz == Size(s, p)
      freed == SetHdr(GC_remove_counts(s, p, sz), p, Header(sz, TRUE, TRUE))
      merged == [MergeNextMapped(freed, p) EXCEPT !.largeFree = @ + sz]
  IN  AddMergedToFl(merged, p, GC_free_block_ending_at(freed, p))

\* GC_free of a large object, or the sweep of a block with nothing marked.
FreeBlock(p) ==
  /\ HasHeader(State, p) /\ ~hdr[p].free
  /\ Become(GC_freehblk(State, p))
  /\ largeAllocd' = IF hdr[p].sz > 1 THEN largeAllocd - hdr[p].sz ELSE largeAllocd
  /\ UNCHANGED <<sects, maxLarge, black, munmap>>

\* The end of a collection, GC_finish_collection.
UnmapOld ==
  /\ munmap
  /\ \E old \in SUBSET ToSet(FreeBlocksInOrder(State)) :
       Become(GC_unmap_old(State, old))
  /\ UNCHANGED <<sects, largeAllocd, maxLarge, black, munmap>>

\* Pages p .. p + sz - 1 of the system become part of the heap.
GC_add_to_heap(s, p, sz) ==
  GC_freehblk(SetHdr(s, p, Header(sz, FALSE, TRUE)), p)

\* GC_collect_or_expand where it expands the heap, through GC_expand_hp_inner.
GC_expand_hp(p, sz) ==
  /\ Span(p, sz) \subseteq Page \ sects
  /\ \E unmapFirst \in BOOLEAN :
       LET s == IF munmap /\ unmapFirst
                THEN GC_unmap_old(State, ToSet(FreeBlocksInOrder(State))) ELSE State
       IN  Become(GC_add_to_heap(s, p, sz))
  /\ sects' = sects \cup Span(p, sz)
  /\ UNCHANGED <<largeAllocd, maxLarge, black, munmap>>

-----------------------------------------------------------------------------
BlocksInit ==
  /\ hdr = [p \in Page |-> Nil]
  /\ fl = [i \in Lists |-> <<>>]
  /\ freeBytes = [i \in Lists |-> 0]
  /\ largeFree = 0 /\ regions = 0 /\ unmapped = {} /\ dropCount = 0
  /\ sects = {} /\ largeAllocd = 0 /\ maxLarge = 0
  /\ oldBl = {} /\ incompleteBl = {}
  /\ munmap \in Builds

BlocksNext ==
  \/ \E p \in FalsePtrs : GC_add_to_black_list_stack(p)
  \/ GC_promote_black_lists
  \/ GC_unpromote_black_lists
  \/ \E r \in Requests : GC_new_hblk(r)
  \/ \E r \in Requests : GC_alloc_large(r)
  \/ \E p \in Page : FreeBlock(p)
  \/ UnmapOld
  \/ \E p \in Page, sz \in Growths : GC_expand_hp(p, sz)

BlocksSpec == BlocksInit /\ [][BlocksNext]_blockVars

-----------------------------------------------------------------------------
Blocks == {p \in Page : HasHeader(State, p)}
FreeBlocks == {p \in Blocks : hdr[p].free}
InUse == Blocks \ FreeBlocks
PagesOf(p) == Span(p, hdr[p].sz)
TotalSize(blocks) == MapThenSumSet(LAMBDA p : hdr[p].sz, blocks)

\* The type invariant: the header table (gc_hdrs.h), the lists and the counts.
BlocksTypeOK ==
  /\ \A p \in Page :
       \/ hdr[p] = Nil
       \/ \E n \in 1..MaxJump : hdr[p] = Forward(n)
       \/ hdr[p] \in [tag : {"header"}, sz : Page, free : BOOLEAN, mapped : BOOLEAN]
  /\ \A i \in Lists : fl[i] \in Seq(Page) /\ freeBytes[i] \in 0..N
  /\ largeFree \in 0..N /\ regions \in 0..N /\ dropCount \in 0..DropEvery - 1
  /\ unmapped \subseteq Page /\ sects \subseteq Page
  /\ largeAllocd \in 0..N /\ maxLarge \in largeAllocd..N
  /\ oldBl \subseteq FalsePtrs /\ incompleteBl \subseteq FalsePtrs
  /\ munmap \in Builds

\* The blocks with a header cover the heap sections and do not overlap,
\* whatever splits, merges, drops and growth there were; inside of a block in
\* use the forwarding counts lead to its header, which is how a pointer into a
\* large object is resolved, and inside of a free block there are none.
HeapTiled ==
  /\ UNION {PagesOf(p) : p \in Blocks} = sects
  /\ \A p, q \in Blocks : p # q => PagesOf(p) \cap PagesOf(q) = {}
  /\ \A p \in Blocks : \A q \in PagesOf(p) \ {p} :
       IF hdr[p].free THEN hdr[q] = Nil ELSE Forwarded(State, q) = p
  /\ \A q \in Page \ sects : hdr[q] = Nil

\* Each free block, and nothing else, is on the list for its size and nowhere
\* else; GC_free_bytes and GC_large_free_bytes, which decide when large blocks
\* are split, are the sums they stand for.
FreeListsExact ==
  /\ \A i \in Lists :
       /\ IsInjective(fl[i])
       /\ ToSet(fl[i]) = {p \in FreeBlocks : GC_hblk_fl_from_blocks(hdr[p].sz) = i}
       /\ freeBytes[i] = TotalSize(ToSet(fl[i]))
  /\ largeFree = TotalSize(FreeBlocks)
  /\ largeAllocd = TotalSize({p \in InUse : hdr[p].sz > 1})

\* A block is unmapped as a whole or not at all, as its header says, and a
\* block in use is mapped (the assertion at the end of GC_allochblk_nth).
MappingExact ==
  /\ unmapped \subseteq sects
  /\ \A p \in Blocks :
       /\ PagesOf(p) \cap unmapped = IF hdr[p].mapped THEN {} ELSE PagesOf(p)
       /\ ~hdr[p].free => hdr[p].mapped

\* GC_num_unmapped_regions, kept by adding up differences, is the number of
\* maximal runs of unmapped pages, so that GC_unmap_old obeys the limit.
RegionsCounted == regions = Cardinality({p \in unmapped : p - 1 \notin unmapped})

\* Without unmapping, free blocks are coalesced whenever they are adjacent (the
\* assertions in GC_add_to_fl); with it, GC_merge_unmapped sees to that.
Coalesced ==
  LET s == IF munmap THEN GC_merge_unmapped(State) ELSE State
  IN  \A p \in Page : HBLK_IS_FREE(s, p) => ~HBLK_IS_FREE(s, p + Size(s, p))

\* The places for a request that black lists do not forbid.
Places(r) ==
  {q \in Page : \E p \in FreeBlocks :
     /\ Span(q, r.sz) \subseteq PagesOf(p)
     /\ AvoidsBlackListed(r) => Span(q, EffectiveSize(r)) \cap BlackListed = {}}

\* A request that may use the entire heap fails only if there is no place for
\* it, whatever list the blocks are on and whatever blocks are better; it lands
\* on a black listed page only if that is allowed for its kind or if it is a
\* very large one and there is no place.
PlaceFound ==
  FreeBlocks # {} => \A r \in Requests :
    LET res == GC_allochblk(State, r, "entire")
    IN  /\ Places(r) # {} => res.at \in Places(r)
        /\ res.at \notin Places(r) \cup {0} => r.sz > BlLimit

\* Nothing but its being freed touches a block in use: allocation, merging,
\* unmapping and growth keep its header, its counts and its pages.
InUseKept ==
  [][\A p \in InUse :
       \/ \A q \in PagesOf(p) : hdr'[q] = hdr[q] /\ q \notin unmapped'
       \/ /\ \A q \in PagesOf(p) : hdr'[q] = Nil \/ (q = p /\ p \in FreeBlocks')
          /\ InUse \ {p} \subseteq InUse']_blockVars

\* The state of the block allocator is exact at the end of every call: headers,
\* free lists, mapping, counts and coalescing.
HeapExact ==
  /\ BlocksTypeOK /\ HeapTiled /\ FreeListsExact
  /\ MappingExact /\ RegionsCounted /\ Coalesced
=============================================================================
