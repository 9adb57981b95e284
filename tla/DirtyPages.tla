----------------------------- MODULE DirtyPages -----------------------------
(* The virtual dirty bits (os_dep.c): the collector learns which blocks were *)
(* written since it last asked, from write faults on pages it has protected  *)
(* (mprotect), from the soft-dirty bits of the kernel, from GetWriteWatch    *)
(* (gww) or from /proc (proc).  Pages hold one or more heap blocks, the bits *)
(* are kept in hash tables, and objects come and go in between.              *)
EXTENDS Integers, Sequences, FiniteSets

CONSTANTS
  NBlocks,      \* addresses of heap blocks: 1..NBlocks
  Sections,     \* sections the heap grows by, in order: <<first, last>>
  Configs       \* builds: one of the kinds above, blocks per page, PHT_HASH;
                \* the threads that write, and how many sections there will be

Blk == 1..NBlocks
\* Sections are apart from each other, and of whole pages, to which
\* GC_expand_hp_inner and GC_scratch_recycle_inner round them.
ASSUME DirtyAssumption ==
  /\ NBlocks \in Nat
  /\ Sections \in Seq(Blk \X Blk)
  /\ \A k \in 1..Len(Sections) : Sections[k][1] <= Sections[k][2]
  /\ \A k, l \in 1..Len(Sections) :
       k < l => Sections[k][2] < Sections[l][1] \/ Sections[l][2] < Sections[k][1]
  /\ \A c \in Configs : /\ c.vdb \in {"mprotect", "soft", "gww", "proc"}
                        /\ c.bpp \in 1..NBlocks /\ NBlocks % c.bpp = 0
                        /\ DOMAIN c.pht = Blk /\ c.sects \in 1..Len(Sections)
                        /\ \A k \in 1..Len(Sections) : /\ (Sections[k][1] - 1) % c.bpp = 0
                                                       /\ Sections[k][2] % c.bpp = 0

VARIABLES
  vdb,          \* how dirty bits are found out
  bpp,          \* blocks per page: GC_page_size / HBLKSIZE
  pht,          \* PHT_HASH
  on,           \* GC_incremental
  maxSects,     \* bound: sections
  nSects,       \* GC_n_heap_sects
  watched,      \* sections allocated with MEM_WRITE_WATCH
  hdr,          \* HDR of each block: a header, a forwarding address or nothing
  prot,         \* the first blocks of pages that are protected
  dirty,        \* GC_dirty_pages
  grungy,       \* GC_grungy_pages
  everSet,      \* GC_written_pages
  osDirty,      \* first blocks of the pages the system knows to be written
  stored,       \* blocks with pointers stored since the bits were read
  taken,        \* those of them the collection looks for
  looking,      \* the collection uses the bits it has read
  wr            \* what each thread does

dirtyVars == <<vdb, bpp, pht, on, maxSects, nSects, watched, hdr, prot, dirty, grungy, everSet,
               osDirty, stored, taken, looking, wr>>
bits == <<grungy, everSet, taken, looking>>
dirtyConfig == <<vdb, bpp, pht, on, maxSects, nSects, watched>>
Writer == DOMAIN wr

NoHdr == [k |-> "nil", n |-> 0]
Fwd == [k |-> "fwd", n |-> 0]
FreeHdr(n) == [k |-> "free", n |-> n]
NotWriting == [at |-> "idle", b |-> 0, todo |-> {}]

PageOf(b) == b - ((b - 1) % bpp)                     \* & ~(GC_page_size-1)
OnPage(p) == p..(p + bpp - 1)
PagesOf(S) == {PageOf(b) : b \in S}
Indices(S) == {pht[b] : b \in S}
Heap == UNION {Sections[i][1]..Sections[i][2] : i \in 1..nSects}
\* b is part of an object with pointers, of an object.
HasPtrs(b) == hdr[b].k # "nil" /\ \E s \in 1..b : hdr[s].k = "ptr" /\ s + hdr[s].n > b
InUseBlock(b) == \E s \in 1..b : hdr[s].k \in {"ptr", "atomic"} /\ s + hdr[s].n > b

DirtyInit ==
  /\ \E c \in Configs : /\ vdb = c.vdb /\ bpp = c.bpp /\ pht = c.pht /\ maxSects = c.sects
                        /\ wr = [t \in c.writers |-> NotWriting]
  /\ on = FALSE
  /\ nSects = 1 /\ watched = {}
  /\ hdr = [b \in Blk |-> IF b = Sections[1][1]
                          THEN FreeHdr(Sections[1][2] - Sections[1][1] + 1) ELSE NoHdr]
  /\ prot = {} /\ dirty = {} /\ grungy = {} /\ everSet = {} /\ osDirty = {}
  /\ stored = {} /\ taken = {} /\ looking = FALSE

-----------------------------------------------------------------------------
\* Blocks: from HeapBlocks, as far as dirty bits see them.  A block is freed
\* together with its free neighbours.
Run(h, s, n) ==
  LET next == IF s + n \in Blk /\ h[s + n].k = "free" THEN h[s + n].n ELSE 0
      before == {p \in Blk : p < s /\ h[p].k = "free" /\ p + h[p].n = s}
      first == IF before = {} THEN s ELSE CHOOSE p \in before : TRUE
  IN  [b \in Blk |-> IF b = first THEN FreeHdr(s + n + next - first)
                     ELSE IF b \in first..(s + n + next - 1) THEN NoHdr ELSE h[b]]
GC_freehblk(b) ==
  /\ hdr[b].k \in {"ptr", "atomic"}
  /\ \A t \in Writer : wr[t].b \notin b..(b + hdr[b].n - 1)
  /\ hdr' = Run(hdr, b, hdr[b].n)
  /\ stored' = stored \ (b..(b + hdr[b].n - 1))
  /\ UNCHANGED <<dirtyConfig, prot, dirty, bits, osDirty, wr>>
GC_add_to_heap ==
  /\ nSects < maxSects
  /\ nSects' = nSects + 1
  /\ watched' = IF on /\ vdb = "gww" THEN watched \cup {nSects + 1} ELSE watched
  /\ hdr' = Run(hdr, Sections[nSects'][1], Sections[nSects'][2] - Sections[nSects'][1] + 1)
  /\ UNCHANGED <<vdb, bpp, pht, on, maxSects, prot, dirty, bits, osDirty, stored, wr>>

\* The pages of n blocks at b get writable.  What else is on these pages may
\* now be written unnoticed and is dirty from now on; so are the blocks
\* themselves, unless they will hold no pointers.
AlreadyDirty(b, n) ==
  PageOf(b) = b /\ bpp = 1 /\ n = 1 /\ pht[b] \in dirty
Neighbours(b, n) == (UNION {OnPage(p) : p \in PagesOf(b..(b + n - 1))}) \ (b..(b + n - 1))
\* mutated form: the neighbours stay clean
OnlyTheBlocks(b, n, ptrfree) == IF ptrfree THEN {} ELSE b..(b + n - 1)
ToBeDirty(b, n, ptrfree) == Neighbours(b, n) \cup (IF ptrfree THEN {} ELSE b..(b + n - 1))
GC_remove_protection(b, n, ptrfree) ==
  IF ~on \/ vdb # "mprotect" \/ AlreadyDirty(b, n) THEN UNCHANGED <<dirty, prot>>
  ELSE /\ dirty' = dirty \cup Indices(ToBeDirty(b, n, ptrfree))
       /\ prot' = prot \ PagesOf(b..(b + n - 1))

\* GC_allochblk: the first n blocks of a free block.
GC_allochblk(b, n, kind) ==
  /\ hdr[b].k = "free" /\ hdr[b].n >= n
  /\ hdr' = [c \in Blk |->
              IF c = b THEN [k |-> kind, n |-> n]
              ELSE IF c \in b..(b + n - 1) THEN Fwd
              ELSE IF c = b + n /\ hdr[b].n > n THEN FreeHdr(hdr[b].n - n)
              ELSE hdr[c]]
  /\ GC_remove_protection(b, n, kind = "atomic")
  /\ UNCHANGED <<dirtyConfig, bits, osDirty, stored, wr>>
\* GC_reclaim_generic is about to link the free objects of a block.
GC_reclaim_generic(b) ==
  /\ hdr[b].k \in {"ptr", "atomic"} /\ hdr[b].n = 1
  /\ GC_remove_protection(b, 1, hdr[b].k = "atomic")
  /\ UNCHANGED <<dirtyConfig, hdr, bits, osDirty, stored, wr>>

-----------------------------------------------------------------------------
\* A client stores a pointer; if the page is protected it does so later, when
\* the handler has returned.
Store(t, b) ==
  /\ \/ wr[t] = NotWriting /\ InUseBlock(b)
     \/ wr[t].at = "retry" /\ wr[t].b = b
  /\ IF PageOf(b) \in prot
     THEN /\ wr' = [wr EXCEPT ![t] = [at |-> "fault", b |-> b, todo |-> {}]]
          /\ UNCHANGED <<stored, osDirty>>
     ELSE /\ wr' = [wr EXCEPT ![t] = NotWriting]
          /\ stored' = IF HasPtrs(b) THEN stored \cup {b} ELSE stored
          /\ osDirty' = IF vdb = "mprotect" THEN osDirty ELSE osDirty \cup {PageOf(b)}
  /\ UNCHANGED <<dirtyConfig, hdr, prot, dirty, bits>>

\* GC_write_fault_handler; no header at the address is the end of the program.
is_header_found_async(b) == hdr[b].k # "nil"
GC_write_fault_handler(t) ==
  /\ wr[t].at = "fault"
  /\ IF is_header_found_async(wr[t].b)
     THEN /\ prot' = prot \ {PageOf(wr[t].b)}
          /\ wr' = [wr EXCEPT ![t] = [at |-> "dirtying", b |-> wr[t].b,
                                       todo |-> OnPage(PageOf(wr[t].b))]]
     ELSE wr' = [wr EXCEPT ![t].at = "abort"] /\ UNCHANGED prot
  /\ UNCHANGED <<dirtyConfig, hdr, dirty, bits, osDirty, stored>>
\* async_set_pht_entry_from_index for one block of the page after the other
SetDirty(t) ==
  /\ wr[t].at = "dirtying"
  /\ \E b \in wr[t].todo :
       /\ \A c \in wr[t].todo : b <= c
       /\ dirty' = dirty \cup {pht[b]}
       /\ wr' = [wr EXCEPT ![t] = [at |-> IF wr[t].todo = {b} THEN "retry" ELSE "dirtying",
                                    b |-> wr[t].b, todo |-> wr[t].todo \ {b}]]
  /\ UNCHANGED <<dirtyConfig, hdr, prot, bits, osDirty, stored>>

-----------------------------------------------------------------------------
\* Reading the bits.

\* GC_protect_heap: with pages of one block, the runs of blocks that may hold
\* pointers, else all sections.  A block that spans sections is dealt with in
\* the section where it begins.
Spans(i) == {s \in Sections[i][1]..Sections[i][2] : hdr[s].k = "ptr"}
GC_protect_heap ==
  IF bpp > 1 THEN PagesOf(Heap)
  ELSE UNION {UNION {s..(s + hdr[s].n - 1) : s \in Spans(i)} : i \in 1..nSects}

\* GC_gww_read_dirty: GetWriteWatch fails for sections allocated without the
\* flag, and all of such a section counts as dirty.
GwwDirty == {b \in Heap : \/ PageOf(b) \in osDirty
                          \/ \E i \in 1..nSects \ watched :
                               b \in Sections[i][1]..Sections[i][2]}
\* GC_soft_read_dirty, see Pagemap for how the kernel's bits are read.
SoftDirty == {b \in Heap : PageOf(b) \in osDirty}
ProcDirty == {b \in Blk : PageOf(b) \in osDirty}

AllIndices == Indices(Blk)
EverAfterFailure == AllIndices
ReadBits(unneeded) ==
  \/ /\ vdb = "mprotect"
     /\ grungy' = IF unneeded THEN grungy ELSE dirty
     /\ dirty' = {} /\ prot' = prot \cup GC_protect_heap
     /\ UNCHANGED <<everSet, osDirty>>
  \/ /\ vdb = "gww"
     /\ grungy' = IF unneeded THEN grungy ELSE Indices(GwwDirty)
     /\ osDirty' = osDirty \ UNION {PagesOf(Sections[i][1]..Sections[i][2]) : i \in watched}
     /\ UNCHANGED <<dirty, prot, everSet>>
  \/ /\ vdb = "soft"
     /\ \/ /\ grungy' = IF unneeded THEN grungy ELSE Indices(SoftDirty)
           /\ osDirty' = {}
        \/ /\ grungy' = IF unneeded THEN grungy ELSE AllIndices   \* reopening failed
           /\ UNCHANGED osDirty
     /\ UNCHANGED <<dirty, prot, everSet>>
  \/ /\ vdb = "proc"
     /\ \/ /\ grungy' = Indices(ProcDirty) /\ osDirty' = {}
           /\ everSet' = everSet \cup grungy'
        \/ /\ grungy' = (IF unneeded THEN {} ELSE AllIndices)     \* no space
           /\ everSet' = EverAfterFailure /\ UNCHANGED osDirty
     /\ UNCHANGED <<dirty, prot>>

\* The suspend signal is blocked in the handler, so no thread is in it when the
\* world is stopped.
HandlersDone == \A t \in Writer : wr[t].at # "dirtying"
GC_read_dirty(unneeded) ==
  /\ on /\ HandlersDone
  /\ ReadBits(unneeded)
  /\ taken' = IF unneeded THEN {} ELSE {b \in stored : HasPtrs(b)}
  /\ stored' = {} /\ looking' = TRUE
  /\ UNCHANGED <<dirtyConfig, hdr, wr>>
\* The collection has gone through the dirty blocks (GC_push_next_marked_dirty).
LookedAt ==
  /\ looking' = FALSE /\ grungy' = {} /\ taken' = {}
  /\ UNCHANGED <<dirtyConfig, hdr, prot, dirty, everSet, osDirty, stored, wr>>

\* GC_dirty_init, a full collection, and the first GC_read_dirty, for which the
\* world is not stopped.  Soft-dirty bits and write watches may turn out not to
\* be supported: then mprotect is the fallback, or incremental mode stays off.
soft_dirty_init_fails == vdb \in {"soft", "gww"} /\ vdb' = "mprotect"
WrittenBefore == IF stored = {} THEN everSet ELSE AllIndices
GC_enable_incremental ==
  /\ ~on /\ on' = TRUE
  /\ UNCHANGED vdb \/ soft_dirty_init_fails
  /\ dirty' = {}
  /\ prot' = IF vdb' = "mprotect" THEN GC_protect_heap ELSE {}
  /\ everSet' = WrittenBefore
  /\ UNCHANGED grungy
  /\ osDirty' = {} /\ stored' = {} /\ taken' = {} /\ UNCHANGED looking
  /\ UNCHANGED <<bpp, pht, maxSects, nSects, watched, hdr, wr>>

DirtyNext ==
  \/ looking /\ LookedAt
  \/ ~looking /\ \E b \in Blk :
       \/ GC_freehblk(b)
       \/ \E n \in 1..2, kind \in {"ptr", "atomic"} : GC_allochblk(b, n, kind)
       \/ GC_reclaim_generic(b)
       \/ \E t \in Writer : Store(t, b)
  \/ ~looking /\ \E t \in Writer : GC_write_fault_handler(t) \/ SetDirty(t)
  \/ ~looking /\ \E unneeded \in BOOLEAN : GC_read_dirty(unneeded)
  \/ ~looking /\ GC_add_to_heap
  \/ ~looking /\ GC_enable_incremental
DirtySpec == DirtyInit /\ [][DirtyNext]_dirtyVars

-----------------------------------------------------------------------------
GC_page_was_dirty(b) == (vdb # "proc" /\ hdr[b].k = "nil") \/ pht[b] \in grungy
GC_page_was_ever_dirty(b) == pht[b] \in everSet

\* Types; the sections that are watched are sections of the heap.
DirtyTypeOK ==
  /\ vdb \in {"mprotect", "soft", "gww", "proc"} /\ on \in BOOLEAN /\ looking \in BOOLEAN
  /\ nSects \in 1..maxSects /\ watched \subseteq 1..nSects
  /\ prot \subseteq PagesOf(Heap)
  /\ dirty \cup grungy \cup everSet \subseteq AllIndices
  /\ osDirty \cup stored \cup taken \subseteq Heap
  /\ \A b \in Heap : Cardinality({s \in 1..b : hdr[s].k \notin {"nil", "fwd"}
                                               /\ s + hdr[s].n > b}) = 1

\* A block a pointer was stored in since the bits were read before counts as
\* dirty after they were read, however the store, the write fault and its
\* handler, allocation and the growth of the heap were interleaved.
StoresFound == \A b \in taken : GC_page_was_dirty(b)

\* What can be written without a fault is dirty already, or the handler that
\* unprotected its page is still there to say so.
UnprotectedDirty ==
  on /\ vdb = "mprotect" =>
    \A b \in Heap : HasPtrs(b) /\ PageOf(b) \notin prot =>
      pht[b] \in dirty \/ \E t \in Writer : wr[t].at = "dirtying" /\ b \in wr[t].todo

\* No fault on an object of the client is taken for one outside the heap
\* ("Unexpected segmentation fault outside heap").
NoForeignFault == \A t \in Writer : wr[t].at # "abort"

\* "Pages that were never dirtied cannot contain pointers": GC_push_conditional
\* passes over those even in full collections (PROC_VDB).
EverFound == vdb = "proc" /\ on => \A b \in taken : GC_page_was_ever_dirty(b)

\* GC_PROTECTS_POINTER_HEAP: with pages of one block, pointer-free objects may
\* be written by system calls, that is they are never protected ...
PtrfreeNotProtected ==
  bpp = 1 => \A b \in Blk : InUseBlock(b) /\ PageOf(b) \in prot => HasPtrs(b)
\* ... as long as no two blocks share an index.
PtrfreeNotProtectedSmall ==
  (\A b, c \in Blk : pht[b] = pht[c] => b = c) => PtrfreeNotProtected

\* The dirty bits miss no store, in any of the builds, and faults are served.
DirtySound ==
  /\ DirtyTypeOK /\ StoresFound /\ UnprotectedDirty /\ NoForeignFault
  /\ EverFound /\ PtrfreeNotProtectedSmall
=============================================================================
