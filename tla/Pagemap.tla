------------------------------- MODULE Pagemap -------------------------------
(* How GC_soft_read_dirty (os_dep.c) reads the soft-dirty bits: it goes      *)
(* through the heap sections and the static roots, and for each gets the     *)
(* entries of /proc/self/pagemap through a buffer that is read ahead and may *)
(* be filled by less than what was asked for.  An entry stands for a page,   *)
(* positions in the file are numbers of entries, and an address is a number  *)
(* of words.                                                                 *)
EXTENDS DirtyPages, FiniteSetsExt

CONSTANTS
  NPages,       \* pages of the process
  PageWords,    \* words in a page
  BufSize,      \* VDB_BUF_SZ, in entries
  BufAlign,     \* alignment of reads, in entries
  Regions       \* sequences of regions <<start, limit>>: sections, then roots

ASSUME PagemapAssumption ==
  /\ NPages \in Nat /\ PageWords \in Nat \ {0}
  /\ BufSize \in Nat \ {0} /\ BufAlign \in 1..BufSize
  /\ \A rs \in Regions : /\ rs \in Seq(Nat \X Nat) /\ rs # <<>>
                         /\ \A k \in 1..Len(rs) : rs[k][2] <= NPages * PageWords

VARIABLES
  regions,      \* the regions
  soft,         \* the pages with soft-dirty bits
  region, vaddr,    \* where the scan is
  bufPos, bufLen,   \* pagemap_buf_fpos and pagemap_buf_len
  bufData,      \* pages the entries in soft_vdb_buf are really about
  offset,       \* the file offset of pagemap_fd
  found,        \* GC_grungy_pages
  strayed       \* history: a second read began at a wrong place

pagemapVars == <<regions, soft, region, vaddr, bufPos, bufLen, bufData, offset, found, strayed>>
Done == NPages * PageWords

PagemapInit ==
  /\ regions \in Regions /\ soft \in SUBSET (0..NPages - 1)
  /\ region = 1 /\ vaddr = regions[1][1]
  /\ bufPos = 0 /\ bufLen = 0 /\ bufData = <<>> /\ offset = 0 /\ found = {}
  /\ strayed = FALSE

PageNo(a) == a \div PageWords
Fpos == PageNo(vaddr)
Limit == regions[region][2]
ReadLen == (Limit - vaddr + PageWords - 1) \div PageWords
Hint == IF region < Len(regions) THEN PageNo(regions[region + 1][1]) ELSE 0

\* The entries from fpos on are in the buffer: set the bits of their pages.
InBuffer == bufPos <= Fpos /\ Fpos < bufPos + bufLen
Available == Min({bufPos + bufLen - Fpos, ReadLen})
\* The addresses the loop looks at, all as far into their pages as the first.
Visited == {vaddr + k * PageWords : k \in 0..Available - 1}
PageEntry(v) == bufData[PageNo(v) - bufPos + 1]
soft_set_grungy_pages ==
  /\ region <= Len(regions) /\ vaddr < Limit /\ InBuffer
  /\ found' = found \cup {PageNo(a) : a \in {v \in Visited : PageEntry(v) \in soft}}
  /\ vaddr' = vaddr + Available * PageWords
  /\ UNCHANGED <<regions, soft, region, bufPos, bufLen, bufData, offset, strayed>>
NextRegion ==
  /\ region <= Len(regions) /\ vaddr >= Limit
  /\ region' = region + 1
  /\ vaddr' = IF region < Len(regions) THEN regions[region + 1][1] ELSE Done
  /\ UNCHANGED <<regions, soft, bufPos, bufLen, bufData, offset, found, strayed>>

\* Where a read begins: there is no lseek if the buffer ends at this place.
Seek(pos, off) == IF bufLen = 0 \/ bufPos + bufLen # pos THEN pos ELSE off
Count(pos) ==
  IF Hint > pos /\ Hint - pos < BufSize THEN BufSize
  ELSE Min({ReadLen + Fpos - pos, BufSize})
Aligned == Fpos - (Fpos % BufAlign)
Fill(pos, off, res) ==
  /\ bufPos' = pos /\ bufLen' = res /\ offset' = off + res
  /\ bufData' = [k \in 1..res |-> off + k - 1]
\* A read may be short.  If the entry that is needed is not in it, one that
\* begins at this entry is made; whether it needs an lseek is found out from
\* the buffer as it was before.
pagemap_buffered_read ==
  /\ region <= Len(regions) /\ vaddr < Limit /\ ~InBuffer /\ ~strayed
  /\ \E off \in {Seek(Aligned, offset)}, res \in 1..Count(Aligned) :
       \/ res > Fpos - Aligned /\ Fill(Aligned, off, res) /\ UNCHANGED strayed
       \/ /\ res <= Fpos - Aligned
          /\ \E again \in {Seek(Fpos, off + res)}, more \in 1..Count(Fpos) :
               Fill(Fpos, again, more) /\ strayed' = (again # Fpos)
  /\ UNCHANGED <<regions, soft, region, vaddr, found>>

PagemapNext == soft_set_grungy_pages \/ NextRegion \/ pagemap_buffered_read
PagemapSpec == PagemapInit /\ [][PagemapNext]_pagemapVars

-----------------------------------------------------------------------------
\* Types.
PagemapTypeOK ==
  /\ regions \in Regions /\ soft \subseteq 0..NPages - 1 /\ found \subseteq 0..NPages - 1
  /\ region \in 1..Len(regions) + 1 /\ vaddr \in Nat
  /\ bufLen = Len(bufData) /\ bufLen <= BufSize /\ bufPos \in Nat /\ offset \in Nat
  /\ strayed \in BOOLEAN

\* The buffer holds the entries of the pages it is taken to hold, whatever the
\* order of the regions and however short the reads, as long as no second read
\* is made where the last buffer happened to end.
BufferRight == strayed \/ \A k \in 1..bufLen : bufData[k] = bufPos + k - 1

Overlaps(p) == \E k \in 1..Len(regions) :
                 regions[k][1] < (p + 1) * PageWords /\ regions[k][2] > p * PageWords
\* The last page of every region is one that the scan looks at: its last word is
\* as far into its page as the first word is into its own, or farther.  So it is
\* for the sections, which begin with a page; roots are what they are.
LastPagesVisited == \A rs \in Regions : \A k \in 1..Len(rs) :
                      rs[k][1] % PageWords <= (rs[k][2] - 1) % PageWords
\* When all regions are done, the dirty pages were found: all that overlap a
\* region.
PagesFound == region > Len(regions) /\ ~strayed => \A p \in soft : Overlaps(p) => p \in found
\* Pages that were not written are not scanned.
OnlyDirtyFound == strayed \/ found \subseteq soft

\* Reading ahead, short reads and unordered regions lose and invent no page.
PagemapSound == PagemapTypeOK /\ BufferRight /\ PagesFound /\ OnlyDirtyFound

\* The dirty bits, and how they are read from the page map, miss no store.
StoresSeen == DirtySound /\ PagemapSound
=============================================================================
