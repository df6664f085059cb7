------------------------------ MODULE PhysMem ------------------------------
(***************************************************************************)
(* PhysicalMemoryManager (physmem.cpp): which pages of the RAM are in use, *)
(* as a bitmap of words and two counters, the searches for a free page,    *)
(* and the pool of L1 translation tables.  Page p is the one p pages above *)
(* __RAM_START, and addresses count from there.  The bitmap is the set of  *)
(* pages whose bit is set; its memory is taken to be large enough for all  *)
(* bits that are set or looked at.                                         *)
(***************************************************************************)
EXTENDS Integers, FiniteSets

CONSTANTS
  PMM_BLOCK_SIZE, \* size of a page
  Pages,          \* pages of RAM, 2 GiB / PMM_BLOCK_SIZE in the kernel
  WordBits,       \* bits in a word of the bitmap, 32 in the kernel
  kernel_size,    \* from __RAM_START to __FREE_RAM_START
  AlignedEvery,   \* every so many pages there is one at a multiple of 16 KiB
  L1Tables,       \* tables in the pool at __L1_TABLE_POOL_START
  CounterRange,   \* a size_t counts from 0 to CounterRange - 1
  RegionSizes,    \* the sizes of the regions that are allocated
  MaxUsed         \* bound: pages that are allocated, so that none of the
                  \* counters goes all the way round

ASSUME PhysMemAssumption ==
  /\ PMM_BLOCK_SIZE \in Nat \ {0}
  /\ WordBits \in Nat \ {0}
  /\ AlignedEvery \in Nat \ {0}
  /\ L1Tables \in Nat
  /\ kernel_size \in Nat
  /\ RegionSizes \subseteq Nat
  /\ Pages \in Nat /\ MaxUsed \in Nat /\ CounterRange \in Nat
  /\ kernel_size \div PMM_BLOCK_SIZE <= Pages
  /\ Pages <= MaxUsed /\ MaxUsed < CounterRange

VARIABLES
  bitmap,            \* the bits that are set
  m_free_pages,
  m_used_pages,
  m_free_l1_tables,
  repeated           \* history: a page was allocated that was in use

pmm_vars == <<bitmap, m_free_pages, m_used_pages, m_free_l1_tables, repeated>>

AllPages == 0..(Pages - 1)
Region(first, blocks) == first..(first + blocks - 1)

(***************************************************************************)
(* init: every page is free but the kernel's.  The memory of the bitmap is *)
(* not cleared; a machine is meant that starts with its RAM zeroed.        *)
(***************************************************************************)
PmmInit ==
  LET blocks == kernel_size \div PMM_BLOCK_SIZE
  IN  /\ bitmap = Region(0, blocks)
      /\ m_free_pages = Pages - blocks
      /\ m_used_pages = blocks
      /\ m_free_l1_tables = L1Tables
      /\ repeated = FALSE

(* For checking the properties: the page behind the region is set as well. *)
AllocateRegion_OneMore(base, size) ==
  LET first == base \div PMM_BLOCK_SIZE
      blocks == size \div PMM_BLOCK_SIZE
  IN  /\ m_used_pages + blocks <= MaxUsed
      /\ bitmap' = bitmap \cup Region(first, blocks + 1)
      /\ m_used_pages' = m_used_pages + blocks
      /\ m_free_pages' = (m_free_pages - blocks) % CounterRange
      /\ repeated' = (repeated \/ Region(first, blocks) \cap bitmap # {})
      /\ UNCHANGED m_free_l1_tables

(***************************************************************************)
(* allocate_region: it counts every page of the region that it is asked    *)
(* for, whether or not its bit was set before and whether or not it is in  *)
(* the RAM.  Parts of a page, at either end, are cut off.                  *)
(***************************************************************************)
AllocateRegion(base, size) ==
  LET first == base \div PMM_BLOCK_SIZE
      blocks == size \div PMM_BLOCK_SIZE
  IN  /\ m_used_pages + blocks <= MaxUsed
      /\ bitmap' = bitmap \cup Region(first, blocks)
      /\ m_used_pages' = m_used_pages + blocks
      /\ m_free_pages' = (m_free_pages - blocks) % CounterRange
      /\ repeated' = (repeated \/ Region(first, blocks) \cap bitmap # {})
      /\ UNCHANGED m_free_l1_tables

(* allocate_l1_table: the caller says which one; the pool only counts.     *)
AllocateL1Table ==
  /\ m_free_l1_tables # 0
  /\ m_free_l1_tables' = m_free_l1_tables - 1
  /\ UNCHANGED <<bitmap, m_free_pages, m_used_pages, repeated>>

(* A region starts in the RAM.  It may run past its end.                   *)
PmmNext ==
  \/ \E base \in 0..(Pages * PMM_BLOCK_SIZE - 1), size \in RegionSizes :
       AllocateRegion(base, size)
  \/ AllocateL1Table

-----------------------------------------------------------------------------
NotFound == -1

(* Whether page p will do for a search that looks for one page in every.   *)
Suits(p, every) == p \notin bitmap /\ p % every = 0

(* PMM_REGION_FULL: all bits of word i are set. *)
Full(i) == \A p \in (i * WordBits)..(i * WordBits + WordBits - 1) : p \in bitmap

(* For checking the properties: the last bit of the word is taken. *)
FindInWord_Last(i, every) ==
  LET found[j \in 0..WordBits] ==
        IF j = 0 THEN NotFound
        ELSE LET p == i * WordBits + (j - 1)
             IN  IF Suits(p, every) THEN p ELSE found[j - 1]
  IN  found[WordBits]

(* The loop over the bits of word i: found[j] is what it has returned, if  *)
(* it has, after j bits.                                                   *)
FindInWord(i, every) ==
  LET found[j \in 0..WordBits] ==
        IF j = 0 THEN NotFound
        ELSE LET p == i * WordBits + (j - 1)
             IN  IF found[j - 1] = NotFound /\ Suits(p, every) THEN p ELSE found[j - 1]
  IN  found[WordBits]

(* As above: a full word ends the search. *)
FindBit_StopsAtFull(every) ==
  LET words == m_free_pages \div WordBits
      found[i \in 0..words] ==
        IF i = 0 THEN NotFound
        ELSE IF found[i - 1] = NotFound /\ \A k \in 0..(i - 1) : ~Full(k)
             THEN FindInWord(i - 1, every) ELSE found[i - 1]
  IN  found[words]

(***************************************************************************)
(* The loop over the words that both searches share.  They look at as many *)
(* words as m_free_pages pages would fill, and skip those that are full.   *)
(* NotFound stands for the assertion at their end.                         *)
(***************************************************************************)
FindBit(every) ==
  LET words == m_free_pages \div WordBits
      found[i \in 0..words] ==
        IF i = 0 THEN NotFound
        ELSE IF found[i - 1] = NotFound /\ ~Full(i - 1)
             THEN FindInWord(i - 1, every) ELSE found[i - 1]
  IN  found[words]

find_first_free_bit == FindBit(1)
find_16k_aligned_bit == FindBit(AlignedEvery)

-----------------------------------------------------------------------------
PmmTypeOK ==
  /\ bitmap \subseteq Nat
  /\ m_free_pages \in 0..(CounterRange - 1)
  /\ m_used_pages \in 0..MaxUsed
  /\ m_free_l1_tables \in 0..L1Tables
  /\ repeated \in BOOLEAN

(***************************************************************************)
(* The counters are kept apart from the bitmap, and nothing looks at a bit *)
(* before it is set: m_used_pages is the number of bits as long as no page *)
(* was allocated twice, and too high ever after.  m_free_pages complements *)
(* it, round zero if need be.                                              *)
(***************************************************************************)
CountersMatchBitmap ==
  /\ IF repeated THEN m_used_pages > Cardinality(bitmap)
     ELSE m_used_pages = Cardinality(bitmap)
  /\ m_free_pages = (Pages - m_used_pages) % CounterRange

(***************************************************************************)
(* What a search returns is free and aligned as was asked for, and no such *)
(* page lies below it: the low pages do not stay free while the shrinking  *)
(* search runs through the high ones.  It is a page of the RAM unless      *)
(* m_free_pages has gone round.                                            *)
(***************************************************************************)
IsLowest(p, every) ==
  /\ p \in Nat /\ Suits(p, every)
  /\ \A q \in 0..(p - 1) : ~Suits(q, every)
  /\ m_used_pages <= Pages => p \in AllPages

LowestPageFound ==
  \A every \in {1, AlignedEvery} :
    FindBit(every) # NotFound => IsLowest(FindBit(every), every)

(***************************************************************************)
(* The searches look at fewer words than the bitmap has, so pages may be   *)
(* free that they never find.  They do not fail, though, while the words   *)
(* they look at hold more bits than pages were ever allocated.             *)
(***************************************************************************)
SearchSucceeds ==
  m_used_pages < WordBits * (m_free_pages \div WordBits) =>
    find_first_free_bit # NotFound
=============================================================================
