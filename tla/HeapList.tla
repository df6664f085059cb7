------------------------------ MODULE HeapList ------------------------------
(***************************************************************************)
(* The kernel heap: the list of blocks behind kmalloc and kfree            *)
(* (blocklist.cpp), and the clients that hold what it handed out.          *)
(*                                                                         *)
(* The blocks stand in the sequence blocks in the order of their next      *)
(* pointers.  Addresses and sizes are counted in words from                *)
(* list_base_address.  A block header is written inside the heap itself.   *)
(* Where one is written over another one, or a client writes over one, the *)
(* list is no longer what this module describes: the model stops with      *)
(* smashed or overwritten set.                                             *)
(***************************************************************************)
EXTENDS Naturals, Sequences, FiniteSets

CONSTANTS
  Sizes,      \* the sizes that clients ask for
  FreesTail,  \* whether clients ever free the block at the list's tail
  MaxLive,    \* bound: allocations held at a time
  HeapEnd     \* bound: the code knows no end of the heap

LIST_HEADER == 4  \* sizeof(MemoryBlockList), two pointers and padding
HEADER == 3       \* sizeof(MemoryBlock): size, free, next

ASSUME HeapAssumption ==
  /\ Sizes \subseteq Nat
  /\ FreesTail \in BOOLEAN
  /\ MaxLive \in Nat
  /\ HeapEnd \in Nat

VARIABLES
  blocks,      \* the blocks from block_list->head on
  tail,        \* the position of block_list->tail in blocks, 0 if null
  live,        \* live[i]: the i-th allocation held, or Nothing
  halted,      \* heap_list_find_block reached ASSERT_NOT_REACHED
  smashed,     \* a block header was written over another one
  overwritten  \* a client wrote over a block header

list_vars == <<blocks, tail, live, halted, smashed, overwritten>>

Block(a, s, f) == [addr |-> a, size |-> s, free |-> f]
Nothing == [ptr |-> 0, size |-> 0]
Held == {i \in 1..MaxLive : live[i] # Nothing}

(* heap_list_init. *)
ListInit ==
  /\ blocks = << >>
  /\ tail = 0
  /\ live = [i \in 1..MaxLive |-> Nothing]
  /\ halted = FALSE
  /\ smashed = FALSE
  /\ overwritten = FALSE

(* For checking the properties: a block that is in use will do. *)
FindBlock_InUse(size) ==
  LET scan[i \in 0..Len(blocks)] ==
        IF i = 0 THEN 0
        ELSE LET best == scan[i - 1]
             IN  IF /\ best = 0 \/ blocks[i].size < blocks[best].size
                    /\ blocks[i].size > size
                 THEN i ELSE best
  IN  scan[Len(blocks)]

(***************************************************************************)
(* find_block: one pass over the list for the smallest free block that is  *)
(* larger than asked for; 0 stands for nullptr.                            *)
(***************************************************************************)
FindBlock(size) ==
  LET scan[i \in 0..Len(blocks)] ==
        IF i = 0 THEN 0
        ELSE LET best == scan[i - 1]
             IN  IF /\ best = 0 \/ blocks[i].size < blocks[best].size
                    /\ blocks[i].size > size
                    /\ blocks[i].free
                 THEN i ELSE best
  IN  scan[Len(blocks)]

(* The client keeps what it was given. *)
HandOut(addr, size) ==
  \E i \in 1..MaxLive \ Held :
    /\ \A j \in 1..MaxLive \ Held : i <= j
    /\ live' = [live EXCEPT ![i] = [ptr |-> addr + HEADER, size |-> size]]

Running == ~halted /\ ~smashed /\ ~overwritten

(* For checking the properties: the rest of a split always has room.       *)
Smashes_NoRest(size) ==
  LET b == FindBlock(size)
  IN  IF b = 0 THEN blocks[tail].size < HEADER ELSE size < HEADER

(***************************************************************************)
(* Whether the header that heap_list_alloc would write on a list with      *)
(* blocks lies over another one: over that of the block it is written      *)
(* behind, or, when a rest is too small, over that of the block after it.  *)
(***************************************************************************)
Smashes(size) ==
  LET b == FindBlock(size)
  IN  IF b = 0 THEN blocks[tail].size < HEADER
      ELSE \/ size < HEADER
           \/ b < Len(blocks) /\ blocks[b].size - size < HEADER

(* heap_list_alloc on the empty list. *)
AllocFirst(size) ==
  /\ Running
  /\ blocks = << >>
  /\ blocks' = <<Block(LIST_HEADER, size, FALSE)>>
  /\ tail' = 1
  /\ HandOut(LIST_HEADER, size)
  /\ UNCHANGED <<halted, smashed, overwritten>>

(* As above: the tail stays where it is. *)
AllocExtend_Stale(size) ==
  LET addr == blocks[tail].addr + blocks[tail].size
  IN  /\ Running
      /\ blocks # << >> /\ FindBlock(size) = 0 /\ ~Smashes(size)
      /\ addr + HEADER + size <= HeapEnd
      /\ blocks' = SubSeq(blocks, 1, tail) \o <<Block(addr, size, FALSE)>>
      /\ HandOut(addr, size)
      /\ UNCHANGED <<tail, halted, smashed, overwritten>>

(***************************************************************************)
(* heap_list_alloc when no block will do: a new block is made where the    *)
(* tail block ends, and linked behind it.  Whatever the tail block was     *)
(* linked to before is in the list no more.                                *)
(***************************************************************************)
AllocExtend(size) ==
  LET addr == blocks[tail].addr + blocks[tail].size
  IN  /\ Running
      /\ blocks # << >> /\ FindBlock(size) = 0 /\ ~Smashes(size)
      /\ addr + HEADER + size <= HeapEnd
      /\ blocks' = SubSeq(blocks, 1, tail) \o <<Block(addr, size, FALSE)>>
      /\ tail' = tail + 1
      /\ HandOut(addr, size)
      /\ UNCHANGED <<halted, smashed, overwritten>>

(* Split block b after size words: the rest becomes a free block. *)
Split(b, size) ==
  <<Block(blocks[b].addr, size, FALSE),
    Block(blocks[b].addr + size, blocks[b].size - size, TRUE)>>

(* As above: the rest is not linked, but the tail moves as if it were. *)
AllocSplit_NoRest(size) ==
  LET b == FindBlock(size)
  IN  /\ Running
      /\ b # 0 /\ ~Smashes(size)
      /\ blocks' = [blocks EXCEPT ![b] = Block(@.addr, size, FALSE)]
      /\ tail' = IF b < tail THEN tail + 1 ELSE tail
      /\ HandOut(blocks[b].addr, size)
      /\ UNCHANGED <<halted, smashed, overwritten>>

(* As above: the rest is not linked to what came after the block. *)
AllocSplit_EndsList(size) ==
  LET b == FindBlock(size)
  IN  /\ Running
      /\ b # 0 /\ ~Smashes(size)
      /\ blocks' = SubSeq(blocks, 1, b - 1) \o Split(b, size)
      /\ tail' = b + 1
      /\ HandOut(blocks[b].addr, size)
      /\ UNCHANGED <<halted, smashed, overwritten>>

(***************************************************************************)
(* heap_list_alloc when a block was found: it is split, and the tail       *)
(* pointer is not moved even if it was the tail block.                     *)
(***************************************************************************)
AllocSplit(size) ==
  LET b == FindBlock(size)
  IN  /\ Running
      /\ b # 0 /\ ~Smashes(size)
      /\ blocks' = SubSeq(blocks, 1, b - 1) \o Split(b, size) \o
                   SubSeq(blocks, b + 1, Len(blocks))
      /\ tail' = IF b < tail THEN tail + 1 ELSE tail
      /\ HandOut(blocks[b].addr, size)
      /\ UNCHANGED <<halted, smashed, overwritten>>

(* heap_list_alloc when it writes a header over another one. *)
Smash(size) ==
  /\ Running
  /\ blocks # << >> /\ Smashes(size)
  /\ smashed' = TRUE
  /\ UNCHANGED <<blocks, tail, live, halted, overwritten>>

(* heap_list_find_block: the blocks whose memory starts at the pointer; the *)
(* first of them is found.                                                 *)
BlocksAt(ptr) == {b \in 1..Len(blocks) : blocks[b].addr + HEADER = ptr}

(* As above: the block behind the one that is freed is freed. *)
Free_Next(i) ==
  /\ Running
  /\ i \in Held
  /\ FreesTail \/ blocks[tail].addr + HEADER # live[i].ptr
  /\ live' = [live EXCEPT ![i] = Nothing]
  /\ \E b \in BlocksAt(live[i].ptr) :
       blocks' = [blocks EXCEPT ![IF b < Len(blocks) THEN b + 1 ELSE b].free = TRUE]
  /\ UNCHANGED <<tail, halted, smashed, overwritten>>

(***************************************************************************)
(* heap_list_free: the block that belongs to the pointer is free, and if   *)
(* there is none the assertion fails.                                      *)
(***************************************************************************)
Free(i) ==
  /\ Running
  /\ i \in Held
  /\ FreesTail \/ blocks[tail].addr + HEADER # live[i].ptr
  /\ live' = [live EXCEPT ![i] = Nothing]
  /\ \/ \E b \in BlocksAt(live[i].ptr) :
          /\ \A c \in BlocksAt(live[i].ptr) : b <= c
          /\ blocks' = [blocks EXCEPT ![b].free = TRUE]
          /\ UNCHANGED halted
     \/ BlocksAt(live[i].ptr) = {} /\ halted' = TRUE /\ UNCHANGED blocks
  /\ UNCHANGED <<tail, smashed, overwritten>>

(* The blocks whose header lies, in part at least, in the memory that i    *)
(* was given.                                                              *)
Hit(i) == {b \in 1..Len(blocks) : /\ blocks[b].addr < live[i].ptr + live[i].size
                                  /\ live[i].ptr < blocks[b].addr + HEADER}

(* A client writes all of the memory that it was given, and a header in it.*)
Overwrite(i) ==
  /\ Running
  /\ i \in Held
  /\ Hit(i) # {}
  /\ overwritten' = TRUE
  /\ UNCHANGED <<blocks, tail, live, halted, smashed>>

ListNext ==
  \/ \E size \in Sizes :
       AllocFirst(size) \/ AllocExtend(size) \/ AllocSplit(size) \/ Smash(size)
  \/ \E i \in 1..MaxLive : Free(i) \/ Overwrite(i)

ListSpec == ListInit /\ [][ListNext]_list_vars

-----------------------------------------------------------------------------
ListTypeOK ==
  /\ \A b \in 1..Len(blocks) : blocks[b] \in [addr : Nat, size : Nat, free : BOOLEAN]
  /\ tail \in 0..Len(blocks)
  /\ live \in [1..MaxLive -> [ptr : Nat, size : Nat]]
  /\ halted \in BOOLEAN
  /\ smashed \in BOOLEAN
  /\ overwritten \in BOOLEAN

(***************************************************************************)
(* The blocks tile the heap: the list starts behind its own header, each   *)
(* block ends where the next one begins, and the last one is the tail.     *)
(***************************************************************************)
Tiling ==
  /\ blocks # << >> => blocks[1].addr = LIST_HEADER
  /\ \A b \in 1..(Len(blocks) - 1) :
       blocks[b + 1].addr = blocks[b].addr + blocks[b].size
  /\ tail = Len(blocks)

(***************************************************************************)
(* Every allocation that is held belongs to one block, which is in use and *)
(* as long as was asked for; every other block is free.                    *)
(***************************************************************************)
BlocksMatchHolders ==
  /\ \A i \in Held : \E b \in 1..Len(blocks) :
       blocks[b] = Block(live[i].ptr - HEADER, live[i].size, FALSE)
  /\ Cardinality({b \in 1..Len(blocks) : ~blocks[b].free}) = Cardinality(Held)

(* "attribute((malloc ...))" (heap.h:18): what kmalloc hands out overlaps  *)
(* nothing that is still held.                                             *)
HeldDisjoint ==
  \A i, j \in Held :
    i # j => live[i].ptr + live[i].size <= live[j].ptr \/
             live[j].ptr + live[j].size <= live[i].ptr

(* "ASSERT_NOT_REACHED()" (blocklist.cpp:36): a pointer that was handed    *)
(* out is found again when it is freed.                                    *)
FreeFindsBlock == ~halted

(***************************************************************************)
(* "block->size" (blocklist.cpp:95, 118) counts from the header on, so the *)
(* next header lies in the last words of what was handed out.  That is the *)
(* only one: a client that writes all of its memory, as it may (heap.h:18),*)
(* destroys the header of the block behind its own and no other, however   *)
(* blocks were split and freed before.                                     *)
(***************************************************************************)
WritesHitNextHeader ==
  \A i \in Held : \E b \in 1..Len(blocks) :
    blocks[b].addr + HEADER = live[i].ptr /\ Hit(i) \subseteq {b + 1}

(***************************************************************************)
(* Headers are written over each other in no way but those of Smashes: as  *)
(* long as there was none of them, headers are apart.  In a list of blocks *)
(* that are multiples of a header, no request for such a size smashes.     *)
(***************************************************************************)
Whole(size) == size > 0 /\ size % HEADER = 0

HeadersApart ==
  /\ \A b \in 1..(Len(blocks) - 1) : blocks[b].addr + HEADER <= blocks[b + 1].addr
  /\ blocks # << >> /\ (\A b \in 1..Len(blocks) : Whole(blocks[b].size)) =>
       \A size \in Sizes : Whole(size) => ~Smashes(size)

(***************************************************************************)
(* kmalloc and kfree (heap.h:17-19) are a heap: what heap_list_alloc hands *)
(* out is apart from everything that is held, whatever was split or freed  *)
(* before, and no call moves or takes what others hold.                    *)
(***************************************************************************)
Heap == INSTANCE Allocator WITH Holders <- 1..MaxLive, held <- live

ImplementsAllocator == Heap!Spec
=============================================================================
