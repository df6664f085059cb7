------------------------- MODULE KernelMemoryProofs -------------------------
(***************************************************************************)
(* The kernel's memory, for any sizes, any number of allocations and any   *)
(* number of pages.  The page manager and the permanent objects need no    *)
(* assumption beyond those on the constants.  What is said of the heap     *)
(* holds as long as no client frees the block at the list's tail:          *)
(* HeapList_free_tail shows what happens otherwise.                        *)
(***************************************************************************)
EXTENDS KernelMemory, NatRecursion, FiniteSetTheorems, SequenceTheorems

(***************************************************************************)
(* The block list.  find_block returns the best fit whatever the list      *)
(* looks like; as long as the last block of the list is never freed,       *)
(* blocks tile the heap and what clients hold stays theirs.                *)
(***************************************************************************)
BlockType == [addr : Nat, size : Nat, free : BOOLEAN]

-----------------------------------------------------------------------------
(* Whether find_block takes block b, if best is the best so far. *)
Better(size, b, best) ==
  /\ best = 0 \/ blocks[b].size < blocks[best].size
  /\ blocks[b].size > size
  /\ blocks[b].free

(* The loop of find_block: f[i] is the best of the first i blocks. *)
Scans(f, size) ==
  /\ f[0] = 0
  /\ \A i \in 1..Len(blocks) :
       f[i] = IF Better(size, i, f[i - 1]) THEN i ELSE f[i - 1]

(* The loop of find_block is a function. *)
LEMMA ScanExists ==
  ASSUME NEW size, Len(blocks) \in Nat
  PROVE  \E f : f = [i \in 0..Len(blocks) |->
                       IF i = 0 THEN 0
                       ELSE IF Better(size, i, f[i - 1]) THEN i ELSE f[i - 1]]
<1> DEFINE N == Len(blocks)
           step == [p \in (0..N) \X (1..N) |->
                      IF Better(size, p[2], p[1]) THEN p[2] ELSE p[1]]
<1>1. step \in [(0..N) \X (1..N) -> 0..N]
  OBVIOUS
<1>2. PICK f \in [0..N -> 0..N] : Iterates(f, step, 0, N)
  <2> HIDE DEF step
  <2>1. N \in Nat /\ 0 \in 0..N
    OBVIOUS
  <2> HIDE DEF N
  <2> QED
    BY <1>1, <2>1, RecursionUpTo, Zenon
<1>3. ASSUME NEW i \in 1..N
      PROVE  f[i] = IF Better(size, i, f[i - 1]) THEN i ELSE f[i - 1]
  <2>1. <<f[i - 1], i>> \in (0..N) \X (1..N)
    OBVIOUS
  <2>2. f[i] = step[<<f[i - 1], i>>]
    BY <1>2 DEF Iterates
  <2> QED
    BY <2>1, <2>2
<1>4. f = [i \in 0..N |->
             IF i = 0 THEN 0
             ELSE IF Better(size, i, f[i - 1]) THEN i ELSE f[i - 1]]
  <2> HIDE DEF Better
  <2> QED
    BY <1>2, <1>3 DEF Iterates
<1> QED
  BY <1>4

(* find_block returns what its loop has found after the last block. *)
LEMMA FindBlockScans ==
  ASSUME NEW size, Len(blocks) \in Nat
  PROVE  \E f : FindBlock(size) = f[Len(blocks)] /\ Scans(f, size)
<1> DEFINE scan[i \in 0..Len(blocks)] ==
             IF i = 0 THEN 0
             ELSE LET best == scan[i - 1]
                  IN  IF /\ best = 0 \/ blocks[i].size < blocks[best].size
                         /\ blocks[i].size > size
                         /\ blocks[i].free
                      THEN i ELSE best
<1>1. FindBlock(size) = scan[Len(blocks)]
  BY DEF FindBlock
<1>2. scan = [i \in 0..Len(blocks) |->
                IF i = 0 THEN 0
                ELSE IF Better(size, i, scan[i - 1]) THEN i ELSE scan[i - 1]]
  BY ScanExists DEF Better
<1>3. Scans(scan, size)
  <2> HIDE DEF scan
  <2> QED
    BY <1>2 DEF Scans
<1> HIDE DEF scan
<1> QED
  BY <1>1, <1>3

(* The blocks that find_block may choose from, and what makes one the best *)
(* of the first n.                                                         *)
Fits(size) == {b \in 1..Len(blocks) : blocks[b].free /\ blocks[b].size > size}

IsBest(b, size, n) ==
  /\ b \in Fits(size)
  /\ \A c \in Fits(size) : c <= n =>
       \/ blocks[b].size < blocks[c].size
       \/ blocks[b].size = blocks[c].size /\ b <= c

(* That is the best of all blocks, or none fits. *)
LEMMA FindBlockIsBest ==
  ASSUME NEW size \in Nat, blocks \in Seq(BlockType)
  PROVE  IF Fits(size) = {} THEN FindBlock(size) = 0
         ELSE IsBest(FindBlock(size), size, Len(blocks))
<1> DEFINE N == Len(blocks)
<1>1. N \in Nat /\ \A b \in 1..N : blocks[b].size \in Nat
  <2>1. N \in Nat /\ \A b \in 1..N : blocks[b] \in BlockType
    OBVIOUS
  <2> QED
    BY <2>1 DEF BlockType
<1>2. PICK f : FindBlock(size) = f[N] /\ Scans(f, size)
  BY <1>1, FindBlockScans
<1> DEFINE Good(n) == \/ f[n] = 0 /\ \A c \in Fits(size) : c > n
                      \/ f[n] <= n /\ IsBest(f[n], size, n)
           S == {n \in 0..N : Good(n)}
<1>3. 0 \in S
  BY <1>1, <1>2 DEF Scans, Fits
<1>4. ASSUME NEW n \in 1..N, n - 1 \in S
      PROVE  n \in S
  <2>1. f[n] = IF Better(size, n, f[n - 1]) THEN n ELSE f[n - 1]
    BY <1>2 DEF Scans
  <2>2. CASE f[n - 1] = 0
    BY <1>1, <1>4, <2>1, <2>2 DEF Better, Fits, IsBest
  <2>3. CASE f[n - 1] # 0
    <3>1. f[n - 1] \in Fits(size) /\ f[n - 1] <= n - 1 /\ IsBest(f[n - 1], size, n - 1)
      BY <1>4, <2>3 DEF IsBest
    <3>2. f[n - 1] \in 1..N
      BY <3>1 DEF Fits
    <3>3. CASE Better(size, n, f[n - 1])
      BY <1>1, <2>1, <2>3, <3>1, <3>2, <3>3, SMTT(30) DEF Better, Fits, IsBest
    <3>4. CASE ~Better(size, n, f[n - 1])
      BY <1>1, <2>1, <2>3, <3>1, <3>2, <3>4, SMTT(30) DEF Better, Fits, IsBest
    <3> QED
      BY <3>3, <3>4
  <2> QED
    BY <2>2, <2>3
<1>5. N \in S
  <2> HIDE DEF S
  <2>1. 0..N \subseteq S
    BY <1>1, <1>3, <1>4, InductionUpTo
  <2> QED
    BY <1>1, <2>1
<1> QED
  BY <1>1, <1>2, <1>5 DEF IsBest, Fits

-----------------------------------------------------------------------------
(***************************************************************************)
(* The inductive invariant.  Blocks do not overlap, which is Tiling over   *)
(* any distance; those that have another one behind them have room for     *)
(* their header, so that each has an address of its own.                   *)
(***************************************************************************)
Ordered ==
  \A b, c \in 1..Len(blocks) : b < c => blocks[b].addr + blocks[b].size <= blocks[c].addr

RoomForHeader == \A b \in 1..(Len(blocks) - 1) : blocks[b].size >= HEADER

(* The last block is in use, so it is never the one that is split.         *)
TailInUse == blocks # << >> => ~blocks[Len(blocks)].free

(* Blocks in use and holders belong together one to one.                   *)
HolderHasBlock ==
  \A i \in Held : \E b \in 1..Len(blocks) :
    blocks[b] = Block(live[i].ptr - HEADER, live[i].size, FALSE)

BlockHasHolder ==
  \A b \in 1..Len(blocks) : ~blocks[b].free =>
    \E i \in Held : live[i].ptr = blocks[b].addr + HEADER

OneHolder == \A i, j \in Held : live[i].ptr = live[j].ptr => i = j

HoldersMatch == HolderHasBlock /\ BlockHasHolder /\ OneHolder

HeapInv ==
  /\ ListTypeOK
  /\ blocks \in Seq(BlockType)
  /\ Tiling
  /\ Ordered
  /\ RoomForHeader
  /\ TailInUse
  /\ HoldersMatch
  /\ FreeFindsBlock

(* The list is empty. *)
LEMMA InitHeapInv == ListInit => HeapInv
<1> SUFFICES ASSUME ListInit PROVE HeapInv
  OBVIOUS
<1>1. blocks = << >> /\ Len(blocks) = 0 /\ blocks \in Seq(BlockType)
  BY DEF ListInit
<1>2. live \in [1..MaxLive -> [ptr : Nat, size : Nat]] /\ Held = {}
  BY DEF ListInit, Held, Nothing
<1>3. Tiling /\ Ordered /\ RoomForHeader /\ TailInUse
  BY <1>1 DEF ListInit, Tiling, Ordered, RoomForHeader, TailInUse
<1>4. HoldersMatch
  BY <1>1, <1>2 DEF HoldersMatch, HolderHasBlock, BlockHasHolder, OneHolder
<1>5. ListTypeOK
  <2>1. halted \in BOOLEAN /\ smashed \in BOOLEAN /\ overwritten \in BOOLEAN
    BY Zenon DEF ListInit
  <2>2. tail \in 0..Len(blocks)
    BY <1>1 DEF ListInit
  <2> QED
    BY <1>1, <1>2, <2>1, <2>2 DEF ListTypeOK
<1>6. FreeFindsBlock
  BY <1>1 DEF ListInit, FreeFindsBlock
<1> QED
  BY <1>1, <1>3, <1>4, <1>5, <1>6 DEF HeapInv

-----------------------------------------------------------------------------
(* The sequences that the two ways of allocating make of the list.         *)
LEMMA Cut ==
  ASSUME NEW s \in Seq(BlockType), NEW m \in 1..(Len(s) + 1), NEW n \in 0..Len(s),
         m <= n + 1
  PROVE  /\ SubSeq(s, m, n) \in Seq(BlockType)
         /\ Len(SubSeq(s, m, n)) = n - m + 1
         /\ \A i \in 1..(n - m + 1) : SubSeq(s, m, n)[i] = s[m + i - 1]
<1>1. m \in Int /\ n \in Int /\ \A i \in m..n : s[i] \in BlockType
  BY ElementOfSeq
<1> QED
  BY <1>1, SubSeqProperties

(* Names for the pieces, which the provers need not look into. *)
Cat(s, t) == s \o t
Front(n) == SubSeq(blocks, 1, n)
Back(n) == SubSeq(blocks, n, Len(blocks))
One(x) == <<x>>
Two(x, y) == <<x, y>>

(* The elements of two sequences in one. *)
LEMMA Joined ==
  ASSUME NEW s \in Seq(BlockType), NEW t \in Seq(BlockType)
  PROVE  /\ Cat(s, t) \in Seq(BlockType)
         /\ Len(s) \in Nat /\ Len(t) \in Nat
         /\ Len(Cat(s, t)) = Len(s) + Len(t)
         /\ \A i \in 1..Len(s) : Cat(s, t)[i] = s[i]
         /\ \A i \in (Len(s) + 1)..(Len(s) + Len(t)) : Cat(s, t)[i] = t[i - Len(s)]
<1>1. Len(s) \in Nat /\ Len(t) \in Nat
  OBVIOUS
<1>2. /\ s \o t \in Seq(BlockType)
      /\ Len(s \o t) = Len(s) + Len(t)
      /\ \A i \in 1..(Len(s) + Len(t)) :
           (s \o t)[i] = IF i <= Len(s) THEN s[i] ELSE t[i - Len(s)]
  BY ConcatProperties, Zenon
<1> QED
  BY <1>1, <1>2 DEF Cat

(* A block behind all others. *)
LEMMA Extended ==
  ASSUME blocks \in Seq(BlockType), NEW new \in BlockType,
         NEW s, s = Cat(Front(Len(blocks)), One(new))
  PROVE  /\ s \in Seq(BlockType)
         /\ Len(s) = Len(blocks) + 1
         /\ \A i \in 1..Len(blocks) : s[i] = blocks[i]
         /\ s[Len(blocks) + 1] = new
<1> DEFINE front == Front(Len(blocks))
           back == One(new)
<1>1. Len(blocks) \in Nat
  OBVIOUS
<1>2. /\ front \in Seq(BlockType) /\ Len(front) = Len(blocks)
      /\ \A i \in 1..Len(blocks) : front[i] = blocks[i]
  BY <1>1, Cut DEF Front
<1>3. back \in Seq(BlockType) /\ Len(back) = 1 /\ back[1] = new
  BY DEF One
<1> HIDE DEF front, back
<1>4. /\ Cat(front, back) \in Seq(BlockType)
      /\ Len(Cat(front, back)) = Len(blocks) + 1
      /\ \A i \in 1..Len(blocks) : Cat(front, back)[i] = front[i]
      /\ Cat(front, back)[Len(blocks) + 1] = back[1]
  <2>1. /\ Cat(front, back) \in Seq(BlockType)
        /\ Len(Cat(front, back)) = Len(front) + Len(back)
        /\ \A i \in 1..Len(front) : Cat(front, back)[i] = front[i]
        /\ \A i \in (Len(front) + 1)..(Len(front) + Len(back)) :
             Cat(front, back)[i] = back[i - Len(front)]
    BY <1>2, <1>3, Joined, Zenon
  <2>2. /\ Len(blocks) + 1 \in (Len(blocks) + 1)..(Len(blocks) + 1)
        /\ (Len(blocks) + 1) - Len(blocks) = 1
    BY <1>1
  <2> QED
    BY <1>2, <1>3, <2>1, <2>2, ZenonT(30)
<1>5. s = Cat(front, back)
  BY DEF front, back
<1> QED
  BY <1>2, <1>3, <1>4, <1>5

(* The sequence s is the list with x and y in the place of block b. *)
TwoFor(s, b, x, y) ==
  /\ s \in Seq(BlockType)
  /\ Len(s) = Len(blocks) + 1
  /\ \A i \in 1..(b - 1) : s[i] = blocks[i]
  /\ s[b] = x
  /\ s[b + 1] = y
  /\ \A i \in (b + 2)..(Len(blocks) + 1) : s[i] = blocks[i - 1]

(* Two blocks in the place of one. *)
LEMMA SplitAt ==
  ASSUME blocks \in Seq(BlockType), NEW b \in 1..Len(blocks),
         NEW x \in BlockType, NEW y \in BlockType
  PROVE  TwoFor(Cat(Cat(Front(b - 1), Two(x, y)), Back(b + 1)), b, x, y)
<1> DEFINE s == Cat(Cat(Front(b - 1), Two(x, y)), Back(b + 1))
           front == Front(b - 1)
           mid == Two(x, y)
           back == Back(b + 1)
           head == Cat(front, mid)
<1>1. Len(blocks) \in Nat /\ b \in 1..Len(blocks)
  OBVIOUS
<1>2. /\ front \in Seq(BlockType) /\ Len(front) = b - 1
      /\ \A i \in 1..(b - 1) : front[i] = blocks[i]
  BY <1>1, Cut DEF Front
<1>3. /\ back \in Seq(BlockType) /\ Len(back) = Len(blocks) - b
      /\ \A i \in 1..(Len(blocks) - b) : back[i] = blocks[b + i]
  BY <1>1, Cut DEF Back
<1>4. mid \in Seq(BlockType) /\ Len(mid) = 2 /\ mid[1] = x /\ mid[2] = y
  BY DEF Two
<1>5. s = Cat(head, back)
  OBVIOUS
<1> HIDE DEF s, front, mid, back
<1>6. /\ head \in Seq(BlockType) /\ Len(head) = b + 1
      /\ \A i \in 1..(b - 1) : head[i] = blocks[i]
      /\ head[b] = x /\ head[b + 1] = y
  <2>1. /\ head \in Seq(BlockType)
        /\ Len(head) = Len(front) + Len(mid)
        /\ \A i \in 1..Len(front) : head[i] = front[i]
        /\ \A i \in (Len(front) + 1)..(Len(front) + Len(mid)) :
             head[i] = mid[i - Len(front)]
    BY <1>2, <1>4, Joined, Zenon
  <2>2. /\ (b - 1) + 2 = b + 1 /\ (b - 1) + 1 = b
        /\ b - (b - 1) = 1 /\ (b + 1) - (b - 1) = 2
        /\ b \in b..(b + 1) /\ b + 1 \in b..(b + 1)
    BY <1>1
  <2> HIDE DEF head
  <2>3. Len(head) = b + 1 /\ \A i \in 1..(b - 1) : head[i] = blocks[i]
    BY <1>2, <1>4, <2>1, <2>2
  <2>4. \A i \in b..(b + 1) : head[i] = mid[i - (b - 1)]
    BY <1>2, <1>4, <2>1, <2>2
  <2>5. head[b] = mid[1] /\ head[b + 1] = mid[2]
    BY <2>2, <2>4
  <2> QED
    BY <1>4, <2>1, <2>3, <2>5
<1> HIDE DEF head
<1>7. /\ s \in Seq(BlockType) /\ Len(s) = Len(blocks) + 1
      /\ \A i \in 1..(b + 1) : s[i] = head[i]
      /\ \A i \in (b + 2)..(Len(blocks) + 1) : s[i] = back[i - (b + 1)]
  <2>1. /\ Cat(head, back) \in Seq(BlockType)
        /\ Len(Cat(head, back)) = Len(head) + Len(back)
        /\ \A i \in 1..Len(head) : Cat(head, back)[i] = head[i]
        /\ \A i \in (Len(head) + 1)..(Len(head) + Len(back)) :
             Cat(head, back)[i] = back[i - Len(head)]
    BY <1>3, <1>6, Joined, Zenon
  <2>2. /\ Len(head) + Len(back) = Len(blocks) + 1
        /\ Len(head) + 1 = b + 2
    BY <1>1, <1>3, <1>6
  <2> QED
    BY <1>5, <1>6, <2>1, <2>2, Zenon
<1>8. \A i \in 1..(b - 1) : s[i] = blocks[i]
  BY <1>1, <1>6, <1>7
<1>9. s[b] = x /\ s[b + 1] = y
  BY <1>1, <1>6, <1>7
<1>10. ASSUME NEW i \in (b + 2)..(Len(blocks) + 1)
       PROVE  s[i] = blocks[i - 1]
  <2>1. i - (b + 1) \in 1..(Len(blocks) - b) /\ b + (i - (b + 1)) = i - 1
    BY <1>1
  <2> QED
    BY <1>3, <1>7, <2>1
<1>11. TwoFor(s, b, x, y)
  BY <1>7, <1>8, <1>9, <1>10 DEF TwoFor
<1> QED
  BY <1>11 DEF s

-----------------------------------------------------------------------------
(* What a client is handed is a new block of its own; the blocks in use    *)
(* are the ones that were and this one.                                    *)
NewBlock(addr, size) ==
  /\ \E b \in 1..Len(blocks') : blocks'[b] = Block(addr, size, FALSE)
  /\ \A b \in 1..Len(blocks) : ~blocks[b].free =>
       /\ blocks[b].addr # addr
       /\ \E c \in 1..Len(blocks') : blocks'[c] = blocks[b]
  /\ \A c \in 1..Len(blocks') : ~blocks'[c].free =>
       \/ blocks'[c] = Block(addr, size, FALSE)
       \/ \E b \in 1..Len(blocks) : blocks[b] = blocks'[c]

(* What is handed out is a block of the list, which nobody held. *)
LEMMA HandOutKeepsMatch ==
  ASSUME HoldersMatch, live \in [1..MaxLive -> [ptr : Nat, size : Nat]],
         \A b \in 1..Len(blocks) : blocks[b] \in BlockType,
         NEW addr \in Nat, NEW size \in Nat,
         HandOut(addr, size), NewBlock(addr, size)
  PROVE  HoldersMatch' /\ live' \in [1..MaxLive -> [ptr : Nat, size : Nat]]
<1> DEFINE got == [ptr |-> addr + HEADER, size |-> size]
<1>1. PICK i \in 1..MaxLive \ Held : live' = [live EXCEPT ![i] = got]
  BY DEF HandOut
<1>2. /\ got \in [ptr : Nat, size : Nat] /\ got # Nothing
      /\ got.ptr - HEADER = addr /\ got.ptr = addr + HEADER /\ got.size = size
  BY DEF HEADER, Nothing
<1> HIDE DEF got
<1>3. live' \in [1..MaxLive -> [ptr : Nat, size : Nat]]
  BY <1>1, <1>2
<1>4. /\ Held' = Held \cup {i}
      /\ live'[i] = got
      /\ \A j \in Held : live'[j] = live[j] /\ j # i
  BY <1>1, <1>2 DEF Held
<1>5. HolderHasBlock'
  <2> SUFFICES ASSUME NEW j \in Held'
               PROVE  \E b \in 1..Len(blocks') :
                        blocks'[b] = Block(live'[j].ptr - HEADER, live'[j].size, FALSE)
    BY DEF HolderHasBlock
  <2>1. CASE j = i
    BY <1>2, <1>4, <2>1 DEF NewBlock
  <2>2. CASE j \in Held
    <3>1. PICK b \in 1..Len(blocks) :
            blocks[b] = Block(live[j].ptr - HEADER, live[j].size, FALSE)
      BY <2>2 DEF HoldersMatch, HolderHasBlock
    <3>2. ~blocks[b].free
      BY <3>1 DEF Block
    <3> QED
      BY <1>4, <2>2, <3>1, <3>2, ZenonT(30) DEF NewBlock
  <2> QED
    BY <1>4, <2>1, <2>2
<1>6. BlockHasHolder'
  <2> SUFFICES ASSUME NEW c \in 1..Len(blocks'), ~blocks'[c].free
               PROVE  \E j \in Held' : live'[j].ptr = blocks'[c].addr + HEADER
    BY DEF BlockHasHolder
  <2>1. CASE blocks'[c] = Block(addr, size, FALSE)
    <3>1. blocks'[c].addr = addr
      BY <2>1 DEF Block
    <3> QED
      BY <1>2, <1>4, <3>1
  <2>2. CASE \E b \in 1..Len(blocks) : blocks[b] = blocks'[c]
    <3>1. PICK b \in 1..Len(blocks) : blocks[b] = blocks'[c]
      BY <2>2
    <3>2. PICK j \in Held : live[j].ptr = blocks[b].addr + HEADER
      BY <3>1 DEF HoldersMatch, BlockHasHolder
    <3> QED
      BY <1>4, <3>1, <3>2
  <2> QED
    BY <2>1, <2>2 DEF NewBlock
<1>7. OneHolder'
  <2>1. ASSUME NEW j \in Held
        PROVE  live[j].ptr # got.ptr
    <3>1. PICK b \in 1..Len(blocks) :
            blocks[b] = Block(live[j].ptr - HEADER, live[j].size, FALSE)
      BY DEF HoldersMatch, HolderHasBlock
    <3>2. ~blocks[b].free /\ blocks[b].addr = live[j].ptr - HEADER
      BY <3>1 DEF Block
    <3>3. blocks[b].addr # addr
      BY <3>2 DEF NewBlock
    <3> QED
      BY <1>2, <3>2, <3>3
  <2> QED
    BY <1>4, <2>1 DEF OneHolder, HoldersMatch
<1> QED
  BY <1>3, <1>5, <1>6, <1>7 DEF HoldersMatch

(* The parts of HeapInv that say what one can do with a single block.      *)
LEMMA BlockFacts ==
  ASSUME HeapInv
  PROVE  /\ Len(blocks) \in Nat /\ tail = Len(blocks)
         /\ \A b \in 1..Len(blocks) :
              /\ blocks[b] \in BlockType
              /\ blocks[b].addr \in Nat /\ blocks[b].size \in Nat
              /\ b < Len(blocks) => blocks[b].size >= 3
  <1>1. Len(blocks) \in Nat /\ \A b \in 1..Len(blocks) : blocks[b] \in BlockType
    BY DEF HeapInv
  <1> QED
    BY <1>1 DEF HeapInv, BlockType, Tiling, RoomForHeader, HEADER

(* The sizes that are asked for are numbers. *)
LEMMA SizeFacts ==
  ASSUME NEW size \in Sizes
  PROVE  size \in Nat /\ HEADER = 3
  BY HeapAssumption DEF HEADER

(* The first block is the whole list. *)
LEMMA FirstStep ==
  ASSUME HeapInv, NEW size \in Sizes, AllocFirst(size)
  PROVE  HeapInv'
<1> DEFINE new == Block(LIST_HEADER, size, FALSE)
<1>1. size \in Nat
  BY SizeFacts
<1>2. /\ new \in BlockType /\ new.addr = LIST_HEADER /\ new.size = size
      /\ new.free = FALSE /\ LIST_HEADER \in Nat
  BY <1>1 DEF Block, BlockType, LIST_HEADER
<1>3. blocks = << >> /\ Len(blocks) = 0
  BY DEF AllocFirst
<1>4. blocks' = <<new>> /\ tail' = 1 /\ HandOut(LIST_HEADER, size)
  BY DEF AllocFirst
<1> HIDE DEF new
<1>5. /\ blocks' \in Seq(BlockType) /\ Len(blocks') = 1 /\ blocks'[1] = new
      /\ blocks' # << >>
  BY <1>2, <1>4
<1>6. Tiling' /\ Ordered' /\ RoomForHeader' /\ TailInUse'
  BY <1>1, <1>2, <1>4, <1>5 DEF Tiling, Ordered, RoomForHeader, TailInUse
<1>7. NewBlock(LIST_HEADER, size)
  <2>1. 1..Len(blocks') = {1} /\ 1..Len(blocks) = {}
    BY <1>3, <1>5
  <2> QED
    BY <1>5, <2>1, Zenon DEF NewBlock, new
<1>8. HoldersMatch' /\ live' \in [1..MaxLive -> [ptr : Nat, size : Nat]]
  BY <1>1, <1>2, <1>3, <1>4, <1>7, HandOutKeepsMatch DEF HeapInv, ListTypeOK
<1>10. FreeFindsBlock'
  BY DEF AllocFirst, HeapInv, FreeFindsBlock
<1>11. ListTypeOK'
  <2>1. halted' \in BOOLEAN /\ smashed' \in BOOLEAN /\ overwritten' \in BOOLEAN
    BY Zenon DEF AllocFirst, HeapInv, ListTypeOK
  <2>2. tail' \in 0..Len(blocks')
    BY <1>4, <1>5
  <2>3. \A b \in 1..Len(blocks') : blocks'[b] \in BlockType
    BY <1>2, <1>5
  <2> QED
    BY <1>8, <2>1, <2>2, <2>3 DEF ListTypeOK, BlockType
<1> QED
  BY <1>5, <1>6, <1>8, <1>10, <1>11 DEF HeapInv

(* A block that is linked behind the tail starts where the tail ends. *)
LEMMA ExtendStep ==
  ASSUME HeapInv, NEW size \in Sizes, AllocExtend(size)
  PROVE  HeapInv'
<1> DEFINE N == Len(blocks)
           addr == blocks[N].addr + blocks[N].size
           new == Block(addr, size, FALSE)
<1>1. size \in Nat
  BY SizeFacts
<1>2. N \in Nat \ {0} /\ tail = N
  <2>1. blocks # << >>
    BY DEF AllocExtend
  <2> QED
    BY <2>1, BlockFacts DEF HeapInv
<1>3. \A b \in 1..N : /\ blocks[b] \in BlockType
                      /\ blocks[b].addr \in Nat /\ blocks[b].size \in Nat
                      /\ b < N => blocks[b].size >= 3
  BY BlockFacts
<1>2a. blocks[N].size >= 3
  <2>1. FindBlock(size) = 0 /\ ~Smashes(size)
    BY DEF AllocExtend
  <2>2. ~(blocks[tail].size < HEADER)
    BY <2>1 DEF Smashes
  <2> QED
    BY <1>2, <1>3, <2>2 DEF HEADER
<1>2b. ASSUME NEW b \in 1..N
       PROVE  blocks[b].addr + blocks[b].size <= addr
  <2>1. /\ blocks[b].addr \in Nat /\ blocks[b].size \in Nat
        /\ blocks[N].addr \in Nat /\ blocks[N].size \in Nat
    BY <1>2, <1>3
  <2>2. CASE b < N
    <3>1. blocks[b].addr + blocks[b].size <= blocks[N].addr
      BY <1>2, <2>2 DEF HeapInv, Ordered
    <3> QED
      BY <2>1, <3>1
  <2>3. CASE b = N
    BY <2>1, <2>3
  <2> QED
    BY <1>2, <2>2, <2>3
<1>4. /\ addr \in Nat /\ new \in BlockType /\ new.addr = addr /\ new.size = size
      /\ new.free = FALSE
  BY <1>1, <1>2, <1>3 DEF Block, BlockType
<1>5. blocks' = Cat(Front(N), One(new)) /\ tail' = N + 1 /\ HandOut(addr, size)
  BY <1>2 DEF AllocExtend, Cat, Front, One
<1> HIDE DEF new
<1>6. /\ blocks' \in Seq(BlockType) /\ Len(blocks') = N + 1
      /\ \A b \in 1..N : blocks'[b] = blocks[b]
      /\ blocks'[N + 1] = new
  BY <1>4, <1>5, Extended DEF HeapInv
<1>7. Tiling'
  BY <1>2, <1>4, <1>5, <1>6 DEF HeapInv, Tiling
<1>8. Ordered'
  <2>1. \A b \in 1..N : blocks[b].addr + blocks[b].size <= addr
    BY <1>2b
  <2>2. \A b, c \in 1..N : b < c => blocks[b].addr + blocks[b].size <= blocks[c].addr
    BY DEF HeapInv, Ordered
  <2> SUFFICES ASSUME NEW b \in 1..(N + 1), NEW c \in 1..(N + 1), b < c
               PROVE  blocks'[b].addr + blocks'[b].size <= blocks'[c].addr
    BY <1>6 DEF Ordered
  <2>3. b \in 1..N /\ (c \in 1..N \/ c = N + 1)
    BY <1>2
  <2> HIDE DEF addr
  <2> QED
    BY <1>4, <1>6, <2>1, <2>2, <2>3
<1>9. RoomForHeader' /\ TailInUse'
  <2>1. \A b \in 1..N : blocks[b].size >= 3
    BY <1>2, <1>2a, <1>3
  <2> QED
    BY <1>2, <1>4, <1>6, <2>1 DEF RoomForHeader, TailInUse, HEADER
<1>10. NewBlock(addr, size)
  <2>1. ASSUME NEW b \in 1..N
        PROVE  blocks[b].addr # addr
    <3>1. blocks[b].size >= 3
      BY <1>2, <1>2a, <1>3
    <3>2. blocks[b].addr \in Nat /\ blocks[b].size \in Nat
      BY <1>3
    <3>3. blocks[b].addr + blocks[b].size <= addr
      BY <1>2b
    <3> HIDE DEF addr
    <3> QED
      BY <1>4, <3>1, <3>2, <3>3
  <2>2. 1..Len(blocks') = (1..N) \cup {N + 1}
    BY <1>2, <1>6
  <2> QED
    BY <1>6, <2>1, <2>2 DEF NewBlock, new
<1>11. HoldersMatch' /\ live' \in [1..MaxLive -> [ptr : Nat, size : Nat]]
  BY <1>1, <1>3, <1>4, <1>5, <1>10, HandOutKeepsMatch DEF HeapInv, ListTypeOK
<1>13. FreeFindsBlock'
  BY DEF AllocExtend, HeapInv, FreeFindsBlock
<1>14. ListTypeOK'
  <2>1. halted' \in BOOLEAN /\ smashed' \in BOOLEAN /\ overwritten' \in BOOLEAN
    BY Zenon DEF AllocExtend, HeapInv, ListTypeOK
  <2>2. tail' \in 0..Len(blocks')
    BY <1>2, <1>5, <1>6
  <2>3. \A b \in 1..Len(blocks') : blocks'[b] \in BlockType
    BY <1>2, <1>3, <1>4, <1>6
  <2> QED
    BY <1>11, <2>1, <2>2, <2>3 DEF ListTypeOK, BlockType
<1> QED
  BY <1>6, <1>7, <1>8, <1>9, <1>11, <1>13, <1>14 DEF HeapInv

(* The last block is in use, so the one that is split is not the last, and *)
(* the tail pointer, which AllocSplit moves with the blocks, stays right.  *)
LEMMA SplitStep ==
  ASSUME HeapInv, NEW size \in Sizes, AllocSplit(size)
  PROVE  HeapInv'
<1> DEFINE N == Len(blocks)
           b == FindBlock(size)
           addr == blocks[b].addr
           new == Block(addr, size, FALSE)
           rest == Block(addr + size, blocks[b].size - size, TRUE)
<1>1. size \in Nat
  BY SizeFacts
<1>2. /\ N \in Nat /\ tail = N
      /\ \A c \in 1..N : /\ blocks[c] \in BlockType
                         /\ blocks[c].addr \in Nat /\ blocks[c].size \in Nat
                         /\ c < N => blocks[c].size >= 3
  BY BlockFacts
<1>3. b \in 1..N /\ blocks[b].free /\ blocks[b].size > size
  <2>1. b # 0
    BY DEF AllocSplit
  <2>2. b \in Fits(size)
    <3>1. blocks \in Seq(BlockType)
      BY DEF HeapInv
    <3> HIDE DEF b
    <3>2. IF Fits(size) = {} THEN b = 0 ELSE IsBest(b, size, N)
      BY <1>1, <3>1, FindBlockIsBest DEF b
    <3> QED
      BY <2>1, <3>2 DEF IsBest
  <2> QED
    BY <2>2 DEF Fits
<1>4. /\ blocks' = Cat(Cat(Front(b - 1), Two(new, rest)), Back(b + 1))
      /\ tail' = IF b < tail THEN tail + 1 ELSE tail
      /\ HandOut(addr, size)
      /\ halted' = halted /\ smashed' = smashed /\ overwritten' = overwritten
  BY DEF AllocSplit, Split, Cat, Front, Two, Back
<1> HIDE DEF b
<1>5. b < N
  BY <1>2, <1>3 DEF HeapInv, TailInUse
(* Both parts have room for a header. *)
<1>5a. size >= 3 /\ blocks[b].size - size >= 3
  <2>1. ~Smashes(size) /\ b # 0
    BY DEF AllocSplit, b
  <2>2. ~(size < HEADER) /\ ~(b < Len(blocks) /\ blocks[b].size - size < HEADER)
    BY <2>1 DEF Smashes, b
  <2> QED
    BY <1>1, <1>2, <1>3, <1>5, <2>2 DEF HEADER
<1>6. /\ addr \in Nat
      /\ new \in BlockType /\ new.addr = addr /\ new.size = size /\ new.free = FALSE
      /\ rest \in BlockType /\ rest.addr = addr + size
      /\ rest.size = blocks[b].size - size /\ rest.free = TRUE
  BY <1>1, <1>2, <1>3 DEF Block, BlockType
<1> HIDE DEF new, rest
(* The rest ends where the block ended. *)
<1>6a. /\ rest.addr \in Nat /\ rest.size \in Nat /\ rest.size > 0 /\ rest.size >= 3
       /\ rest.addr + rest.size = addr + blocks[b].size
       /\ addr <= rest.addr
  <2>1. blocks[b].size \in Nat /\ blocks[b].size > size
    BY <1>2, <1>3, Zenon
  <2>2. rest.addr = addr + size /\ rest.size = blocks[b].size - size /\ addr \in Nat
    BY <1>6, Zenon
  <2> HIDE DEF addr
  <2> QED
    BY <1>1, <1>5a, <2>1, <2>2
<1>7. /\ blocks' \in Seq(BlockType) /\ Len(blocks') = N + 1
      /\ \A i \in 1..(b - 1) : blocks'[i] = blocks[i]
      /\ blocks'[b] = new
      /\ blocks'[b + 1] = rest
      /\ \A i \in (b + 2)..(N + 1) : blocks'[i] = blocks[i - 1]
  <2>1. blocks \in Seq(BlockType)
    BY DEF HeapInv
  <2>2. b \in 1..Len(blocks) /\ new \in BlockType /\ rest \in BlockType
    BY <1>3, <1>6
  <2>3. blocks' = Cat(Cat(Front(b - 1), Two(new, rest)), Back(b + 1))
    BY <1>4
  <2> QED
    <3>1. TwoFor(Cat(Cat(Front(b - 1), Two(new, rest)), Back(b + 1)), b, new, rest)
      BY <2>1, <2>2, SplitAt, Zenon
    <3>2. TwoFor(blocks', b, new, rest)
      BY <2>3, <3>1, Zenon
    <3> QED
      BY <3>2 DEF TwoFor
<1>8. tail' = N + 1
  BY <1>2, <1>4, <1>5
(* What the block at i was before. *)
<1> DEFINE old(i) == IF i < b THEN i ELSE IF i <= b + 1 THEN b ELSE i - 1
<1>9. ASSUME NEW i \in 1..(N + 1)
      PROVE  /\ old(i) \in 1..N
             /\ i = b \/ i = b + 1 \/ (i # b /\ i # b + 1 /\ blocks'[i] = blocks[old(i)])
  <2>1. CASE i < b
    <3>1. i \in 1..(b - 1) /\ old(i) = i /\ i \in 1..N /\ i # b /\ i # b + 1
      BY <1>2, <1>3, <2>1
    <3>2. blocks'[i] = blocks[i]
      BY <1>7, <3>1, Zenon
    <3> QED
      BY <3>1, <3>2, Zenon
  <2>2. CASE i = b \/ i = b + 1
    <3>1. old(i) = b
      BY <1>2, <1>3, <2>2
    <3> QED
      BY <1>3, <2>2, <3>1, Zenon
  <2>3. CASE i > b + 1
    <3>1. /\ i \in (b + 2)..(N + 1) /\ old(i) = i - 1 /\ i - 1 \in 1..N
          /\ i # b /\ i # b + 1
      BY <1>2, <1>3, <2>3
    <3>2. blocks'[i] = blocks[i - 1]
      BY <1>7, <3>1, Zenon
    <3> QED
      BY <3>1, <3>2, Zenon
  <2> QED
    BY <1>2, <1>3, <2>1, <2>2, <2>3
<1>10. Tiling'
  <2>1. blocks # << >>
    <3>1. Len(blocks) # 0
      BY <1>2, <1>3
    <3> QED
      BY <3>1
  <2>2. \A i \in 1..(N - 1) : blocks[i + 1].addr = blocks[i].addr + blocks[i].size
    BY DEF HeapInv, Tiling
  <2>3. blocks'[1].addr = LIST_HEADER
    <3>1. blocks[1].addr = LIST_HEADER
      BY <2>1 DEF HeapInv, Tiling
    <3>2. CASE b = 1
      BY <1>6, <1>7, <3>1, <3>2
    <3>3. CASE b > 1
      BY <1>2, <1>3, <1>7, <3>1, <3>3
    <3> QED
      BY <1>2, <1>3, <3>2, <3>3
  <2>4. ASSUME NEW i \in 1..N
        PROVE  blocks'[i + 1].addr = blocks'[i].addr + blocks'[i].size
    <3>1. CASE i < b - 1
      <4>1. i \in 1..(b - 1) /\ i + 1 \in 1..(b - 1) /\ i \in 1..(N - 1)
        BY <1>2, <1>3, <3>1
      <4>2. blocks'[i] = blocks[i] /\ blocks'[i + 1] = blocks[i + 1]
        BY <1>7, <4>1, Zenon
      <4> QED
        BY <2>2, <4>1, <4>2, Zenon
    <3>2. CASE i = b - 1
      <4>1. /\ blocks'[i] = blocks[i] /\ blocks'[i + 1] = new
            /\ i \in 1..(N - 1) /\ i + 1 = b
        BY <1>2, <1>3, <1>7, <3>2
      <4> QED
        BY <1>6, <2>2, <4>1
    <3>3. CASE i = b
      BY <1>6, <1>7, <3>3
    <3>4. CASE i = b + 1
      <4>0. b + 2 \in (b + 2)..(N + 1) /\ i + 1 = b + 2 /\ (b + 2) - 1 = b + 1
        BY <1>2, <1>3, <1>5, <3>4
      <4>1. blocks'[i] = rest /\ blocks'[i + 1] = blocks[b + 1] /\ b \in 1..(N - 1)
        BY <1>2, <1>3, <1>5, <1>7, <3>4, <4>0
      <4>2. blocks[b + 1].addr = addr + blocks[b].size
        BY <2>2, <4>1
      <4> QED
        BY <1>6a, <4>1, <4>2, Zenon
    <3>5. CASE i > b + 1
      <4>1. /\ i \in (b + 2)..(N + 1) /\ i + 1 \in (b + 2)..(N + 1)
            /\ i - 1 \in 1..(N - 1) /\ (i + 1) - 1 = (i - 1) + 1
        BY <1>2, <1>3, <3>5
      <4>2. blocks'[i] = blocks[i - 1] /\ blocks'[i + 1] = blocks[(i - 1) + 1]
        <5>1. blocks'[i] = blocks[i - 1] /\ blocks'[i + 1] = blocks[(i + 1) - 1]
          BY <1>7, <4>1, Zenon
        <5> QED
          BY <4>1, <5>1
      <4>3. blocks[(i - 1) + 1].addr = blocks[i - 1].addr + blocks[i - 1].size
        BY <2>2, <4>1, Zenon
      <4> QED
        BY <4>2, <4>3, Zenon
    <3> QED
      BY <1>2, <1>3, <3>1, <3>2, <3>3, <3>4, <3>5
  <2> QED
    BY <1>2, <1>7, <1>8, <2>3, <2>4 DEF Tiling
<1>11. Ordered'
  <2>1. \A i, j \in 1..N : i < j => blocks[i].addr + blocks[i].size <= blocks[j].addr
    BY DEF HeapInv, Ordered
  <2> SUFFICES ASSUME NEW i \in 1..(N + 1), NEW j \in 1..(N + 1), i < j
               PROVE  blocks'[i].addr + blocks'[i].size <= blocks'[j].addr
    BY <1>7 DEF Ordered
  <2>2. /\ old(i) \in 1..N /\ old(j) \in 1..N
        /\ old(i) < old(j) \/ (i = b /\ j = b + 1)
    BY <1>2, <1>3
  <2>3. CASE i = b /\ j = b + 1
    BY <1>1, <1>6, <1>7, <2>3
  <2>4. CASE old(i) < old(j)
    <3>1. /\ blocks'[i].addr + blocks'[i].size <= blocks[old(i)].addr + blocks[old(i)].size
          /\ blocks[old(j)].addr <= blocks'[j].addr
          /\ blocks'[i].addr + blocks'[i].size \in Nat
          /\ blocks'[j].addr \in Nat
      <4>1. ASSUME NEW k \in 1..(N + 1)
            PROVE  /\ blocks'[k].addr \in Nat /\ blocks'[k].size \in Nat
                   /\ blocks'[k].addr + blocks'[k].size
                        <= blocks[old(k)].addr + blocks[old(k)].size
                   /\ blocks[old(k)].addr <= blocks'[k].addr
        <5>1. CASE k = b
          <6>1. old(k) = b /\ blocks'[k] = new
            BY <1>2, <1>3, <1>7, <5>1
          <6> HIDE DEF old
          <6>2. /\ addr \in Nat /\ blocks[b].size \in Nat /\ size < blocks[b].size
                /\ new.addr = addr /\ new.size = size
            BY <1>2, <1>3, <1>6, SMTT(30)
          <6>3. addr + size \in Nat /\ addr + size <= addr + blocks[b].size
            <7> HIDE DEF addr
            <7> QED
              BY <1>1, <6>2
          <6> QED
            BY <1>1, <6>1, <6>2, <6>3
        <5>2. CASE k = b + 1
          <6>1. old(k) = b /\ blocks'[k] = rest
            BY <1>2, <1>3, <1>7, <5>2
          <6> HIDE DEF old
          <6> QED
            BY <1>2, <1>3, <1>6a, <6>1
        <5>3. CASE k # b /\ k # b + 1
          <6>1. old(k) \in 1..N /\ blocks'[k] = blocks[old(k)]
            BY <1>9, <5>3
          <6> HIDE DEF old
          <6> QED
            BY <1>2, <6>1
        <5> QED
          BY <5>1, <5>2, <5>3
      <4> HIDE DEF old
      <4>2. /\ blocks'[i].addr \in Nat /\ blocks'[i].size \in Nat
            /\ blocks'[i].addr + blocks'[i].size <= blocks[old(i)].addr + blocks[old(i)].size
        BY <4>1, SMTT(30)
      <4>3. blocks'[j].addr \in Nat /\ blocks[old(j)].addr <= blocks'[j].addr
        BY <4>1, SMTT(30)
      <4> QED
        BY <4>2, <4>3
    <3>2. blocks[old(i)].addr + blocks[old(i)].size <= blocks[old(j)].addr
      BY <2>1, <2>2, <2>4
    <3>3. /\ blocks[old(i)].addr \in Nat /\ blocks[old(i)].size \in Nat
          /\ blocks[old(j)].addr \in Nat
      BY <1>2, <2>2
    <3> HIDE DEF old
    <3> QED
      BY <3>1, <3>2, <3>3, SMTT(30)
  <2> QED
    BY <2>2, <2>3, <2>4
<1>12. RoomForHeader' /\ TailInUse'
  <2>1. ASSUME NEW i \in 1..N
        PROVE  blocks'[i].size >= 3
    <3>1. CASE i = b
      BY <1>5a, <1>6, <1>7, <3>1
    <3>2. CASE i = b + 1
      BY <1>6a, <1>7, <3>2
    <3>3. CASE i # b /\ i # b + 1
      <4>1. i \in 1..(N + 1) /\ old(i) < N
        BY <1>2, <1>3, <1>5, <3>3
      <4>2. old(i) \in 1..N /\ blocks'[i] = blocks[old(i)]
        BY <1>9, <3>3, <4>1
      <4> HIDE DEF old
      <4> QED
        BY <1>2, <4>1, <4>2
    <3> QED
      BY <3>1, <3>2, <3>3
  <2>2. ~blocks'[N + 1].free
    <3>1. CASE b + 1 = N + 1
      BY <1>2, <1>3, <1>5, <3>1
    <3>2. CASE b + 1 < N + 1
      <4>0. N + 1 \in (b + 2)..(N + 1) /\ (N + 1) - 1 = N /\ Len(blocks) # 0
        BY <1>2, <1>3, <3>2
      <4>1. blocks'[N + 1] = blocks[N] /\ blocks # << >>
        BY <1>7, <4>0
      <4> QED
        BY <4>1 DEF HeapInv, TailInUse
    <3> QED
      BY <1>2, <1>3, <1>5, <3>1, <3>2
  <2> QED
    BY <1>2, <1>7, <2>1, <2>2 DEF RoomForHeader, TailInUse, HEADER
<1>13. NewBlock(addr, size)
  <2>1. b \in 1..Len(blocks') /\ blocks'[b] = Block(addr, size, FALSE)
    BY <1>2, <1>3, <1>7 DEF new
  <2>2. ASSUME NEW c \in 1..N, ~blocks[c].free
        PROVE  blocks[c].addr # addr /\ \E d \in 1..Len(blocks') : blocks'[d] = blocks[c]
    <3>1. c # b
      BY <1>3, <2>2
    <3>2. blocks[c].addr # addr
      <4>1. CASE c < b
        BY <1>2, <1>3, <4>1 DEF HeapInv, Ordered
      <4>2. CASE c > b
        BY <1>2, <1>3, <4>2 DEF HeapInv, Ordered
      <4> QED
        BY <1>2, <1>3, <3>1, <4>1, <4>2
    <3>3. CASE c < b
      <4>1. c \in 1..Len(blocks')
        BY <1>2, <1>3, <1>7, <3>3
      <4>2. blocks'[c] = blocks[c]
        BY <1>2, <1>3, <1>7, <3>3
      <4> QED
        BY <3>2, <4>1, <4>2
    <3>4. CASE c > b
      <4>1. c + 1 \in 1..Len(blocks') /\ blocks'[c + 1] = blocks[c]
        <5>1. c + 1 \in (b + 2)..(N + 1) /\ (c + 1) - 1 = c
          BY <1>2, <1>3, <3>4
        <5>2. blocks'[c + 1] = blocks[c]
          BY <1>7, <5>1, Zenon
        <5>3. c + 1 \in 1..(N + 1)
          BY <1>2
        <5> QED
          BY <1>7, <5>2, <5>3, Zenon
      <4> QED
        BY <3>2, <4>1
    <3> QED
      BY <1>2, <1>3, <3>1, <3>3, <3>4
  <2>3. ASSUME NEW d \in 1..(N + 1), ~blocks'[d].free
        PROVE  \/ blocks'[d] = Block(addr, size, FALSE)
               \/ \E c \in 1..N : blocks[c] = blocks'[d]
    <3>1. CASE d = b
      BY <2>1, <3>1
    <3>2. CASE d = b + 1
      BY <1>6, <1>7, <2>3, <3>2
    <3>3. CASE d # b /\ d # b + 1
      BY <1>9, <3>3
    <3> QED
      BY <3>1, <3>2, <3>3
  <2> HIDE DEF addr
  <2> QED
    BY <1>7, <2>1, <2>2, <2>3 DEF NewBlock
<1>14. HoldersMatch' /\ live' \in [1..MaxLive -> [ptr : Nat, size : Nat]]
  BY <1>1, <1>2, <1>4, <1>6, <1>13, HandOutKeepsMatch DEF HeapInv, ListTypeOK
<1>16. FreeFindsBlock'
  BY <1>4, Zenon DEF HeapInv, FreeFindsBlock
<1>17. ListTypeOK'
  <2>1. halted' \in BOOLEAN /\ smashed' \in BOOLEAN /\ overwritten' \in BOOLEAN
    BY <1>4, Zenon DEF HeapInv, ListTypeOK
  <2>2. tail' \in 0..Len(blocks')
    BY <1>2, <1>7, <1>8
  <2>3. \A c \in 1..Len(blocks') : blocks'[c] \in BlockType
    BY <1>2, <1>6, <1>7, <1>9
  <2> QED
    BY <1>14, <2>1, <2>2, <2>3 DEF ListTypeOK, BlockType
<1> QED
  BY <1>7, <1>10, <1>11, <1>12, <1>14, <1>16, <1>17 DEF HeapInv

(* No two blocks have the same address. *)
LEMMA OneBlockAt ==
  ASSUME HeapInv, NEW b \in 1..Len(blocks), NEW c \in 1..Len(blocks),
         blocks[b].addr = blocks[c].addr
  PROVE  b = c
<1>1. /\ Len(blocks) \in Nat
      /\ blocks[b].addr \in Nat /\ blocks[b].size \in Nat
      /\ b < Len(blocks) => blocks[b].size >= 3
      /\ blocks[c].addr \in Nat /\ blocks[c].size \in Nat
      /\ c < Len(blocks) => blocks[c].size >= 3
  BY BlockFacts
<1>2. /\ b < c => blocks[b].addr + blocks[b].size <= blocks[c].addr
      /\ c < b => blocks[c].addr + blocks[c].size <= blocks[b].addr
  BY DEF HeapInv, Ordered
<1> QED
  BY <1>1, <1>2

(* Free finds the one block that belongs to the pointer, and it is not the *)
(* last one.                                                               *)
LEMMA FreeMarks ==
  ASSUME HeapInv, ~FreesTail, NEW i \in 1..MaxLive, Free(i)
  PROVE  /\ i \in Held
         /\ live' = [live EXCEPT ![i] = Nothing]
         /\ halted' = halted /\ smashed' = smashed /\ tail' = tail
         /\ overwritten' = overwritten
         /\ \E b \in 1..Len(blocks) :
              /\ b # Len(blocks)
              /\ blocks[b].addr + HEADER = live[i].ptr
              /\ blocks' = [blocks EXCEPT ![b].free = TRUE]
<1>1. i \in Held /\ live[i].ptr \in Nat
  BY DEF Free, HeapInv, ListTypeOK
<1>2. PICK b \in 1..Len(blocks) :
        blocks[b] = Block(live[i].ptr - HEADER, live[i].size, FALSE)
  BY <1>1 DEF HeapInv, HoldersMatch, HolderHasBlock
<1>3. blocks[b].addr + HEADER = live[i].ptr
  BY <1>1, <1>2 DEF Block, HEADER
<1>4. b \in BlocksAt(live[i].ptr)
  BY <1>3 DEF BlocksAt
<1>5. PICK c \in BlocksAt(live[i].ptr) :
        blocks' = [blocks EXCEPT ![c].free = TRUE] /\ halted' = halted
  BY <1>4, Zenon DEF Free
<1>6. c \in 1..Len(blocks) /\ blocks[c].addr + HEADER = live[i].ptr
  BY <1>5 DEF BlocksAt
<1>7. c # Len(blocks)
  <2>1. blocks[tail].addr + HEADER # live[i].ptr /\ tail = Len(blocks)
    BY BlockFacts DEF Free
  <2> QED
    BY <1>6, <2>1
<1> QED
  BY <1>1, <1>5, <1>6, <1>7, Zenon DEF Free

(* A block that is freed is nobody's, and is not the tail. *)
LEMMA FreeStep ==
  ASSUME HeapInv, ~FreesTail, NEW i \in 1..MaxLive, Free(i)
  PROVE  HeapInv'
<1> DEFINE N == Len(blocks)
<1>1. /\ N \in Nat /\ tail = N
      /\ \A c \in 1..N : /\ blocks[c] \in BlockType
                         /\ blocks[c].addr \in Nat /\ blocks[c].size \in Nat
                         /\ c < N => blocks[c].size >= 3
  BY BlockFacts
<1>2. /\ i \in Held /\ live' = [live EXCEPT ![i] = Nothing]
      /\ halted' = halted /\ smashed' = smashed /\ tail' = tail
         /\ overwritten' = overwritten
  BY FreeMarks
<1>3. PICK b \in 1..N : /\ b # N
                        /\ blocks[b].addr + HEADER = live[i].ptr
                        /\ blocks' = [blocks EXCEPT ![b].free = TRUE]
  BY FreeMarks
<1>4. /\ blocks' \in Seq(BlockType) /\ Len(blocks') = N
      /\ blocks'[b].addr = blocks[b].addr /\ blocks'[b].size = blocks[b].size
      /\ blocks'[b].free = TRUE
      /\ \A c \in 1..N : c # b => blocks'[c] = blocks[c]
  <2>1. blocks \in Seq(BlockType) /\ blocks \in [1..N -> BlockType]
    BY DEF HeapInv
  <2>2. [blocks[b] EXCEPT !.free = TRUE] \in BlockType
    BY <1>1 DEF BlockType
  <2>3. blocks' = [blocks EXCEPT ![b] = [blocks[b] EXCEPT !.free = TRUE]]
    BY <1>3, <2>1
  <2>4. blocks' \in [1..N -> BlockType]
    BY <2>1, <2>2, <2>3
  <2>5. blocks' \in Seq(BlockType) /\ Len(blocks') = N
    BY <1>1, <2>4
  <2>6. blocks'[b] = [blocks[b] EXCEPT !.free = TRUE]
    BY <2>1, <2>3
  <2>7. /\ blocks'[b].addr = blocks[b].addr /\ blocks'[b].size = blocks[b].size
        /\ blocks'[b].free = TRUE
    BY <1>1, <2>6 DEF BlockType
  <2> QED
    BY <2>1, <2>3, <2>5, <2>7
<1>5. \A c \in 1..N : blocks'[c].addr = blocks[c].addr /\ blocks'[c].size = blocks[c].size
  BY <1>4
<1>6. Tiling'
  <2>1. (blocks' # << >>) => (blocks # << >>) /\ 1 \in 1..N
    BY <1>1, <1>3
  <2>2. ASSUME NEW c \in 1..(N - 1)
        PROVE  blocks'[c + 1].addr = blocks'[c].addr + blocks'[c].size
    <3>1. c \in 1..N /\ c + 1 \in 1..N
      BY <1>1
    <3>2. blocks[c + 1].addr = blocks[c].addr + blocks[c].size
      BY DEF HeapInv, Tiling
    <3> QED
      BY <1>5, <3>1, <3>2
  <2> QED
    BY <1>1, <1>2, <1>4, <1>5, <2>1, <2>2 DEF HeapInv, Tiling
<1>7. Ordered' /\ RoomForHeader'
  BY <1>1, <1>4, <1>5 DEF HeapInv, Ordered, RoomForHeader
<1>8. TailInUse'
  <2>1. N \in 1..N /\ blocks'[N] = blocks[N] /\ blocks # << >>
    BY <1>1, <1>3, <1>4
  <2> QED
    BY <1>4, <2>1 DEF HeapInv, TailInUse
<1>9. live' \in [1..MaxLive -> [ptr : Nat, size : Nat]]
  <2>1. Nothing \in [ptr : Nat, size : Nat]
    BY DEF Nothing
  <2> QED
    BY <1>2, <2>1 DEF HeapInv, ListTypeOK
<1>10. /\ Held' = Held \ {i}
       /\ \A j \in Held' : j \in Held /\ live'[j] = live[j] /\ j # i
  BY <1>2 DEF Held, HeapInv, ListTypeOK
<1>11. HolderHasBlock'
  <2> SUFFICES ASSUME NEW j \in Held'
               PROVE  \E c \in 1..Len(blocks') :
                        blocks'[c] = Block(live'[j].ptr - HEADER, live'[j].size, FALSE)
    BY DEF HolderHasBlock
  <2>1. j \in Held /\ j # i /\ live'[j] = live[j] /\ live[j].ptr \in Nat
    BY <1>10 DEF HeapInv, ListTypeOK, Held
  <2>2. PICK c \in 1..N : blocks[c] = Block(live[j].ptr - HEADER, live[j].size, FALSE)
    BY <2>1 DEF HeapInv, HoldersMatch, HolderHasBlock
  <2>3. c # b
    <3>1. blocks[c].addr + HEADER = live[j].ptr
      BY <2>1, <2>2 DEF Block, HEADER
    <3>2. live[j].ptr # live[i].ptr
      BY <1>2, <2>1 DEF HeapInv, HoldersMatch, OneHolder
    <3> QED
      BY <1>3, <3>1, <3>2
  <2> QED
    BY <1>4, <2>1, <2>2, <2>3
<1>12. BlockHasHolder'
  <2> SUFFICES ASSUME NEW c \in 1..N, ~blocks'[c].free
               PROVE  \E j \in Held' : live'[j].ptr = blocks'[c].addr + HEADER
    BY <1>4 DEF BlockHasHolder
  <2>1. c # b /\ blocks'[c] = blocks[c]
    BY <1>4
  <2>2. PICK j \in Held : live[j].ptr = blocks[c].addr + HEADER
    BY <2>1 DEF HeapInv, HoldersMatch, BlockHasHolder
  <2>3. j # i
    <3>1. blocks[c].addr # blocks[b].addr
      BY <2>1, OneBlockAt
    <3> QED
      BY <1>1, <1>3, <2>2, <3>1 DEF HEADER
  <2> QED
    BY <1>10, <2>1, <2>2, <2>3
<1>13. OneHolder'
  BY <1>10 DEF HeapInv, HoldersMatch, OneHolder
<1>15. FreeFindsBlock'
  BY <1>2, Zenon DEF HeapInv, FreeFindsBlock
<1>16. ListTypeOK'
  <2>1. halted' \in BOOLEAN /\ smashed' \in BOOLEAN /\ overwritten' \in BOOLEAN
    BY <1>2, Zenon DEF HeapInv, ListTypeOK
  <2>2. tail' \in 0..Len(blocks')
    BY <1>1, <1>2, <1>4
  <2>3. \A c \in 1..Len(blocks') : blocks'[c] \in BlockType
    BY <1>4
  <2> QED
    BY <1>9, <2>1, <2>2, <2>3 DEF ListTypeOK, BlockType
<1> QED
  BY <1>4, <1>6, <1>7, <1>8, <1>11, <1>12, <1>13, <1>15, <1>16
  DEF HeapInv, HoldersMatch

(* The steps that only stop the model. *)
LEMMA StopStep ==
  ASSUME HeapInv, UNCHANGED <<blocks, tail, live, halted>>,
         smashed' \in BOOLEAN, overwritten' \in BOOLEAN
  PROVE  HeapInv'
<1>1. blocks' = blocks /\ tail' = tail /\ live' = live /\ halted' = halted
  OBVIOUS
<1>2. Held' = Held
  BY <1>1 DEF Held
<1>3. ListTypeOK'
  BY <1>1, Zenon DEF HeapInv, ListTypeOK
<1>4. Tiling' /\ Ordered' /\ RoomForHeader' /\ TailInUse' /\ FreeFindsBlock'
  <2>1. Tiling /\ Ordered /\ RoomForHeader /\ TailInUse /\ FreeFindsBlock
    BY DEF HeapInv
  <2>2. Tiling' /\ Ordered' /\ RoomForHeader'
    BY <1>1, <2>1 DEF Tiling, Ordered, RoomForHeader
  <2>3. TailInUse' /\ FreeFindsBlock'
    BY <1>1, <2>1 DEF TailInUse, FreeFindsBlock
  <2> QED
    BY <2>2, <2>3
<1>5. HoldersMatch'
  <2>1. HolderHasBlock /\ BlockHasHolder /\ OneHolder
    BY DEF HeapInv, HoldersMatch
  <2>2. HolderHasBlock'
    BY <1>1, <1>2, <2>1 DEF HolderHasBlock
  <2>3. BlockHasHolder' /\ OneHolder'
    BY <1>1, <1>2, <2>1 DEF BlockHasHolder, OneHolder
  <2> QED
    BY <2>2, <2>3 DEF HoldersMatch
<1>6. blocks' \in Seq(BlockType)
  BY <1>1 DEF HeapInv
<1> QED
  BY <1>3, <1>4, <1>5, <1>6 DEF HeapInv

(* If the tail is never freed, every step keeps the invariant. *)
LEMMA HeapListNext ==
  ASSUME HeapInv, ~FreesTail, [ListNext]_list_vars
  PROVE  HeapInv'
<1>1. smashed \in BOOLEAN /\ overwritten \in BOOLEAN
  BY Zenon DEF HeapInv, ListTypeOK
<1>2. ASSUME NEW size \in Sizes, Smash(size)
      PROVE  HeapInv'
  <2>1. /\ UNCHANGED <<blocks, tail, live, halted>>
        /\ smashed' \in BOOLEAN /\ overwritten' \in BOOLEAN
    BY <1>1, <1>2, Zenon DEF Smash
  <2> QED
    BY <2>1, StopStep, Zenon
<1>3. ASSUME NEW i \in 1..MaxLive, Overwrite(i)
      PROVE  HeapInv'
  <2>1. /\ UNCHANGED <<blocks, tail, live, halted>>
        /\ smashed' \in BOOLEAN /\ overwritten' \in BOOLEAN
    BY <1>1, <1>3, Zenon DEF Overwrite
  <2> QED
    BY <2>1, StopStep, Zenon
<1>4. CASE ListNext
  BY <1>2, <1>3, <1>4, FirstStep, ExtendStep, SplitStep, FreeStep, Zenon DEF ListNext
<1>5. CASE UNCHANGED list_vars
  <2>1. /\ UNCHANGED <<blocks, tail, live, halted>>
        /\ smashed' \in BOOLEAN /\ overwritten' \in BOOLEAN
    BY <1>1, <1>5, Zenon DEF list_vars
  <2> QED
    BY <2>1, StopStep, Zenon
<1> QED
  BY <1>4, <1>5

-----------------------------------------------------------------------------
(* What the invariant says of the clients.  First, the block of a holder.  *)
LEMMA HoldersBlock ==
  ASSUME HeapInv, NEW i \in Held
  PROVE  /\ live[i].ptr \in Nat /\ live[i].size \in Nat
         /\ \E b \in 1..Len(blocks) :
              /\ blocks[b].addr + HEADER = live[i].ptr
              /\ blocks[b].size = live[i].size
              /\ ~blocks[b].free
<1>1. live[i].ptr \in Nat /\ live[i].size \in Nat
  BY DEF HeapInv, ListTypeOK, Held
<1>2. PICK b \in 1..Len(blocks) :
        blocks[b] = Block(live[i].ptr - HEADER, live[i].size, FALSE)
  BY DEF HeapInv, HoldersMatch, HolderHasBlock
<1> QED
  BY <1>1, <1>2 DEF Block, HEADER

(* Held memory is disjoint because blocks are. *)
LEMMA InvHeldDisjoint == HeapInv => HeldDisjoint
<1> SUFFICES ASSUME HeapInv, NEW i \in Held, NEW j \in Held, i # j
             PROVE  \/ live[i].ptr + live[i].size <= live[j].ptr
                    \/ live[j].ptr + live[j].size <= live[i].ptr
  BY DEF HeldDisjoint
<1>1. PICK b \in 1..Len(blocks) :
        blocks[b].addr + HEADER = live[i].ptr /\ blocks[b].size = live[i].size
  BY HoldersBlock
<1>2. PICK c \in 1..Len(blocks) :
        blocks[c].addr + HEADER = live[j].ptr /\ blocks[c].size = live[j].size
  BY HoldersBlock
<1>3. live[i].ptr # live[j].ptr
  BY DEF HeapInv, HoldersMatch, OneHolder
<1>4. /\ Len(blocks) \in Nat /\ b # c
      /\ blocks[b].addr \in Nat /\ blocks[b].size \in Nat
      /\ blocks[c].addr \in Nat /\ blocks[c].size \in Nat
  BY <1>1, <1>2, <1>3, BlockFacts
<1>5. \/ blocks[b].addr + blocks[b].size <= blocks[c].addr
      \/ blocks[c].addr + blocks[c].size <= blocks[b].addr
  BY <1>4 DEF HeapInv, Ordered
<1>6. /\ live[i].ptr = blocks[b].addr + 3 /\ live[i].size = blocks[b].size
      /\ live[j].ptr = blocks[c].addr + 3 /\ live[j].size = blocks[c].size
  BY <1>1, <1>2 DEF HEADER
<1>7. \A s, t, u \in Nat : s + t <= u => (s + 3) + t <= u + 3
  OBVIOUS
<1> QED
  BY <1>4, <1>5, <1>6, <1>7, Zenon

(* The header of block c begins at or behind the memory behind block b's   *)
(* own header, but not before the end of block b: it is that of block b + 1*)
LEMMA InvWritesHitNextHeader == HeapInv => WritesHitNextHeader
<1> SUFFICES ASSUME HeapInv, NEW i \in Held
             PROVE  \E b \in 1..Len(blocks) :
                      blocks[b].addr + HEADER = live[i].ptr /\ Hit(i) \subseteq {b + 1}
  BY DEF WritesHitNextHeader
<1>1. PICK b \in 1..Len(blocks) :
        blocks[b].addr + HEADER = live[i].ptr /\ blocks[b].size = live[i].size
  BY HoldersBlock
<1>2. ASSUME NEW c \in Hit(i)
      PROVE  c = b + 1
  <2>1. /\ c \in 1..Len(blocks)
        /\ blocks[c].addr < blocks[b].addr + 3 + blocks[b].size
        /\ blocks[b].addr + 3 < blocks[c].addr + 3
    BY <1>1, <1>2 DEF Hit, HEADER
  <2>2. /\ Len(blocks) \in Nat
        /\ blocks[b].addr \in Nat /\ blocks[b].size \in Nat
        /\ blocks[c].addr \in Nat /\ blocks[c].size \in Nat
    BY <2>1, BlockFacts
  <2>3. \A d \in 1..Len(blocks) : d < c => blocks[d].addr + blocks[d].size <= blocks[c].addr
    BY <2>1 DEF HeapInv, Ordered
  <2>4. c > b
    <3>1. SUFFICES ASSUME c < b \/ c = b PROVE FALSE
      BY <2>1, <2>2
    <3>2. c < b => blocks[c].addr + blocks[c].size <= blocks[b].addr
      BY <2>1 DEF HeapInv, Ordered
    <3> QED
      BY <2>1, <2>2, <3>1, <3>2
  <2>5. SUFFICES ASSUME c > b + 1 PROVE FALSE
    BY <2>1, <2>2, <2>4
  <2>6. /\ b + 1 \in 1..Len(blocks) /\ b \in 1..(Len(blocks) - 1)
        /\ b + 1 < Len(blocks) /\ b + 1 < c
    BY <2>1, <2>2, <2>5
  <2>7. /\ blocks[b + 1].addr = blocks[b].addr + blocks[b].size
        /\ blocks[b + 1].size \in Nat /\ blocks[b + 1].size >= 3
    BY <2>6, BlockFacts DEF HeapInv, Tiling
  <2>8. blocks[b + 1].addr + blocks[b + 1].size <= blocks[c].addr
    BY <2>3, <2>6
  <2>9. \A s, t, u, x, y \in Nat : ~(x < s + 3 + t /\ y = s + t /\ u >= 3 /\ y + u <= x)
    OBVIOUS
  <2>10. blocks[b + 1].addr \in Nat
    BY <2>6, BlockFacts
  <2> QED
    BY <2>1, <2>2, <2>7, <2>8, <2>9, <2>10
<1> QED
  BY <1>1, <1>2

(* Multiples of a header are at least a header apart. *)
LEMMA Multiples ==
  ASSUME NEW x \in Nat, NEW y \in Nat, x % 3 = 0, y % 3 = 0, y > x
  PROVE  y - x >= 3
<1>1. x = 3 * (x \div 3) /\ y = 3 * (y \div 3)
  OBVIOUS
<1>2. y - x = 3 * ((y \div 3) - (x \div 3))
  BY <1>1
<1> QED
  BY <1>2

(* Every block but the last has room for its header, and sizes in whole    *)
(* headers leave rests that have.                                          *)
LEMMA InvHeadersApart == HeapInv => HeadersApart
<1> SUFFICES ASSUME HeapInv PROVE HeadersApart
  OBVIOUS
<1>1. ASSUME NEW b \in 1..(Len(blocks) - 1)
      PROVE  blocks[b].addr + HEADER <= blocks[b + 1].addr
  <2>1. b \in 1..Len(blocks) /\ b < Len(blocks)
    BY BlockFacts
  <2>2. blocks[b].addr \in Nat /\ blocks[b].size \in Nat /\ blocks[b].size >= 3
    BY <2>1, BlockFacts
  <2>3. blocks[b + 1].addr = blocks[b].addr + blocks[b].size
    BY DEF HeapInv, Tiling
  <2> QED
    BY <2>2, <2>3 DEF HEADER
<1>2. ASSUME blocks # << >>, \A b \in 1..Len(blocks) : Whole(blocks[b].size),
             NEW size \in Sizes, Whole(size)
      PROVE  ~Smashes(size)
  <2> DEFINE f == FindBlock(size)
  <2>1. size \in Nat /\ size > 0 /\ size % 3 = 0
    BY <1>2, SizeFacts DEF Whole
  <2>2. \A b \in 1..Len(blocks) :
          blocks[b].size \in Nat /\ blocks[b].size > 0 /\ blocks[b].size % 3 = 0
    BY <1>2, BlockFacts DEF Whole, HEADER
  <2>3. tail \in 1..Len(blocks)
    BY <1>2, BlockFacts DEF HeapInv
  <2>4. CASE f = 0
    <3>1. blocks[tail].size >= 3
      BY <2>2, <2>3
    <3> QED
      BY <2>2, <2>3, <2>4, <3>1 DEF Smashes, HEADER
  <2>5. CASE f # 0
    <3>1. f \in 1..Len(blocks) /\ blocks[f].size > size
      <4>1. blocks \in Seq(BlockType)
        BY DEF HeapInv
      <4>2. IF Fits(size) = {} THEN f = 0 ELSE IsBest(f, size, Len(blocks))
        BY <2>1, <4>1, FindBlockIsBest
      <4> QED
        BY <2>5, <4>2 DEF IsBest, Fits
    <3> HIDE DEF f
    <3>2. blocks[f].size - size >= 3
      BY <2>1, <2>2, <3>1, Multiples
    <3>3. size >= 3
      BY <2>1
    <3> QED
      BY <2>1, <2>2, <2>5, <3>1, <3>2, <3>3 DEF Smashes, HEADER, f
  <2> QED
    BY <2>4, <2>5
<1> QED
  BY <1>1, <1>2, Zenon DEF HeadersApart

(* Each block in use has its holder and each holder its block, so there    *)
(* are as many of the ones as of the others.                               *)
LEMMA InvBlocksMatchHolders == HeapInv => BlocksMatchHolders
<1> SUFFICES ASSUME HeapInv PROVE BlocksMatchHolders
  OBVIOUS
<1> DEFINE Used == {b \in 1..Len(blocks) : ~blocks[b].free}
           f == [b \in Used |-> CHOOSE i \in Held : live[i].ptr = blocks[b].addr + HEADER]
<1>1. ASSUME NEW b \in Used
      PROVE  f[b] \in Held /\ live[f[b]].ptr = blocks[b].addr + HEADER
  BY DEF HeapInv, HoldersMatch, BlockHasHolder
<1>2. IsFiniteSet(Used)
  <2>1. Len(blocks) \in Int
    BY BlockFacts
  <2>2. IsFiniteSet(1..Len(blocks))
    BY <2>1, FS_Interval
  <2> QED
    BY <2>2, FS_Subset
<1>3. f \in [Used -> Held]
  BY <1>1
<1> HIDE DEF f
<1>4. \A b, c \in Used : f[b] = f[c] => b = c
  <2> SUFFICES ASSUME NEW b \in Used, NEW c \in Used, f[b] = f[c]
               PROVE  b = c
    OBVIOUS
  <2>1. b \in 1..Len(blocks) /\ c \in 1..Len(blocks)
    OBVIOUS
  <2>2. blocks[b].addr \in Nat /\ blocks[c].addr \in Nat
    BY <2>1, BlockFacts
  <2>3. blocks[b].addr + HEADER = blocks[c].addr + HEADER
    BY <1>1
  <2>4. blocks[b].addr = blocks[c].addr
    BY <2>2, <2>3 DEF HEADER
  <2> QED
    BY <2>1, <2>4, OneBlockAt
<1>5. \A i \in Held : \E b \in Used : f[b] = i
  <2> SUFFICES ASSUME NEW i \in Held PROVE \E b \in Used : f[b] = i
    OBVIOUS
  <2>1. PICK b \in 1..Len(blocks) :
          blocks[b].addr + HEADER = live[i].ptr /\ ~blocks[b].free
    BY HoldersBlock
  <2>2. b \in Used
    BY <2>1
  <2>3. f[b] \in Held /\ live[f[b]].ptr = live[i].ptr
    BY <1>1, <2>1, <2>2
  <2>4. f[b] = i
    BY <2>3 DEF HeapInv, HoldersMatch, OneHolder
  <2> QED
    BY <2>2, <2>4
<1>6. Cardinality(Held) = Cardinality(Used)
  <2>1. f \in Bijection(Used, Held)
    BY <1>3, <1>4, <1>5 DEF Bijection, Injection, Surjection, IsInjective
  <2>2. ExistsBijection(Used, Held)
    BY <2>1 DEF ExistsBijection
  <2> HIDE DEF Used
  <2> QED
    BY <1>2, <2>2, FS_Bijection
<1> QED
  BY <1>6 DEF BlocksMatchHolders, HeapInv, HoldersMatch, HolderHasBlock

-----------------------------------------------------------------------------
(***************************************************************************)
(* The page manager, for any number of pages, any width of the bitmap's    *)
(* words and any alignment, whatever regions are allocated: its counters   *)
(* and its bitmap agree as far as they can, and its searches find the      *)
(* lowest page there is in the words that they look at.                    *)
(***************************************************************************)
PmmInv == PmmTypeOK /\ IsFiniteSet(bitmap) /\ CountersMatchBitmap

(* A difference that has gone below zero once goes round. *)
LEMMA Wrap ==
  ASSUME NEW r \in Nat, NEW x \in Int, -r <= x, x < r
  PROVE  x % r = IF x < 0 THEN x + r ELSE x
<1> DEFINE q == x \div r
           m == x % r
<1>1. r > 0 /\ q \in Int /\ m \in Int /\ x = r * q + m /\ 0 <= m /\ m < r
  OBVIOUS
<1> HIDE DEF q, m
<1>2. q < 1
  <2>1. SUFFICES ASSUME q >= 1 PROVE FALSE
    BY <1>1
  <2>2. r * q >= r * 1
    BY <1>1, <2>1
  <2> QED
    BY <1>1, <2>2
<1>3. q > -2
  <2>1. SUFFICES ASSUME q <= -2 PROVE FALSE
    BY <1>1
  <2>2. r * q <= r * (-2)
    BY <1>1, <2>1
  <2>3. r * (-2) = - r - r
    BY <1>1
  <2> QED
    BY <1>1, <2>2, <2>3
<1>4. CASE q = 0
  <2>1. r * q = 0
    BY <1>4
  <2> QED
    BY <1>1, <2>1 DEF m
<1>5. CASE q = -1
  <2>1. r * q = -r
    BY <1>1, <1>5
  <2> QED
    BY <1>1, <2>1 DEF m
<1> QED
  BY <1>1, <1>2, <1>3, <1>4, <1>5

(* What m_free_pages is, as m_used_pages never goes round. *)
FreePages == IF m_used_pages <= Pages THEN Pages - m_used_pages
             ELSE Pages - m_used_pages + CounterRange

LEMMA FreePagesIs ==
  ASSUME PmmInv
  PROVE  m_free_pages = FreePages
<1>1. /\ Pages \in Nat /\ MaxUsed \in Nat /\ CounterRange \in Nat
      /\ Pages <= MaxUsed /\ MaxUsed < CounterRange /\ m_used_pages \in 0..MaxUsed
  BY PhysMemAssumption DEF PmmInv, PmmTypeOK
<1>2. (Pages - m_used_pages) % CounterRange =
        IF Pages - m_used_pages < 0 THEN Pages - m_used_pages + CounterRange
        ELSE Pages - m_used_pages
  <2>1. /\ Pages - m_used_pages \in Int /\ -CounterRange <= Pages - m_used_pages
        /\ Pages - m_used_pages < CounterRange
    BY <1>1
  <2> QED
    BY <1>1, <2>1, Wrap
<1> QED
  BY <1>1, <1>2 DEF PmmInv, CountersMatchBitmap, FreePages

(* A region has as many pages as it is long. *)
LEMMA RegionSize ==
  ASSUME NEW first \in Nat, NEW n \in Nat
  PROVE  /\ Region(first, n) \subseteq Nat
         /\ IsFiniteSet(Region(first, n)) /\ Cardinality(Region(first, n)) = n
<1>1. first + n - 1 \in Int /\ first \in Int
  OBVIOUS
<1>2. /\ IsFiniteSet(Region(first, n))
      /\ Cardinality(Region(first, n)) =
           IF first > first + n - 1 THEN 0 ELSE (first + n - 1) - first + 1
  BY <1>1, FS_Interval DEF Region
<1> QED
  BY <1>2 DEF Region

(* A region that is apart from the bitmap adds all of its pages, one that  *)
(* is not adds fewer.                                                      *)
LEMMA Take ==
  ASSUME NEW S, NEW R, IsFiniteSet(S), IsFiniteSet(R)
  PROVE  /\ IsFiniteSet(S \cup R)
         /\ Cardinality(S) \in Nat /\ Cardinality(R) \in Nat
         /\ Cardinality(S \cup R) \in Nat
         /\ R \cap S = {} => Cardinality(S \cup R) = Cardinality(S) + Cardinality(R)
         /\ R \cap S # {} => Cardinality(S \cup R) < Cardinality(S) + Cardinality(R)
<1>1. IsFiniteSet(S \cup R) /\ IsFiniteSet(S \cap R)
  <2>1. S \cap R \subseteq S
    OBVIOUS
  <2> QED
    BY <2>1, FS_Union, FS_Subset
<1>2. /\ Cardinality(S) \in Nat /\ Cardinality(R) \in Nat
      /\ Cardinality(S \cup R) \in Nat /\ Cardinality(S \cap R) \in Nat
  BY <1>1, FS_CardinalityType
<1>3. Cardinality(S \cup R) = Cardinality(S) + Cardinality(R) - Cardinality(S \cap R)
  BY FS_Union
<1>4. S \cap R = R \cap S /\ (Cardinality(S \cap R) = 0 <=> S \cap R = {})
  BY <1>1, FS_EmptySet
<1> QED
  BY <1>1, <1>2, <1>3, <1>4

(* init leaves the counters right. *)
LEMMA InitPmmInv == PmmInit => PmmInv
<1> SUFFICES ASSUME PmmInit PROVE PmmInv
  OBVIOUS
<1> DEFINE n == kernel_size \div PMM_BLOCK_SIZE
<1>1. /\ n \in Nat /\ n <= Pages /\ Pages \in Nat /\ Pages <= MaxUsed
      /\ MaxUsed \in Nat /\ CounterRange \in Nat /\ MaxUsed < CounterRange
      /\ L1Tables \in Nat
  BY PhysMemAssumption
<1>2. /\ bitmap = Region(0, n) /\ m_used_pages = n /\ m_free_pages = Pages - n
      /\ m_free_l1_tables = L1Tables /\ repeated = FALSE
  BY DEF PmmInit
<1> HIDE DEF n
<1>3. bitmap \subseteq Nat /\ IsFiniteSet(bitmap) /\ Cardinality(bitmap) = n
  BY <1>1, <1>2, RegionSize
<1>4. (Pages - n) % CounterRange = Pages - n
  <2>1. /\ Pages - n \in Int /\ -CounterRange <= Pages - n
        /\ Pages - n < CounterRange /\ ~(Pages - n < 0)
    BY <1>1
  <2> QED
    BY <1>1, <2>1, Wrap
<1>5. CountersMatchBitmap
  <2>1. ~repeated /\ m_used_pages = Cardinality(bitmap)
    BY <1>2, <1>3
  <2>2. m_free_pages = (Pages - m_used_pages) % CounterRange
    BY <1>2, <1>4
  <2> QED
    BY <2>1, <2>2, Zenon DEF CountersMatchBitmap
<1>6. PmmTypeOK
  <2>1. /\ m_free_pages \in 0..(CounterRange - 1) /\ m_used_pages \in 0..MaxUsed
        /\ m_free_l1_tables \in 0..L1Tables
    BY <1>1, <1>2
  <2>2. repeated \in BOOLEAN
    BY <1>2, Zenon
  <2> QED
    BY <1>3, <2>1, <2>2, Zenon DEF PmmTypeOK
<1> QED
  BY <1>3, <1>5, <1>6 DEF PmmInv

(* allocate_region keeps them so, whatever it is asked for. *)
LEMMA AllocateRegionStep ==
  ASSUME PmmInv, NEW base \in 0..(Pages * PMM_BLOCK_SIZE - 1), NEW size \in RegionSizes,
         AllocateRegion(base, size)
  PROVE  PmmInv'
<1> DEFINE first == base \div PMM_BLOCK_SIZE
           n == size \div PMM_BLOCK_SIZE
           R == Region(first, n)
<1>1. /\ first \in Nat /\ n \in Nat
  <2>1. base \in Nat /\ size \in Nat /\ PMM_BLOCK_SIZE \in Nat \ {0}
    BY PhysMemAssumption
  <2> QED
    BY <2>1
<1>2. /\ m_used_pages + n <= MaxUsed
      /\ bitmap' = bitmap \cup R
      /\ m_used_pages' = m_used_pages + n
      /\ m_free_pages' = (m_free_pages - n) % CounterRange
      /\ repeated' = (repeated \/ R \cap bitmap # {})
      /\ m_free_l1_tables' = m_free_l1_tables
  BY DEF AllocateRegion
<1> HIDE DEF first, n
<1>3. R \subseteq Nat /\ IsFiniteSet(R) /\ Cardinality(R) = n
  BY <1>1, RegionSize
<1> HIDE DEF R
<1>4. /\ Pages \in Nat /\ MaxUsed \in Nat /\ CounterRange \in Nat
      /\ Pages <= MaxUsed /\ MaxUsed < CounterRange
      /\ m_used_pages \in 0..MaxUsed /\ m_free_pages = FreePages
      /\ bitmap \subseteq Nat /\ IsFiniteSet(bitmap)
  BY PhysMemAssumption, FreePagesIs DEF PmmInv, PmmTypeOK
<1>5. m_used_pages' \in 0..MaxUsed
  BY <1>1, <1>2, <1>4
<1>6. /\ (m_free_pages - n) % CounterRange = (Pages - m_used_pages') % CounterRange
      /\ m_free_pages' \in 0..(CounterRange - 1)
  <2>1. (Pages - m_used_pages') % CounterRange =
          IF Pages - m_used_pages' < 0 THEN Pages - m_used_pages' + CounterRange
          ELSE Pages - m_used_pages'
    <3>1. /\ Pages - m_used_pages' \in Int /\ -CounterRange <= Pages - m_used_pages'
          /\ Pages - m_used_pages' < CounterRange
      <4>1. \A u \in 0..MaxUsed : /\ Pages - u \in Int /\ -CounterRange <= Pages - u
                                  /\ Pages - u < CounterRange
        BY <1>4
      <4> QED
        BY <1>5, <4>1, Zenon
    <3> QED
      BY <1>4, <3>1, Wrap
  <2>2. /\ m_free_pages - n \in Int /\ -CounterRange <= m_free_pages - n
        /\ m_free_pages - n < CounterRange
    BY <1>1, <1>2, <1>4, <1>5 DEF FreePages
  <2>3. (m_free_pages - n) % CounterRange =
          IF m_free_pages - n < 0 THEN m_free_pages - n + CounterRange
          ELSE m_free_pages - n
    BY <1>4, <2>2, Wrap
  <2> QED
    BY <1>1, <1>2, <1>4, <1>5, <2>1, <2>3 DEF FreePages
<1>7. /\ IsFiniteSet(bitmap')
      /\ Cardinality(bitmap) \in Nat /\ Cardinality(bitmap') \in Nat
      /\ R \cap bitmap = {} => Cardinality(bitmap') = Cardinality(bitmap) + n
      /\ R \cap bitmap # {} => Cardinality(bitmap') < Cardinality(bitmap) + n
  BY <1>2, <1>3, <1>4, Take, Zenon
<1>8. IF repeated THEN m_used_pages > Cardinality(bitmap)
      ELSE m_used_pages = Cardinality(bitmap)
  BY DEF PmmInv, CountersMatchBitmap
<1>9. repeated \in BOOLEAN /\ repeated' \in BOOLEAN
  BY <1>2, Zenon DEF PmmInv, PmmTypeOK
<1>10. Cardinality(bitmap') <= Cardinality(bitmap) + n
  BY <1>1, <1>7
<1>11. IF repeated' THEN m_used_pages' > Cardinality(bitmap')
       ELSE m_used_pages' = Cardinality(bitmap')
  <2>1. CASE repeated
    <3>1. m_used_pages' > Cardinality(bitmap')
      BY <1>1, <1>2, <1>4, <1>7, <1>8, <1>10, <2>1
    <3> QED
      BY <1>2, <2>1, <3>1, Zenon
  <2>2. CASE ~repeated /\ R \cap bitmap = {}
    <3>1. m_used_pages' = Cardinality(bitmap')
      BY <1>2, <1>7, <1>8, <2>2
    <3> QED
      BY <1>2, <2>2, <3>1, Zenon
  <2>3. CASE ~repeated /\ R \cap bitmap # {}
    <3>1. m_used_pages' > Cardinality(bitmap')
      BY <1>1, <1>2, <1>4, <1>7, <1>8, <2>3
    <3> QED
      BY <1>2, <2>3, <3>1, Zenon
  <2> QED
    BY <2>1, <2>2, <2>3, Zenon
<1>12. CountersMatchBitmap'
  <2>1. m_free_pages' = (Pages - m_used_pages') % CounterRange
    BY <1>2, <1>6
  <2> QED
    BY <1>11, <2>1, Zenon DEF CountersMatchBitmap
<1>13. PmmTypeOK'
  <2>1. bitmap' \subseteq Nat
    BY <1>2, <1>3, <1>4
  <2>2. m_free_l1_tables' \in 0..L1Tables
    BY <1>2 DEF PmmInv, PmmTypeOK
  <2> QED
    BY <1>5, <1>6, <1>9, <2>1, <2>2, Zenon DEF PmmTypeOK
<1> QED
  BY <1>7, <1>12, <1>13 DEF PmmInv

(* So does every step. *)
LEMMA NextPmmInv ==
  ASSUME PmmInv, [PmmNext]_pmm_vars
  PROVE  PmmInv'
<1>1. CASE AllocateL1Table
  <2>1. m_free_l1_tables' \in 0..L1Tables
    BY <1>1, PhysMemAssumption DEF AllocateL1Table, PmmInv, PmmTypeOK
  <2>2. /\ bitmap' = bitmap /\ m_free_pages' = m_free_pages
        /\ m_used_pages' = m_used_pages /\ repeated' = repeated
    BY <1>1 DEF AllocateL1Table
  <2> QED
    BY <2>1, <2>2, Zenon DEF PmmInv, PmmTypeOK, CountersMatchBitmap
<1>2. CASE UNCHANGED pmm_vars
  <2>1. /\ bitmap' = bitmap /\ m_free_pages' = m_free_pages
        /\ m_used_pages' = m_used_pages /\ repeated' = repeated
        /\ m_free_l1_tables' = m_free_l1_tables
    BY <1>2 DEF pmm_vars
  <2> QED
    BY <2>1, Zenon DEF PmmInv, PmmTypeOK, CountersMatchBitmap
<1> QED
  BY <1>1, <1>2, AllocateRegionStep, Zenon DEF PmmNext

-----------------------------------------------------------------------------
(***************************************************************************)
(* The searches.  Seeks: r is the lowest page from lo on and below hi that *)
(* will do, or NotFound if there is none.                                  *)
(***************************************************************************)
Seeks(r, every, lo, hi) ==
  \/ r = NotFound /\ \A q \in lo..(hi - 1) : ~Suits(q, every)
  \/ /\ r \in lo..(hi - 1) /\ Suits(r, every)
     /\ \A q \in lo..(r - 1) : ~Suits(q, every)

(* One loop goes on where the one before it has found nothing. *)
LEMMA SeeksOn ==
  ASSUME NEW every, NEW lo \in Nat, NEW mid \in Nat, NEW hi \in Nat,
         lo <= mid, mid <= hi, NEW r \in Int, NEW s \in Int,
         Seeks(r, every, lo, mid), Seeks(s, every, mid, hi)
  PROVE  Seeks(IF r = NotFound THEN s ELSE r, every, lo, hi)
<1>1. CASE r = NotFound
  <2>1. \A q \in lo..(mid - 1) : ~Suits(q, every)
    BY <1>1 DEF Seeks, NotFound
  <2>2. CASE s = NotFound /\ \A q \in mid..(hi - 1) : ~Suits(q, every)
    <3>1. \A q \in lo..(hi - 1) : q \in lo..(mid - 1) \/ q \in mid..(hi - 1)
      OBVIOUS
    <3> QED
      BY <1>1, <2>1, <2>2, <3>1, Zenon DEF Seeks
  <2>3. CASE /\ s \in mid..(hi - 1) /\ Suits(s, every)
             /\ \A q \in mid..(s - 1) : ~Suits(q, every)
    <3>1. /\ s \in lo..(hi - 1)
          /\ \A q \in lo..(s - 1) : q \in lo..(mid - 1) \/ q \in mid..(s - 1)
      BY <2>3
    <3> QED
      BY <1>1, <2>1, <2>3, <3>1, Zenon DEF Seeks
  <2> QED
    BY <2>2, <2>3, Zenon DEF Seeks
<1>2. CASE r # NotFound
  <2>1. /\ r \in lo..(mid - 1) /\ Suits(r, every)
        /\ \A q \in lo..(r - 1) : ~Suits(q, every)
    BY <1>2, Zenon DEF Seeks
  <2>2. r \in lo..(hi - 1)
    BY <2>1
  <2> QED
    BY <1>2, <2>1, <2>2, Zenon DEF Seeks
<1> QED
  BY <1>1, <1>2

(* A single page. *)
LEMMA SeeksOne ==
  ASSUME NEW every, NEW page \in Nat
  PROVE  Seeks(IF Suits(page, every) THEN page ELSE NotFound, every, page, page + 1)
<1>1. /\ page \in page..(page + 1 - 1) /\ \A q \in page..(page + 1 - 1) : q = page
      /\ \A q \in page..(page - 1) : FALSE
  OBVIOUS
<1>2. CASE Suits(page, every)
  <2>1. Seeks(page, every, page, page + 1)
    BY <1>1, <1>2 DEF Seeks, Suits, NotFound
  <2> QED
    BY <1>2, <2>1, Zenon
<1>3. CASE ~Suits(page, every)
  <2>1. Seeks(NotFound, every, page, page + 1)
    BY <1>1, <1>3 DEF Seeks, Suits, NotFound
  <2> QED
    BY <1>3, <2>1, Zenon
<1> QED
  BY <1>2, <1>3

(* No page of a full word. *)
LEMMA SeeksFull ==
  ASSUME NEW every, NEW i \in Nat, Full(i)
  PROVE  Seeks(NotFound, every, i * WordBits, i * WordBits + WordBits)
<1> DEFINE start == i * WordBits
<1>1. \A q \in start..(start + WordBits - 1) : q \in bitmap
  BY DEF Full
<1>2. start \in Nat /\ WordBits \in Nat
  BY PhysMemAssumption
<1> HIDE DEF start
<1>3. Seeks(NotFound, every, start, start + WordBits)
  BY <1>1, <1>2 DEF Seeks, Suits, NotFound
<1> QED
  BY <1>3 DEF start

(* The loop over the bits of a word is a function. *)
InWord(f, i, every) ==
  f = [j \in 0..WordBits |->
         IF j = 0 THEN NotFound
         ELSE IF f[j - 1] = NotFound /\ Suits(i * WordBits + (j - 1), every)
              THEN i * WordBits + (j - 1) ELSE f[j - 1]]

LEMMA InWordExists ==
  ASSUME NEW i \in Nat, NEW every
  PROVE  \E f : InWord(f, i, every)
<1> DEFINE N == WordBits
           step == [p \in Int \X (1..N) |->
                      IF p[1] = NotFound /\ Suits(i * WordBits + (p[2] - 1), every)
                      THEN i * WordBits + (p[2] - 1) ELSE p[1]]
<1>1. N \in Nat /\ NotFound \in Int
  BY PhysMemAssumption DEF NotFound
<1>2. step \in [Int \X (1..N) -> Int]
  BY <1>1
<1>3. PICK f \in [0..N -> Int] : Iterates(f, step, NotFound, N)
  <2> HIDE DEF step, N
  <2> QED
    BY <1>1, <1>2, RecursionUpTo, Zenon
<1>4. ASSUME NEW j \in 1..N
      PROVE  f[j] = IF f[j - 1] = NotFound /\ Suits(i * WordBits + (j - 1), every)
                    THEN i * WordBits + (j - 1) ELSE f[j - 1]
  <2>1. <<f[j - 1], j>> \in Int \X (1..N)
    BY <1>1
  <2>2. f[j] = step[<<f[j - 1], j>>]
    BY <1>3 DEF Iterates
  <2> QED
    BY <2>1, <2>2
<1>5. InWord(f, i, every)
  <2>1. \A j \in 0..N : j = 0 \/ j \in 1..N
    BY <1>1
  <2>2. f[0] = NotFound
    BY <1>3 DEF Iterates
  <2> QED
    BY <1>3, <1>4, <2>1, <2>2 DEF InWord
<1> QED
  BY <1>5

(* It seeks through the word. *)
LEMMA FindInWordSeeks ==
  ASSUME NEW i \in Nat, NEW every
  PROVE  /\ FindInWord(i, every) \in Int
         /\ Seeks(FindInWord(i, every), every, i * WordBits, i * WordBits + WordBits)
<1> DEFINE found[j \in 0..WordBits] ==
             IF j = 0 THEN NotFound
             ELSE LET p == i * WordBits + (j - 1)
                  IN  IF found[j - 1] = NotFound /\ Suits(p, every) THEN p
                      ELSE found[j - 1]
           N == WordBits
           lo == i * WordBits
<1>1. FindInWord(i, every) = found[WordBits]
  BY DEF FindInWord
<1>2. InWord(found, i, every)
  BY InWordExists DEF InWord
<1> HIDE DEF found
<1>3. N \in Nat /\ lo \in Nat
  BY PhysMemAssumption
<1>4. /\ found[0] = NotFound
      /\ \A j \in 1..N : found[j] = IF found[j - 1] = NotFound /\ Suits(lo + (j - 1), every)
                                    THEN lo + (j - 1) ELSE found[j - 1]
  BY <1>2, <1>3 DEF InWord
<1> HIDE DEF N, lo
<1> DEFINE S == {n \in 0..N : found[n] \in Int /\ Seeks(found[n], every, lo, lo + n)}
<1>5. 0 \in S
  BY <1>3, <1>4 DEF Seeks, NotFound
<1>6. ASSUME NEW n \in 1..N, n - 1 \in S
      PROVE  n \in S
  <2> DEFINE p == lo + (n - 1)
             r == IF Suits(p, every) THEN p ELSE NotFound
  <2>1. p \in Nat /\ r \in Int /\ lo + n \in Nat /\ lo + n = p + 1 /\ p \in lo..p
    BY <1>3 DEF NotFound
  <2>2. Seeks(r, every, p, lo + n)
    BY <2>1, SeeksOne
  <2>3. found[n - 1] \in Int /\ Seeks(found[n - 1], every, lo, p)
    BY <1>6
  <2>4. found[n] = IF found[n - 1] = NotFound THEN r ELSE found[n - 1]
    BY <1>4
  <2>5. lo <= p /\ p <= lo + n
    BY <2>1
  <2> HIDE DEF p, r
  <2>6. Seeks(IF found[n - 1] = NotFound THEN r ELSE found[n - 1], every, lo, lo + n)
    BY <1>3, <2>1, <2>2, <2>3, <2>5, SeeksOn
  <2> QED
    BY <2>1, <2>3, <2>4, <2>6
<1>7. N \in S
  <2> HIDE DEF S
  <2>1. 0..N \subseteq S
    BY <1>3, <1>5, <1>6, InductionUpTo
  <2> QED
    BY <1>3, <2>1
<1> QED
  BY <1>1, <1>7 DEF N, lo

(* The loop over the words likewise. *)
OverWords(f, every, words) ==
  f = [i \in 0..words |->
         IF i = 0 THEN NotFound
         ELSE IF f[i - 1] = NotFound /\ ~Full(i - 1)
              THEN FindInWord(i - 1, every) ELSE f[i - 1]]

LEMMA OverWordsExists ==
  ASSUME NEW every, NEW words \in Nat
  PROVE  \E f : OverWords(f, every, words)
<1> DEFINE step == [p \in Int \X (1..words) |->
                      IF p[1] = NotFound /\ ~Full(p[2] - 1)
                      THEN FindInWord(p[2] - 1, every) ELSE p[1]]
<1>1. NotFound \in Int
  BY DEF NotFound
<1>2. step \in [Int \X (1..words) -> Int]
  <2>1. ASSUME NEW p \in Int \X (1..words)
        PROVE  /\ p[1] \in Int
               /\ FindInWord(p[2] - 1, every) \in Int
    <3>1. p[1] \in Int /\ p[2] - 1 \in Nat
      OBVIOUS
    <3> QED
      BY <3>1, FindInWordSeeks
  <2> QED
    BY <2>1
<1>3. PICK f \in [0..words -> Int] : Iterates(f, step, NotFound, words)
  <2> HIDE DEF step
  <2> QED
    BY <1>1, <1>2, RecursionUpTo, Zenon
<1>4. ASSUME NEW i \in 1..words
      PROVE  f[i] = IF f[i - 1] = NotFound /\ ~Full(i - 1)
                    THEN FindInWord(i - 1, every) ELSE f[i - 1]
  <2>1. <<f[i - 1], i>> \in Int \X (1..words)
    OBVIOUS
  <2>2. f[i] = step[<<f[i - 1], i>>]
    BY <1>3 DEF Iterates
  <2> QED
    BY <2>1, <2>2
<1>5. OverWords(f, every, words)
  <2>1. \A i \in 0..words : i = 0 \/ i \in 1..words
    OBVIOUS
  <2>2. f[0] = NotFound
    BY <1>3 DEF Iterates
  <2> QED
    BY <1>3, <1>4, <2>1, <2>2 DEF OverWords
<1> QED
  BY <1>5

(* It seeks through all words that it looks at. *)
LEMMA FindBitSeeks ==
  ASSUME PmmInv, NEW every
  PROVE  Seeks(FindBit(every), every, 0, (m_free_pages \div WordBits) * WordBits)
<1> DEFINE words == m_free_pages \div WordBits
           found[i \in 0..words] ==
             IF i = 0 THEN NotFound
             ELSE IF found[i - 1] = NotFound /\ ~Full(i - 1)
                  THEN FindInWord(i - 1, every) ELSE found[i - 1]
<1>1. m_free_pages \in Nat /\ words \in Nat /\ WordBits \in Nat
  <2>1. m_free_pages \in Nat /\ WordBits \in Nat \ {0}
    BY PhysMemAssumption DEF PmmInv, PmmTypeOK
  <2> QED
    BY <2>1
<1>2. FindBit(every) = found[words]
  BY DEF FindBit
<1>3. OverWords(found, every, words)
  <2> HIDE DEF words
  <2> QED
    BY <1>1, OverWordsExists DEF OverWords
<1> HIDE DEF found, words
<1>4. /\ found[0] = NotFound
      /\ \A i \in 1..words : found[i] = IF found[i - 1] = NotFound /\ ~Full(i - 1)
                                        THEN FindInWord(i - 1, every) ELSE found[i - 1]
  BY <1>1, <1>3 DEF OverWords
<1> DEFINE S == {n \in 0..words : found[n] \in Int /\ Seeks(found[n], every, 0, n * WordBits)}
<1>5. 0 \in S
  BY <1>1, <1>4 DEF Seeks, NotFound
<1>6. ASSUME NEW n \in 1..words, n - 1 \in S
      PROVE  n \in S
  <2> DEFINE mid == (n - 1) * WordBits
             hi == n * WordBits
             r == IF Full(n - 1) THEN NotFound ELSE FindInWord(n - 1, every)
  <2>1. n - 1 \in Nat /\ n \in Nat
    BY <1>1
  <2>2. mid \in Nat /\ hi \in Nat /\ hi = mid + WordBits /\ 0 <= mid /\ mid <= hi
    BY <1>1, <2>1
  <2>3. /\ FindInWord(n - 1, every) \in Int
        /\ Seeks(FindInWord(n - 1, every), every, mid, mid + WordBits)
    BY <2>1, FindInWordSeeks
  <2>4. r \in Int /\ Seeks(r, every, mid, hi)
    <3>1. CASE Full(n - 1)
      <4>1. Seeks(NotFound, every, mid, mid + WordBits)
        BY <2>1, <3>1, SeeksFull
      <4> QED
        BY <2>2, <3>1, <4>1 DEF NotFound
    <3>2. CASE ~Full(n - 1)
      BY <2>2, <2>3, <3>2
    <3> QED
      BY <3>1, <3>2
  <2>5. found[n - 1] \in Int /\ Seeks(found[n - 1], every, 0, mid)
    BY <1>6
  <2>6. found[n] = IF found[n - 1] = NotFound THEN r ELSE found[n - 1]
    BY <1>4
  <2> HIDE DEF mid, hi, r
  <2>7. Seeks(IF found[n - 1] = NotFound THEN r ELSE found[n - 1], every, 0, hi)
    BY <2>2, <2>4, <2>5, SeeksOn
  <2> QED
    BY <2>4, <2>5, <2>6, <2>7 DEF hi
<1>7. words \in S
  <2> HIDE DEF S
  <2>1. 0..words \subseteq S
    BY <1>1, <1>5, <1>6, InductionUpTo
  <2> QED
    BY <1>1, <2>1
<1> QED
  BY <1>2, <1>7 DEF words

(* The words that are looked at hold no more bits than pages are free. *)
LEMMA WordsLookedAt ==
  ASSUME PmmInv
  PROVE  /\ (m_free_pages \div WordBits) * WordBits \in Nat
         /\ (m_free_pages \div WordBits) * WordBits <= m_free_pages
         /\ WordBits * (m_free_pages \div WordBits) =
              (m_free_pages \div WordBits) * WordBits
         /\ m_free_pages \in Nat
<1>1. m_free_pages \in Nat /\ WordBits \in Nat \ {0}
  BY PhysMemAssumption DEF PmmInv, PmmTypeOK
<1> DEFINE q == m_free_pages \div WordBits
<1>2. q \in Nat /\ WordBits * q <= m_free_pages
  BY <1>1
<1> HIDE DEF q
<1>3. WordBits * q = q * WordBits /\ q * WordBits \in Nat
  BY <1>1, <1>2
<1> QED
  BY <1>1, <1>2, <1>3 DEF q

(* What the searches find. *)
LEMMA InvLowestPageFound == PmmInv => LowestPageFound
<1> SUFFICES ASSUME PmmInv, NEW every \in {1, AlignedEvery}, FindBit(every) # NotFound
             PROVE  IsLowest(FindBit(every), every)
  BY DEF LowestPageFound
<1> DEFINE p == FindBit(every)
           hi == (m_free_pages \div WordBits) * WordBits
<1>1. hi \in Nat /\ hi <= m_free_pages /\ m_free_pages \in Nat
  BY WordsLookedAt
<1>2. Seeks(p, every, 0, hi)
  BY FindBitSeeks
<1> HIDE DEF p, hi
<1>3. /\ p \in 0..(hi - 1) /\ Suits(p, every)
      /\ \A q \in 0..(p - 1) : ~Suits(q, every)
  BY <1>2 DEF Seeks, p
<1>4. m_used_pages <= Pages => p \in AllPages
  <2>1. SUFFICES ASSUME m_used_pages <= Pages PROVE p \in AllPages
    OBVIOUS
  <2>2. m_free_pages = Pages - m_used_pages
    BY <2>1, FreePagesIs DEF FreePages
  <2>3. Pages \in Nat /\ m_used_pages \in Nat
    BY PhysMemAssumption DEF PmmInv, PmmTypeOK
  <2> QED
    BY <1>1, <1>3, <2>2, <2>3 DEF AllPages
<1> QED
  BY <1>1, <1>3, <1>4 DEF IsLowest, p

(* If all bits that are looked at are set, at least as many pages have     *)
(* been allocated.                                                         *)
LEMMA InvSearchSucceeds == PmmInv => SearchSucceeds
<1> DEFINE hi == (m_free_pages \div WordBits) * WordBits
<1> SUFFICES ASSUME PmmInv, m_used_pages < WordBits * (m_free_pages \div WordBits),
                    FindBit(1) = NotFound
             PROVE  FALSE
  BY DEF SearchSucceeds, find_first_free_bit
<1>1. hi \in Nat /\ m_used_pages < hi
  BY WordsLookedAt
<1>2. Seeks(NotFound, 1, 0, hi)
  BY FindBitSeeks
<1> HIDE DEF hi
<1>3. Region(0, hi) \subseteq bitmap
  <2>1. \A q \in 0..(hi - 1) : ~Suits(q, 1)
    BY <1>1, <1>2 DEF Seeks, NotFound
  <2>2. \A q \in 0..(hi - 1) : q % 1 = 0
    BY <1>1
  <2>3. 0 + hi - 1 = hi - 1
    BY <1>1
  <2> QED
    BY <2>1, <2>2, <2>3 DEF Suits, Region
<1>4. Cardinality(Region(0, hi)) = hi
  BY <1>1, RegionSize
<1>5. hi <= Cardinality(bitmap) /\ Cardinality(bitmap) \in Nat
  <2>1. IsFiniteSet(bitmap)
    BY DEF PmmInv
  <2>2. Cardinality(Region(0, hi)) <= Cardinality(bitmap)
    BY <1>3, <2>1, FS_Subset
  <2>3. Cardinality(bitmap) \in Nat
    BY <2>1, FS_CardinalityType
  <2> QED
    BY <1>4, <2>2, <2>3
<1>6. Cardinality(bitmap) <= m_used_pages /\ m_used_pages \in Nat
  <2>1. m_used_pages \in Nat
    BY PhysMemAssumption DEF PmmInv, PmmTypeOK
  <2>2. m_used_pages > Cardinality(bitmap) \/ m_used_pages = Cardinality(bitmap)
    BY DEF PmmInv, CountersMatchBitmap
  <2> QED
    BY <1>5, <2>1, <2>2
<1> QED
  BY <1>1, <1>5, <1>6

-----------------------------------------------------------------------------
(***************************************************************************)
(* The two together, with the permanent arena.                             *)
(***************************************************************************)
ObjectType == [ptr : Nat, size : Nat]

ArenaInv ==
  /\ kmalloc_permanent_ptr \in Nat
  /\ permanent \in Seq(ObjectType)
  /\ exhausted \in BOOLEAN

(* The memory manager and its bitmap are the first permanent objects. *)
LEMMA InitArenaInv == Init => ArenaInv
<1> SUFFICES ASSUME Init PROVE ArenaInv
  OBVIOUS
<1>1. kmalloc_size \in Nat /\ ManagerSize \in Nat /\ BitmapSize \in Nat
  BY KernelMemoryAssumption
<1>2. /\ Object(kmalloc_size, ManagerSize) \in ObjectType
      /\ Object(kmalloc_size + ManagerSize, BitmapSize) \in ObjectType
  BY <1>1 DEF Object, ObjectType
<1>3. permanent = <<Object(kmalloc_size, ManagerSize),
                    Object(kmalloc_size + ManagerSize, BitmapSize)>>
  BY DEF Init
<1>4. permanent \in Seq(ObjectType)
  BY <1>2, <1>3
<1>5. kmalloc_permanent_ptr \in Nat
  BY <1>1 DEF Init
<1>6. exhausted \in BOOLEAN
  BY Zenon DEF Init
<1> QED
  BY <1>4, <1>5, <1>6 DEF ArenaInv

(* Each step adds an object at most. *)
LEMMA NextArenaInv ==
  ASSUME ArenaInv, [Next]_vars
  PROVE  ArenaInv'
<1>1. ASSUME NEW size \in PermanentSizes, KmallocPermanent(size)
      PROVE  ArenaInv'
  <2>1. size \in Nat /\ kmalloc_permanent_ptr \in Nat
    BY KernelMemoryAssumption DEF ArenaInv
  <2>2. Object(kmalloc_permanent_ptr, size) \in ObjectType
    BY <2>1 DEF Object, ObjectType
  <2>3. /\ permanent' = Append(permanent, Object(kmalloc_permanent_ptr, size))
        /\ kmalloc_permanent_ptr' = kmalloc_permanent_ptr + size
        /\ exhausted' = exhausted
    BY <1>1 DEF KmallocPermanent
  <2>4. permanent' \in Seq(ObjectType)
    BY <2>2, <2>3 DEF ArenaInv
  <2>5. kmalloc_permanent_ptr' \in Nat
    BY <2>1, <2>3
  <2>6. exhausted' \in BOOLEAN
    BY <2>3, Zenon DEF ArenaInv
  <2> QED
    BY <2>4, <2>5, <2>6 DEF ArenaInv
<1>2. ASSUME NEW size \in PermanentSizes, OutOfPermanent(size)
      PROVE  ArenaInv'
  BY <1>2 DEF OutOfPermanent, ArenaInv
<1>3. CASE UNCHANGED arena
  <2>1. /\ kmalloc_permanent_ptr' = kmalloc_permanent_ptr /\ permanent' = permanent
        /\ exhausted' = exhausted
    BY <1>3 DEF arena
  <2> QED
    BY <2>1, Zenon DEF ArenaInv
<1> QED
  BY <1>1, <1>2, <1>3, Zenon DEF Next, Permanent, vars

-----------------------------------------------------------------------------
(* The invariants of the three parts, over the steps of all of them. *)
LEMMA PagesInvariance == Spec => []PmmInv
<1>1. Init => PmmInv
  BY InitPmmInv DEF Init
<1>2. PmmInv /\ [Next]_vars => PmmInv'
  <2>1. [Next]_vars => [PmmNext]_pmm_vars
    BY Zenon DEF Next, vars
  <2> QED
    BY <2>1, NextPmmInv
<1> QED
  BY <1>1, <1>2, PTL DEF Spec

(* The arena's invariant always holds, whatever the list does. *)
LEMMA ArenaInvariance == Spec => []ArenaInv
<1>1. ArenaInv /\ [Next]_vars => ArenaInv'
  BY NextArenaInv
<1> QED
  BY InitArenaInv, <1>1, PTL DEF Spec

(* The list's invariant holds within the steps of all parts. *)
LEMMA HeapInvariance ==
  ASSUME ~FreesTail
  PROVE  Spec => []HeapInv
<1>1. Init => HeapInv
  BY InitHeapInv DEF Init
<1>2. HeapInv /\ [Next]_vars => HeapInv'
  <2>1. [Next]_vars => [ListNext]_list_vars
    BY Zenon DEF Next, vars
  <2> QED
    BY <2>1, HeapListNext
<1> QED
  BY <1>1, <1>2, PTL DEF Spec

-----------------------------------------------------------------------------
(* The list implements Allocator: what HandOut makes of live is a Malloc,  *)
(* as the invariant holds afterwards too.                                  *)
LEMMA HandOutIsMalloc ==
  ASSUME HeapInv, HeapInv', NEW addr \in Nat, NEW size \in Sizes, HandOut(addr, size)
  PROVE  \E h \in 1..MaxLive : Heap!Malloc(h, size)
<1> DEFINE got == [ptr |-> addr + HEADER, size |-> size]
<1>1. PICK i \in 1..MaxLive \ Held : live' = [live EXCEPT ![i] = got]
  BY DEF HandOut
<1>2. /\ live \in [1..MaxLive -> [ptr : Nat, size : Nat]]
      /\ live' \in [1..MaxLive -> [ptr : Nat, size : Nat]]
  BY DEF HeapInv, ListTypeOK
<1>3. live'[i] = got /\ got.ptr = addr + HEADER /\ got.size = size
  BY <1>1, <1>2
<1>4. got.ptr \in Nat /\ got.ptr > 0
  BY DEF HEADER
<1>5. i \in Held' /\ live[i] = Nothing
  BY <1>3, <1>4 DEF Held, Nothing
<1>6. HeldDisjoint'
  BY InvHeldDisjoint, PTL
<1>7. ASSUME NEW g \in (1..MaxLive) \ {i}, live[g] # Nothing
      PROVE  ~Heap!Overlap(live'[i], live[g])
  <2>1. live'[g] = live[g]
    BY <1>1, <1>2
  <2>2. g \in Held'
    BY <1>7, <2>1 DEF Held
  <2>3. \/ live'[i].ptr + live'[i].size <= live'[g].ptr
        \/ live'[g].ptr + live'[g].size <= live'[i].ptr
    BY <1>5, <1>6, <2>2 DEF HeldDisjoint
  <2>4. /\ live'[i].ptr \in Nat /\ live'[i].size \in Nat
        /\ live'[g].ptr \in Nat /\ live'[g].size \in Nat
    BY <1>2
  <2> QED
    BY <2>1, <2>3, <2>4 DEF Heap!Overlap
<1>8. live' = [live EXCEPT ![i] = [ptr |-> live'[i].ptr, size |-> size]]
  BY <1>1, <1>3
<1> QED
  BY <1>3, <1>4, <1>5, <1>7, <1>8 DEF Heap!Malloc, Heap!Nothing, Nothing

(* A step of the list is a Malloc or a Free of the heap, or nothing to it. *)
LEMMA ListStepRefines ==
  ASSUME HeapInv, HeapInv', ListNext
  PROVE  [Heap!Next]_live
<1>1. ASSUME NEW size \in Sizes, AllocFirst(size)
      PROVE  \E h \in 1..MaxLive : Heap!Malloc(h, size)
  BY <1>1, HandOutIsMalloc DEF AllocFirst, LIST_HEADER
<1>2. ASSUME NEW size \in Sizes, AllocExtend(size)
      PROVE  \E h \in 1..MaxLive : Heap!Malloc(h, size)
  <2>1. tail \in 1..Len(blocks)
    BY <1>2, BlockFacts DEF AllocExtend, HeapInv
  <2>2. blocks[tail].addr + blocks[tail].size \in Nat
    BY <2>1, BlockFacts
  <2> QED
    BY <1>2, <2>2, HandOutIsMalloc DEF AllocExtend
<1>3. ASSUME NEW size \in Sizes, AllocSplit(size)
      PROVE  \E h \in 1..MaxLive : Heap!Malloc(h, size)
  <2>1. FindBlock(size) \in 1..Len(blocks)
    <3>1. size \in Nat /\ blocks \in Seq(BlockType) /\ FindBlock(size) # 0
      BY <1>3, SizeFacts DEF HeapInv, AllocSplit
    <3>2. FindBlock(size) \in Fits(size)
      BY <3>1, FindBlockIsBest, Zenon DEF IsBest
    <3> QED
      BY <3>2 DEF Fits
  <2>2. blocks[FindBlock(size)].addr \in Nat
    BY <2>1, BlockFacts
  <2> QED
    BY <1>3, <2>2, HandOutIsMalloc DEF AllocSplit
<1>4. ASSUME NEW i \in 1..MaxLive, Free(i)
      PROVE  Heap!Free(i)
  BY <1>4 DEF Free, Held, Heap!Free, Heap!Nothing, Nothing
<1>5. ASSUME NEW size \in Sizes, Smash(size)
      PROVE  live' = live
  BY <1>5, Zenon DEF Smash
<1>6. ASSUME NEW i \in 1..MaxLive, Overwrite(i)
      PROVE  live' = live
  BY <1>6, Zenon DEF Overwrite
<1>7. Heap!Next \/ live' = live
  BY <1>1, <1>2, <1>3, <1>4, <1>5, <1>6, Zenon DEF ListNext, Heap!Next
<1> QED
  BY <1>7, Zenon

-----------------------------------------------------------------------------
(***************************************************************************)
(* The counters of the page manager (physmem.cpp) agree with its bitmap    *)
(* for as long as no page is allocated twice, and m_used_pages is too high *)
(* from then on.                                                           *)
(***************************************************************************)
THEOREM CountersAgree == Spec => []CountersMatchBitmap
<1>1. PmmInv => CountersMatchBitmap
  BY DEF PmmInv
<1> QED
  BY PagesInvariance, <1>1, PTL

(***************************************************************************)
(* The loops of find_first_free_bit and find_16k_aligned_bit (physmem.cpp) *)
(* return the lowest page that is free and aligned, although they look at  *)
(* m_free_pages pages only.                                                *)
(***************************************************************************)
THEOREM SearchesFindLowest == Spec => []LowestPageFound
<1> QED
  BY PagesInvariance, InvLowestPageFound, PTL

(***************************************************************************)
(* find_first_free_bit does not fail while the words that it looks at hold *)
(* more bits than pages were allocated.                                    *)
(***************************************************************************)
THEOREM SearchesSucceed == Spec => []SearchSucceeds
<1> QED
  BY PagesInvariance, InvSearchSucceeds, PTL

(* The lists, the bitmap, the arena and the flags are of their types.      *)
THEOREM TypeCorrectness ==
  ASSUME ~FreesTail
  PROVE  Spec => []TypeOK
<1>1. HeapInv /\ PmmInv /\ ArenaInv => TypeOK
  <2> SUFFICES ASSUME HeapInv, PmmInv, ArenaInv PROVE TypeOK
    OBVIOUS
  <2>1. ListTypeOK /\ PmmTypeOK /\ exhausted \in BOOLEAN
    BY Zenon DEF HeapInv, PmmInv, ArenaInv
  <2>2. kmalloc_permanent_ptr \in Nat
    BY DEF ArenaInv
  <2>3. \A i \in 1..Len(permanent) : permanent[i] \in [ptr : Nat, size : Nat]
    <3>1. \A i \in 1..Len(permanent) : permanent[i] \in ObjectType
      BY DEF ArenaInv
    <3> QED
      BY <3>1 DEF ObjectType
  <2> QED
    BY <2>1, <2>2, <2>3, Zenon DEF TypeOK
<1> QED
  BY HeapInvariance, PagesInvariance, ArenaInvariance, <1>1, PTL

(***************************************************************************)
(* The blocks of the heap tile it (blocklist.cpp), and the tail pointer is *)
(* right: AllocSplit does not move it when it splits the tail block, but   *)
(* a block that is in use is not split.                                    *)
(***************************************************************************)
THEOREM BlocksTile ==
  ASSUME ~FreesTail
  PROVE  Spec => []Tiling
<1>1. HeapInv => Tiling
  BY DEF HeapInv
<1> QED
  BY HeapInvariance, <1>1, PTL

(* The blocks in use are those that clients hold. *)
THEOREM UsedIsHeld ==
  ASSUME ~FreesTail
  PROVE  Spec => []BlocksMatchHolders
<1> QED
  BY HeapInvariance, InvBlocksMatchHolders, PTL

(* kmalloc never hands out memory that somebody holds (heap.h:18).         *)
THEOREM NothingHeldTwice ==
  ASSUME ~FreesTail
  PROVE  Spec => []HeldDisjoint
<1> QED
  BY HeapInvariance, InvHeldDisjoint, PTL

(***************************************************************************)
(* kmalloc and kfree are a heap (Allocator): every step of the kernel's    *)
(* memory is a Malloc, a Free or nothing to those who hold memory.         *)
(***************************************************************************)
THEOREM ListIsAllocator ==
  ASSUME ~FreesTail
  PROVE  Spec => ImplementsAllocator
<1>1. Init => Heap!Init
  BY DEF Init, ListInit, Heap!Init, Heap!Nothing, Nothing
<1>2. HeapInv /\ HeapInv' /\ [Next]_vars => [Heap!Next]_live
  <2> SUFFICES ASSUME HeapInv, HeapInv', [Next]_vars PROVE [Heap!Next]_live
    OBVIOUS
  <2>1. CASE ListNext
    BY <2>1, ListStepRefines
  <2>2. CASE UNCHANGED list_vars
    BY <2>2 DEF list_vars
  <2> QED
    BY <2>1, <2>2, Zenon DEF Next, vars
<1> QED
  BY HeapInvariance, <1>1, <1>2, PTL DEF Spec, ImplementsAllocator, Heap!Spec

(* kfree finds the block of every pointer that kmalloc handed out          *)
(* (blocklist.cpp:36).                                                     *)
THEOREM FreeAlwaysFinds ==
  ASSUME ~FreesTail
  PROVE  Spec => []FreeFindsBlock
<1>1. HeapInv => FreeFindsBlock
  BY DEF HeapInv
<1> QED
  BY HeapInvariance, <1>1, PTL

(* A client that writes all of its memory destroys at most the header of   *)
(* the block behind its own (blocklist.cpp:95, 118).                       *)
THEOREM WritesReachNextHeader ==
  ASSUME ~FreesTail
  PROVE  Spec => []WritesHitNextHeader
<1> QED
  BY HeapInvariance, InvWritesHitNextHeader, PTL

(* Headers overlap in the ways that Smashes lists or not at all, and with  *)
(* blocks and a size that are multiples of a header they do not.           *)
THEOREM HeadersStayApart ==
  ASSUME ~FreesTail
  PROVE  Spec => []HeadersApart
<1> QED
  BY HeapInvariance, InvHeadersApart, PTL
=============================================================================
