---------------------------- MODULE KernelMemory ----------------------------
(***************************************************************************)
(* The memory of the kernel: the block list behind kmalloc (HeapList), the *)
(* arena behind it that kmalloc_permanent hands out and never takes back   *)
(* (heap.cpp), and the page bitmap, whose manager and bits live in that    *)
(* arena (PhysMem).  Addresses count words from __KMALLOC_BASE.            *)
(***************************************************************************)
EXTENDS HeapList, PhysMem

CONSTANTS
  kmalloc_size,    \* words in each of the two regions, 2 MiB in the kernel
  ManagerSize,     \* sizeof(PhysicalMemoryManager)
  BitmapSize,      \* of the bitmap, 0x1000 bytes in the kernel
  PermanentSizes,  \* the sizes of permanent objects
  MaxPermanent     \* bound: permanent objects

kmalloc_permanent_size == kmalloc_size

ASSUME KernelMemoryAssumption ==
  /\ kmalloc_size \in Nat
  /\ ManagerSize \in Nat /\ BitmapSize \in Nat
  /\ PermanentSizes \subseteq Nat
  /\ MaxPermanent \in Nat

VARIABLES
  kmalloc_permanent_ptr,
  permanent,  \* the permanent objects, in the order they were handed out
  exhausted   \* kmalloc_permanent has stopped the kernel

arena == <<kmalloc_permanent_ptr, permanent, exhausted>>
vars == <<list_vars, pmm_vars, arena>>

Object(ptr, size) == [ptr |-> ptr, size |-> size]

(***************************************************************************)
(* kmalloc_init, and new PhysicalMemoryManager: the object and its bitmap  *)
(* are the first of the permanent objects.                                 *)
(***************************************************************************)
Init ==
  /\ ListInit
  /\ PmmInit
  /\ permanent = <<Object(kmalloc_size, ManagerSize),
                   Object(kmalloc_size + ManagerSize, BitmapSize)>>
  /\ kmalloc_permanent_ptr = kmalloc_size + ManagerSize + BitmapSize
  /\ exhausted = FALSE

(* The test compares the pointer with itself: it is about the size alone.  *)
TooLarge(size) ==
  kmalloc_permanent_ptr + size > kmalloc_permanent_ptr + kmalloc_permanent_size

(* kmalloc_permanent. *)
KmallocPermanent(size) ==
  /\ ~TooLarge(size)
  /\ Len(permanent) < MaxPermanent
  /\ permanent' = Append(permanent, Object(kmalloc_permanent_ptr, size))
  /\ kmalloc_permanent_ptr' = kmalloc_permanent_ptr + size
  /\ UNCHANGED exhausted

(* ... and where it masks interrupts and spins. *)
OutOfPermanent(size) ==
  /\ TooLarge(size)
  /\ exhausted' = TRUE
  /\ UNCHANGED <<kmalloc_permanent_ptr, permanent>>

Permanent == \E size \in PermanentSizes : KmallocPermanent(size) \/ OutOfPermanent(size)

Next ==
  /\ Running /\ ~exhausted
  /\ \/ ListNext /\ UNCHANGED <<pmm_vars, arena>>
     \/ Permanent /\ UNCHANGED <<list_vars, pmm_vars>>
     \/ PmmNext /\ UNCHANGED <<list_vars, arena>>

Spec == Init /\ [][Next]_vars

-----------------------------------------------------------------------------
TypeOK ==
  /\ ListTypeOK
  /\ PmmTypeOK
  /\ kmalloc_permanent_ptr \in Nat
  /\ \A i \in 1..Len(permanent) : permanent[i] \in [ptr : Nat, size : Nat]
  /\ exhausted \in BOOLEAN
=============================================================================
