--------------------------- MODULE MCKernelMemory ---------------------------
(***************************************************************************)
(* An instance of KernelMemory for TLC.  Some of the sizes are smaller     *)
(* than a header, and some leave a rest that is.  One of the permanent     *)
(* sizes is too large for the arena.  Regions of one page and a half and   *)
(* of two pages may run past the end of the RAM, be allocated twice, and   *)
(* take up more pages than there are.                                      *)
(***************************************************************************)
EXTENDS KernelMemory

Requests == {2, 3, 5, 6}
Regions == {3, 4}
ObjectSizes == {4, 29}
=============================================================================
