----------------------------- MODULE MCHeapList -----------------------------
(* Instances of HeapList for TLC.  The sizes differ by a header at least,  *)
(* so that every rest of a split has room for its own.                     *)
EXTENDS HeapList

Requests == {3, 6, 9}
=============================================================================
