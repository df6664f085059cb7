------------------------------ MODULE Allocator -----------------------------
(***************************************************************************)
(* What a heap promises to its clients: memory of the size asked for that  *)
(* overlaps nothing that is held, and that stays where it is until it is   *)
(* given back.                                                             *)
(*                                                                         *)
(* This is the abstract specification of heap_list_alloc and               *)
(* heap_list_free: no blocks, no headers, no order.  HeapList shows when   *)
(* the list of blocks implements it.                                       *)
(***************************************************************************)
EXTENDS Naturals

CONSTANTS
  Sizes,    \* the sizes that clients ask for
  Holders   \* who can hold memory, one allocation each

VARIABLE
  held      \* held[h]: what h holds, or Nothing

Nothing == [ptr |-> 0, size |-> 0]

Overlap(a, b) == a.ptr < b.ptr + b.size /\ b.ptr < a.ptr + a.size

Init == held = [h \in Holders |-> Nothing]

(* Any memory will do that is apart from what the others hold.  There is   *)
(* no end to it, so the choice is left to the next state.                  *)
Malloc(h, size) ==
  /\ held[h] = Nothing
  /\ held'[h].ptr \in Nat /\ held'[h].size = size
  /\ held' = [held EXCEPT ![h] = [ptr |-> held'[h].ptr, size |-> size]]
  /\ \A g \in Holders \ {h} : held[g] # Nothing => ~Overlap(held'[h], held[g])

Free(h) ==
  /\ held[h] # Nothing
  /\ held' = [held EXCEPT ![h] = Nothing]

Next == \E h \in Holders : Free(h) \/ \E size \in Sizes : Malloc(h, size)

Spec == Init /\ [][Next]_held
=============================================================================
