----------------------------- MODULE MCConsole -----------------------------
(***************************************************************************)
(* An instance of Console for TLC: two processes and a handler, words of   *)
(* eight bits, and every conversion of kprintf.                            *)
(***************************************************************************)
EXTENDS Console

Item(kind, arg) == [kind |-> kind, arg |-> arg]

Line == <<Item("s", <<104>>), Item("text", <<NEWLINE>>)>>  \* "%s\n", of "h"
Negative == <<Item("d", <<-12>>)>>                         \* "%d"
Hex == <<Item("x", <<175>>)>>                              \* "%x"
Zeros == <<Item("x", <<10>>), Item("%", << >>)>>           \* "%x%%"
Nothing == <<Item("s", << >>)>>                            \* "%s", of ""
Echo == <<Item("c", <<NEWLINE>>)>>                         \* "%c"

Calls == {Line, Negative, Hex, Zeros, Nothing}
KeyPressed == {Echo}

(***************************************************************************)
(* The digits that kprintf makes are those that a reader expects, for all  *)
(* words and for all integers but the least one.                           *)
(***************************************************************************)
ASSUME NumbersReadBack ==
  /\ \A n \in Ints \ {LeastInt} : Printed(Item("d", <<n>>)) = Meant(Item("d", <<n>>))
  /\ \A n \in Words : Printed(Item("x", <<n>>)) = Meant(Item("x", <<n>>))
=============================================================================
