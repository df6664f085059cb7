----------------------------- MODULE ProcQueue -----------------------------
(***************************************************************************)
(* What the process list promises to the scheduler: the processes form a   *)
(* queue in the order they were spawned, a spawned process joins at its    *)
(* end, and a tick passes the turn to the next one, round and round.       *)
(***************************************************************************)
EXTENDS Naturals, Sequences

CONSTANTS
  Node,     \* the processes that can be spawned
  Kernel    \* the first of them

VARIABLES
  order,    \* the processes spawned so far, in spawning order
  turn      \* the one whose turn it is

vars == <<order, turn>>

Init ==
  /\ order = << >>
  /\ turn = Kernel

Spawned == {order[i] : i \in 1..Len(order)}

(* The boot flow spawns the kernel process, a running process another. *)
Spawn(n) ==
  /\ n \notin Spawned
  /\ order = << >> => n = Kernel
  /\ order' = Append(order, n)
  /\ UNCHANGED turn

Tick ==
  /\ \E i \in 1..Len(order) :
       /\ order[i] = turn
       /\ turn' = order[(i % Len(order)) + 1]
  /\ UNCHANGED order

Next == Tick \/ \E n \in Node : Spawn(n)

Spec == Init /\ [][Next]_vars
=============================================================================
