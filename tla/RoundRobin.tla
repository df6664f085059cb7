----------------------------- MODULE RoundRobin -----------------------------
(***************************************************************************)
(* What preemptive multitasking promises to the flows it multiplexes: one  *)
(* process at a time has the processor, the processor passes from a        *)
(* process to its successor in the ring, and a process that gets it back   *)
(* goes on exactly where it left off.                                      *)
(*                                                                         *)
(* This is the abstract specification of Scheduler::task_switch together   *)
(* with irq_trampoline; ContextSwitch shows how the kernel implements it.  *)
(***************************************************************************)
EXTENDS Naturals

CONSTANTS
  Proc,       \* the processes
  Proc0,      \* the one that has the processor first
  Ring,       \* Ring[p] is the process after p
  WorkCycle   \* progress of a process is counted modulo WorkCycle

VARIABLES
  running,    \* the process that has the processor
  progress    \* progress[p]: how far the code of p has come

vars == <<running, progress>>

Init ==
  /\ running = Proc0
  /\ progress = [p \in Proc |-> 0]

(* The running process executes a little more of its code. *)
Work ==
  /\ progress' = [progress EXCEPT ![running] = (@ + 1) % WorkCycle]
  /\ UNCHANGED running

(* The processor passes to the next process; nobody's progress changes. *)
Switch ==
  /\ running' = Ring[running]
  /\ UNCHANGED progress

Next == Work \/ Switch

Spec == Init /\ [][Next]_vars
=============================================================================
