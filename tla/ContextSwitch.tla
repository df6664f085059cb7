--------------------------- MODULE ContextSwitch ---------------------------
(***************************************************************************)
(* The interrupt path of the kernel, from the exception vector to the      *)
(* resumed process: irq_trampoline (exception.s), handle_irq (cpu.cpp),    *)
(* GIC::interrupt_id and GIC::eoi (gic.cpp), Timer::handle_irq (timer.cpp) *)
(* and Scheduler::task_switch (scheduler.cpp).                             *)
(*                                                                         *)
(* Every flow of control is kernel code on the stack of some process.  The *)
(* trampoline pushes a register dump on the stack of whatever it           *)
(* interrupted, the timer handler exchanges that dump for the saved        *)
(* registers of the next process, and the trampoline's last instruction    *)
(* loads whatever the dump then holds.  task_switch's InterruptDisabler    *)
(* unmasks interrupts when it goes out of scope, so from the EOI to that   *)
(* last instruction the trampoline itself can be interrupted.              *)
(*                                                                         *)
(* The registers of a flow are abstracted to where it is: which stack, at  *)
(* which trampoline level, and how far the process code has come.          *)
(***************************************************************************)
EXTENDS Naturals

CONSTANTS
  Proc,       \* the processes in g_proc_list
  Proc0,      \* s_proc0, the kernel process: the flow that booted becomes it
  Ring,       \* Ring[p]: p->next() in the closed list
  Timers,     \* IRQ numbers handled by Timer::handle_irq
  Others,     \* IRQ numbers whose handler does not switch (the keyboard)
  Quick,      \* devices that may assert their line while the interrupt path
              \* is still serving a previous interrupt
  MaxLevel,   \* bound: register dumps that fit on one process stack
  WorkCycle,  \* bound: process progress is counted modulo WorkCycle
  NULL        \* nullptr

(* The ring is closed, nullptr is no process, and the handler table gives  *)
(* each IRQ number one handler.                                            *)
ASSUME SwitchAssumption ==
  /\ Proc0 \in Proc
  /\ NULL \notin Proc
  /\ Ring \in [Proc -> Proc]
  /\ Timers \subseteq Nat
  /\ Others \subseteq Nat
  /\ Timers \cap Others = {}
  /\ Quick \subseteq Timers \cup Others
  /\ 1023 \notin Timers \cup Others
  /\ MaxLevel \in Nat /\ MaxLevel >= 2
  /\ WorkCycle \in Nat \ {0}

Devices == Timers \cup Others

(* GICC_IAR & 0x3ff when nothing is pending: no interrupt is active. *)
NoIrq == 1023

VARIABLES
  current_proc,  \* the scheduler's current process, nullptr before a tick
  registers,     \* registers[p]: p->m_registers, the context p is parked in
  frames,        \* frames[p][k]: the k-th register dump on p's stack
  cpu,           \* the context the processor is executing
  phase,         \* how far handle_irq is in serving an interrupt
  imask,         \* CPSR.I: interrupts are masked
  line,          \* devices whose (level-sensitive) interrupt line is asserted
  active         \* the interrupt acknowledged and not yet ended, or NoIrq

vars == <<current_proc, registers, frames, cpu, phase, imask, line, active>>

(***************************************************************************)
(* A context: code on the stack of process stk.  At level 0 it is process  *)
(* code, with progress pc; at level k > 0 it is the end of the trampoline  *)
(* that will load the k-th dump of that stack.  Garbage is a dump or a     *)
(* register save area that holds no context.                               *)
(***************************************************************************)
Context == [stk : Proc \cup {NULL}, lvl : 0..MaxLevel, pc : 0..(WorkCycle - 1)]
ProcessCode(p, n) == [stk |-> p, lvl |-> 0, pc |-> n]
TrampolineEnd(p, k) == [stk |-> p, lvl |-> k, pc |-> 0]
Garbage == ProcessCode(NULL, 0)

(* task_switch takes s_proc0 for the current process on the first tick. *)
Cur == IF current_proc = NULL THEN Proc0 ELSE current_proc

(* The dump irq_trampoline pushed, handed to handle_irq by reference. *)
Dump == frames[cpu.stk][cpu.lvl]

(***************************************************************************)
(* After Scheduler::initialise: no current process, the boot flow runs on  *)
(* what will be Proc0's behalf, and every other process is as its          *)
(* constructor left it, with lr at the entry point and sp at the top of    *)
(* its own stack.  Proc0 was given a null entry point.                     *)
(***************************************************************************)
Init ==
  /\ current_proc = NULL
  /\ registers = [p \in Proc |-> IF p = Proc0 THEN Garbage ELSE ProcessCode(p, 0)]
  /\ frames = [p \in Proc |-> [k \in 1..MaxLevel |-> Garbage]]
  /\ cpu = ProcessCode(Proc0, 0)
  /\ phase = "run"
  /\ imask = FALSE
  /\ line = {}
  /\ active = NoIrq

(***************************************************************************)
(* Process code runs.  It may use its stack, and overwrites what lies      *)
(* below its stack pointer when it does.                                   *)
(***************************************************************************)
Work ==
  /\ phase = "run"
  /\ cpu.lvl = 0
  /\ cpu.stk \in Proc
  /\ cpu' = [cpu EXCEPT !.pc = (@ + 1) % WorkCycle]
  /\ \E pushes \in BOOLEAN :
       frames' = IF pushes
                 THEN [frames EXCEPT ![cpu.stk] = [k \in 1..MaxLevel |-> Garbage]]
                 ELSE frames
  /\ UNCHANGED <<current_proc, registers, phase, imask, line, active>>

(***************************************************************************)
(* Hardware: a device asserts its line.  Unless it is Quick it does not do *)
(* so again before the processor is back in process code.                  *)
(***************************************************************************)
Raise(d) ==
  /\ d \in Devices \ line
  /\ d \in Quick \/ (phase = "run" /\ cpu.lvl = 0)
  /\ line' = line \cup {d}
  /\ UNCHANGED <<current_proc, registers, frames, cpu, phase, imask, active>>

(***************************************************************************)
(* irq_trampoline up to the call of handle_irq.  The GIC signals the       *)
(* processor while a line is asserted and nothing is active: every         *)
(* interrupt has priority 0x80, so none preempts an active one.            *)
(***************************************************************************)
IrqEntry ==
  /\ phase = "run"
  /\ cpu.stk \in Proc
  /\ ~imask
  /\ line # {} /\ active = NoIrq
  /\ cpu.lvl < MaxLevel
  /\ frames' = [frames EXCEPT ![cpu.stk][cpu.lvl + 1] = cpu]
  /\ cpu' = TrampolineEnd(cpu.stk, cpu.lvl + 1)
  /\ imask' = TRUE
  /\ phase' = "entered"
  /\ UNCHANGED <<current_proc, registers, line, active>>

(* GIC::interrupt_id: of equal priorities the lowest number is taken. *)
Acknowledge(d) ==
  /\ phase = "entered"
  /\ d \in line
  /\ \A e \in line : d <= e
  /\ active' = d
  /\ phase' = "handling"
  /\ UNCHANGED <<current_proc, registers, frames, cpu, imask, line>>

(* For checking the properties: the next process's registers are loaded    *)
(* without the interrupted ones having been saved.                         *)
TaskSwitch_Unsaved ==
  /\ current_proc' = Ring[Cur]
  /\ frames' = [frames EXCEPT ![cpu.stk][cpu.lvl] = registers[Ring[Cur]]]
  /\ imask' = FALSE
  /\ UNCHANGED registers

(* As above: current_proc is never advanced. *)
TaskSwitch_Stuck ==
  /\ current_proc' = Cur
  /\ registers' = [registers EXCEPT ![Cur] = Dump]
  /\ imask' = FALSE
  /\ UNCHANGED frames

(* As above: the registers are saved under the process switched to. *)
TaskSwitch_LateSave ==
  /\ current_proc' = Ring[Cur]
  /\ frames' = [frames EXCEPT ![cpu.stk][cpu.lvl] = registers[Ring[Cur]]]
  /\ registers' = [registers EXCEPT ![Ring[Cur]] = Dump]
  /\ imask' = FALSE

(* As above: nothing is loaded into the dump. *)
TaskSwitch_Unloaded ==
  /\ current_proc' = Ring[Cur]
  /\ registers' = [registers EXCEPT ![Cur] = Dump]
  /\ imask' = FALSE
  /\ UNCHANGED frames

(* As above: a null current process is not replaced by s_proc0, and what   *)
(* is read through the null pointer is no register dump.                   *)
TaskSwitch_Null ==
  /\ current_proc' = IF current_proc = NULL THEN NULL ELSE Ring[current_proc]
  /\ frames' = [frames EXCEPT ![cpu.stk][cpu.lvl] =
                  IF current_proc = NULL THEN NULL ELSE registers[Ring[Cur]]]
  /\ registers' = [registers EXCEPT ![Cur] = Dump]
  /\ imask' = FALSE

(***************************************************************************)
(* Scheduler::task_switch: the interrupted registers go to the current     *)
(* process, the next process becomes current and its registers replace the *)
(* dump.  Leaving the scope of the InterruptDisabler clears CPSR.I.        *)
(***************************************************************************)
TaskSwitch ==
  LET saved == [registers EXCEPT ![Cur] = Dump]
  IN  /\ registers' = saved
      /\ current_proc' = Ring[Cur]
      /\ frames' = [frames EXCEPT ![cpu.stk][cpu.lvl] = saved[Ring[Cur]]]
      /\ imask' = FALSE

(* Timer::handle_irq: clear the timer's interrupt, then switch. *)
HandleTimer ==
  /\ phase = "handling"
  /\ active \in Timers
  /\ line' = line \ {active}
  /\ TaskSwitch
  /\ phase' = "handled"
  /\ UNCHANGED <<cpu, active>>

(* As above: the other handler unmasks interrupts before it returns. *)
HandleOther_Unmasking ==
  /\ phase = "handling"
  /\ active \in Others
  /\ line' = line \ {active}
  /\ imask' = FALSE
  /\ phase' = "handled"
  /\ UNCHANGED <<current_proc, registers, frames, cpu, active>>

(* As above: the other handler does not take the byte, its line stays up. *)
HandleOther_Ignoring ==
  /\ phase = "handling"
  /\ active \in Others
  /\ phase' = "handled"
  /\ UNCHANGED <<current_proc, registers, frames, cpu, imask, line, active>>

(* Any other handler takes what its device holds, which drops the line. *)
HandleOther ==
  /\ phase = "handling"
  /\ active \in Others
  /\ line' = line \ {active}
  /\ phase' = "handled"
  /\ UNCHANGED <<current_proc, registers, frames, cpu, imask, active>>

(* GIC::eoi, after which handle_irq returns into the trampoline. *)
EndOfInterrupt ==
  /\ phase = "handled"
  /\ active' = NoIrq
  /\ phase' = "run"
  /\ UNCHANGED <<current_proc, registers, frames, cpu, imask, line>>

(***************************************************************************)
(* The end of the trampoline, ldmfd sp, {r0-r12, sp, pc}^: the registers   *)
(* become what the dump holds, and CPSR becomes SPSR_svc, which no         *)
(* interrupt writes and in which boot leaves interrupts unmasked.          *)
(***************************************************************************)
TrampolineReturn ==
  /\ phase = "run"
  /\ cpu.lvl > 0
  /\ cpu' = Dump
  /\ imask' = FALSE
  /\ UNCHANGED <<current_proc, registers, frames, phase, line, active>>

Next ==
  \/ Work
  \/ \E d \in Devices : Raise(d)
  \/ IrqEntry
  \/ \E d \in Devices : Acknowledge(d)
  \/ HandleTimer
  \/ HandleOther
  \/ EndOfInterrupt
  \/ TrampolineReturn

Spec == Init /\ [][Next]_vars

(***************************************************************************)
(* The processor keeps executing, and a timer in periodic mode runs down   *)
(* again and again whatever the processor does.  Devices are slow next to  *)
(* the few instructions that an unmasked interrupt waits and that the end  *)
(* of the trampoline takes: a line with a lower priority is not overtaken  *)
(* by the timer every time, and the outermost trampoline is not            *)
(* interrupted again and again for ever.                                   *)
(***************************************************************************)
Fairness ==
  /\ WF_vars(IrqEntry)
  /\ SF_vars(line \cap Timers = {} /\ IrqEntry)
  /\ \A d \in Devices : WF_vars(Acknowledge(d))
  /\ WF_vars(HandleTimer)
  /\ WF_vars(HandleOther)
  /\ WF_vars(EndOfInterrupt)
  /\ WF_vars(TrampolineReturn)
  /\ SF_vars(cpu.lvl = 1 /\ TrampolineReturn)
  /\ \A t \in Timers : SF_vars(Raise(t))

LiveSpec == Spec /\ Fairness

-----------------------------------------------------------------------------
TypeOK ==
  /\ current_proc \in Proc \cup {NULL}
  /\ registers \in [Proc -> Context]
  /\ frames \in [Proc -> [1..MaxLevel -> Context]]
  /\ cpu \in Context
  /\ phase \in {"run", "entered", "handling", "handled"}
  /\ imask \in BOOLEAN
  /\ line \in SUBSET Devices
  /\ active \in Devices \cup {NoIrq}

(***************************************************************************)
(* "When we unwind from two calls (irq_handler->task_switch), it'll        *)
(* automatically resume current_proc's state" (scheduler.cpp:52-56): what  *)
(* the end of the trampoline is about to load is process code of the       *)
(* current process, or the end of the trampoline that this interrupt       *)
(* interrupted.                                                            *)
(***************************************************************************)
ResumesCurrent ==
  phase = "run" /\ cpu.lvl > 0 =>
    \/ Dump.stk = Cur /\ Dump.lvl = 0
    \/ Dump = TrampolineEnd(cpu.stk, cpu.lvl - 1) /\ cpu.lvl > 1

(***************************************************************************)
(* The context a process is parked in is its own code on its own stack:    *)
(* no process is ever parked in the middle of the interrupt path of        *)
(* another, on a stack its owner goes on using.                            *)
(***************************************************************************)
ParkedOnOwnStack ==
  \A p \in Proc \ {Cur} : registers[p].stk = p /\ registers[p].lvl = 0

(***************************************************************************)
(* At most one interrupt is taken inside the interrupt path, so two dumps  *)
(* are all that a process stack must have room for.                        *)
(***************************************************************************)
NestingBounded == cpu.lvl <= 2

(***************************************************************************)
(* The interrupt path implements RoundRobin: the process that has the      *)
(* processor is the one whose code the processor is in, or whose code the  *)
(* outermost dump will resume, and its progress is in that context; the    *)
(* progress of a parked process is in its saved registers.                 *)
(***************************************************************************)
Live == IF cpu.lvl = 0 THEN cpu ELSE frames[cpu.stk][1]

Multitasking == INSTANCE RoundRobin WITH
  running  <- Live.stk,
  progress <- [p \in Proc |-> IF p = Live.stk THEN Live.pc ELSE registers[p].pc]

ImplementsRoundRobin == Multitasking!Spec

(* No process is starved: each gets to run its own code again and again. *)
EveryProcessRuns ==
  \A p \in Proc : []<>(phase = "run" /\ cpu.lvl = 0 /\ cpu.stk = p)

(* A key press is served: no device's line stays asserted for ever.        *)
EveryLineServed == \A d \in Devices : d \in line ~> d \notin line
=============================================================================
