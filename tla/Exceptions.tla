----------------------------- MODULE Exceptions -----------------------------
(***************************************************************************)
(* The exception vectors and their trampolines (exception.s), the handlers *)
(* they call (cpu.cpp, syscall.cpp) and the banked registers of the        *)
(* processor, around a program that takes exceptions: kernel code, or the  *)
(* user code that spawn_user_process is meant for.                         *)
(*                                                                         *)
(* Addresses count instructions.  The program is a loop that calls a leaf  *)
(* function, whose return address is in LR and nowhere else.  Of the       *)
(* registers that are not banked one is kept, r4; the others are treated   *)
(* as it is, except that nothing is computed in them.  Stacks are counted  *)
(* in register dumps.  Dispatch and task switches inside handle_irq are    *)
(* the matter of Interrupts and ContextSwitch.                             *)
(***************************************************************************)
EXTENDS Integers

CONSTANTS
  CodeSize,  \* bound: instructions in the loop of the program
  Programs,  \* the modes the program may run in: "svc" (the kernel), "usr"
  LeafIrqs,  \* whether interrupts come while kernel code is in a leaf function
  MaxDumps   \* bound: dumps on one stack

ASSUME ExceptionsAssumption ==
  /\ CodeSize \in Nat \ {0, 1}
  /\ Programs \subseteq {"svc", "usr"}
  /\ LeafIrqs \in BOOLEAN
  /\ MaxDumps \in Nat /\ MaxDumps >= 2

Modes == {"usr", "svc", "irq", "abt", "und"}

(* CPSR, and what an SPSR may hold.  All condition flags together are one; *)
(* "none" stands for mode bits that name no mode, as a reset may leave.    *)
Status == [mode : Modes, imask : BOOLEAN, flags : BOOLEAN]
Saved == [mode : Modes \cup {"none"}, imask : BOOLEAN, flags : BOOLEAN]
Faults == {"undef", "pabt", "dabt"}
Kinds == Faults \cup {"svc", "irq"}

Loop == 0..(CodeSize - 1)
Leaf == CodeSize            \* a leaf function: its body, and bx lr
InCpp == CodeSize + 5       \* what LR holds when a C++ handler has run
Panicking == CodeSize + 10  \* the load in kpanic from the faulting address
Addresses == -2..(Panicking + 2)

VARIABLES
  cpsr,    \* mode, interrupt mask and condition flags
  spsr,    \* spsr[m]: of each mode
  lr,      \* lr[m]
  sp,      \* sp[m]: dumps on the stack of mode m
  r4,      \* the program's own value, or the number of a system call
  pc,
  frames,  \* frames[s][k]: the k-th dump in the memory of stack s
  phase,   \* how far the exception has been handled
  kind,    \* the exception that is being handled, or was last
  before   \* what the program had when it was interrupted

vars == <<cpsr, spsr, lr, sp, r4, pc, frames, phase, kind, before>>

(* start.s: where the stack pointer of each mode is set to.  The undefined *)
(* mode gets the abort mode's stack.                                       *)
StackOf == [m \in Modes |-> IF m = "und" THEN "abt" ELSE m]

(* The word of a dump that holds SPSR is left out: no return loads it.     *)
NoDump == [r4 |-> "own", sp |-> 0, lr |-> 0]

(***************************************************************************)
(* After boot.  No instruction of the kernel writes SPSR_svc.  Kernel code *)
(* runs with what a reset has left in it, which relocate_vector_table has  *)
(* loaded into CPSR once: another mode would not have come this far.  User *)
(* mode is entered by loading CPSR from it.                                *)
(***************************************************************************)
Init ==
  /\ \E m \in Programs, f \in BOOLEAN : cpsr = [mode |-> m, imask |-> FALSE, flags |-> f]
  /\ \E s \in Saved :
       /\ \/ cpsr.mode = "svc" /\ s.mode \in {"svc", "none"}
          \/ cpsr.mode = "usr" /\ s.mode = "usr" /\ ~s.imask
       /\ spsr = [m \in Modes |-> s]
  /\ lr = [m \in Modes |-> 0]
  /\ sp = [m \in Modes |-> 0]
  /\ r4 = "own"
  /\ pc = 0
  /\ frames = [s \in Modes |-> [k \in 1..MaxDumps |-> NoDump]]
  /\ phase = "code"
  /\ kind = "irq"
  /\ before = [cpsr |-> cpsr, lr |-> 0, sp |-> sp, r4 |-> r4, pc |-> 0]

InLeaf == pc \in {Leaf, Leaf + 1}

(* Code that runs may leave any condition flags. *)
SetsFlags == \E f \in BOOLEAN : cpsr' = [cpsr EXCEPT !.flags = f]

(* The program executes an instruction, which may set the flags. *)
Execute ==
  /\ phase = "code"
  /\ \/ pc \in Loop /\ pc' = (pc + 1) % CodeSize
     \/ pc = Leaf /\ pc' = Leaf + 1
     \/ pc = Leaf + 1 /\ pc' = lr[cpsr.mode]
  /\ r4' = "own"
  /\ SetsFlags
  /\ UNCHANGED <<spsr, lr, sp, frames, phase, kind, before>>

(* bl, to the leaf function. *)
Call ==
  /\ phase = "code"
  /\ pc \in Loop
  /\ lr' = [lr EXCEPT ![cpsr.mode] = (pc + 1) % CodeSize]
  /\ pc' = Leaf
  /\ UNCHANGED <<cpsr, spsr, sp, r4, frames, phase, kind, before>>

(* cli and sti, which kernel code may use. *)
Mask ==
  /\ phase = "code"
  /\ cpsr.mode = "svc"
  /\ cpsr' = [cpsr EXCEPT !.imask = ~@]
  /\ UNCHANGED <<spsr, lr, sp, r4, pc, frames, phase, kind, before>>

-----------------------------------------------------------------------------
(* The architecture: which mode takes an exception, and by how much LR is  *)
(* ahead of the instruction that caused it, or that an interrupt kept from *)
(* being executed.                                                         *)
Taking == [undef |-> "und", svc |-> "svc", pabt |-> "abt", dabt |-> "abt", irq |-> "irq"]
Ahead == [undef |-> 1, svc |-> 1, pabt |-> 1, dabt |-> 2, irq |-> 1]

Vector(k) ==
  LET m == Taking[k]
  IN  /\ lr' = [lr EXCEPT ![m] = pc + Ahead[k]]
      /\ spsr' = [spsr EXCEPT ![m] = cpsr]
      /\ cpsr' = [cpsr EXCEPT !.mode = m, !.imask = TRUE]
      /\ kind' = k
      /\ phase' = "vector"
      /\ UNCHANGED <<sp, r4, pc, frames>>

(***************************************************************************)
(* The program is interrupted.  The last instructions of the loop and of   *)
(* the leaf function cause no exception.  The syscall macro is for user    *)
(* code: svc in kernel mode would overwrite the caller's LR in hardware.   *)
(***************************************************************************)
Take(k) ==
  /\ phase = "code"
  /\ \/ k = "irq" /\ ~cpsr.imask
     \/ k # "irq" /\ pc \notin {CodeSize - 1, Leaf + 1}
  /\ k = "svc" => cpsr.mode = "usr"
  /\ k = "irq" /\ cpsr.mode = "svc" /\ InLeaf => LeafIrqs
  /\ before' = [cpsr |-> cpsr, lr |-> lr[cpsr.mode], sp |-> sp, r4 |-> r4, pc |-> pc]
  /\ Vector(k)

(* kpanic loads from the address at fault, and that load may abort. *)
AbortInPanic ==
  /\ phase = "panic"
  /\ sp["abt"] < MaxDumps
  /\ pc' = pc
  /\ Vector("dabt")
  /\ UNCHANGED before

-----------------------------------------------------------------------------
(***************************************************************************)
(* What every trampoline does with what it has made of CPSR, LR and r4: a  *)
(* dump on the stack of its mode, then bl to the handler.                  *)
(***************************************************************************)
Save(status, link, reg) ==
  LET m == status.mode
  IN  /\ phase = "vector"
      /\ cpsr' = status
      /\ frames' = [frames EXCEPT ![StackOf[m]][sp[m] + 1] =
                      [r4 |-> reg, sp |-> sp[m], lr |-> link]]
      /\ sp' = [sp EXCEPT ![m] = @ + 1]
      /\ lr' = [lr EXCEPT ![m] = InCpp]
      /\ r4' = reg
      /\ phase' = "handler"
      /\ UNCHANGED <<spsr, pc, kind, before>>

illegal_instruction_trampoline ==
  /\ kind = "undef"
  /\ Save(cpsr, lr["und"], r4)

(* LR is not adjusted. *)
prefetch_abort_trampoline ==
  /\ kind = "pabt"
  /\ Save(cpsr, lr["abt"], r4)

(* For checking the properties: LR is not adjusted here either. *)
data_abort_trampoline_Unadjusted ==
  /\ kind = "dabt"
  /\ Save(cpsr, lr["abt"], r4)

data_abort_trampoline ==
  /\ kind = "dabt"
  /\ Save(cpsr, lr["abt"] - 2, r4)

(* msr cpsr, #0xD3: the trampoline goes on in SVC mode with no flag set.   *)
irq_trampoline ==
  /\ kind = "irq"
  /\ Save([mode |-> "svc", imask |-> TRUE, flags |-> FALSE], lr["irq"] - 1, r4)

(* The number of the system call is loaded into r4 before r4 is saved. *)
svc_trap ==
  /\ kind = "svc"
  /\ Save(cpsr, lr["svc"], "number")

(* As above: the mode is taken from CPSR. *)
crash_handler_ReadsCpsr ==
  /\ phase = "handler"
  /\ kind \in Faults
  /\ phase' = IF cpsr.mode = "svc" THEN "panic" ELSE "return"
  /\ pc' = IF phase' = "panic" THEN Panicking ELSE pc
  /\ SetsFlags
  /\ UNCHANGED <<spsr, lr, sp, r4, frames, kind, before>>

(* As above: whoever crashed, the kernel panics. *)
crash_handler_Panics ==
  /\ phase = "handler"
  /\ kind \in Faults
  /\ phase' = "panic"
  /\ pc' = Panicking
  /\ SetsFlags
  /\ UNCHANGED <<spsr, lr, sp, r4, frames, kind, before>>

(***************************************************************************)
(* illegal_instruction_handler, prefetch_abort_handler, data_abort_handler *)
(* and kpanic: StatusRegister reads SPSR of the mode the handler runs in,  *)
(* and a crash of the kernel does not return.                              *)
(***************************************************************************)
crash_handler ==
  /\ phase = "handler"
  /\ kind \in Faults
  /\ phase' = IF spsr[cpsr.mode].mode = "svc" THEN "panic" ELSE "return"
  /\ pc' = IF phase' = "panic" THEN Panicking ELSE pc
  /\ SetsFlags
  /\ UNCHANGED <<spsr, lr, sp, r4, frames, kind, before>>

(* syscall_handler and handle_irq return. *)
other_handler ==
  /\ phase = "handler"
  /\ kind \notin Faults
  /\ phase' = "return"
  /\ SetsFlags
  /\ UNCHANGED <<spsr, lr, sp, r4, pc, frames, kind, before>>

(* What a return makes of an SPSR: mode bits that name no mode are ignored. *)
Restored(s) == [s EXCEPT !.mode = IF @ = "none" THEN cpsr.mode ELSE @]

(* As above: the stack pointer stays below the dump. *)
Return_KeepsSp ==
  LET m == cpsr.mode
      dump == frames[StackOf[m]][sp[m]]
  IN  /\ phase = "return"
      /\ r4' = dump.r4
      /\ pc' = dump.lr
      /\ cpsr' = Restored(spsr[m])
      /\ phase' = IF pc' = Panicking THEN "panic" ELSE "code"
      /\ UNCHANGED <<spsr, lr, sp, frames, kind, before>>

(***************************************************************************)
(* add sp, sp, #4 and ldmfd sp, {r0-r12, sp, pc}^: the registers come from *)
(* the dump, CPSR from SPSR of the mode the trampoline runs in.            *)
(***************************************************************************)
Return ==
  LET m == cpsr.mode
      dump == frames[StackOf[m]][sp[m]]
  IN  /\ phase = "return"
      /\ r4' = dump.r4
      /\ sp' = [sp EXCEPT ![m] = dump.sp]
      /\ pc' = dump.lr
      /\ cpsr' = Restored(spsr[m])
      /\ phase' = IF pc' = Panicking THEN "panic" ELSE "code"
      /\ UNCHANGED <<spsr, lr, frames, kind, before>>

(* kpanic gets past the load: cli, and the kernel is halted. *)
Halt ==
  /\ phase = "panic"
  /\ cpsr' = [cpsr EXCEPT !.imask = TRUE]
  /\ phase' = "halted"
  /\ UNCHANGED <<spsr, lr, sp, r4, pc, frames, kind, before>>

Trampoline ==
  \/ illegal_instruction_trampoline \/ prefetch_abort_trampoline
  \/ data_abort_trampoline \/ irq_trampoline \/ svc_trap

Handle == Trampoline \/ crash_handler \/ other_handler \/ Return

Next ==
  \/ Execute \/ Call \/ Mask
  \/ \E k \in Kinds : Take(k)
  \/ AbortInPanic
  \/ Handle
  \/ Halt

Spec == Init /\ [][Next]_vars

(* The processor goes on executing the trampolines and handlers. *)
LiveSpec == Spec /\ WF_vars(Handle)

-----------------------------------------------------------------------------
TypeOK ==
  /\ cpsr \in Status
  /\ spsr \in [Modes -> Saved]
  /\ lr \in [Modes -> Addresses]
  /\ sp \in [Modes -> 0..MaxDumps]
  /\ r4 \in {"own", "number"}
  /\ pc \in Addresses
  /\ frames \in [Modes -> [1..MaxDumps ->
       [r4 : {"own", "number"}, sp : 0..MaxDumps, lr : Addresses]]]
  /\ phase \in {"code", "vector", "handler", "return", "panic", "halted"}
  /\ kind \in Kinds

BackToProgram == phase = "return" /\ phase' = "code"

(***************************************************************************)
(* The table in exception.s:43-55 names the instruction the program goes   *)
(* on at after each exception.  All go on there but a prefetch abort,      *)
(* whose trampoline does not subtract the 4 of the table and so always     *)
(* skips the instruction that was to be tried again.                       *)
(***************************************************************************)
TableSays == [undef |-> 1, svc |-> 1, pabt |-> 0, dabt |-> 0, irq |-> 0]

Skipped == IF kind = "pabt" THEN 1 ELSE 0

ReturnsPerTable ==
  [][BackToProgram => pc' = before.pc + TableSays[kind] + Skipped]_vars

(***************************************************************************)
(* What an exception leaves of the program that took it: its stacks and    *)
(* its mode, always; the interrupt mask and the flags, unless it was an    *)
(* interrupt, whose return loads them from an SPSR that is not the         *)
(* interrupt's (exception.s:104, 119); r4, unless it called the system;    *)
(* user code's LR, and its being open to interrupts.                       *)
(***************************************************************************)
ProgramUndisturbed ==
  [][BackToProgram =>
       /\ sp' = before.sp
       /\ cpsr'.mode = before.cpsr.mode
       /\ kind # "irq" => cpsr' = before.cpsr
       /\ kind # "svc" => r4' = before.r4
       /\ before.cpsr.mode = "usr" => lr'["usr"] = before.lr /\ ~cpsr'.imask]_vars

(***************************************************************************)
(* "Argh! We crashed in Kernel Mode!" (cpu.cpp:99): after that no code of  *)
(* the program is executed again and no interrupt is taken, even if kpanic *)
(* aborts in its turn, on the stack that it is running on.                 *)
(***************************************************************************)
KernelCrash == phase # "code" /\ kind \in Faults /\ before.cpsr.mode = "svc"

KernelCrashIsFinal == [][KernelCrash => KernelCrash' /\ cpsr'.imask]_vars

(* A user program that crashes, calls the kernel or is interrupted gets    *)
(* the processor back: no fault of its own stops the kernel.               *)
UserGoesOn == phase # "code" /\ before.cpsr.mode = "usr" ~> phase = "code"

(***************************************************************************)
(* "Let's save all the registers before we enter the cpp function handler" *)
(* (exception.s:108), an interrupt's handler in this case: a function that *)
(* was interrupted still has its return address, and its last instruction  *)
(* takes the program back into the loop that called it.                    *)
(***************************************************************************)
ReturnsToCaller ==
  [][phase = "code" /\ phase' = "code" /\ pc = Leaf + 1 => pc' \in Loop \cup {pc}]_vars
=============================================================================
