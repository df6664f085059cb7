------------------------ MODULE ContextSwitchProofs ------------------------
(***************************************************************************)
(* What irq_trampoline and Scheduler::task_switch guarantee for any number *)
(* of processes, any ring, any interrupt numbers and any devices, as long  *)
(* as no timer interrupt can be taken inside the interrupt path.           *)
(***************************************************************************)
EXTENDS ContextSwitch, TLAPS

(***************************************************************************)
(* One timer interrupt is in use, and its period is longer than the        *)
(* interrupt path.  ContextSwitch_two_timers shows what happens without.   *)
(***************************************************************************)
SlowTimer ==
  /\ \A s, t \in Timers : s = t
  /\ Timers \cap Quick = {}

(***************************************************************************)
(* The inductive invariant.  In process code the processor is on the       *)
(* current process's own stack.                                            *)
(***************************************************************************)
InProcessCode ==
  cpu.lvl = 0 => cpu.stk = Cur /\ phase = "run" /\ ~imask

(* In the trampoline there is nothing to know but the stack and the level. *)
InTrampoline == cpu.lvl > 0 => cpu = TrampolineEnd(cpu.stk, cpu.lvl)

(* In the interrupt path the outermost dump is the current process's own   *)
(* code: task_switch changes both in one step.                             *)
OuterDump ==
  cpu.lvl > 0 => frames[cpu.stk][1].stk = Cur /\ frames[cpu.stk][1].lvl = 0

(* The second dump is the end of the trampoline of the same stack, and     *)
(* while it is being served interrupts stay masked.                        *)
InnerDump ==
  cpu.lvl > 1 =>
    /\ frames[cpu.stk][2] = TrampolineEnd(cpu.stk, 1)
    /\ imask
    /\ active \notin Timers

(* handle_irq runs its handler with interrupts masked.                     *)
MaskedWhileServing == phase \in {"entered", "handling"} => imask

(* Wherever the interrupt path can be interrupted, or is so already, no    *)
(* timer is waiting: task_switch, the one thing that unmasks interrupts,   *)
(* runs just after the timer was cleared.                                  *)
NoTimerInside ==
  cpu.lvl > 1 \/ (cpu.lvl > 0 /\ ~imask) => line \cap Timers = {}

IInv ==
  /\ TypeOK
  /\ cpu.stk \in Proc
  /\ NestingBounded
  /\ ParkedOnOwnStack
  /\ InProcessCode
  /\ InTrampoline
  /\ OuterDump
  /\ InnerDump
  /\ MaskedWhileServing
  /\ NoTimerInside

-----------------------------------------------------------------------------
(* A current process is a process, and so is its successor in the ring.    *)
LEMMA CurInProc ==
  ASSUME TypeOK
  PROVE  Cur \in Proc /\ Ring[Cur] \in Proc
BY SwitchAssumption DEF TypeOK, Cur

(* Dumps and saved registers are contexts.                                 *)
LEMMA ContextValues ==
  /\ Garbage \in Context
  /\ \A p \in Proc : ProcessCode(p, 0) \in Context
  /\ \A p \in Proc, k \in 0..MaxLevel : TrampolineEnd(p, k) \in Context
BY SwitchAssumption DEF Garbage, ProcessCode, TrampolineEnd, Context

(* The state Scheduler::initialise leaves satisfies the invariant.         *)
LEMMA InitInvariant == Init => IInv
<1> SUFFICES ASSUME Init PROVE IInv
  OBVIOUS
<1>1. TypeOK
  <2>1. registers \in [Proc -> Context]
    BY ContextValues DEF Init
  <2>2. frames \in [Proc -> [1..MaxLevel -> Context]]
    BY ContextValues DEF Init
  <2>3. cpu \in Context
    BY ContextValues, SwitchAssumption DEF Init
  <2> QED
    BY <2>1, <2>2, <2>3 DEF Init, TypeOK
<1>2. cpu.stk = Proc0 /\ cpu.lvl = 0 /\ Cur = Proc0
  BY DEF Init, ProcessCode, Cur
<1>3. ParkedOnOwnStack
  BY <1>2 DEF Init, ParkedOnOwnStack, ProcessCode
<1> QED
  BY <1>1, <1>2, <1>3, SwitchAssumption
  DEF Init, IInv, NestingBounded, InProcessCode, InTrampoline, OuterDump, InnerDump,
      MaskedWhileServing, NoTimerInside

(* Every step of the interrupt path preserves it.                          *)
LEMMA NextInvariant ==
  ASSUME SlowTimer, IInv, [Next]_vars
  PROVE  IInv'
<1> USE DEF IInv
<1>1. CASE UNCHANGED vars
  BY <1>1
  DEF vars, TypeOK, NestingBounded, ParkedOnOwnStack, InProcessCode, InTrampoline, OuterDump,
      InnerDump, MaskedWhileServing, NoTimerInside, Cur
<1>2. CASE Work
  <2>1. cpu.lvl = 0 /\ cpu'.stk = cpu.stk /\ cpu'.lvl = 0 /\ Cur' = Cur
    BY <1>2 DEF Work, TypeOK, Context, Cur
  <2>2. TypeOK'
    <3>1. cpu' \in Context
      <4>1. cpu.pc \in Nat /\ (cpu.pc + 1) % WorkCycle \in 0..(WorkCycle - 1)
        <5>1. WorkCycle \in Nat /\ WorkCycle > 0
          BY SwitchAssumption
        <5>2. cpu.pc \in Nat
          BY <5>1 DEF TypeOK, Context
        <5> HIDE DEF IInv
        <5> QED
          BY <5>1, <5>2
      <4>2. cpu' = [cpu EXCEPT !.pc = (cpu.pc + 1) % WorkCycle]
        BY <1>2 DEF Work
      <4> QED
        BY <4>1, <4>2 DEF TypeOK, Context
    <3>2. frames' \in [Proc -> [1..MaxLevel -> Context]]
      BY <1>2, ContextValues DEF Work, TypeOK
    <3> QED
      BY <1>2, <3>1, <3>2 DEF Work, TypeOK
  <2> QED
    BY <1>2, <2>1, <2>2
    DEF Work, NestingBounded, ParkedOnOwnStack, InProcessCode, InTrampoline, OuterDump,
        InnerDump, MaskedWhileServing, NoTimerInside
<1>3. ASSUME NEW d \in Devices, Raise(d) PROVE IInv'
  <2>1. TypeOK'
    BY <1>3 DEF Raise, TypeOK
  <2>2. NoTimerInside'
    BY <1>3 DEF Raise, NoTimerInside, SlowTimer, TypeOK, Context
  <2> QED
    BY <1>3, <2>1, <2>2
    DEF Raise, NestingBounded, ParkedOnOwnStack, InProcessCode, InTrampoline, OuterDump,
        InnerDump, MaskedWhileServing, Cur
<1>4. CASE IrqEntry
  <2>1. cpu.lvl \in {0, 1} /\ cpu.lvl + 1 \in 1..MaxLevel
    \* interrupts are masked at level 2
    <3>1. cpu.lvl \in 0..MaxLevel /\ cpu.lvl <= 2
      BY DEF TypeOK, Context, NestingBounded
    <3>2. ~(cpu.lvl > 1) /\ cpu.lvl < MaxLevel
      BY <1>4 DEF IrqEntry, InnerDump
    <3> QED
      BY <3>1, <3>2, SwitchAssumption
  <2>2. /\ cpu'.stk = cpu.stk /\ cpu'.lvl = cpu.lvl + 1
        /\ imask' /\ phase' = "entered" /\ Cur' = Cur
    BY <1>4 DEF IrqEntry, TrampolineEnd, Cur
  <2>3. TypeOK'
    <3>1. cpu' \in Context
      BY <1>4, <2>1, ContextValues DEF IrqEntry
    <3>2. frames' \in [Proc -> [1..MaxLevel -> Context]]
      BY <1>4, <2>1 DEF IrqEntry, TypeOK
    <3> QED
      BY <1>4, <3>1, <3>2 DEF IrqEntry, TypeOK
  <2>4. OuterDump'
    <3>1. CASE cpu.lvl = 0
      <4>1. frames' = [frames EXCEPT ![cpu.stk][1] = cpu]
        BY <1>4, <3>1 DEF IrqEntry
      <4>2. frames'[cpu.stk][1] = cpu
        BY <4>1, SwitchAssumption DEF TypeOK
      <4> QED
        BY <2>2, <3>1, <4>2 DEF OuterDump, InProcessCode
    <3>2. CASE cpu.lvl = 1
      BY <1>4, <2>1, <2>2, <3>2 DEF IrqEntry, OuterDump, TypeOK
    <3> QED
      BY <2>1, <3>1, <3>2
  <2>5. InnerDump'
    <3> SUFFICES ASSUME cpu.lvl = 1 PROVE InnerDump'
      BY <2>1, <2>2 DEF InnerDump
    <3>1. frames'[cpu.stk][2] = cpu
      <4>1. frames' = [frames EXCEPT ![cpu.stk][2] = cpu]
        BY <1>4 DEF IrqEntry
      <4> QED
        BY <4>1, SwitchAssumption DEF TypeOK
    <3>2. cpu = TrampolineEnd(cpu.stk, 1)
      BY DEF InTrampoline
    <3> QED
      BY <1>4, <2>2, <3>1, <3>2, SwitchAssumption DEF IrqEntry, InnerDump, NoIrq
  <2> QED
    BY <1>4, <2>1, <2>2, <2>3, <2>4, <2>5
    DEF IrqEntry, NestingBounded, ParkedOnOwnStack, InProcessCode,
        InTrampoline, MaskedWhileServing, NoTimerInside
<1>5. ASSUME NEW d \in Devices, Acknowledge(d) PROVE IInv'
  <2>1. TypeOK'
    BY <1>5 DEF Acknowledge, TypeOK
  <2>2. InnerDump'
    BY <1>5 DEF Acknowledge, InnerDump, NoTimerInside
  <2> QED
    BY <1>5, <2>1, <2>2
    DEF Acknowledge, NestingBounded, ParkedOnOwnStack, InProcessCode,
        InTrampoline, OuterDump, MaskedWhileServing, NoTimerInside, Cur
<1>6. CASE HandleTimer
  <2> DEFINE saved == [registers EXCEPT ![Cur] = Dump]
  <2>1. cpu.lvl = 1 /\ Cur \in Proc /\ Ring[Cur] \in Proc
    \* never in an inner interrupt, never in process code
    BY <1>6, CurInProc
    DEF HandleTimer, TypeOK, Context, NestingBounded, InProcessCode, InnerDump
  <2>2. Dump \in Context /\ Dump.stk = Cur /\ Dump.lvl = 0
    <3>1. Dump = frames[cpu.stk][1]
      BY <2>1 DEF Dump
    <3>2. frames[cpu.stk][1] \in Context
      BY SwitchAssumption DEF TypeOK
    <3> QED
      BY <2>1, <3>1, <3>2 DEF OuterDump
  <2>3. saved \in [Proc -> Context]
    BY <2>1, <2>2 DEF TypeOK
  <2>4. \A p \in Proc : saved[p].stk = p /\ saved[p].lvl = 0
    BY <2>1, <2>2 DEF ParkedOnOwnStack, TypeOK
  <2>5. /\ registers' = saved
        /\ current_proc' = Ring[Cur]
        /\ frames' = [frames EXCEPT ![cpu.stk][cpu.lvl] = saved[Ring[Cur]]]
        /\ imask' = FALSE
        /\ line' = line \ {active}
        /\ phase' = "handled"
        /\ cpu' = cpu
        /\ active' = active
    BY <1>6 DEF HandleTimer, TaskSwitch
  <2> HIDE DEF saved
  <2>6. Cur' = Ring[Cur]
    BY <2>1, <2>5, SwitchAssumption DEF Cur
  <2>7. TypeOK'
    <3>1. frames' \in [Proc -> [1..MaxLevel -> Context]]
      BY <2>1, <2>3, <2>5, SwitchAssumption DEF TypeOK
    <3> QED
      BY <2>1, <2>3, <2>5, <3>1 DEF TypeOK
  <2>8. ParkedOnOwnStack'
    BY <2>4, <2>5 DEF ParkedOnOwnStack
  <2>9. OuterDump'
    BY <2>1, <2>4, <2>5, <2>6, SwitchAssumption DEF OuterDump, TypeOK
  <2>10. NoTimerInside'
    BY <1>6, <2>5 DEF HandleTimer, NoTimerInside, SlowTimer, TypeOK
  <2> QED
    BY <2>1, <2>5, <2>7, <2>8, <2>9, <2>10
    DEF NestingBounded, InProcessCode, InTrampoline, InnerDump,
        MaskedWhileServing
<1>7. CASE HandleOther
  <2>1. TypeOK'
    BY <1>7 DEF HandleOther, TypeOK
  <2> QED
    BY <1>7, <2>1
    DEF HandleOther, NestingBounded, ParkedOnOwnStack, InProcessCode,
        InTrampoline, OuterDump, InnerDump, MaskedWhileServing, NoTimerInside,
        Cur
<1>8. CASE EndOfInterrupt
  <2>1. TypeOK'
    BY <1>8 DEF EndOfInterrupt, TypeOK
  <2>2. InnerDump'
    BY <1>8, SwitchAssumption DEF EndOfInterrupt, InnerDump, NoIrq
  <2> QED
    BY <1>8, <2>1, <2>2
    DEF EndOfInterrupt, NestingBounded, ParkedOnOwnStack, InProcessCode,
        InTrampoline, OuterDump, MaskedWhileServing, NoTimerInside, Cur
<1>9. CASE TrampolineReturn
  <2>1. cpu.lvl \in {1, 2}
    BY <1>9 DEF TrampolineReturn, TypeOK, Context, NestingBounded
  <2>2. cpu' \in Context
    BY <1>9, <2>1, SwitchAssumption DEF TrampolineReturn, Dump, TypeOK
  <2>3. TypeOK'
    BY <1>9, <2>2 DEF TrampolineReturn, TypeOK
  <2>4. CASE cpu.lvl = 1
    <3>1. cpu'.stk = Cur /\ cpu'.lvl = 0 /\ Cur' = Cur
      BY <1>9, <2>4 DEF TrampolineReturn, Dump, OuterDump, Cur
    <3> QED
      BY <1>9, <2>3, <3>1, CurInProc
      DEF TrampolineReturn, NestingBounded, ParkedOnOwnStack, InProcessCode,
          InTrampoline, OuterDump, InnerDump, MaskedWhileServing, NoTimerInside
  <2>5. CASE cpu.lvl = 2
    <3>1. cpu' = TrampolineEnd(cpu.stk, 1)
      BY <1>9, <2>5 DEF TrampolineReturn, Dump, InnerDump
    <3>2. cpu'.stk = cpu.stk /\ cpu'.lvl = 1 /\ Cur' = Cur
      BY <1>9, <3>1 DEF TrampolineReturn, TrampolineEnd, Cur
    <3> QED
      BY <1>9, <2>3, <2>5, <3>1, <3>2
      DEF TrampolineReturn, NestingBounded, ParkedOnOwnStack, InProcessCode,
          InTrampoline, OuterDump, InnerDump, MaskedWhileServing, NoTimerInside
  <2> QED
    BY <2>1, <2>4, <2>5
<1> QED
  BY <1>1, <1>2, <1>3, <1>4, <1>5, <1>6, <1>7, <1>8, <1>9 DEF Next

(***************************************************************************)
(* Every state the interrupt path reaches satisfies the inductive          *)
(* invariant, its type invariant TypeOK included.                          *)
(***************************************************************************)
THEOREM Invariance == ASSUME SlowTimer PROVE Spec => []IInv
<1>1. Init => IInv
  BY InitInvariant
<1>2. IInv /\ [Next]_vars => IInv'
  BY NextInvariant, SlowTimer
<1> QED
  BY <1>1, <1>2, PTL DEF Spec

(* Contexts, dumps, lines and the ring position are of their types.        *)
THEOREM TypeCorrectness == ASSUME SlowTimer PROVE Spec => []TypeOK
<1>1. IInv => TypeOK
  BY DEF IInv
<1> QED
  BY <1>1, Invariance, PTL

(***************************************************************************)
(* Two dumps are all an interrupt path ever puts on a process stack.       *)
(***************************************************************************)
THEOREM NestingIsBounded == ASSUME SlowTimer PROVE Spec => []NestingBounded
<1>1. IInv => NestingBounded
  BY DEF IInv
<1> QED
  BY <1>1, Invariance, PTL

(***************************************************************************)
(* The comment in task_switch is right: unwinding from handle_irq resumes  *)
(* current_proc, or the trampoline that was interrupted.                   *)
(***************************************************************************)
THEOREM UnwindingResumesCurrent ==
  ASSUME SlowTimer PROVE Spec => []ResumesCurrent
<1>1. IInv => ResumesCurrent
  <2> SUFFICES ASSUME IInv, cpu.lvl > 0
               PROVE  \/ Dump.stk = Cur /\ Dump.lvl = 0
                      \/ Dump = TrampolineEnd(cpu.stk, cpu.lvl - 1) /\ cpu.lvl > 1
    BY DEF ResumesCurrent
  <2>1. cpu.lvl \in {1, 2}
    BY DEF IInv, TypeOK, Context, NestingBounded
  <2> QED
    BY <2>1 DEF IInv, Dump, OuterDump, InnerDump
<1> QED
  BY <1>1, Invariance, PTL

(***************************************************************************)
(* No process is ever parked inside the interrupt path of another.         *)
(***************************************************************************)
THEOREM ParkingIsOnOwnStack == ASSUME SlowTimer PROVE Spec => []ParkedOnOwnStack
<1>1. IInv => ParkedOnOwnStack
  BY DEF IInv
<1> QED
  BY <1>1, Invariance, PTL

-----------------------------------------------------------------------------
(* The abstract state after initialise is RoundRobin's initial state.      *)
LEMMA InitRefines == Init => Multitasking!Init
<1> SUFFICES ASSUME Init PROVE Multitasking!Init
  OBVIOUS
<1>1. Live = ProcessCode(Proc0, 0)
  BY DEF Init, Live, ProcessCode
<1> QED
  BY <1>1 DEF Init, Multitasking!Init, ProcessCode

(***************************************************************************)
(* Running process code is RoundRobin's Work, the timer handler is its     *)
(* Switch, and the rest of the interrupt path changes nothing of it.       *)
(***************************************************************************)
LEMMA StepRefines ==
  ASSUME SlowTimer, IInv, [Next]_vars
  PROVE  [Multitasking!Next]_(Multitasking!vars)
<1> DEFINE progress == [p \in Proc |-> IF p = Live.stk THEN Live.pc ELSE registers[p].pc]
<1>a. ASSUME Live' = Live, registers' = registers
      PROVE  UNCHANGED Multitasking!vars
  BY <1>a DEF Multitasking!vars
<1>b. cpu.lvl \in {0, 1, 2}
  BY DEF IInv, TypeOK, Context, NestingBounded
<1>1. CASE UNCHANGED vars
  BY <1>1, <1>a DEF vars, Live
<1>2. CASE Work
  <2>1. Live = cpu /\ Live' = cpu' /\ cpu.stk \in Proc
    BY <1>2 DEF Work, Live, IInv, TypeOK, Context
  <2>2. cpu' = [cpu EXCEPT !.pc = (cpu.pc + 1) % WorkCycle] /\ registers' = registers
    BY <1>2 DEF Work
  <2>3. Live'.stk = Live.stk /\ Live'.pc = (Live.pc + 1) % WorkCycle
    BY <2>1, <2>2 DEF IInv, TypeOK, Context
  <2>4. progress' = [progress EXCEPT ![Live.stk] = (@ + 1) % WorkCycle]
    BY <2>1, <2>2, <2>3
  <2>5. Multitasking!Work
    BY <2>3, <2>4 DEF Multitasking!Work
  <2> QED
    BY <2>5 DEF Multitasking!Next
<1>3. ASSUME NEW d \in Devices, Raise(d) PROVE UNCHANGED Multitasking!vars
  BY <1>3, <1>a DEF Raise, Live
<1>4. CASE IrqEntry
  <2>1. cpu'.stk = cpu.stk /\ cpu'.lvl = cpu.lvl + 1
    BY <1>4 DEF IrqEntry, TrampolineEnd
  <2>2. frames'[cpu.stk][1] = IF cpu.lvl = 0 THEN cpu ELSE frames[cpu.stk][1]
    <3>1. CASE cpu.lvl = 0
      <4>1. frames' = [frames EXCEPT ![cpu.stk][1] = cpu]
        BY <1>4, <3>1 DEF IrqEntry
      <4> QED
        BY <3>1, <4>1, SwitchAssumption DEF IInv, TypeOK
    <3>2. CASE cpu.lvl > 0
      <4>1. cpu.lvl + 1 # 1
        BY <1>b, <3>2
      <4> QED
        BY <1>4, <1>b, <3>2, <4>1, SwitchAssumption DEF IrqEntry, IInv, TypeOK
    <3> QED
      BY <1>b, <3>1, <3>2
  <2>3. Live' = Live
    BY <1>b, <2>1, <2>2 DEF Live
  <2> QED
    BY <1>4, <1>a, <2>3 DEF IrqEntry
<1>5. ASSUME NEW d \in Devices, Acknowledge(d) PROVE UNCHANGED Multitasking!vars
  BY <1>5, <1>a DEF Acknowledge, Live
<1>6. CASE HandleTimer
  <2> DEFINE saved == [registers EXCEPT ![Cur] = Dump]
  <2>1. cpu.lvl = 1 /\ Cur \in Proc /\ Ring[Cur] \in Proc
    BY <1>6, CurInProc
    DEF HandleTimer, IInv, TypeOK, Context, NestingBounded, InProcessCode, InnerDump
  <2>2. Live = Dump /\ Live.stk = Cur
    BY <2>1 DEF Live, Dump, IInv, OuterDump
  <2>3. /\ registers' = saved
        /\ frames' = [frames EXCEPT ![cpu.stk][cpu.lvl] = saved[Ring[Cur]]]
        /\ cpu' = cpu
    BY <1>6 DEF HandleTimer, TaskSwitch
  <2>4. \A p \in Proc : saved[p].stk = p /\ saved[p].pc = progress[p]
    BY <2>1, <2>2 DEF IInv, ParkedOnOwnStack, TypeOK
  <2> HIDE DEF saved
  <2>5. Live' = saved[Ring[Cur]]
    <3>1. frames'[cpu.stk][1] = saved[Ring[Cur]]
      BY <2>1, <2>3, SwitchAssumption DEF IInv, TypeOK
    <3> QED
      BY <2>1, <2>3, <3>1 DEF Live
  <2>6. Live'.stk = Ring[Live.stk]
    BY <2>1, <2>2, <2>4, <2>5
  <2>7. \A p \in Proc :
          (IF p = Live'.stk THEN Live'.pc ELSE registers'[p].pc) = progress[p]
    \* of the process switched to it is in Live', of every other in registers'
    <3> TAKE p \in Proc
    <3>1. registers'[p] = saved[p] /\ saved[p].pc = progress[p]
      BY <2>3, <2>4
    <3>2. p = Live'.stk => Live'.pc = progress[p]
      BY <2>1, <2>4, <2>5
    <3> QED
      BY <3>1, <3>2
  <2>8. progress' = progress
    BY <2>7
  <2>9. Multitasking!Switch
    BY <2>6, <2>8 DEF Multitasking!Switch
  <2> QED
    BY <2>9 DEF Multitasking!Next
<1>7. CASE HandleOther
  BY <1>7, <1>a DEF HandleOther, Live
<1>8. CASE EndOfInterrupt
  BY <1>8, <1>a DEF EndOfInterrupt, Live
<1>9. CASE TrampolineReturn
  <2>1. cpu.lvl \in {1, 2}
    BY <1>9, <1>b DEF TrampolineReturn
  <2>2. frames' = frames /\ registers' = registers /\ cpu' = Dump
    BY <1>9 DEF TrampolineReturn
  <2>3. CASE cpu.lvl = 1
    <3>1. Dump = frames[cpu.stk][1] /\ Dump.lvl = 0
      BY <2>3 DEF Dump, IInv, OuterDump
    <3> QED
      BY <1>a, <2>2, <2>3, <3>1 DEF Live
  <2>4. CASE cpu.lvl = 2
    <3>1. cpu'.stk = cpu.stk /\ cpu'.lvl = 1
      BY <2>2, <2>4 DEF Dump, IInv, InnerDump, TrampolineEnd
    <3> QED
      BY <1>a, <2>2, <2>4, <3>1 DEF Live
  <2> QED
    BY <2>1, <2>3, <2>4
<1> QED
  BY <1>1, <1>2, <1>3, <1>4, <1>5, <1>6, <1>7, <1>8, <1>9 DEF Next

(***************************************************************************)
(* The interrupt path implements round-robin multitasking: a process that  *)
(* gets the processor back goes on exactly where it was interrupted.       *)
(***************************************************************************)
THEOREM Refinement == ASSUME SlowTimer PROVE Spec => ImplementsRoundRobin
<1>1. Init => Multitasking!Init
  BY InitRefines
<1>2. IInv /\ [Next]_vars => [Multitasking!Next]_(Multitasking!vars)
  BY StepRefines
<1> QED
  BY <1>1, <1>2, Invariance, PTL DEF Spec, ImplementsRoundRobin, Multitasking!Spec
=============================================================================
