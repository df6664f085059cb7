-------------------------- MODULE InterruptsProofs --------------------------
(***************************************************************************)
(* Proofs about Interrupts: with one driver per interrupt number, for any  *)
(* drivers and numbers, an interrupt finds its driver until a driver is    *)
(* destroyed whose device may still interrupt.                             *)
(***************************************************************************)
EXTENDS Interrupts, TLAPS

(* What the kernel has to see to: TIMER0 and TIMER1 are not both used.     *)
OneDriverPerNumber == \A d, e \in Drivers : IrqOf[d] = IrqOf[e] => d = e

(* The driver of a number is in the table from the start of its            *)
(* construction to the end of its destruction, and nobody else is.         *)
TableMatchesLife ==
  \A d \in Drivers :
    irq_handlers[IrqOf[d]] = IF life[d] \in {"raw", "removed"} THEN NULL ELSE d

(* A device is silent unless its driver is complete.                       *)
OnlyReadyInterrupt == ~live => \A d \in generating \cup line : life[d] = "ready"

IInv ==
  /\ TypeOK
  /\ TableMatchesLife
  /\ OnlyReadyInterrupt
  /\ DispatchFindsDriver
  /\ NoAssertionFailure

(* After boot, before the first driver.                                    *)
LEMMA InitInvariant == Init => IInv
<1> SUFFICES ASSUME Init
             PROVE  IInv
  OBVIOUS
<1>1. TypeOK
  BY InterruptAssumption DEF Init, TypeOK, Irqs, Life
<1>2. TableMatchesLife
  BY InterruptAssumption DEF Init, TableMatchesLife, Irqs
<1>3. OnlyReadyInterrupt
  BY DEF Init, OnlyReadyInterrupt
<1>4. DispatchFindsDriver /\ NoAssertionFailure
  BY DEF Init, DispatchFindsDriver, NoAssertionFailure
<1> QED
  BY <1>1, <1>2, <1>3, <1>4 DEF IInv

(* What is common to the steps of a driver's life: the driver's number is  *)
(* its own, so that its entry in the table is nobody else's.               *)
LEMMA NextInvariant == OneDriverPerNumber /\ IInv /\ [Next]_vars => IInv'
<1> SUFFICES ASSUME OneDriverPerNumber, IInv, [Next]_vars
             PROVE  IInv'
  OBVIOUS
<1> USE InterruptAssumption DEF Irqs, Life
<1>1. ASSUME NEW d \in Drivers, Install(d)
      PROVE  IInv'
  BY <1>1 DEF Install, Moves, OneDriverPerNumber, IInv, TypeOK, TableMatchesLife,
      OnlyReadyInterrupt, DispatchFindsDriver, NoAssertionFailure
<1>2. ASSUME NEW d \in Drivers, Enable(d)
      PROVE  IInv'
  BY <1>2 DEF Enable, Moves, IInv, TypeOK, TableMatchesLife,
      OnlyReadyInterrupt, DispatchFindsDriver, NoAssertionFailure
<1>3. ASSUME NEW d \in Drivers, Finish(d)
      PROVE  IInv'
  BY <1>3 DEF Finish, Moves, IInv, TypeOK, TableMatchesLife,
      OnlyReadyInterrupt, DispatchFindsDriver, NoAssertionFailure
<1>4. ASSUME NEW d \in Drivers, Start(d) \/ Stop(d) \/ Raise(d)
      PROVE  IInv'
  BY <1>4 DEF Start, Stop, Raise, IInv, TypeOK, TableMatchesLife,
      OnlyReadyInterrupt, DispatchFindsDriver, NoAssertionFailure
<1>5. ASSUME NEW d \in Drivers, Destroy(d)
      PROVE  IInv'
  BY <1>5 DEF Destroy, Moves, IInv, TypeOK, TableMatchesLife,
      OnlyReadyInterrupt, DispatchFindsDriver, NoAssertionFailure
<1>6. ASSUME NEW d \in Drivers, Remove(d)
      PROVE  IInv'
  BY <1>6 DEF Remove, Moves, OneDriverPerNumber, IInv, TypeOK, TableMatchesLife,
      OnlyReadyInterrupt, DispatchFindsDriver, NoAssertionFailure
<1>7. ASSUME NEW d \in Drivers, Disable(d)
      PROVE  IInv'
  BY <1>7 DEF Disable, IInv, TypeOK, TableMatchesLife,
      OnlyReadyInterrupt, DispatchFindsDriver, NoAssertionFailure
<1>8. ASSUME NEW i \in Irqs, handle_irq(i)
      PROVE  IInv'
  <2>1. CASE live
    <3>1. live' /\ line' \subseteq line /\ crashed' \in BOOLEAN
      BY <1>8, <2>1 DEF handle_irq, IInv, TypeOK
    <3> QED
      BY <1>8, <3>1 DEF handle_irq, IInv, TypeOK, TableMatchesLife,
          OnlyReadyInterrupt, DispatchFindsDriver, NoAssertionFailure
  <2>2. CASE ~live
    <3>1. PICK d \in line : IrqOf[d] = i
      BY <1>8 DEF handle_irq, Signalled
    <3>2. d \in Drivers /\ life[d] = "ready" /\ irq_handlers[i] = d
      BY <2>2, <3>1 DEF IInv, TypeOK, TableMatchesLife, OnlyReadyInterrupt
    <3>3. line' = line \ {d} /\ crashed' = crashed
      BY <1>8, <3>2 DEF handle_irq, Callable, PureVirtual
    <3> QED
      BY <1>8, <3>3 DEF handle_irq, IInv, TypeOK, TableMatchesLife,
          OnlyReadyInterrupt, DispatchFindsDriver, NoAssertionFailure
  <2> QED
    BY <2>1, <2>2
<1>9. CASE UNCHANGED vars
  BY <1>9 DEF vars, IInv, TypeOK, TableMatchesLife, OnlyReadyInterrupt,
      DispatchFindsDriver, NoAssertionFailure
<1> QED
  BY <1>1, <1>2, <1>3, <1>4, <1>5, <1>6, <1>7, <1>8, <1>9 DEF Next

(* For any drivers with a number each, the invariant always holds.         *)
THEOREM Invariance ==
  ASSUME OneDriverPerNumber
  PROVE  Spec => []IInv
<1>1. IInv /\ [Next]_vars => IInv'
  BY NextInvariant
<1> QED
  BY InitInvariant, <1>1, PTL DEF Spec

(* The table holds handlers and the controller known interrupts only.      *)
THEOREM TypeCorrectness ==
  ASSUME OneDriverPerNumber
  PROVE  Spec => []TypeOK
<1>1. IInv => TypeOK
  BY DEF IInv
<1> QED
  BY Invariance, <1>1, PTL

(***************************************************************************)
(* Until a driver is destroyed whose device may still interrupt,           *)
(* handle_irq (cpu.cpp) never calls through a null entry or a half-built   *)
(* object, although constructors publish the object before it is complete. *)
(***************************************************************************)
THEOREM AlwaysFindsDriver ==
  ASSUME OneDriverPerNumber
  PROVE  Spec => []DispatchFindsDriver
<1>1. IInv => DispatchFindsDriver
  BY DEF IInv
<1> QED
  BY Invariance, <1>1, PTL

(* Neither assertion on the table (cpu.cpp:29, 35) ever fails.             *)
THEOREM TableAssertionsHold ==
  ASSUME OneDriverPerNumber
  PROVE  Spec => []NoAssertionFailure
<1>1. IInv => NoAssertionFailure
  BY DEF IInv
<1> QED
  BY Invariance, <1>1, PTL
=============================================================================
