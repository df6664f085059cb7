----------------------------- MODULE Interrupts -----------------------------
(***************************************************************************)
(* Who serves an interrupt: the table irq_handlers and its dispatcher      *)
(* (cpu.cpp), the life of the IRQHandler objects in it (irqhandler.cpp)    *)
(* and the interrupt controller that lets an interrupt through (gic.cpp).  *)
(*                                                                         *)
(* Drivers are constructed and destroyed with interrupts unmasked, so an   *)
(* interrupt can come between any two steps of either.  A constructor runs *)
(* base class first: the object is in the table before it is the driver    *)
(* it is going to be, and until then its handle_irq is pure virtual.       *)
(***************************************************************************)
EXTENDS Naturals

CONSTANTS
  Drivers,     \* IRQHandler objects
  IrqOf,       \* IrqOf[d]: the interrupt number d is constructed with
  Destroyable, \* the drivers that are ever destroyed
  NULL         \* nullptr

ASSUME InterruptAssumption ==
  /\ IrqOf \in [Drivers -> 0..255]
  /\ Destroyable \subseteq Drivers
  /\ NULL \notin Drivers

Irqs == {IrqOf[d] : d \in Drivers}

(* The life of a driver object, and what its vtable makes of handle_irq.   *)
Life == {"raw",        \* not constructed: m_irq_number is not set
         "installed",  \* in IRQHandler's constructor, in the table
         "enabled",    \* IRQHandler's constructor is done
         "ready",      \* the driver's own constructor is done
         "dying",      \* in IRQHandler's destructor, still in the table
         "removed"}    \* out of the table
PureVirtual == {"installed", "enabled", "dying"}

VARIABLES
  irq_handlers,  \* the table; numbers no driver has are null for ever
  enabled,       \* GICD_ISENABLERn: the interrupts the distributor forwards
  life,          \* life[d]: how far d has come
  generating,    \* the devices told to generate interrupts
  line,          \* the devices whose interrupt line is asserted
  crashed,       \* a null or pure virtual handle_irq was called
  failed,        \* an ASSERT of install_handler or remove_handler failed
  live           \* a driver was destroyed while its device could interrupt

vars == <<irq_handlers, enabled, life, generating, line, crashed, failed, live>>

Init ==
  /\ irq_handlers = [i \in Irqs |-> NULL]
  /\ enabled = {}
  /\ life = [d \in Drivers |-> "raw"]
  /\ generating = {}
  /\ line = {}
  /\ crashed = FALSE
  /\ failed = FALSE
  /\ live = FALSE

Running == ~crashed /\ ~failed

(* One flow constructs and destroys drivers, one at a time. *)
Idle(d) == \A e \in Drivers \ {d} : life[e] \in {"raw", "ready"}

Moves(d, from, to) ==
  /\ Running
  /\ Idle(d)
  /\ life[d] = from
  /\ life' = [life EXCEPT ![d] = to]

(* IRQHandler::IRQHandler: install_handler.  The assertion fails if the    *)
(* number has a handler already.                                           *)
Install(d) ==
  /\ Moves(d, "raw", "installed")
  /\ failed' = (irq_handlers[IrqOf[d]] # NULL)
  /\ irq_handlers' = IF failed' THEN irq_handlers
                     ELSE [irq_handlers EXCEPT ![IrqOf[d]] = d]
  /\ UNCHANGED <<enabled, generating, line, crashed, live>>

(* For checking the properties: the interrupt is not enabled in the        *)
(* distributor.                                                            *)
Enable_Forgotten(d) ==
  /\ Moves(d, "installed", "enabled")
  /\ UNCHANGED <<irq_handlers, enabled, generating, line, crashed, failed, live>>

(* As above: the device generates interrupts from here on. *)
Enable_Generating(d) ==
  /\ Moves(d, "installed", "enabled")
  /\ enabled' = enabled \cup {IrqOf[d]}
  /\ generating' = generating \cup {d}
  /\ UNCHANGED <<irq_handlers, line, crashed, failed, live>>

(* As above: the bit is set in the first register, whatever the number. *)
Enable_FirstWord(d) ==
  /\ Moves(d, "installed", "enabled")
  /\ enabled' = enabled \cup {IrqOf[d] % 32}
  /\ UNCHANGED <<irq_handlers, generating, line, crashed, failed, live>>

(* ... and GIC::enable_interrupt. *)
Enable(d) ==
  /\ Moves(d, "installed", "enabled")
  /\ enabled' = enabled \cup {IrqOf[d]}
  /\ UNCHANGED <<irq_handlers, generating, line, crashed, failed, live>>

(* The body of the driver's own constructor: the object is the driver now. *)
Finish(d) ==
  /\ Moves(d, "enabled", "ready")
  /\ UNCHANGED <<irq_handlers, enabled, generating, line, crashed, failed, live>>

(* Keyboard::enable, Timer::enable: the device may interrupt from now on.  *)
Start(d) ==
  /\ Running
  /\ life[d] = "ready"
  /\ generating' = generating \cup {d}
  /\ UNCHANGED <<irq_handlers, enabled, life, line, crashed, failed, live>>

(* Keyboard::disable, Timer::disable; an asserted line stays asserted. *)
Stop(d) ==
  /\ Running
  /\ life[d] = "ready"
  /\ generating' = generating \ {d}
  /\ UNCHANGED <<irq_handlers, enabled, life, line, crashed, failed, live>>

(* The driver's destructor.  Neither Timer's nor Keyboard's touches the    *)
(* device, which goes on as its owner left it.                             *)
Destroy(d) ==
  /\ d \in Destroyable
  /\ Moves(d, "ready", "dying")
  /\ live' = (live \/ d \in generating \cup line)
  /\ UNCHANGED <<irq_handlers, enabled, generating, line, crashed, failed>>

(* As above: the entry is checked, but not cleared. *)
Remove_Kept(d) ==
  /\ Moves(d, "dying", "removed")
  /\ failed' = (irq_handlers[IrqOf[d]] = NULL)
  /\ UNCHANGED <<irq_handlers, enabled, generating, line, crashed, live>>

(* IRQHandler::~IRQHandler: remove_handler ... *)
Remove(d) ==
  /\ Moves(d, "dying", "removed")
  /\ failed' = (irq_handlers[IrqOf[d]] = NULL)
  /\ irq_handlers' = [irq_handlers EXCEPT ![IrqOf[d]] = NULL]
  /\ UNCHANGED <<enabled, generating, line, crashed, live>>

(***************************************************************************)
(* ... and GIC::disable_interrupt.  GICD_ICENABLERn reads as the set of    *)
(* all interrupts of the word that are enabled, and each one written back  *)
(* to it disables that interrupt; or-ing the bit's number in makes no      *)
(* difference.                                                             *)
(***************************************************************************)
Disable(d) ==
  /\ Running
  /\ Idle(d)
  /\ life[d] = "removed"
  /\ life' = [life EXCEPT ![d] = "raw"]
  /\ enabled' = {i \in enabled : i \div 32 # IrqOf[d] \div 32}
  /\ UNCHANGED <<irq_handlers, generating, line, crashed, failed, live>>

(* Hardware: a device asserts its line. *)
Raise(d) ==
  /\ Running
  /\ d \in generating \ line
  /\ line' = line \cup {d}
  /\ UNCHANGED <<irq_handlers, enabled, life, generating, crashed, failed, live>>

(***************************************************************************)
(* handle_irq: the lowest-numbered interrupt that is enabled and asserted  *)
(* is acknowledged, its handler called, and its end signalled.  The        *)
(* handler serves its own device only.                                     *)
(***************************************************************************)
Signalled == {i \in enabled : \E d \in line : IrqOf[d] = i}

(* The objects whose handle_irq is the driver's own. *)
Callable == {d \in Drivers : life[d] \notin PureVirtual}

handle_irq(i) ==
  LET handler == irq_handlers[i]
  IN  /\ Running
      /\ i \in Signalled /\ \A j \in Signalled : i <= j
      /\ \/ /\ handler \in Callable
            /\ line' = line \ {handler}
            /\ UNCHANGED crashed
         \/ /\ handler \notin Callable
            /\ crashed' = TRUE
            /\ UNCHANGED line
      /\ UNCHANGED <<irq_handlers, enabled, life, generating, failed, live>>

Next ==
  \/ \E d \in Drivers :
       \/ Install(d) \/ Enable(d) \/ Finish(d)
       \/ Start(d) \/ Stop(d)
       \/ Destroy(d) \/ Remove(d) \/ Disable(d)
       \/ Raise(d)
  \/ \E i \in Irqs : handle_irq(i)

Spec == Init /\ [][Next]_vars

(* An interrupt that is let through is taken. *)
LiveSpec == Spec /\ \A i \in Irqs : SF_vars(handle_irq(i))

-----------------------------------------------------------------------------
TypeOK ==
  /\ irq_handlers \in [Irqs -> Drivers \cup {NULL}]
  /\ enabled \subseteq Irqs
  /\ life \in [Drivers -> Life]
  /\ generating \subseteq Drivers
  /\ line \subseteq Drivers
  /\ crashed \in BOOLEAN
  /\ failed \in BOOLEAN
  /\ live \in BOOLEAN

(***************************************************************************)
(* As long as no driver is destroyed whose device may still interrupt, no  *)
(* interrupt is dispatched through a null entry of the table or to an      *)
(* object that is not yet, or no more, the driver, which "should NEVER     *)
(* happen" (cxa_pure.cpp:11): neither constructors nor destructors leave a *)
(* way in, although the object is in the table before it is complete and   *)
(* after it is not.                                                        *)
(***************************************************************************)
DispatchFindsDriver == crashed => live

(* "ASSERT(!irq_handlers[irq])" (cpu.cpp:29) and                           *)
(* "ASSERT(irq_handlers[irq])" (cpu.cpp:35): a number has one handler.     *)
NoAssertionFailure == ~failed

(***************************************************************************)
(* "gic: disabling IRQ %d" (gic.cpp:117): a step that disables the         *)
(* interrupt of a driver leaves the interrupts of the others enabled.      *)
(***************************************************************************)
DisablesOneIrq ==
  [][\A i, j \in enabled \ enabled' : i = j]_vars

(***************************************************************************)
(* As long as no driver is destroyed, every driver that is ready gets its  *)
(* device's interrupts served.                                             *)
(***************************************************************************)
ReadyIsServed ==
  [](\A d \in Drivers : life[d] # "dying") =>
    \A d \in Drivers : d \in line /\ life[d] = "ready" ~> d \notin line
=============================================================================
