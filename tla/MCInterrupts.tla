---------------------------- MODULE MCInterrupts ----------------------------
(* Instances of Interrupts for TLC: the drivers of the kernel with their   *)
(* interrupt numbers (timer.h, keyboard.h).  TIMER1 and TIMER3 would have  *)
(* the numbers of TIMER0 and TIMER2.                                       *)
EXTENDS Interrupts

CONSTANTS TIMER0, TIMER2, KEYBOARD

TIM01_IRQ == 34
TIM23_IRQ == 35
KMI0_IRQ == 44

OnePerIrq == {TIMER0, TIMER2, KEYBOARD}
Timers == {TIMER0, TIMER2}

OneNumberEach == [d \in OnePerIrq |-> CASE d = TIMER0 -> TIM01_IRQ
                                        [] d = TIMER2 -> TIM23_IRQ
                                        [] d = KEYBOARD -> KMI0_IRQ]
=============================================================================
