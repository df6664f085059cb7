-------------------------- MODULE MCContextSwitch --------------------------
(* Instances of ContextSwitch for TLC: three processes in a ring, and the  *)
(* interrupt numbers of timer.h (TIM01_IRQ, TIM23_IRQ) and keyboard.h      *)
(* (KMI0_IRQ).                                                             *)
EXTENDS ContextSwitchProofs

CONSTANTS p0, p1, p2

ThreeProcs == {p0, p1, p2}
ThreeRing == [p \in ThreeProcs |-> CASE p = p0 -> p1 [] p = p1 -> p2 [] p = p2 -> p0]
TwoProcs == {p0, p1}
TwoRing == [p \in TwoProcs |-> IF p = p0 THEN p1 ELSE p0]

TIM01_IRQ == 34
TIM23_IRQ == 35
KMI0_IRQ == 44

OneTimer == {TIM01_IRQ}
TwoTimers == {TIM01_IRQ, TIM23_IRQ}
Keyboard == {KMI0_IRQ}
NoDevice == {}
=============================================================================
