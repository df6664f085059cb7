------------------------------ MODULE Console ------------------------------
(***************************************************************************)
(* The console: flows of kernel code that call kprintf, UART::putc step by *)
(* step (uart.cpp), and the transmitter.  A tick passes the processor from *)
(* one process to the next between any two steps; an interrupt handler     *)
(* that prints has the processor until it is done.                         *)
(*                                                                         *)
(* Calls are made with interrupts enabled, but for the handler's.          *)
(***************************************************************************)
EXTENDS Kprintf
LOCAL INSTANCE SequencesExt

CONSTANTS
  Procs,     \* the number of processes, that are called 1..Procs
  Formats,   \* what the processes print, with the arguments
  Echoes,    \* what the handler prints
  MaxCalls,  \* bound: calls by one flow
  Depth      \* characters that the transmitter holds; one if its FIFO is off

ASSUME ConsoleAssumption ==
  /\ Procs \in Nat \ {0}
  /\ Formats \subseteq Seq(Items) /\ Echoes \subseteq Seq(Items)
  /\ MaxCalls \in Nat
  /\ Depth \in Nat \ {0}

Handler == 0
Flows == 0..Procs
NEWLINE == 10
RETURN == 13

VARIABLES
  cur,        \* the process that has the processor, or had it last
  pc,         \* pc[f]: where the flow f is in write_character
  out,        \* out[f]: what it has still to call putc with
  asked,      \* asked[f]: all it was asked to print, to count the calls
  fifo,       \* the characters that the transmitter holds, and who sent them
  wire,       \* wire[f]: those of f that it has sent
  lost,       \* lost[f]: those of f that it dropped
  overtaken   \* the flows that lost the processor between test and write

vars == <<cur, pc, out, asked, fifo, wire, lost, overtaken>>

Init ==
  /\ cur = 1
  /\ pc = [f \in Flows |-> "idle"]
  /\ out = [f \in Flows |-> << >>]
  /\ asked = [f \in Flows |-> << >>]
  /\ fifo = << >>
  /\ wire = [f \in Flows |-> << >>]
  /\ lost = [f \in Flows |-> << >>]
  /\ overtaken = {}

(* The flow that executes. *)
Running == IF pc[Handler] # "idle" THEN Handler ELSE cur

Overtake == overtaken' = overtaken \cup (IF pc[cur] = "write" THEN {cur} ELSE {})

(* The next call of putc, or the end of kprintf. *)
AfterPutc(rest) == IF rest = << >> THEN "idle" ELSE "test"

Begin(f, fmt) ==
  /\ pc[f] = "idle"
  /\ Len(asked[f]) < MaxCalls
  /\ asked' = [asked EXCEPT ![f] = Append(@, fmt)]
  /\ out' = [out EXCEPT ![f] = kprintf_internal(fmt)]
  /\ pc' = [pc EXCEPT ![f] = AfterPutc(kprintf_internal(fmt))]
  /\ UNCHANGED <<cur, fifo, wire, lost>>

(* A process calls kprintf. *)
kprintf(p, fmt) ==
  /\ p = Running
  /\ p # Handler
  /\ Begin(p, fmt)
  /\ UNCHANGED overtaken

(* An interrupt is taken, and its handler calls kprintf. *)
Interrupt(fmt) ==
  /\ Begin(Handler, fmt)
  /\ Overtake

(* For checking the properties: TXFF is not looked at. *)
Test_Never(f) ==
  /\ f = Running
  /\ pc[f] = "test"
  /\ pc' = [pc EXCEPT ![f] = "write"]
  /\ UNCHANGED <<cur, out, asked, fifo, wire, lost, overtaken>>

(* As above: the loop goes on until TXFF is set. *)
Test_Inverted(f) ==
  /\ f = Running
  /\ pc[f] = "test"
  /\ Len(fifo) = Depth
  /\ pc' = [pc EXCEPT ![f] = "write"]
  /\ UNCHANGED <<cur, out, asked, fifo, wire, lost, overtaken>>

(* write_character: the loop ends when TXFF is not set. *)
Test(f) ==
  /\ f = Running
  /\ pc[f] = "test"
  /\ Len(fifo) < Depth
  /\ pc' = [pc EXCEPT ![f] = "write"]
  /\ UNCHANGED <<cur, out, asked, fifo, wire, lost, overtaken>>

(* A store to the data register.  It is lost if there is no room. *)
Store(f, c) ==
  IF Len(fifo) < Depth
  THEN fifo' = Append(fifo, [by |-> f, char |-> c]) /\ UNCHANGED lost
  ELSE lost' = [lost EXCEPT ![f] = Append(@, c)] /\ UNCHANGED fifo

(* As above: a newline is not followed by a return. *)
Write_NoReturn(f) ==
  /\ f = Running
  /\ pc[f] = "write"
  /\ Store(f, Head(out[f]))
  /\ out' = [out EXCEPT ![f] = Tail(@)]
  /\ pc' = [pc EXCEPT ![f] = AfterPutc(Tail(out[f]))]
  /\ overtaken' = overtaken \ {f}
  /\ UNCHANGED <<cur, asked, wire>>

(* The store of the character ... *)
Write(f) ==
  /\ f = Running
  /\ pc[f] = "write"
  /\ Store(f, Head(out[f]))
  /\ out' = [out EXCEPT ![f] = Tail(@)]
  /\ pc' = [pc EXCEPT ![f] = IF Head(out[f]) = NEWLINE THEN "return" ELSE AfterPutc(Tail(out[f]))]
  /\ overtaken' = overtaken \ {f}
  /\ UNCHANGED <<cur, asked, wire>>

(* ... and after a newline that of the carriage return, without a test. *)
WriteReturn(f) ==
  /\ f = Running
  /\ pc[f] = "return"
  /\ Store(f, RETURN)
  /\ pc' = [pc EXCEPT ![f] = AfterPutc(out[f])]
  /\ UNCHANGED <<cur, out, asked, wire, overtaken>>

(* The transmitter sends a character. *)
Transmit ==
  /\ fifo # << >>
  /\ wire' = [wire EXCEPT ![Head(fifo).by] = Append(@, Head(fifo).char)]
  /\ fifo' = Tail(fifo)
  /\ UNCHANGED <<cur, pc, out, asked, lost, overtaken>>

(* As above: there is a process after the last one. *)
Tick_OffByOne ==
  /\ pc[Handler] = "idle"
  /\ cur' = (cur % (Procs + 1)) + 1
  /\ Overtake
  /\ UNCHANGED <<pc, out, asked, fifo, wire, lost>>

(* A tick, as RoundRobin has it.  The handler is not interrupted. *)
Tick ==
  /\ pc[Handler] = "idle"
  /\ cur' = (cur % Procs) + 1
  /\ Overtake
  /\ UNCHANGED <<pc, out, asked, fifo, wire, lost>>

Putc(f) == Test(f) \/ Write(f) \/ WriteReturn(f)

Next ==
  \/ \E fmt \in Echoes : Interrupt(fmt)
  \/ \E fmt \in Formats, p \in Flows : kprintf(p, fmt)
  \/ \E f \in Flows : Putc(f)
  \/ Transmit
  \/ Tick

Spec == Init /\ [][Next]_vars

(***************************************************************************)
(* The transmitter sends, ticks keep coming, and between them a process    *)
(* gets to execute.                                                        *)
(***************************************************************************)
LiveSpec ==
  /\ Spec
  /\ WF_vars(Transmit)
  /\ WF_vars(Tick)
  /\ \A f \in Flows : SF_vars(Putc(f))

-----------------------------------------------------------------------------
TypeOK ==
  /\ cur \in 1..Procs
  /\ pc \in [Flows -> {"idle", "test", "write", "return"}]
  /\ out \in [Flows -> Seq(Chars)]
  /\ asked \in [Flows -> Seq(Formats \cup Echoes)]
  /\ fifo \in Seq([by : Flows, char : Chars]) /\ Len(fifo) <= Depth
  /\ wire \in [Flows -> Seq(Chars)]
  /\ lost \in [Flows -> Seq(Chars)]
  /\ overtaken \subseteq Flows

(* What the transmitter has got of f's characters. *)
Accepted(f) ==
  wire[f] \o FlattenSeq([i \in DOMAIN fifo |->
               IF fifo[i].by = f THEN <<fifo[i].char>> ELSE << >>])

(* The text with a return after each newline. *)
WithReturns(text) ==
  FlattenSeq([i \in DOMAIN text |->
    IF text[i] = NEWLINE THEN <<NEWLINE, RETURN>> ELSE <<text[i]>>])

(* What f meant to print. *)
Text(f) ==
  LET items == FlattenSeq(asked[f])
  IN  WithReturns(FlattenSeq([i \in DOMAIN items |-> Meant(items[i])]))

(* What is left of t is s, if characters of t are dropped. *)
IsPartOf(s, t) ==
  LET matched[i \in 0..Len(t)] ==
        IF i = 0 THEN 0
        ELSE LET m == matched[i - 1]
             IN  IF m < Len(s) /\ s[m + 1] = t[i] THEN m + 1 ELSE m
  IN  matched[Len(t)] = Len(s)

PrintedLeastInt(f) ==
  \E i \in DOMAIN asked[f] : \E j \in DOMAIN asked[f][i] :
    asked[f][i][j].kind = "d" /\ asked[f][i][j].arg[1] = LeastInt

(***************************************************************************)
(* "Kernel printf implementation" (kprintf.cpp:2): whatever other flows    *)
(* print at the same time, what arrives of a flow's text arrives in order  *)
(* and in the digits of its numbers, what was dropped is all that is       *)
(* missing, and nothing arrives twice.  The least integer is left out,     *)
(* which kprintf_internal_number does not make positive.                   *)
(***************************************************************************)
SentInOrder ==
  \A f \in Flows : ~PrintedLeastInt(f) =>
    /\ IsPartOf(Accepted(f), Text(f))
    /\ pc[f] = "idle" => Len(Accepted(f)) + Len(lost[f]) = Len(Text(f))

(***************************************************************************)
(* "while(control_register() & UARTFR_TXFF)" (uart.cpp:16): a character    *)
(* that was waited for is only lost if the flow lost the processor between *)
(* the test and the store.  The returns, for which there is no test, are   *)
(* lost without that.                                                      *)
(***************************************************************************)
LostOnlyIfOvertaken ==
  [][\A f \in Flows :
       lost'[f] # lost[f] /\ lost'[f] # Append(lost[f], RETURN) => f \in overtaken]_vars

(* Every call of kprintf returns, a handler's from within its interrupt,   *)
(* where it waits for the transmitter with interrupts masked.              *)
EveryCallReturns == \A f \in Flows : pc[f] # "idle" ~> pc[f] = "idle"
=============================================================================
