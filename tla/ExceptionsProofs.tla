-------------------------- MODULE ExceptionsProofs --------------------------
(***************************************************************************)
(* Whatever exceptions a program takes, and however many: what it keeps,   *)
(* where it goes on, and that a crash of the kernel is final, for programs *)
(* of any size, user code or kernel code, interrupted in leaf functions or *)
(* not.                                                                    *)
(***************************************************************************)
EXTENDS Exceptions, TLAPS

Regs == {"own", "number"}
Dumps == [r4 : Regs, sp : 0..MaxDumps, lr : Addresses]

Types ==
  /\ cpsr \in Status
  /\ spsr \in [Modes -> Saved]
  /\ lr \in [Modes -> Addresses]
  /\ sp \in [Modes -> 0..MaxDumps]
  /\ r4 \in Regs
  /\ pc \in Addresses
  /\ frames \in [Modes -> [1..MaxDumps -> Dumps]]
  /\ phase \in {"code", "vector", "handler", "return", "panic", "halted"}
  /\ kind \in Kinds
  /\ before \in [cpsr : Status, lr : Addresses, sp : [Modes -> 0..MaxDumps],
                 r4 : Regs, pc : Addresses]

(* User code runs with interrupts enabled.                                 *)
Plain(c) == c.mode = "usr" /\ ~c.imask
Empty == [m \in Modes |-> 0]

(***************************************************************************)
(* What a program has while it runs: its mode c, its stacks s, the pc at p *)
(* and its return address at l.  A kernel function that was interrupted    *)
(* may have lost its return address to a handler's.                        *)
(***************************************************************************)
Running(c, s, p, l) ==
  /\ s = Empty
  /\ \/ /\ Plain(c) /\ Plain(spsr["svc"])
        /\ p \in Loop \cup {Leaf, Leaf + 1} /\ l \in Loop
     \/ /\ c.mode = "svc" /\ spsr["svc"].mode \in {"svc", "none"}
        /\ p \in Loop \cup {Leaf, Leaf + 1, InCpp} /\ l \in Loop \cup {InCpp}

(* The program is running, or was when it took the exception.              *)
InCode == phase = "code" => Running(cpsr, sp, pc, lr[cpsr.mode])

Interrupted ==
  phase # "code" =>
    /\ Running(before.cpsr, before.sp, before.pc, before.lr)
    /\ kind = "irq" => ~before.cpsr.imask
    /\ kind # "irq" => before.pc \notin {CodeSize - 1, Leaf + 1}
    /\ kind = "svc" => before.cpsr.mode = "usr"

(* On the way into an exception and back, unless the kernel crashed.       *)
Detour == phase # "code" /\ ~KernelCrash

(* What was interrupted is in the banked registers ...                     *)
InVector ==
  Detour /\ phase = "vector" =>
    /\ cpsr.mode = Taking[kind] /\ cpsr.imask
    /\ spsr[Taking[kind]] = before.cpsr
    /\ lr[Taking[kind]] = before.pc + Ahead[kind]
    /\ sp = Empty
    /\ r4 = before.r4
    /\ before.cpsr.mode = "usr" => lr["usr"] = before.lr

(* ... and then in the dump, on the stack of the mode the handler runs in. *)
ServedIn == IF kind = "irq" THEN "svc" ELSE Taking[kind]

Goal == before.pc + TableSays[kind] + Skipped

Dumped == frames[StackOf[ServedIn]][1]

InHandler ==
  Detour /\ phase # "vector" =>
    /\ phase \in {"handler", "return"}
    /\ cpsr.mode = ServedIn /\ cpsr.imask
    /\ kind # "irq" => spsr[ServedIn] = before.cpsr
    /\ sp = [Empty EXCEPT ![ServedIn] = 1]
    /\ Dumped.lr = Goal
    /\ Dumped.sp = 0
    /\ kind # "svc" => Dumped.r4 = before.r4
    /\ before.cpsr.mode = "usr" => lr["usr"] = before.lr
    /\ kind = "irq" => lr["svc"] = InCpp

(* kpanic aborted: the dump leads back to it, and not to the program.      *)
PanicAborted ==
  /\ kind = "dabt"
  /\ cpsr.mode = "abt"
  /\ spsr["abt"].mode \in {"und", "abt"} /\ spsr["abt"].imask
  /\ phase = "vector" => lr["abt"] = Panicking + 2
  /\ phase # "vector" => frames["abt"][sp["abt"]].lr = Panicking

(* A kernel that crashed is in a handler with interrupts masked, in kpanic *)
(* or halted.                                                              *)
InCrash ==
  KernelCrash =>
    /\ cpsr.imask
    /\ cpsr.mode \in {"und", "abt"}
    /\ phase = "vector" =>
         /\ cpsr.mode = Taking[kind]
         /\ sp[cpsr.mode] < MaxDumps
         /\ lr[cpsr.mode] \in Ahead[kind]..(Panicking + 2)
    /\ phase \in {"vector", "handler"} => spsr[cpsr.mode].mode = "svc" \/ PanicAborted
    /\ phase = "handler" => sp[cpsr.mode] > 0
    /\ phase = "return" => PanicAborted /\ sp["abt"] > 0
    /\ phase = "panic" => pc = Panicking

IInv ==
  /\ Types
  /\ InCode
  /\ Interrupted
  /\ InVector
  /\ InHandler
  /\ InCrash

-----------------------------------------------------------------------------
(* The tables, entry by entry. *)
LEMMA Tables ==
  /\ Taking["undef"] = "und" /\ Taking["svc"] = "svc" /\ Taking["pabt"] = "abt"
  /\ Taking["dabt"] = "abt" /\ Taking["irq"] = "irq"
  /\ Ahead["undef"] = 1 /\ Ahead["svc"] = 1 /\ Ahead["pabt"] = 1
  /\ Ahead["dabt"] = 2 /\ Ahead["irq"] = 1
  /\ TableSays["undef"] = 1 /\ TableSays["svc"] = 1 /\ TableSays["pabt"] = 0
  /\ TableSays["dabt"] = 0 /\ TableSays["irq"] = 0
  /\ StackOf["usr"] = "usr" /\ StackOf["svc"] = "svc" /\ StackOf["irq"] = "irq"
  /\ StackOf["abt"] = "abt" /\ StackOf["und"] = "abt"
  BY DEF Taking, Ahead, TableSays, StackOf, Modes

(* The kinds of exceptions, one by one. *)
LEMMA Kinds5 == \A k \in Kinds : k \in {"undef", "pabt", "dabt", "svc", "irq"}
  BY DEF Kinds, Faults

(* The loop is left only by a call. *)
LEMMA AroundTheLoop ==
  ASSUME NEW p \in Loop
  PROVE  (p + 1) % CodeSize \in Loop
<1>1. CodeSize \in Nat \ {0} /\ p + 1 \in Nat
  BY ExceptionsAssumption DEF Loop
<1>2. \A a \in Nat, n \in Nat \ {0} : a % n \in 0..(n - 1)
  OBVIOUS
<1> QED
  BY <1>1, <1>2 DEF Loop

(* Addresses in ascending order. *)
LEMMA Layout ==
  /\ CodeSize \in Nat /\ CodeSize >= 2
  /\ Leaf = CodeSize /\ InCpp = CodeSize + 5 /\ Panicking = CodeSize + 10
  /\ Loop \subseteq Addresses /\ Loop \subseteq Nat /\ 0 \in Loop
  /\ \A p \in Loop : p < CodeSize
  /\ \A p \in Int : p \in Addresses <=> -2 <= p /\ p <= Panicking + 2
  /\ Addresses \subseteq Int
  BY ExceptionsAssumption DEF Leaf, InCpp, Panicking, Loop, Addresses

(* The invariant holds at first. *)
LEMMA InitInvariant == Init => IInv
<1> SUFFICES ASSUME Init PROVE IInv
  OBVIOUS
<1>1. PICK mode \in Programs, f \in BOOLEAN : cpsr = [mode |-> mode, imask |-> FALSE, flags |-> f]
  BY DEF Init
<1>2. mode \in {"svc", "usr"} /\ MaxDumps \in Nat
  BY ExceptionsAssumption
<1>3. cpsr \in Status /\ cpsr.mode = mode /\ ~cpsr.imask
  BY <1>1, <1>2 DEF Status, Modes
<1>4. phase = "code" /\ sp = Empty /\ pc = 0 /\ lr[cpsr.mode] = 0
  BY <1>1, <1>2, <1>3 DEF Init, Empty, Modes
<1>7. PICK s \in Saved :
        /\ \/ cpsr.mode = "svc" /\ s.mode \in {"svc", "none"}
           \/ cpsr.mode = "usr" /\ s.mode = "usr" /\ ~s.imask
        /\ spsr = [m \in Modes |-> s]
  BY DEF Init
<1>8. spsr \in [Modes -> Saved] /\ spsr["svc"] = s
  BY <1>7 DEF Modes
<1>5. Types
  <2>1. before \in [cpsr : Status, lr : Addresses, sp : [Modes -> 0..MaxDumps],
                    r4 : Regs, pc : Addresses]
    BY <1>2, <1>3, Layout DEF Init, Regs
  <2>2. NoDump \in Dumps
    BY <1>2, Layout DEF NoDump, Dumps, Regs
  <2>3. frames \in [Modes -> [1..MaxDumps -> Dumps]]
    BY <2>2 DEF Init
  <2> QED
    BY <1>2, <1>3, <1>8, <2>1, <2>3, Layout DEF Init, Types, Regs, Kinds
<1>6. InCode
  BY <1>2, <1>3, <1>4, <1>7, <1>8, Layout DEF InCode, Running, Plain
<1> QED
  BY <1>4, <1>5, <1>6 DEF IInv, Interrupted, InVector, InHandler, InCrash, Detour, KernelCrash

(* Code that runs changes nothing of CPSR but the flags. *)
LEMMA FlagsOnly ==
  ASSUME cpsr \in Status, SetsFlags
  PROVE  cpsr' \in Status /\ cpsr'.mode = cpsr.mode /\ cpsr'.imask = cpsr.imask
  BY DEF Status, SetsFlags

(* The program goes on in its loop or in the leaf function. *)
LEMMA ExecuteStep == ASSUME IInv, Execute PROVE IInv'
<1>1. Types /\ Running(cpsr, sp, pc, lr[cpsr.mode]) /\ phase = "code" /\ phase' = "code"
  BY DEF IInv, InCode, Execute
<1>2. /\ spsr' = spsr /\ lr' = lr /\ sp' = sp /\ frames' = frames
      /\ kind' = kind /\ before' = before /\ r4' = "own"
  BY DEF Execute
<1>8. cpsr' \in Status /\ cpsr'.mode = cpsr.mode /\ cpsr'.imask = cpsr.imask
  BY <1>1, FlagsOnly DEF Execute, Types
<1>3. pc' \in Loop \cup {Leaf + 1, lr[cpsr.mode]}
      /\ (pc' = lr[cpsr.mode] \/ pc' \in Loop \cup {Leaf + 1})
  BY AroundTheLoop DEF Execute
<1>4. pc' \in Addresses
  <2>1. lr[cpsr.mode] \in Loop \cup {InCpp}
    BY <1>1 DEF Running
  <2> QED
    BY <1>3, <2>1, Layout
<1>5. Types'
  BY <1>1, <1>2, <1>4, <1>8 DEF Types, Regs
<1>6. Running(cpsr', sp, pc', lr[cpsr.mode])
  BY <1>1, <1>3, <1>8 DEF Running, Plain
<1>7. InCode'
  BY <1>2, <1>6, <1>8 DEF InCode, Running
<1> QED
  BY <1>1, <1>5, <1>7 DEF IInv, Interrupted, InVector, InHandler, InCrash, Detour, KernelCrash

(* The return address of a call is in the loop. *)
LEMMA CallStep == ASSUME IInv, Call PROVE IInv'
<1>1. Types /\ Running(cpsr, sp, pc, lr[cpsr.mode]) /\ phase = "code" /\ phase' = "code"
  BY DEF IInv, InCode, Call
<1>2. /\ cpsr' = cpsr /\ spsr' = spsr /\ sp' = sp /\ frames' = frames /\ r4' = r4
      /\ kind' = kind /\ before' = before /\ pc' = Leaf
  BY DEF Call
<1>3. cpsr.mode \in Modes
  BY <1>1 DEF Types, Status
<1>4. lr' \in [Modes -> Addresses] /\ lr'[cpsr.mode] \in Loop
  BY <1>1, <1>3, AroundTheLoop, Layout DEF Call, Types
<1>5. Types'
  BY <1>1, <1>2, <1>4, Layout DEF Types
<1>6. Running(cpsr, sp, Leaf, lr'[cpsr.mode])
  BY <1>1, <1>4 DEF Running
<1>7. InCode'
  BY <1>2, <1>6 DEF InCode, Running
<1> QED
  BY <1>1, <1>5, <1>7 DEF IInv, Interrupted, InVector, InHandler, InCrash, Detour, KernelCrash

(* Kernel code may run with interrupts masked or not. *)
LEMMA MaskStep == ASSUME IInv, Mask PROVE IInv'
<1>1. Types /\ Running(cpsr, sp, pc, lr[cpsr.mode]) /\ phase = "code" /\ phase' = "code"
  BY DEF IInv, InCode, Mask
<1>2. /\ spsr' = spsr /\ lr' = lr /\ sp' = sp /\ frames' = frames /\ r4' = r4
      /\ kind' = kind /\ before' = before /\ pc' = pc
  BY DEF Mask
<1>3. cpsr.mode = "svc" /\ cpsr' \in Status /\ cpsr'.mode = "svc"
  BY <1>1 DEF Mask, Types, Status
<1>4. Types'
  BY <1>1, <1>2, <1>3 DEF Types
<1>5. Running(cpsr', sp, pc, lr["svc"])
  BY <1>1, <1>3 DEF Running, Plain
<1>6. InCode'
  BY <1>2, <1>3, <1>5 DEF InCode, Running
<1> QED
  BY <1>1, <1>4, <1>6 DEF IInv, Interrupted, InVector, InHandler, InCrash, Detour, KernelCrash

-----------------------------------------------------------------------------
(* What the architecture does changes no other registers than those of the *)
(* mode that takes the exception.                                          *)
LEMMA VectorTypes ==
  ASSUME Types, NEW k \in Kinds, Vector(k), pc \in 0..Panicking,
         before' \in [cpsr : Status, lr : Addresses, sp : [Modes -> 0..MaxDumps],
                      r4 : Regs, pc : Addresses]
  PROVE  /\ Types'
         /\ Taking[k] \in Modes
         /\ cpsr'.mode = Taking[k] /\ cpsr'.imask
         /\ spsr' = [spsr EXCEPT ![Taking[k]] = cpsr]
         /\ spsr'[Taking[k]] = cpsr
         /\ lr'[Taking[k]] = pc + Ahead[k]
         /\ \A m \in Modes : m # Taking[k] => lr'[m] = lr[m] /\ spsr'[m] = spsr[m]
         /\ kind' = k /\ phase' = "vector" /\ sp' = sp /\ r4' = r4 /\ frames' = frames
<1>1. Taking[k] \in Modes /\ Ahead[k] \in 1..2
  BY Kinds5, Tables DEF Modes
<1>2. pc + Ahead[k] \in Addresses
  BY <1>1, Layout
<1>3. lr' \in [Modes -> Addresses] /\ lr'[Taking[k]] = pc + Ahead[k]
      /\ \A m \in Modes : m # Taking[k] => lr'[m] = lr[m]
  BY <1>1, <1>2 DEF Vector, Types
<1>4. /\ spsr' \in [Modes -> Saved] /\ spsr'[Taking[k]] = cpsr
      /\ \A m \in Modes : m # Taking[k] => spsr'[m] = spsr[m]
  <2>1. cpsr \in Saved
    BY DEF Types, Status, Saved
  <2> QED
    BY <1>1, <2>1 DEF Vector, Types
<1>5. cpsr' \in Status /\ cpsr'.mode = Taking[k] /\ cpsr'.imask
  BY <1>1 DEF Vector, Status, Types
<1> QED
  BY <1>1, <1>3, <1>4, <1>5 DEF Vector, Types

(* An exception of the program. *)
LEMMA TakeStep ==
  ASSUME IInv, NEW k \in Kinds, Take(k)
  PROVE  IInv'
<1>1. Types /\ Running(cpsr, sp, pc, lr[cpsr.mode]) /\ phase = "code" /\ Vector(k)
  BY DEF IInv, InCode, Take
<1>2. before' = [cpsr |-> cpsr, lr |-> lr[cpsr.mode], sp |-> sp, r4 |-> r4, pc |-> pc]
  BY DEF Take
<1>3. before' \in [cpsr : Status, lr : Addresses, sp : [Modes -> 0..MaxDumps],
                   r4 : Regs, pc : Addresses]
  BY <1>1, <1>2 DEF Types, Status
<1>4. pc \in 0..Panicking /\ pc \in Int
  <2>1. pc \in Loop \cup {Leaf, Leaf + 1, InCpp}
    BY <1>1 DEF Running
  <2>2. \A p \in Loop : p \in 0..Panicking
    BY Layout
  <2> QED
    BY <2>1, <2>2, Layout
<1>5. /\ Types'
      /\ Taking[k] \in Modes
      /\ cpsr'.mode = Taking[k] /\ cpsr'.imask
      /\ spsr'[Taking[k]] = cpsr
      /\ lr'[Taking[k]] = pc + Ahead[k]
      /\ \A m \in Modes : m # Taking[k] => lr'[m] = lr[m] /\ spsr'[m] = spsr[m]
      /\ kind' = k /\ phase' = "vector" /\ sp' = sp /\ r4' = r4 /\ frames' = frames
  BY <1>1, <1>3, <1>4, VectorTypes
<1>6. /\ k = "irq" => ~cpsr.imask
      /\ k # "irq" => pc \notin {CodeSize - 1, Leaf + 1}
      /\ k = "svc" => cpsr.mode = "usr"
  BY DEF Take
<1>7. \/ k # "svc" /\ spsr'["svc"] = spsr["svc"]
      \/ k = "svc" /\ spsr'["svc"] = cpsr
  <2>1. "svc" \in Modes
    BY DEF Modes
  <2>2. CASE k = "svc"
    BY <1>5, <2>2, Tables
  <2>3. CASE k # "svc"
    <3>1. Taking[k] # "svc"
      BY <2>3, Kinds5, Tables
    <3> QED
      BY <1>5, <2>1, <2>3, <3>1
  <2> QED
    BY <2>2, <2>3
<1>8. Interrupted'
  <2>2. \/ /\ Plain(cpsr) /\ Plain(spsr'["svc"])
           /\ pc \in Loop \cup {Leaf, Leaf + 1} /\ lr[cpsr.mode] \in Loop
        \/ /\ cpsr.mode = "svc" /\ spsr'["svc"].mode \in {"svc", "none"}
           /\ pc \in Loop \cup {Leaf, Leaf + 1, InCpp} /\ lr[cpsr.mode] \in Loop \cup {InCpp}
    BY <1>1, <1>6, <1>7 DEF Running, Plain
  <2>3. sp = Empty
    BY <1>1 DEF Running
  <2> QED
    BY <1>2, <1>5, <1>6, <2>2, <2>3 DEF Interrupted, Running
<1>9. CASE k \in Faults /\ cpsr.mode = "svc"
  <2>1. KernelCrash'
    BY <1>2, <1>5, <1>9 DEF KernelCrash
  <2>2. Taking[k] \in {"und", "abt"} /\ Ahead[k] \in 1..2
    BY <1>9, Tables DEF Faults
  <2>3. sp[Taking[k]] = 0 /\ MaxDumps \in Nat /\ MaxDumps >= 2
    BY <1>1, <1>5, ExceptionsAssumption DEF Running, Empty
  <2>4. pc + Ahead[k] \in Ahead[k]..(Panicking + 2)
    BY <1>4, <2>2, Layout
  <2>5. InCrash'
    BY <1>5, <1>9, <2>2, <2>3, <2>4 DEF InCrash
  <2> QED
    BY <1>5, <1>8, <2>1, <2>5 DEF IInv, InCode, InVector, InHandler, Detour
<1>10. CASE ~(k \in Faults /\ cpsr.mode = "svc")
  <2>1. ~KernelCrash'
    BY <1>2, <1>5, <1>10 DEF KernelCrash
  <2>2. cpsr.mode = "usr" => lr'["usr"] = lr["usr"]
    <3>1. Taking[k] # "usr" /\ "usr" \in Modes
      BY Kinds5, Tables DEF Modes
    <3> QED
      BY <1>5, <3>1
  <2>3. InVector'
    BY <1>1, <1>2, <1>5, <2>2 DEF InVector, Running
  <2> QED
    BY <1>5, <1>8, <2>1, <2>3 DEF IInv, InCode, InHandler, InCrash, Detour
<1> QED
  BY <1>9, <1>10

(* kpanic's own abort. *)
LEMMA AbortInPanicStep == ASSUME IInv, AbortInPanic PROVE IInv'
<1>1. Types /\ phase = "panic" /\ Vector("dabt") /\ before' = before /\ sp["abt"] < MaxDumps
  BY DEF IInv, AbortInPanic
<1>2. KernelCrash
  BY <1>1 DEF IInv, InHandler, Detour
<1>3. cpsr.imask /\ cpsr.mode \in {"und", "abt"} /\ pc = Panicking
  BY <1>1, <1>2 DEF IInv, InCrash
<1>4. "dabt" \in Kinds /\ pc \in 0..Panicking /\ "abt" \in Modes /\ "svc" \in Modes
  BY <1>3, Layout DEF Kinds, Faults, Modes
<1>5. /\ Types'
      /\ cpsr'.mode = "abt" /\ cpsr'.imask
      /\ spsr'["abt"] = cpsr
      /\ lr'["abt"] = Panicking + 2
      /\ spsr'["svc"] = spsr["svc"]
      /\ kind' = "dabt" /\ phase' = "vector" /\ sp' = sp
  <2>1. before' \in [cpsr : Status, lr : Addresses, sp : [Modes -> 0..MaxDumps],
                     r4 : Regs, pc : Addresses]
    BY <1>1 DEF Types
  <2> QED
    BY <1>1, <1>3, <1>4, <2>1, Tables, VectorTypes
<1>6. KernelCrash'
  BY <1>1, <1>2, <1>5 DEF KernelCrash, Faults
<1>7. InCrash'
  <2>1. Panicking + 2 \in 2..(Panicking + 2) /\ Ahead["dabt"] = 2
    BY Layout, Tables
  <2> QED
    BY <1>1, <1>3, <1>5, <2>1, Tables DEF InCrash, PanicAborted
<1>8. Interrupted'
  <2>1. kind \in Faults
    BY <1>2 DEF KernelCrash
  <2>2. Running(before.cpsr, before.sp, before.pc, before.lr)
        /\ before.pc \notin {CodeSize - 1, Leaf + 1}
    BY <1>1, <2>1 DEF IInv, Interrupted, Faults
  <2> QED
    BY <1>1, <1>5, <2>2 DEF Interrupted, Running
<1> QED
  BY <1>5, <1>6, <1>7, <1>8 DEF IInv, InCode, InVector, InHandler, Detour

-----------------------------------------------------------------------------
(* What every trampoline does. *)
LEMMA SaveStep ==
  ASSUME Types, NEW status \in Status, NEW link \in Addresses, NEW reg \in Regs,
         Save(status, link, reg), sp[status.mode] < MaxDumps
  PROVE  /\ Types'
         /\ phase = "vector" /\ phase' = "handler" /\ cpsr' = status
         /\ sp' = [sp EXCEPT ![status.mode] = @ + 1]
         /\ sp'[status.mode] = sp[status.mode] + 1
         /\ frames'[StackOf[status.mode]][sp[status.mode] + 1] =
              [r4 |-> reg, sp |-> sp[status.mode], lr |-> link]
         /\ lr'[status.mode] = InCpp
         /\ \A m \in Modes : m # status.mode => lr'[m] = lr[m]
         /\ spsr' = spsr /\ kind' = kind /\ before' = before
<1> DEFINE m == status.mode
           dump == [r4 |-> reg, sp |-> sp[m], lr |-> link]
<1>1. m \in Modes /\ StackOf[m] \in Modes
  BY Tables DEF Status, Modes
<1>2. MaxDumps \in Nat /\ sp[m] \in 0..MaxDumps /\ sp[m] + 1 \in 1..MaxDumps
  BY <1>1, ExceptionsAssumption DEF Types
<1>3. dump \in Dumps
  BY <1>2 DEF Dumps
<1>4. /\ cpsr' = status /\ sp' = [sp EXCEPT ![m] = @ + 1] /\ lr' = [lr EXCEPT ![m] = InCpp]
      /\ frames' = [frames EXCEPT ![StackOf[m]][sp[m] + 1] = dump]
      /\ r4' = reg /\ phase' = "handler" /\ phase = "vector"
      /\ spsr' = spsr /\ pc' = pc /\ kind' = kind /\ before' = before
  BY DEF Save
<1>5. /\ frames' \in [Modes -> [1..MaxDumps -> Dumps]]
      /\ frames'[StackOf[m]][sp[m] + 1] = dump
  <2> HIDE DEF dump, m
  <2> QED
    BY <1>1, <1>2, <1>3, <1>4 DEF Types
<1>6. sp' \in [Modes -> 0..MaxDumps] /\ sp'[m] = sp[m] + 1
  <2>1. sp[m] + 1 \in 0..MaxDumps
    BY <1>2
  <2> HIDE DEF m
  <2> QED
    BY <1>1, <1>4, <2>1 DEF Types
<1>7. lr' \in [Modes -> Addresses] /\ lr'[m] = InCpp
      /\ \A n \in Modes : n # m => lr'[n] = lr[n]
  BY <1>1, <1>4, Layout DEF Types
<1>8. Types'
  BY <1>4, <1>5, <1>6, <1>7 DEF Types
<1> QED
  BY <1>4, <1>5, <1>6, <1>7, <1>8

(* The trampolines, in one: what each of them makes of CPSR, LR and r4. *)
SavedStatus ==
  IF kind = "irq" THEN [mode |-> "svc", imask |-> TRUE, flags |-> FALSE] ELSE cpsr
SavedLink ==
  IF kind = "dabt" THEN lr["abt"] - 2
  ELSE IF kind = "irq" THEN lr["irq"] - 1 ELSE lr[Taking[kind]]
SavedReg == IF kind = "svc" THEN "number" ELSE r4

(* Every trampoline saves these. *)
LEMMA TrampolineSaves ==
  ASSUME Trampoline
  PROVE  Save(SavedStatus, SavedLink, SavedReg)
<1>1. CASE illegal_instruction_trampoline
  BY <1>1, Tables
  DEF illegal_instruction_trampoline, SavedStatus, SavedLink, SavedReg
<1>2. CASE prefetch_abort_trampoline
  BY <1>2, Tables
  DEF prefetch_abort_trampoline, SavedStatus, SavedLink, SavedReg
<1>3. CASE data_abort_trampoline
  BY <1>3, Tables
  DEF data_abort_trampoline, SavedStatus, SavedLink, SavedReg
<1>4. CASE irq_trampoline
  BY <1>4, Tables
  DEF irq_trampoline, SavedStatus, SavedLink, SavedReg
<1>5. CASE svc_trap
  BY <1>5, Tables
  DEF svc_trap, SavedStatus, SavedLink, SavedReg
<1> QED
  BY <1>1, <1>2, <1>3, <1>4, <1>5 DEF Trampoline

(* The dump of a trampoline has what the program needs to go on. *)
LEMMA TrampolineStep == ASSUME IInv, Trampoline PROVE IInv'
<1>1. Types /\ phase = "vector" /\ kind \in Kinds
  BY TrampolineSaves DEF IInv, Types, Save
<1>2. Save(SavedStatus, SavedLink, SavedReg)
  BY TrampolineSaves
<1>3. /\ cpsr.mode = Taking[kind] /\ sp[Taking[kind]] < MaxDumps
      /\ lr[Taking[kind]] \in Ahead[kind]..(Panicking + 2)
      /\ cpsr.imask
  <2>1. CASE KernelCrash
    BY <1>1, <2>1 DEF IInv, InCrash
  <2>2. CASE ~KernelCrash
    <3>1. /\ cpsr.mode = Taking[kind] /\ cpsr.imask
          /\ lr[Taking[kind]] = before.pc + Ahead[kind] /\ sp = Empty
      BY <1>1, <2>2 DEF IInv, InVector, Detour
    <3>2. before.pc \in Loop \cup {Leaf, Leaf + 1, InCpp}
      BY <1>1 DEF IInv, Interrupted, Running
    <3>3. before.pc \in 0..(CodeSize + 5)
      <4>1. \A p \in Loop : p \in 0..(CodeSize + 5)
        BY Layout
      <4>2. CASE before.pc \in Loop
        BY <4>1, <4>2
      <4>3. CASE before.pc \in {Leaf, Leaf + 1, InCpp}
        BY <4>3, Layout
      <4> QED
        BY <3>2, <4>2, <4>3
    <3>4. Ahead[kind] \in 1..2 /\ Taking[kind] \in Modes
      BY <1>1, Kinds5, Tables DEF Modes
    <3>5. before.pc + Ahead[kind] \in Ahead[kind]..(Panicking + 2)
      BY <3>3, <3>4, Layout
    <3>6. Empty[Taking[kind]] = 0 /\ 0 < MaxDumps
      BY <3>4, ExceptionsAssumption DEF Empty
    <3> QED
      BY <3>1, <3>5, <3>6
  <2> QED
    BY <2>1, <2>2
<1>4. /\ SavedStatus \in Status /\ SavedStatus.imask
      /\ SavedStatus.mode = ServedIn /\ SavedReg \in Regs
  <2>1. SavedReg \in Regs
    BY <1>1 DEF SavedReg, Types, Regs
  <2>2. CASE kind = "irq"
    BY <2>1, <2>2 DEF SavedStatus, ServedIn, Status, Modes
  <2>3. CASE kind # "irq"
    BY <1>1, <1>3, <2>1, <2>3 DEF SavedStatus, ServedIn, Types
  <2> QED
    BY <2>2, <2>3
<1>5. SavedLink \in Addresses
  <2>1. Taking[kind] \in Modes /\ Ahead[kind] \in 1..2
    BY <1>1, Kinds5, Tables DEF Modes
  <2> QED
    BY <1>3, <2>1, Layout, Tables DEF SavedLink
<1>6. sp[SavedStatus.mode] < MaxDumps
  <2>1. CASE kind = "irq"
    <3>1. sp = Empty
      BY <1>1, <2>1 DEF IInv, InVector, Detour, KernelCrash, Faults
    <3> QED
      BY <1>4, <2>1, <3>1, ExceptionsAssumption DEF ServedIn, Empty, Modes
  <2>2. CASE kind # "irq"
    BY <1>3, <1>4, <2>2 DEF ServedIn
  <2> QED
    BY <2>1, <2>2
<1>7. /\ Types'
      /\ phase' = "handler" /\ cpsr' = SavedStatus
      /\ sp' = [sp EXCEPT ![ServedIn] = @ + 1]
      /\ sp'[ServedIn] = sp[ServedIn] + 1
      /\ frames'[StackOf[ServedIn]][sp[ServedIn] + 1] =
           [r4 |-> SavedReg, sp |-> sp[ServedIn], lr |-> SavedLink]
      /\ lr'[ServedIn] = InCpp
      /\ \A m \in Modes : m # ServedIn => lr'[m] = lr[m]
      /\ spsr' = spsr /\ kind' = kind /\ before' = before
  BY <1>1, <1>2, <1>4, <1>5, <1>6, SaveStep
<1>8. Interrupted'
  BY <1>1, <1>7 DEF IInv, Interrupted, Running
<1>9. CASE KernelCrash
  <2>1. KernelCrash' /\ kind \in Faults /\ kind # "irq"
    BY <1>1, <1>7, <1>9 DEF KernelCrash, Faults
  <2>2. cpsr' = cpsr /\ ServedIn = cpsr.mode /\ cpsr.mode \in {"und", "abt"}
    BY <1>1, <1>3, <1>7, <1>9, <2>1 DEF SavedStatus, ServedIn, IInv, InCrash
  <2>3. sp'[cpsr'.mode] > 0
    <3>1. sp[cpsr.mode] \in 0..MaxDumps /\ MaxDumps \in Nat
      BY <1>1, <2>2, ExceptionsAssumption DEF Types, Modes
    <3> QED
      BY <1>7, <2>2, <3>1
  <2>4. spsr'[cpsr'.mode].mode = "svc" \/ PanicAborted'
    <3>1. CASE spsr[cpsr.mode].mode = "svc"
      BY <1>7, <2>2, <3>1
    <3>2. CASE PanicAborted
      <4>1. SavedLink = Panicking /\ ServedIn = "abt"
        BY <1>1, <2>2, <3>2, Layout DEF PanicAborted, SavedLink
      <4>2. frames'["abt"][sp["abt"] + 1].lr = Panicking /\ sp'["abt"] = sp["abt"] + 1
        BY <1>7, <4>1, Tables
      <4> QED
        BY <1>7, <2>2, <3>2, <4>1, <4>2 DEF PanicAborted
    <3> QED
      BY <1>1, <1>9, <3>1, <3>2 DEF IInv, InCrash
  <2>5. InCrash'
    BY <1>3, <1>7, <2>2, <2>3, <2>4 DEF InCrash
  <2> QED
    BY <1>7, <1>8, <2>1, <2>5 DEF IInv, InCode, InVector, InHandler, Detour
<1>10. CASE ~KernelCrash
  <2>1. ~KernelCrash'
    BY <1>1, <1>7, <1>10 DEF KernelCrash
  <2>2. /\ spsr[Taking[kind]] = before.cpsr
        /\ lr[Taking[kind]] = before.pc + Ahead[kind]
        /\ sp = Empty /\ r4 = before.r4
        /\ before.cpsr.mode = "usr" => lr["usr"] = before.lr
    BY <1>1, <1>10 DEF IInv, InVector, Detour
  <2>3. Running(before.cpsr, before.sp, before.pc, before.lr)
        /\ (kind = "irq" => ~before.cpsr.imask)
    BY <1>1 DEF IInv, Interrupted
  <2>4. before.pc \in Int
    BY <1>1, Layout DEF Types
  <2>5. SavedLink = Goal
    BY <1>1, <2>2, <2>4, Kinds5, Tables DEF SavedLink, Goal, Skipped
  <2>6. kind # "irq" => spsr'[ServedIn] = before.cpsr
    BY <1>7, <2>2 DEF ServedIn
  <2>7. ServedIn \in Modes \ {"usr"} /\ "usr" \in Modes
    BY <1>1, Kinds5, Tables DEF ServedIn, Modes
  <2>8. sp' = [Empty EXCEPT ![ServedIn] = 1] /\ sp[ServedIn] = 0
    BY <1>7, <2>2, <2>7 DEF Empty
  <2>9. frames'[StackOf[ServedIn]][1] =
          [r4 |-> SavedReg, sp |-> 0, lr |-> Goal]
    BY <1>7, <2>5, <2>8
  <2>10. cpsr'.mode = ServedIn /\ cpsr'.imask
    BY <1>4, <1>7
  <2>11. ServedIn' = ServedIn /\ Goal' = Goal
    BY <1>7 DEF ServedIn, Goal, Skipped
  <2>12. InHandler'
    <3>1. kind # "svc" => SavedReg = before.r4
      BY <2>2 DEF SavedReg
    <3>2. kind = "irq" => lr'["svc"] = InCpp
      BY <1>7 DEF ServedIn
    <3>3. before.cpsr.mode = "usr" => lr'["usr"] = before.lr
      BY <1>7, <2>2, <2>7
    <3>4. Dumped' = [r4 |-> SavedReg, sp |-> 0, lr |-> Goal]
      BY <2>9, <2>11 DEF Dumped
    <3>5. /\ Dumped'.lr = Goal' /\ Dumped'.sp = 0
          /\ kind' # "svc" => Dumped'.r4 = before'.r4
      BY <1>7, <2>11, <3>1, <3>4
    <3>6. /\ kind' # "irq" => spsr'[ServedIn'] = before'.cpsr
          /\ sp' = [Empty EXCEPT ![ServedIn'] = 1]
          /\ cpsr'.mode = ServedIn' /\ cpsr'.imask
      BY <1>7, <2>6, <2>8, <2>10, <2>11
    <3>7. /\ before'.cpsr.mode = "usr" => lr'["usr"] = before'.lr
          /\ kind' = "irq" => lr'["svc"] = InCpp
      BY <1>7, <3>2, <3>3
    <3> QED
      BY <1>7, <3>5, <3>6, <3>7 DEF InHandler, Empty
  <2> QED
    BY <1>7, <1>8, <2>1, <2>12 DEF IInv, InCode, InVector, InCrash, Detour
<1> QED
  BY <1>9, <1>10

-----------------------------------------------------------------------------
(* A fault of the program goes back to it, and one of the kernel to kpanic. *)
LEMMA CrashHandlerStep == ASSUME IInv, crash_handler PROVE IInv'
<1>1. /\ Types /\ phase = "handler" /\ kind \in Faults
      /\ cpsr' \in Status /\ cpsr'.mode = cpsr.mode /\ cpsr'.imask = cpsr.imask
      /\ spsr' = spsr /\ lr' = lr /\ sp' = sp /\ r4' = r4
      /\ frames' = frames /\ kind' = kind /\ before' = before
  BY FlagsOnly DEF IInv, Types, crash_handler
<1>2. \/ spsr[cpsr.mode].mode = "svc" /\ phase' = "panic" /\ pc' = Panicking
      \/ spsr[cpsr.mode].mode # "svc" /\ phase' = "return" /\ pc' = pc
  BY DEF crash_handler
<1>3. Types'
  <2>1. pc' \in Addresses
    BY <1>1, <1>2, Layout DEF Types
  <2> QED
    BY <1>1, <1>2, <2>1 DEF Types
<1>4. Interrupted'
  BY <1>1, <1>2 DEF IInv, Interrupted, Running
<1>5. KernelCrash' <=> KernelCrash
  BY <1>1, <1>2 DEF KernelCrash
<1>6. CASE KernelCrash
  <2>1. /\ cpsr.imask /\ cpsr.mode \in {"und", "abt"} /\ sp[cpsr.mode] > 0
        /\ spsr[cpsr.mode].mode = "svc" \/ PanicAborted
    BY <1>1, <1>6 DEF IInv, InCrash
  <2>2. CASE phase' = "panic"
    <3>1. InCrash'
      BY <1>1, <1>2, <2>1, <2>2 DEF InCrash
    <3> QED
      BY <1>3, <1>4, <1>5, <1>6, <2>2, <3>1 DEF IInv, InCode, InVector, InHandler, Detour
  <2>3. CASE phase' = "return"
    <3>1. PanicAborted /\ sp["abt"] > 0
      BY <1>2, <2>1, <2>3 DEF PanicAborted
    <3>2. PanicAborted'
      BY <1>1, <2>3, <3>1 DEF PanicAborted
    <3>3. InCrash'
      BY <1>1, <2>1, <2>3, <3>1, <3>2 DEF InCrash
    <3> QED
      BY <1>3, <1>4, <1>5, <1>6, <2>3, <3>3 DEF IInv, InCode, InVector, InHandler, Detour
  <2> QED
    BY <1>2, <2>2, <2>3
<1>7. CASE ~KernelCrash
  <2>1. before.cpsr.mode # "svc" /\ kind # "irq"
    BY <1>1, <1>7 DEF KernelCrash, Faults
  <2>2. InHandler /\ Detour
    BY <1>1, <1>7 DEF IInv, Detour
  <2>3. cpsr.mode = ServedIn /\ spsr[cpsr.mode] = before.cpsr
    BY <1>1, <2>1, <2>2 DEF InHandler
  <2>4. phase' = "return"
    BY <1>2, <2>1, <2>3
  <2>5. ServedIn' = ServedIn /\ Goal' = Goal /\ Dumped' = Dumped
    BY <1>1 DEF ServedIn, Goal, Skipped, Dumped
  <2>6. InHandler'
    BY <1>1, <2>2, <2>4, <2>5 DEF InHandler, Empty
  <2> QED
    BY <1>3, <1>4, <1>5, <1>7, <2>4, <2>6 DEF IInv, InCode, InVector, InCrash, Detour
<1> QED
  BY <1>6, <1>7

(* The handlers of system calls and interrupts return. *)
LEMMA OtherHandlerStep == ASSUME IInv, other_handler PROVE IInv'
<1>1. /\ Types /\ phase = "handler" /\ kind \notin Faults /\ phase' = "return"
      /\ cpsr' \in Status /\ cpsr'.mode = cpsr.mode /\ cpsr'.imask = cpsr.imask
      /\ spsr' = spsr /\ lr' = lr /\ sp' = sp /\ r4' = r4 /\ pc' = pc
      /\ frames' = frames /\ kind' = kind /\ before' = before
  BY FlagsOnly DEF IInv, Types, other_handler
<1>2. Types'
  BY <1>1 DEF Types
<1>3. Interrupted'
  BY <1>1 DEF IInv, Interrupted, Running
<1>4. ~KernelCrash /\ ~KernelCrash'
  BY <1>1 DEF KernelCrash
<1>5. InHandler /\ Detour
  BY <1>1, <1>4 DEF IInv, Detour
<1>6. ServedIn' = ServedIn /\ Goal' = Goal /\ Dumped' = Dumped
  BY <1>1 DEF ServedIn, Goal, Skipped, Dumped
<1>7. InHandler'
  BY <1>1, <1>5, <1>6 DEF InHandler, Empty
<1> QED
  BY <1>1, <1>2, <1>3, <1>4, <1>7 DEF IInv, InCode, InVector, InCrash, Detour

(* Where an interrupted program goes on is an address of the program. *)
LEMMA GoesOnInProgram ==
  ASSUME IInv, Detour
  PROVE  /\ Goal \in Addresses /\ Goal # Panicking
         /\ Running(before.cpsr, before.sp, Goal, before.lr)
<1>1. /\ Running(before.cpsr, before.sp, before.pc, before.lr)
      /\ kind # "irq" => before.pc \notin {CodeSize - 1, Leaf + 1}
      /\ kind = "svc" => before.cpsr.mode = "usr"
      /\ kind \in Faults => before.cpsr.mode # "svc"
      /\ kind \in Kinds
  BY DEF IInv, Interrupted, Detour, KernelCrash, Types
<1>2. before.pc \in Loop \cup {Leaf, Leaf + 1, InCpp}
  BY <1>1 DEF Running
<1>3. before.pc \in Int
  <2>1. before.pc \in Addresses
    BY DEF IInv, Types
  <2> QED
    BY <2>1, Layout
<1>4. CASE kind \in {"dabt", "irq"}
  <2>1. Goal = before.pc
    BY <1>3, <1>4, Tables DEF Goal, Skipped
  <2>2. before.pc # Panicking /\ before.pc \in Addresses
    <3>1. \A p \in Loop : p # Panicking
      BY Layout
    <3>2. CASE before.pc \in Loop
      BY <3>1, <3>2, Layout
    <3>3. CASE before.pc \in {Leaf, Leaf + 1, InCpp}
      BY <3>3, Layout
    <3> QED
      BY <1>2, <3>2, <3>3
  <2> QED
    BY <1>1, <2>1, <2>2
<1>5. CASE kind \in {"undef", "pabt", "svc"}
  <2>1. Goal = before.pc + 1
    BY <1>3, <1>5, Tables DEF Goal, Skipped
  <2>2. /\ before.cpsr.mode = "usr"
        /\ before.pc \in Loop \cup {Leaf, Leaf + 1}
    BY <1>1, <1>5 DEF Running, Faults, Plain
  <2>3. Goal \in Loop \cup {Leaf, Leaf + 1}
    <3>1. CASE before.pc = Leaf
      BY <2>1, <3>1
    <3>2. CASE before.pc \in Loop
      BY <1>1, <1>5, <2>1, <3>2, Layout DEF Loop
    <3>3. before.pc # Leaf + 1
      BY <1>1, <1>5
    <3> QED
      BY <2>2, <3>1, <3>2, <3>3
  <2>4. Goal \in Addresses /\ Goal # Panicking
    <3>1. \A p \in Loop : p # Panicking
      BY Layout
    <3>2. CASE Goal \in Loop
      BY <3>1, <3>2, Layout
    <3>3. CASE Goal \in {Leaf, Leaf + 1}
      BY <3>3, Layout
    <3> QED
      BY <2>3, <3>2, <3>3
  <2>5. Running(before.cpsr, before.sp, Goal, before.lr)
    BY <1>1, <2>2, <2>3 DEF Running, Plain
  <2> QED
    BY <2>4, <2>5
<1> QED
  BY <1>1, <1>4, <1>5, Kinds5

(* The program gets everything back that it had. *)
LEMMA ReturnsToProgram ==
  ASSUME IInv, Return, Detour
  PROVE  /\ phase' = "code" /\ pc' = Goal
         /\ cpsr'.mode = before.cpsr.mode
         /\ kind # "irq" => cpsr' = before.cpsr
         /\ before.cpsr.mode = "usr" => ~cpsr'.imask
         /\ sp' = Empty /\ before.sp = Empty
         /\ kind # "svc" => r4' = before.r4
         /\ before.cpsr.mode = "usr" => lr["usr"] = before.lr
<1>1. InHandler /\ phase = "return" /\ kind \in Kinds
  BY DEF IInv, Return, Types
<1>2. /\ cpsr.mode = ServedIn
      /\ kind # "irq" => spsr[ServedIn] = before.cpsr
      /\ sp = [Empty EXCEPT ![ServedIn] = 1]
      /\ Dumped.lr = Goal /\ Dumped.sp = 0
      /\ kind # "svc" => Dumped.r4 = before.r4
      /\ before.cpsr.mode = "usr" => lr["usr"] = before.lr
  BY <1>1 DEF InHandler
<1>3. ServedIn \in Modes
  BY <1>1, Kinds5, Tables DEF ServedIn, Modes
<1>4. sp[ServedIn] = 1
  BY <1>2, <1>3 DEF Empty
<1>5. frames[StackOf[cpsr.mode]][sp[cpsr.mode]] = Dumped
  BY <1>2, <1>4 DEF Dumped
<1>6. /\ r4' = Dumped.r4 /\ sp' = [sp EXCEPT ![ServedIn] = 0] /\ pc' = Goal
      /\ cpsr' = Restored(spsr[ServedIn])
      /\ phase' = IF pc' = Panicking THEN "panic" ELSE "code"
  BY <1>2, <1>5 DEF Return
<1>10. /\ cpsr'.mode = before.cpsr.mode
       /\ kind # "irq" => cpsr' = before.cpsr
       /\ before.cpsr.mode = "usr" => ~cpsr'.imask
  <2>1. /\ Running(before.cpsr, before.sp, before.pc, before.lr)
        /\ before.cpsr \in Status /\ spsr[ServedIn] \in Saved
    BY <1>1, <1>3 DEF IInv, Interrupted, Types
  <2>2. CASE kind = "irq"
    <3>1. ServedIn = "svc"
      BY <2>2 DEF ServedIn
    <3>2. /\ cpsr'.mode = (IF spsr["svc"].mode = "none" THEN "svc" ELSE spsr["svc"].mode)
          /\ cpsr'.imask = spsr["svc"].imask
      BY <1>2, <1>6, <2>1, <3>1 DEF Restored, Saved
    <3> QED
      BY <2>1, <2>2, <3>2 DEF Running, Plain
  <2>3. CASE kind # "irq"
    <3>1. before.cpsr.mode # "none"
      BY <2>1 DEF Status, Modes
    <3>2. cpsr' = before.cpsr
      BY <1>2, <1>6, <2>1, <2>3, <3>1 DEF Restored, Status
    <3> QED
      BY <2>1, <3>2 DEF Running, Plain
  <2> QED
    BY <2>2, <2>3
<1>7. sp' = Empty
  BY <1>2, <1>3, <1>6 DEF Empty
<1>8. phase' = "code"
  BY <1>6, GoesOnInProgram
<1>9. before.sp = Empty
  BY <1>1 DEF IInv, Interrupted, Running
<1> QED
  BY <1>2, <1>6, <1>7, <1>8, <1>9, <1>10

(* What is taken from a dump is of its type. *)
LEMMA ReturnTypes ==
  ASSUME Types, Return, sp[cpsr.mode] > 0
  PROVE  Types'
<1> DEFINE dump == frames[StackOf[cpsr.mode]][sp[cpsr.mode]]
<1>1. cpsr.mode \in Modes /\ StackOf[cpsr.mode] \in Modes
  BY Tables DEF Types, Status, Modes
<1>2. sp[cpsr.mode] \in 1..MaxDumps
  <2>1. sp[cpsr.mode] \in 0..MaxDumps /\ MaxDumps \in Nat
    BY <1>1, ExceptionsAssumption DEF Types
  <2> QED
    BY <2>1
<1>3. dump \in Dumps
  <2>1. \A st \in Modes, n \in 1..MaxDumps : frames[st][n] \in Dumps
    BY DEF Types
  <2> QED
    BY <1>1, <1>2, <2>1
<1>4. dump.r4 \in Regs /\ dump.sp \in 0..MaxDumps /\ dump.lr \in Addresses
  BY <1>3 DEF Dumps
<1>5. /\ r4' = dump.r4 /\ sp' = [sp EXCEPT ![cpsr.mode] = dump.sp] /\ pc' = dump.lr
      /\ cpsr' = Restored(spsr[cpsr.mode]) /\ phase' \in {"panic", "code"}
      /\ spsr' = spsr /\ lr' = lr /\ frames' = frames /\ kind' = kind /\ before' = before
  BY DEF Return
<1>6. cpsr' \in Status /\ sp' \in [Modes -> 0..MaxDumps]
  <2> HIDE DEF dump
  <2>1. spsr[cpsr.mode] \in Saved
    BY <1>1 DEF Types
  <2>2. cpsr' \in Status
    BY <1>1, <1>5, <2>1 DEF Restored, Saved, Status
  <2> QED
    BY <1>1, <1>4, <1>5, <2>2 DEF Types
<1> QED
  BY <1>4, <1>5, <1>6 DEF Types

(* Back to the program, or to kpanic. *)
LEMMA ReturnStep == ASSUME IInv, Return PROVE IInv'
<1>1. /\ Types /\ phase = "return"
      /\ spsr' = spsr /\ lr' = lr /\ frames' = frames /\ kind' = kind /\ before' = before
  BY DEF IInv, Return
<1>2. CASE KernelCrash
  <2>1. cpsr.imask /\ PanicAborted /\ sp["abt"] > 0
    BY <1>1, <1>2 DEF IInv, InCrash
  <2>2. /\ cpsr.mode = "abt" /\ frames["abt"][sp["abt"]].lr = Panicking
        /\ spsr["abt"].mode \in {"und", "abt"} /\ spsr["abt"].imask
    BY <1>1, <2>1 DEF PanicAborted
  <2>3. /\ pc' = Panicking /\ phase' = "panic"
        /\ cpsr'.mode \in {"und", "abt"} /\ cpsr'.imask
    <3>1. spsr["abt"] \in Saved
      BY <1>1 DEF Types, Modes
    <3>2. cpsr' = Restored(spsr["abt"]) /\ pc' = Panicking /\ phase' = "panic"
      BY <2>2, Tables DEF Return
    <3> QED
      BY <2>2, <3>1, <3>2 DEF Restored, Saved
  <2>4. Types'
    BY <1>1, <2>1, <2>2, ReturnTypes
  <2>5. KernelCrash'
    BY <1>1, <1>2, <2>3 DEF KernelCrash
  <2>6. InCrash'
    BY <2>2, <2>3 DEF InCrash
  <2>7. Interrupted'
    BY <1>1, <2>3 DEF IInv, Interrupted, Running
  <2> QED
    BY <2>3, <2>4, <2>5, <2>6, <2>7 DEF IInv, InCode, InVector, InHandler, Detour
<1>3. CASE ~KernelCrash
  <2>1. Detour
    BY <1>1, <1>3 DEF Detour
  <2>2. /\ phase' = "code" /\ pc' = Goal
        /\ cpsr'.mode = before.cpsr.mode
        /\ before.cpsr.mode = "usr" => ~cpsr'.imask
        /\ sp' = Empty /\ before.sp = Empty
        /\ before.cpsr.mode = "usr" => lr["usr"] = before.lr
    BY <2>1, ReturnsToProgram
  <2>3. Types'
    <3>1. cpsr.mode = ServedIn /\ sp = [Empty EXCEPT ![ServedIn] = 1]
      BY <1>1, <2>1 DEF IInv, InHandler
    <3>2. ServedIn \in Modes
      BY <1>1, Kinds5, Tables DEF ServedIn, Modes, Types
    <3>3. sp[cpsr.mode] > 0
      BY <3>1, <3>2 DEF Empty
    <3> QED
      BY <1>1, <3>3, ReturnTypes
  <2>4. Running(before.cpsr, Empty, Goal, before.lr)
    BY <2>1, <2>2, GoesOnInProgram
  <2>5. Running(before.cpsr, Empty, Goal, lr[before.cpsr.mode])
    <3>1. CASE before.cpsr.mode = "usr"
      BY <2>2, <2>4, <3>1
    <3>2. CASE before.cpsr.mode = "svc"
      <4>1. kind \notin Faults /\ (kind = "svc" => before.cpsr.mode = "usr") /\ kind \in Kinds
        BY <1>1, <1>3, <3>2 DEF KernelCrash, IInv, Interrupted, Types
      <4>2. kind = "irq"
        BY <3>2, <4>1 DEF Kinds
      <4>3. lr["svc"] = InCpp
        BY <1>1, <2>1, <4>2 DEF IInv, InHandler
      <4> QED
        BY <2>4, <3>2, <4>3 DEF Running, Plain
    <3> QED
      BY <2>4, <3>1, <3>2 DEF Running, Plain
  <2>6. InCode'
    BY <1>1, <2>2, <2>5 DEF InCode, Running, Plain
  <2> QED
    BY <2>2, <2>3, <2>6 DEF IInv, Interrupted, InVector, InHandler, InCrash, Detour, KernelCrash
<1> QED
  BY <1>2, <1>3

(* A halted kernel stays masked. *)
LEMMA HaltStep == ASSUME IInv, Halt PROVE IInv'
<1>1. /\ Types /\ phase = "panic" /\ phase' = "halted" /\ cpsr' = [cpsr EXCEPT !.imask = TRUE]
      /\ spsr' = spsr /\ lr' = lr /\ sp' = sp /\ r4' = r4 /\ pc' = pc
      /\ frames' = frames /\ kind' = kind /\ before' = before
  BY DEF IInv, Halt
<1>2. KernelCrash
  BY <1>1 DEF IInv, InHandler, Detour
<1>3. KernelCrash'
  BY <1>1, <1>2 DEF KernelCrash
<1>4. cpsr' \in Status /\ cpsr'.imask /\ cpsr'.mode = cpsr.mode
  BY <1>1 DEF Types, Status
<1>5. Types'
  BY <1>1, <1>4 DEF Types
<1>6. InCrash'
  BY <1>1, <1>2, <1>4 DEF IInv, InCrash
<1>7. Interrupted'
  BY <1>1 DEF IInv, Interrupted, Running
<1> QED
  BY <1>1, <1>3, <1>5, <1>6, <1>7 DEF IInv, InCode, InVector, InHandler, Detour

(* A step that changes nothing changes no invariant. *)
LEMMA StutterStep == ASSUME IInv, UNCHANGED vars PROVE IInv'
<1>1. /\ cpsr' = cpsr /\ spsr' = spsr /\ lr' = lr /\ sp' = sp /\ r4' = r4 /\ pc' = pc
      /\ frames' = frames /\ phase' = phase /\ kind' = kind /\ before' = before
  BY DEF vars
<1> QED
  BY <1>1
  DEF IInv, Types, InCode, Interrupted, InVector, InHandler, InCrash, Running, Empty,
      Detour, KernelCrash, ServedIn, Goal, Skipped, Dumped, PanicAborted

(* Every step preserves the invariant. *)
LEMMA NextInvariant == IInv /\ [Next]_vars => IInv'
<1> SUFFICES ASSUME IInv, [Next]_vars PROVE IInv'
  OBVIOUS
<1>1. CASE Execute
  BY <1>1, ExecuteStep
<1>2. CASE Call
  BY <1>2, CallStep
<1>3. CASE Mask
  BY <1>3, MaskStep
<1>4. CASE \E k \in Kinds : Take(k)
  <2>1. PICK k \in Kinds : Take(k)
    BY <1>4
  <2> QED
    BY <2>1, TakeStep
<1>5. CASE AbortInPanic
  BY <1>5, AbortInPanicStep
<1>6. CASE Trampoline
  BY <1>6, TrampolineStep
<1>7. CASE crash_handler
  BY <1>7, CrashHandlerStep
<1>8. CASE other_handler
  BY <1>8, OtherHandlerStep
<1>9. CASE Return
  BY <1>9, ReturnStep
<1>10. CASE Halt
  BY <1>10, HaltStep
<1>11. CASE UNCHANGED vars
  BY <1>11, StutterStep
<1> QED
  BY <1>1, <1>2, <1>3, <1>4, <1>5, <1>6, <1>7, <1>8, <1>9, <1>10, <1>11 DEF Next, Handle

(***************************************************************************)
(* The invariant: what an exception interrupted is, on its way in and      *)
(* back, in the banked registers or in the dump, and a crashed kernel is   *)
(* in a handler, in kpanic or halted.                                      *)
(***************************************************************************)
THEOREM Invariance == Spec => []IInv
<1>1. Init => IInv
  BY InitInvariant
<1>2. IInv /\ [Next]_vars => IInv'
  BY NextInvariant
<1> QED
  BY <1>1, <1>2, PTL DEF Spec

(* Every variable keeps its type, whatever exceptions are taken. *)
THEOREM TypeCorrectness == Spec => []TypeOK
<1>1. IInv => TypeOK
  BY DEF IInv, Types, TypeOK, Regs, Dumps
<1> QED
  BY <1>1, Invariance, PTL

-----------------------------------------------------------------------------
(* Only a return takes the processor from a handler back to the program. *)
LEMMA BackByReturn ==
  ASSUME IInv, [Next]_vars, BackToProgram
  PROVE  Return /\ Detour
<1>1. phase = "return" /\ phase' = "code"
  BY DEF BackToProgram
<1>2. Return
  <2>1. ~Trampoline
    BY <1>1, TrampolineSaves DEF Save
  <2> QED
    BY <1>1, <2>1
    DEF Next, Handle, vars, Execute, Call, Mask, Take, AbortInPanic, crash_handler,
        other_handler, Halt
<1>3. ~KernelCrash
  <2> SUFFICES ASSUME KernelCrash PROVE FALSE
    OBVIOUS
  <2>1. PanicAborted
    BY <1>1 DEF IInv, InCrash
  <2>2. cpsr.mode = "abt" /\ frames["abt"][sp["abt"]].lr = Panicking
    BY <1>1, <2>1 DEF PanicAborted
  <2> QED
    BY <1>1, <1>2, <2>2, Tables DEF Return
<1> QED
  BY <1>1, <1>2, <1>3 DEF Detour

(* After every exception but a prefetch abort the program goes on where the *)
(* table in exception.s says, and after a prefetch abort one instruction    *)
(* further on.                                                              *)
THEOREM ReturnsTold == Spec => ReturnsPerTable
<1>1. IInv /\ [Next]_vars =>
        [BackToProgram => pc' = before.pc + TableSays[kind] + Skipped]_vars
  <2> SUFFICES ASSUME IInv, [Next]_vars, BackToProgram
               PROVE  pc' = before.pc + TableSays[kind] + Skipped
    OBVIOUS
  <2>1. Return /\ Detour
    BY BackByReturn
  <2>2. pc' = Goal
    BY <2>1, ReturnsToProgram
  <2> QED
    BY <2>2 DEF Goal
<1> QED
  BY <1>1, Invariance, PTL DEF Spec, ReturnsPerTable

(* Over an exception the program keeps its stacks and its mode; the mask    *)
(* and the flags, unless it was an interrupt; r4, unless it was a system    *)
(* call; and user code keeps its LR and stays open to interrupts.           *)
THEOREM LeavesProgramAlone == Spec => ProgramUndisturbed
<1> DEFINE Undisturbed ==
             BackToProgram =>
               /\ sp' = before.sp
               /\ cpsr'.mode = before.cpsr.mode
               /\ kind # "irq" => cpsr' = before.cpsr
               /\ kind # "svc" => r4' = before.r4
               /\ before.cpsr.mode = "usr" => lr'["usr"] = before.lr /\ ~cpsr'.imask
<1>1. IInv /\ [Next]_vars => [Undisturbed]_vars
  <2> SUFFICES ASSUME IInv, [Next]_vars, BackToProgram PROVE Undisturbed
    OBVIOUS
  <2>1. Return /\ Detour
    BY BackByReturn
  <2>2. lr' = lr
    BY <2>1 DEF Return
  <2> QED
    BY <2>1, <2>2, ReturnsToProgram
<1> QED
  BY <1>1, Invariance, PTL DEF Spec, ProgramUndisturbed

(* A crash of the kernel is never left, nor are interrupts taken in it. *)
THEOREM CrashIsFinal == Spec => KernelCrashIsFinal
<1>1. IInv /\ [Next]_vars => [KernelCrash => KernelCrash' /\ cpsr'.imask]_vars
  <2> SUFFICES ASSUME IInv, [Next]_vars, KernelCrash PROVE KernelCrash' /\ cpsr'.imask
    OBVIOUS
  <2>1. IInv'
    BY NextInvariant
  <2>2. phase # "code" /\ kind \in Faults /\ before.cpsr.mode = "svc"
    BY DEF KernelCrash
  <2>3. phase' # "code"
    <3>1. CASE phase = "return"
      <4>1. ~BackToProgram
        BY BackByReturn DEF Detour
      <4> QED
        BY <3>1, <4>1 DEF BackToProgram
    <3>2. CASE phase # "return"
      <4>1. Trampoline => phase' = "handler"
        BY TrampolineSaves DEF Save
      <4> QED
        BY <2>2, <3>2, <4>1
        DEF Next, Handle, vars, Execute, Call, Mask, Take, AbortInPanic, Vector,
            crash_handler, other_handler, Return, Halt
    <3> QED
      BY <3>1, <3>2
  <2>4. kind' \in Faults /\ before' = before
    <3>1. Trampoline => kind' = kind /\ before' = before
      BY TrampolineSaves DEF Save
    <3> QED
      BY <2>2, <3>1
      DEF Next, Handle, vars, Execute, Call, Mask, Take, AbortInPanic, Vector, Faults,
          crash_handler, other_handler, Return, Halt
  <2>5. KernelCrash'
    BY <2>2, <2>3, <2>4 DEF KernelCrash
  <2> QED
    BY <2>1, <2>5 DEF IInv, InCrash
<1> QED
  BY <1>1, Invariance, PTL DEF Spec, KernelCrashIsFinal
=============================================================================
