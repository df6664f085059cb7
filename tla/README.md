# System-V in TLA+

A TLA+ development of the System-V kernel (`src/kernel`, `src/qtl`): a small
preemptive kernel for one ARM Cortex-A15, on QEMU's vexpress-a15 board with 2 GiB of
RAM.  The modules model its parts, the `.cfg` files are checked by TLC, and the
theorems in `*Proofs.tla` are checked by TLAPS.

    cd tla
    tlc -workers 2 -config ContextSwitch_one_timer.cfg MCContextSwitch
    tlapm ContextSwitchProofs.tla

## The system

| part | source | state it keeps | operations |
| --- | --- | --- | --- |
| interrupt path, context switch | `arch/arm/exception.s`, `arch/arm/cpu.cpp`, `scheduler.cpp`, `device/timer.cpp` | register dumps on the process stacks, saved registers of each process, `current_proc`, CPSR.I | `irq_trampoline`, `handle_irq`, `Timer::handle_irq`, `Scheduler::task_switch`, `GIC::eoi` |
| process list | `process.cpp`, `qtl/circularlinkedlist.h`, `scheduler.cpp` | `g_proc_list`, `m_next` of each process, `GLOBAL_PID` | `Scheduler::initialise`, `Process::spawn_kernel_process`, `append`, `task_switch` |
| keyboard driver | `device/keyboard.cpp` | nine modifier flags, two flags for the prefixes of a scan code | `handle_irq` (one byte per call) |
| kernel heap | `mem/heap/blocklist.cpp`, `mem/heap/heap.cpp` | the list of blocks, its head and tail; the pointer into the permanent arena | `kmalloc`, `kfree`, `kmalloc_permanent` |
| interrupt dispatch | `arch/arm/cpu.cpp`, `irqhandler.cpp`, `arch/arm/gic.cpp` | `irq_handlers`, the distributor's enable bits | constructors and destructors of drivers, `handle_irq` |
| physical memory | `mem/physmem.cpp` | a bitmap, counters, the pool of L1 tables | `allocate_region`, `allocate_l1_table`, two searches |
| exception vectors | `arch/arm/exception.s`, `arch/arm/cpu.cpp`, `syscall.cpp` | the banked SPSR, LR and SP of five modes, dumps on their stacks | the trampolines, the crash handlers, `kpanic`, `syscall_handler` |
| console | `device/uart.cpp`, `kstdlib/kprintf.cpp` | the transmit FIFO, the place each caller has come to | `kprintf`, `UART::putc` |
| boot | `arch/arm/start.s`, `init.cpp` | | a straight line of calls |

The parts interact through interrupts.  A device asserts its line; the GIC signals
the processor; `irq_trampoline` pushes a register dump on the stack of whatever was
running and calls `handle_irq`, which finds the driver in `irq_handlers`.  The timer's
handler calls `task_switch` with a reference to the dump.  `task_switch` saves the
dump in the current process, follows `m_next` to the next process and overwrites the
dump, so that the trampoline's last instruction resumes that process.  `new Process`
appends to the list that `task_switch` follows, with interrupts enabled; `new` draws
on the kernel heap; `new Keyboard` publishes the driver in `irq_handlers` while it is
being built.  `init` makes the page manager and its bitmap permanent objects of the
arena that lies behind the heap's list.  Any code may call `kprintf`, handlers included.

There is one processor, so the concurrency is that of interrupts with whatever they
interrupt, and of processes that are preempted by the timer.  What is hard to test
is listed in `PROJECT.json` under `hazards`, line by line: an interrupt inside the
interrupt path, a tick in the middle of `append`, an interrupt during the
construction of a driver, a scan code that is spread over several interrupts, a heap
whose list goes wrong only after a sequence of legal calls, LR and SPSR of the wrong
mode, a FIFO that fills up between the test for room and the store, and numeric edges.

At this commit `init` starts the keyboard only: it neither initialises the scheduler
nor constructs a timer, nothing calls `kfree` or `spawn_user_process`, and no code
enters user mode.  The models use these interfaces the way they are written to be used.

## Modules

### RoundRobin, ContextSwitch, ContextSwitchProofs

`RoundRobin` says what preemptive multitasking promises: one process runs, the
processor passes to the next in the ring, and a process goes on where it left off.

`ContextSwitch` is the interrupt path, one action per part of it:

| action | code |
| --- | --- |
| `Work` | code of a process; it may use its stack below the stack pointer |
| `Raise` | a device asserts its level-sensitive line |
| `IrqEntry` | `irq_trampoline` up to `bl handle_irq`: the dump is pushed |
| `Acknowledge` | `GIC::interrupt_id` |
| `HandleTimer` | `Timer::handle_irq` and `Scheduler::task_switch`, which leaves interrupts unmasked |
| `HandleOther` | a handler that does not switch (`Keyboard::handle_irq`) |
| `EndOfInterrupt` | `GIC::eoi` and the return to the trampoline |
| `TrampolineReturn` | `ldmfd sp, {r0-r12, sp, pc}^` |

Registers are abstracted to the place they stand for: `[stk, lvl, pc]` is code on the
stack of process `stk`, at the trampoline's end for dump number `lvl`, or process code
with progress `pc` if `lvl` is 0.  Dumps are values on a stack that its owner may
overwrite once it uses that part of the stack again, which is what makes resuming the
wrong place observable.  `task_switch` is one step, since interrupts are masked in it;
from its end to the last instruction of the trampoline interrupts are not masked, and
`IrqEntry` may come in between.  `TrampolineReturn` loads CPSR from SPSR_svc
(`exception.s:119`), which no interrupt writes; the model assumes that it holds a value
that does not mask interrupts.  LR and SPSR are the matter of `Exceptions`.

The interesting question is nesting.  A keyboard interrupt inside the path of a timer
interrupt is harmless: its trampoline resumes the outer one.  A timer interrupt inside
the path is not, and two timers produce one (`ContextSwitch_two_timers`).  Devices in
`Quick` may assert their line during the path, the others only from process code.

### ProcQueue, ProcRing, ProcRingProofs

`ProcQueue` says what the list promises to the scheduler: a queue of processes in
spawning order, and a turn that goes round.  `ProcRing` is the list and its two users,
spawners and ticks.  The kernel is compiled with `-O0`, so each load of `m_tail` and
each store is a step of its own, and the value loaded before a tick is used after it.
`operator new` is two steps, since two flows that look for memory before either has
linked its block get the same object (`Kmalloc`, `KmallocLink`; `HeapList` has the
inside of these calls).  A spawned process may be a user process, which takes memory
and a pid but is never appended.  `Masked` says whether spawners mask interrupts.
`Scheduler::initialise` appends `s_proc0` a second time, which is what closes the ring
of one.

### Keyboard, KeyMaps, KeyboardProofs

`KeyMaps` holds the four tables of `keyboard.cpp`.  `Keyboard` is `handle_irq`, one
action for each way through it, against a person with a PS/2 keyboard that sends
the bytes of scan code set 2 and may be `MaxQueue` bytes ahead of the driver.  Next
to the driver's own flags the model keeps what the person did: which keys are
down, whether caps lock is on, and which characters are owed to the screen.  What is owed
is what is printed on the key (`Labels`), which the tables know nothing of; the run has the
labels of a US keyboard.  `TablesMatch` is the condition under which the two agree: for
a US keyboard that is every key but the nine and the zero, which the table for caps lock
has exchanged.  The byte is an index that is not checked: behind a table (`PRIMARY_SIZE`,
`SECONDARY_SIZE`) `Echo` may print anything or nothing and remembers it in `beyond`, up to
which `EchoesWhatWasTyped` holds.  `InSync` is not affected, since the index is used last.

### Allocator, HeapList, PhysMem, KernelMemory, KernelMemoryProofs

`Allocator` says what a heap promises to its clients: memory of the size asked for, apart
from everything that is held, which nobody moves or takes until it is freed.

`HeapList` is the list of blocks behind `kmalloc` and `kfree`, with the clients that
hold memory.  Sizes are in words.  `FreesTail` says whether clients ever free the block
that is last in the list: the list itself is kept correctly in every other case, and
goes wrong in this one.  A block's size leaves out its header, so the next header lies
in the last words of the memory handed out, which `alloc_size(1)` in `heap.h:18` denies.
A client may write all of its memory: where that hits a header (`Overwrite`) the model
stops, and `WritesHitNextHeader` says that there is one header it can hit, the one behind.
Sizes may be smaller than a header, and so may the rest of a split; where that makes
`heap_list_alloc` write a header over another one (`Smash`) the model stops, too.
`HeadersApart` says that headers are apart until then, and that requests for multiples of a
header do not get there.  `find_block` wants a block larger than asked for, which is in
`FindBlock`; no document says that an exact fit is found.

`PhysMem` is the page manager: the bitmap as the set of pages whose bit is set, the counters,
and the nested loops of the two searches, which differ in the pages that suit.
`allocate_region` asks for nothing: a region may be allocated again, and may run past the
end of the RAM, and each of its pages is counted.  So the properties say what the
counters and searches do, and no more: `m_used_pages` is the number of bits until a page
is allocated twice and too high from then on; `m_free_pages` complements it and goes round
zero; what a search returns is the lowest page that suits; and `SearchSucceeds` has the
condition under which `find_first_free_bit` does not give up, which it can do while half of the
pages are free, because it looks at `m_free_pages / 32` words only.  The bitmap's 0x1000 bytes
describe 128 MiB of the 2 GiB; the model takes the memory for bits that are set or
looked at to be there.

`KernelMemory` extends both by the permanent arena that lies behind the list's region,
with the manager and its bitmap as the first objects of it, and interleaves the
three.  The code knows no end of the list's region, so the list may grow into the arena;
nothing in the code says otherwise, and no property does.
`kmalloc_permanent` never notices that the arena is used up, since its test
(`heap.cpp:34`) compares the pointer with itself plus a constant: only a single object
larger than the arena stops the kernel (`OutOfPermanent`).

### Exceptions, ExceptionsProofs

The vectors, the trampolines and the handlers they call over the banked registers,
around a program, which is kernel code or user code: a loop that calls a leaf function.
`Take(k)` is the architecture (which mode, how far LR is ahead), the five actions
named after the trampolines are the instructions up to `bl`, `crash_handler` and
`other_handler` the C++ code, `Return` is `ldmfd sp, {r0-r12, sp, pc}^`.  `AbortInPanic` is
`kpanic` itself aborting, which it may do where it loads from the address at fault.
Status registers have a mode, the interrupt mask and the condition flags, as one Boolean.
No instruction of the kernel sets SPSR_svc, so under kernel code it holds what a reset has left
there.  `relocate_vector_table` returns through it once (`exception.s:37`), which a
kernel that is running has survived: it names SVC mode or no mode at all, with any mask and flags.

What the code does differently from its own table and comments is in the model, and the
properties say what is left:

- `prefetch_abort_trampoline` does not subtract what the table in `exception.s:43-55`
  tells it to: `ReturnsPerTable` has the program one instruction behind (`Skipped`);
- `svc_trap` loads the number into r4 before it saves r4 (`exception.s:128`), so
  `ProgramUndisturbed` does not ask for r4 after a system call;
- `irq_trampoline` works in SVC mode and saves and restores SPSR_svc, never the
  interrupted CPSR (`exception.s:104-119`).  The flags of what was interrupted are lost, and the
  mask is SPSR_svc's: after an interrupt `ProgramUndisturbed` asks for the mode, the
  stacks and r4, and that user code is still open to interrupts; after any other
  exception it asks for the whole CPSR;
- the same trampoline overwrites LR_svc, which `Exceptions_leaf` is about; only user code's LR
  is in `ProgramUndisturbed`;
- undefined and abort mode share a stack (`start.s:18`), which is harmless because a
  kernel that crashed does not go on and a crash of user code is over before the next.

Two more are below the model: `data_abort_trampoline` has no `mov r0, sp` before `bl`
(`exception.s:98`), so `kpanic` prints a dump from the address that SPSR happens to be, and
`cpu.cpp:55` dereferences `current_proc` before line 81 tests it.

### Interrupts, InterruptsProofs

The handler table, the distributor and the life of a driver object: in the table from
the first statement of the base class constructor, itself only at the end of its own.
A driver may be destroyed whatever its device is doing, and an interrupt that comes then is
dispatched through a null entry or to an `IRQHandler` without a driver: the kernel
crashes, in `__cxa_pure_virtual` or at address zero, and the model stops.  `live` remembers such a
destruction, and `DispatchFindsDriver` says that there is no other way to a crash.  The
instance has one driver per number: TIMER0 and TIMER1 are constructed with the same
one, and the second would fail `install_handler`'s assertion.

### Kprintf, Console, ConsoleProofs

`Kprintf` is what `kprintf` makes of a format: the characters it calls `putc` with.  Both
number conversions are translated as the code computes them, the decimal one
with the digits that are written backwards into a cleared buffer.  `Meant` is what a reader
expects instead, and `NumbersReadBack` in `MCConsole` compares the two over all
words of `Nibbles` digits, which `DigitsReadBack` proves for words of any width; the least
integer is excepted, whose negation is itself.  Arguments have the types that their
conversions are for (`Items`).

`Console` is flows that print: processes that are preempted between any two steps,
and a handler that has the processor until it is done.  `Test`, `Write` and `WriteReturn`
are `UART::write_character`.  There is no lock, so texts of different flows mix, and a
character is lost where somebody took the last place between `Test` and `Write`;
`WriteReturn` has no test at all (`uart.cpp:22`).  A `kprintf` with nothing to print returns
without a store.

## What the runs show

| run | result |
| --- | --- |
| `ContextSwitch_one_timer` | One timer slower than the path, a keyboard that interrupts at any point: unwinding resumes the current process, parked processes are on their own stacks, at most two dumps nest, the path implements `RoundRobin`, no process starves and no line stays asserted. |
| `ContextSwitch_two_timers` | **violation**: the comment of `scheduler.cpp:54-56` does not hold with both timer interrupts in use. |
| `ProcRing_masked` | Spawning with interrupts masked gives out no memory and no pid twice, keeps the ring in pid order and implements `ProcQueue`; every spawned kernel process runs. |
| `ProcRing_unmasked` | **violation**: two ticks inside `append` fail `ASSERT(current_proc)`. |
| `Keyboard_typing` | What is typed is what is printed until a byte beyond a table is looked up, and the flags follow the keys, however far the driver lags and whichever keys share the last byte of their codes. |
| `KernelMemory_keep_tail` | With the last block never freed, for sizes around a header's, until a header is overwritten: tiling, a heap as `Allocator` says, every pointer found, no header in reach of a client but the next.  With regions allocated twice and past the RAM: what the page counters hold, and when the searches find the lowest page. |
| `HeapList_free_tail` | **violation**: after the last block was freed and split, the tail pointer is stale and the next new block overlaps one that is held. |
| `Interrupts_drivers` | No dispatch to a half-built object, nor to a half-destroyed one unless its device could still interrupt, no failed assertion with one driver per number; as long as no driver is destroyed each one has its interrupts served. |
| `Interrupts_disable` | **violation**: disabling one interrupt disables its neighbours. |
| `Exceptions_return` | Kernel or user code goes on where the table says (one instruction behind it after a prefetch abort), with its mode and stacks, and with what else the trampolines keep; a crash of the kernel is final even if `kpanic` aborts; a user program always goes on. |
| `Exceptions_leaf` | **violation**: an interrupt in a function that has its return address only in LR overwrites it. |
| `Console_printing` | Each text arrives in order and in the right digits but for dropped characters; only carriage returns and characters overtaken between test and store are dropped; every `kprintf` returns, a handler's too. |

Each property of a passing run has an operator in its module that changes one
definition the way a slip in the code would (`TaskSwitch_Unsaved`, `KmallocLink_Lost`,
...), with which TLC finds the property violated; `PROJECT.json` pairs them.

### Bounds

- `ContextSwitch`: three processes, so that previous, current and next differ;
  `MaxLevel` 3, one more than the nesting that occurs; progress modulo 2, enough to
  tell a context from a copy that is one step old.  Ticks are not bounded.
- `ProcRing`: six nodes, so that with several spawns under way there are still processes
  that take no part; three where two ticks are enough.  Nothing else is bounded.
- `Keyboard`: a lead of four bytes, so that a break code of three bytes and half of another code
  can be waiting; the keys are chosen such that plain and extended keys share codes, and one
  has a code beyond its table.
- `KernelMemory`: three allocations of four sizes (less than a header, a header, one that
  leaves a rest smaller than a header, two headers) in 21 words, which is room to split a
  block and to leave free ones on both sides of a held one; `HeapList` alone four
  allocations in 40.  One permanent object next to the two of boot, and one size that is too
  large.  Six pages in words of two bits, so that the searches skip whole words, with one
  page more allocated than there are, so that `m_free_pages` goes round (`CounterRange` 16).
- `Interrupts`: the kernel's own drivers and numbers.
- `Exceptions`: a loop of two instructions (three in `Exceptions_leaf`) and a leaf function of
  two, so that every exception can come before, in and after a call; three dumps on a stack, so that
  `kpanic` can abort in its turn.  Exceptions are not bounded.
- `Console`: two processes and the handler, one call each, which makes every mix of a test
  and a store of three flows; a FIFO of two; words of two hexadecimal digits.

`CHECK_DEADLOCK FALSE` appears where the system may stop: the heap and the pages are
used up or overwritten, an assertion, a crash or a panic halts the kernel, or everything
has been printed.

### Fairness

The processor executes: weak fairness of the steps of the interrupt path and of the
flows in `ProcRing`.  A timer in periodic mode runs down again and again whatever the
processor does: strong fairness of `Raise(t)`.  Its period is long next to the few
instructions that an unmasked interrupt waits, so an interrupt with a higher number is
not overtaken every time: strong fairness of `IrqEntry` while no timer line is
asserted.  A keyboard sends a byte in about a millisecond, while the outermost trampoline
needs a few instructions to its end, so it is not interrupted for ever: strong fairness
of its `TrampolineReturn`.  In `Interrupts` an interrupt that is let through over and over is taken.
In `Exceptions` the processor executes trampolines and handlers: weak fairness of `Handle`.
In `Console` the transmitter sends (weak fairness of `Transmit`, also
while a handler waits for it with interrupts masked), ticks keep coming (weak fairness of
`Tick`), and a time slice is longer than an instruction: strong fairness of `Putc(f)`, for a
step that ticks take from a flow again and again.
Nothing is assumed of devices other than timers, nor of spawners or callers of `kprintf`.

## What is proved

All theorems hold for any values of the constants that meet the modules' assumptions and
the one the theorem names.  Each rests on an inductive invariant that says more than the
properties of the runs do.

| module | under | theorems |
| --- | --- | --- |
| `ContextSwitchProofs` | `SlowTimer` | `ResumesCurrent`, `ParkedOnOwnStack`, `NestingBounded`, refinement of `RoundRobin` |
| `ProcRingProofs` | `Masked` | `NoAssertionFailure`, `RingInPidOrder`, refinement of `ProcQueue` |
| `InterruptsProofs` | `OneDriverPerNumber` | `DispatchFindsDriver`, `NoAssertionFailure` |
| `KernelMemoryProofs`, for `HeapList` too | `~FreesTail` | `Tiling`, `BlocksMatchHolders`, `HeldDisjoint`, `FreeFindsBlock`, `WritesHitNextHeader`, `HeadersApart`, refinement of `Allocator` |
| `KernelMemoryProofs`, for `PhysMem` too | | `CountersMatchBitmap`, `LowestPageFound`, `SearchSucceeds` |
| `ExceptionsProofs` | | `ReturnsPerTable`, `ProgramUndisturbed`, `KernelCrashIsFinal` |
| `KeyboardProofs` | | `InSync` |
| `KeyboardProofs` | `TablesMatch` | `EchoesWhatWasTyped` |
| `ConsoleProofs` | | `SentInOrder`, `LostOnlyIfOvertaken`, and `DigitsReadBack` of `Kprintf` |

with `TypeOK` in each.  The conditions are what the code needs and does not enforce.
`ContextSwitch_two_timers`, `ProcRing_unmasked` and `HeapList_free_tail` drop the first, the
second and the fourth; without the third, an assertion stops the kernel.  `TablesMatch` is
about the keyboard on the desk.

### The interrupt path

`SlowTimer` says that there is at most one timer interrupt, and that it is not `Quick`.
None of the properties is inductive by itself:
whether the second dump may be loaded depends on who interrupted, and whether a timer
can interrupt depends on where the first one was cleared.  `IInv` adds

- `InProcessCode`, `InTrampoline`: what the processor's context looks like,
- `OuterDump`: in the path, the outermost dump is code of the current process,
  which `task_switch` keeps true by changing both,
- `InnerDump`: the second dump is the trampoline of the first, and is served with
  interrupts masked by something that is not a timer,
- `NoTimerInside`: where the path can be interrupted no timer line is asserted, because
  only `task_switch` unmasks and the timer was cleared just before.

`InitInvariant` and `NextInvariant` (one step per action) give `Invariance`.
`InitRefines` and `StepRefines` map every step to a step of `RoundRobin` or to a
stutter: `Work` to `Work`, `HandleTimer` to `Switch`, everything else to a stutter.
`ContextSwitch_two_timers` shows what happens without `SlowTimer`.

### The process list

`RingInPidOrder` speaks of states in which nobody spawns; the invariant has to say what
the list looks like in the middle of `append`:

- `Alone`: a flow is in `Process::Process` only while it has the processor,
- `Memory`, `Pids`: the object under construction is nobody else's, and pids are handed
  out without gaps,
- `Starting`: the stages of `Scheduler::initialise`,
- `Ring`: a process links to the one with the next pid (`Chain`), up to `m_tail`; what
  is being appended has a greater pid than all of them, and joins when `m_tail` moves.

Pids order the list, so no induction over the list is needed to keep `Ring`.  One is
needed to get from links to `Walk`: after `i` links one is at the process before which `i`
others were spawned (`WalkVisits`), so the walk visits every process once and comes back.  The
same fact makes the queue of the refinement a function of the set of processes
that have joined (`OrderIsByPid`), so that only the steps which change this set,
`AppendFirst` and `AppendTail`, are more than stutters of a flow.

### The interrupt table

`OneDriverPerNumber` is the assertion of `install_handler`, as a condition on who
constructs what.  `TableMatchesLife` ties the table's entry of a number to the stage of
construction of its driver, and `OnlyReadyInterrupt` says that a device is silent unless its
driver is complete, until a driver is destroyed under a device that is not (`live`).

### The heap and the arena

`~FreesTail`: the last block is never freed.  `HeapInv` has, next to the properties,

- that the last block is in use and is what the tail points to: a free one would
  be split by the next `alloc`, which leaves the pointer behind
  (`HeapList_free_tail` shows the overlap that follows),
- that every block but the last has room for a header (`RoomForHeader`), or `Smash` would have
  been the step: so blocks have addresses of their own, and a header lies in one block,
- `HoldersMatch`: blocks in use and pointers held correspond one to one.

`WritesHitNextHeader` follows from the tiling and `RoomForHeader`.
`ListStepRefines` maps an alloc that hands something out to `Malloc` and a free to `Free`: what
is handed out is apart from the rest because the invariant holds in the next state too.
The other parts of `KernelMemory` stutter.
`FindBlockIsBest` shows what `find_block` finds in any list, with an induction over its loop.
`ArenaInv` is about the types of the permanent objects alone.

`PmmInv` has the counters and that the bitmap is finite.  `Take` is what setting the bits
of a region does to the size of the bitmap, with or without pages that were set before, and
`Wrap` what counting down from zero does.  The searches are about any bitmap: `Seeks(r, every, lo, hi)`
says that r is the lowest page that suits from lo up to hi, or that there is none, and
`SeeksOn` puts two ranges together.  With it an induction over the bits of a word
(`FindInWordSeeks`) and one over the words (`FindBitSeeks`) follow the two loops, for which
a full word has nothing to find (`SeeksFull`).  `SearchSucceeds` is then a matter of
counting: a bitmap with fewer bits set than were looked at has one that is not.

The parts of each step of `KernelMemory` are steps or stutters of `HeapList` and
`PhysMem`, so the three invariants are proved apart.

### The exceptions

Nothing is assumed but `ExceptionsAssumption`: the loop may have any length, the program
may be user or kernel code, and interrupts may come in leaf functions.  The properties
compare what the program gets back with `before`; the invariant says where that is kept
in between:

- `Interrupted`: what `before` may be, which includes what SPSR_svc holds while the program
  runs (`Running`): user mode under user code, SVC mode or none under the kernel,
- `InVector`: it is in the banked registers of the mode that took the exception,
- `InHandler`: the address to go on at is in the one dump on the stack of the mode that
  serves it (`ServedIn`, which is not the mode that took it if it is an interrupt), and
  unless it is an interrupt the status is in SPSR of that mode,
- `InCrash`: after a crash of the kernel the processor is masked, and every dump that a
  handler can still return to leads to `kpanic` (`PanicAborted`).

`GoesOnInProgram` shows that where a program goes on is code of its own, `ReturnsToProgram`
that it gets back what the trampolines keep, and `BackByReturn` that there is no other way back.

### The keyboard

The keys may be any, with scan codes that are single bytes and not a signal
(`KeyboardAssumption`), and the keyboard any number of bytes ahead.  `InSync` speaks of
states in which no byte is waiting, so the invariant has to say what the waiting bytes
are worth.  `Decoding` runs the driver ahead: `states[i]` is what it will know after `i` of
them, and `left[i]` what it will still have to print.  `CatchesUp` says that this run ends in
a state that agrees with the keys (`Agrees`), and that it prints exactly what is owed, if the
tables match and none was read beyond its end (`Pays`).

- An interrupt takes the first byte off the run (`LeadsOn`), and `IrqDecodes` that every
  way through `handle_irq` is the step of the run.
- A key that goes down or up adds its code at the end of the run (`LeadsFurther`), one to
  three bytes, which start in a state without half a code: `MakeCodeLeads`, `BreakCodeLeads`.
- That the flags agree again after a code is `FlagsWhenPressed` and `FlagsWhenReleased`, for
  which no key may change the flag of another (`HoldsAreDistinct`, `OthersFollow`); that the
  character is the one on the key is `PrintedIsLegend`.

### The console

There may be any number of processes, any formats and echoes whose arguments have their
types, any depth of the FIFO and words of any width (`ConsoleAssumption`,
`KprintfAssumption`).

The digits come first.  The loop that fills `buff` divides by ten again and again;
`QuotTwice` makes of this one division by a power (`BuffIs`), for negative numbers, too.
`LengthIs` says how many digits there are, for which a buffer of 4 * `Nibbles`
has room (`WordsHaveRoom`), and `StrlenIs` that `strlen` finds the end there.  With this
`DecimalDigits` compares what is written with the numeral position by position, and
`HexDigits` does it for %x.  `DigitsReadBack` puts them together; the least integer is
left out, as above.

`SentInOrder` is about what a flow has got through so far, and says nothing about what it
is yet to store.  `Account` does: the flow's text is what is settled, followed by what is
to come (the return after a newline, then `out` with its returns); and of what is settled, the
transmitter has got all but `lost` characters, in order (`Keeps`).  The lemmas `BalancedBegin`,
`BalancedStore`, `BalancedOther` and `BalancedTransmit` are the steps of an account, free of
the state; `KeepsIsPartOf` says that the greedy search of `IsPartOf` finds what `Keeps` says
is there.  What FlattenSeq does with sequences that are put together (`FlattenConcat`) carries
over to formats, texts with returns, and the FIFO.

`Control` has what `LostOnlyIfOvertaken` needs: a flow between test and store that was not
overtaken is the one that executes, and the room it found is still there.

### Recursion

The library's induction theorems are about operators, which the installed provers cannot
instantiate.  `NatRecursion` proves what the loops need in a first-order form, from the
well-foundedness of `<`: induction over a set of numbers, and that recursive definitions over
`0..N` and over all numbers have a solution.

### Only model-checked

Liveness (`EveryProcessRuns`, `EveryLineServed`, `EverySpawnRuns`, `ReadyIsServed`,
`UserGoesOn`, `EveryCallReturns`), which is beyond the prover.  Every invariant, every action
property and each refinement that a passing run checks are theorems.

## Not modelled

- Boot's order of calls, made with interrupts off, and the global constructors; what
  boot leaves behind is in the initial states of `Exceptions` (stacks),
  `KernelMemory` (the manager and its bitmap) and `Interrupts` (the controller).
- FIQ and the unused vector, which branch to themselves.
- Virtual memory: the MMU is off, its classes are empty.  The CP15 accessors are one
  instruction each, and nothing combines them into behaviour.
- The stubs of the file system and device classes.
- Library functions without a caller: `memcpy`, `memcmp`, `strcpy`, `strcmp`, `qtl::String`,
  and the linked list, that nothing is put in.
- `kprintf`'s return value, which nobody uses, and an unknown conversion, which fails an
  assertion.
- Memory that was overwritten: `HeapList` stops at the first header that is hit, and `Interrupts`
  at the first dispatch to what is no driver.
- What lies behind the keyboard's tables and the bitmap.
- Sizes in bytes, such as `PROC_STACK_SIZE`, which counts words where bytes are meant.
- Build files, editor files and manuals.

## Plan

1. Model: `HeapMemory` (the heap word by word, implementing `HeapList` where no header
   is hit); the composition of `ProcRing` and `ContextSwitch`, with a spawner as a
   process of the interrupt path.
2. Prove: the refinements that come with these two.
