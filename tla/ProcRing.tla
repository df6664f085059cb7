------------------------------ MODULE ProcRing ------------------------------
(***************************************************************************)
(* The list of processes and the two parties that use it: flows of kernel  *)
(* code that spawn processes (Process::Process in process.cpp, which       *)
(* appends to a CircularLinkedList of circularlinkedlist.h), and the timer *)
(* tick, in which Scheduler::task_switch follows m_next.                   *)
(*                                                                         *)
(* A flow runs only while its process is the current one, and a tick can   *)
(* come between any two of its instructions unless interrupts are masked.  *)
(* The kernel is built with -O0: each load and store below is a step, and  *)
(* what was loaded before a tick is used after it.  Of the heap, which the *)
(* flows share as well, HeapList has the inside; here it is the set of the *)
(* objects that its list holds.                                            *)
(***************************************************************************)
EXTENDS Naturals, FiniteSets

CONSTANTS
  Node,       \* Process objects
  Kernel,     \* the one Scheduler::initialise makes, s_proc0
  Spawners,   \* the processes whose code spawns others
  Masked,     \* whether they do so under an InterruptDisabler
  NULL        \* nullptr

ASSUME RingAssumption ==
  /\ IsFiniteSet(Node)
  /\ Kernel \in Node
  /\ Spawners \subseteq Node
  /\ Masked \in BOOLEAN
  /\ NULL \notin Node \cup Nat

VARIABLES
  m_head, m_tail,  \* g_proc_list
  m_next,          \* m_next[n]: the link in the process object n
  current_proc,    \* the scheduler's current process
  heap,            \* the objects whose blocks are in the heap's list
  users,           \* those of them that are user processes
  GLOBAL_PID,      \* the next pid
  m_pid,           \* m_pid[n], nullptr before n is constructed
  pc,              \* pc[p]: where the flow of p is in Process::Process
  node,            \* node[p]: the object that flow is constructing
  reg,             \* reg[p]: the register that flow loaded last
  boot,            \* how far Scheduler::initialise has come
  halted           \* __assertion_failed was called

vars == <<m_head, m_tail, m_next, current_proc, heap, users, GLOBAL_PID, m_pid,
          pc, node, reg, boot, halted>>

list == <<m_head, m_tail, m_next>>
objects == <<heap, users, GLOBAL_PID, m_pid>>

Init ==
  /\ m_head = NULL
  /\ m_tail = NULL
  /\ m_next = [n \in Node |-> NULL]
  /\ current_proc = NULL
  /\ heap = {}
  /\ users = {}
  /\ GLOBAL_PID = 0
  /\ m_pid = [n \in Node |-> NULL]
  /\ pc = [p \in Node |-> "idle"]
  /\ node = [p \in Node |-> NULL]
  /\ reg = [p \in Node |-> NULL]
  /\ boot = "start"
  /\ halted = FALSE

(* The flow that has the processor: boot goes on as the kernel process. *)
Cur == IF current_proc = NULL THEN Kernel ELSE current_proc

(* p executes the instruction its flow has come to, and goes on to l. *)
At(p, k, l) ==
  /\ ~halted
  /\ p = Cur
  /\ pc[p] = k
  /\ pc' = [pc EXCEPT ![p] = l]

(***************************************************************************)
(* spawn_kernel_process or spawn_user_process: operator new calls kmalloc, *)
(* which sees from the list what memory comes next ...  The first call is  *)
(* that of Scheduler::initialise.                                          *)
(***************************************************************************)
NextObject ==
  IF heap = {} THEN Kernel ELSE CHOOSE n \in Node \ (heap \cup {Kernel}) : TRUE

Kmalloc(p) ==
  /\ At(p, "idle", "kmalloc")
  /\ heap # Node
  /\ \/ boot = "start" /\ p = Kernel /\ boot' = "spawning" /\ UNCHANGED users
     \/ /\ boot = "up" /\ p \in Spawners
        /\ UNCHANGED boot
        /\ users' = users \/ users' = users \cup {NextObject}
  /\ node' = [node EXCEPT ![p] = NextObject]
  /\ UNCHANGED <<list, current_proc, heap, GLOBAL_PID, m_pid, reg, halted>>

(* For checking the properties: the block is not linked. *)
KmallocLink_Lost(p) ==
  /\ At(p, "kmalloc", "new")
  /\ UNCHANGED <<list, current_proc, objects, node, reg, boot, halted>>

(* ... and links the block that it made there. *)
KmallocLink(p) ==
  /\ At(p, "kmalloc", "new")
  /\ heap' = heap \cup {node[p]}
  /\ UNCHANGED <<list, current_proc, users, GLOBAL_PID, m_pid, node, reg, boot,
                 halted>>

(* The constructor: m_next is null, and m_pid(GLOBAL_PID++) is loaded.     *)
Construct(p) ==
  /\ At(p, "new", "pid")
  /\ m_next' = [m_next EXCEPT ![node[p]] = NULL]
  /\ reg' = [reg EXCEPT ![p] = GLOBAL_PID]
  /\ UNCHANGED <<m_head, m_tail, current_proc, objects, node, boot, halted>>

(* A user process is complete now; nothing puts it in the list. *)
AfterPid(p) == IF node[p] \in users THEN "idle" ELSE "append"

(* As above: one object takes two pids. *)
StorePid_Twice(p) ==
  /\ At(p, "pid", AfterPid(p))
  /\ GLOBAL_PID' = reg[p] + 2
  /\ m_pid' = [m_pid EXCEPT ![node[p]] = reg[p]]
  /\ UNCHANGED <<list, current_proc, heap, users, node, reg, boot, halted>>

(* The store of GLOBAL_PID++. *)
StorePid(p) ==
  /\ At(p, "pid", AfterPid(p))
  /\ GLOBAL_PID' = reg[p] + 1
  /\ m_pid' = [m_pid EXCEPT ![node[p]] = reg[p]]
  /\ UNCHANGED <<list, current_proc, heap, users, node, reg, boot, halted>>

(* As above: initialise does not append s_proc0 again. *)
Return_Once(p, k) ==
  /\ At(p, k, "idle")
  /\ boot' = "up"

(***************************************************************************)
(* append returns.  Scheduler::initialise then appends s_proc0, which its  *)
(* constructor has appended already, once more: this is what closes the    *)
(* ring of one.  Timers are started after that.                            *)
(***************************************************************************)
Return(p, k) ==
  \/ /\ boot = "spawning"
     /\ At(p, k, "append")
     /\ boot' = "closing"
  \/ /\ boot # "spawning"
     /\ At(p, k, "idle")
     /\ boot' = "up"

(* CircularLinkedList::append on the empty list; the new node's m_next     *)
(* stays null.                                                             *)
AppendFirst(p) ==
  /\ m_head = NULL
  /\ Return(p, "append")
  /\ m_head' = node[p]
  /\ m_tail' = node[p]
  /\ UNCHANGED <<m_next, current_proc, objects, node, reg, halted>>

(* As above: the new node is linked behind the head. *)
AppendLoad_Head(p) ==
  /\ m_head # NULL
  /\ At(p, "append", "link")
  /\ reg' = [reg EXCEPT ![p] = m_head]
  /\ UNCHANGED <<list, current_proc, objects, node, boot, halted>>

(* m_tail->set_next(node): the load of m_tail ... *)
AppendLoad(p) ==
  /\ m_head # NULL
  /\ At(p, "append", "link")
  /\ reg' = [reg EXCEPT ![p] = m_tail]
  /\ UNCHANGED <<list, current_proc, objects, node, boot, halted>>

(* ... and the store to the tail's m_next. *)
AppendLink(p) ==
  /\ At(p, "link", "tail")
  /\ m_next' = [m_next EXCEPT ![reg[p]] = node[p]]
  /\ UNCHANGED <<m_head, m_tail, current_proc, objects, node, reg, boot, halted>>

(* As above: the tail is left where it was. *)
AppendTail_Stale(p) ==
  /\ At(p, "tail", "close")
  /\ UNCHANGED <<list, current_proc, objects, node, reg, boot, halted>>

(* m_tail = node. *)
AppendTail(p) ==
  /\ At(p, "tail", "close")
  /\ m_tail' = node[p]
  /\ UNCHANGED <<m_head, m_next, current_proc, objects, node, reg, boot, halted>>

(* m_tail->set_next(m_head): m_tail is loaded again ... *)
AppendReload(p) ==
  /\ At(p, "close", "closing")
  /\ reg' = [reg EXCEPT ![p] = m_tail]
  /\ UNCHANGED <<list, current_proc, objects, node, boot, halted>>

(* As above: the new tail is linked to itself. *)
AppendClose_Self(p) ==
  /\ Return(p, "closing")
  /\ m_next' = [m_next EXCEPT ![reg[p]] = reg[p]]
  /\ UNCHANGED <<m_head, m_tail, current_proc, objects, node, reg, halted>>

(* ... and the ring is closed behind it. *)
AppendClose(p) ==
  /\ Return(p, "closing")
  /\ m_next' = [m_next EXCEPT ![reg[p]] = m_head]
  /\ UNCHANGED <<m_head, m_tail, current_proc, objects, node, reg, halted>>

(***************************************************************************)
(* A timer tick: task_switch makes the next process current, and asserts   *)
(* that there is one.  Not while the running flow has interrupts masked.   *)
(***************************************************************************)
TaskSwitch ==
  /\ ~halted
  /\ boot = "up"
  /\ Masked => pc[Cur] = "idle"
  /\ current_proc' = m_next[Cur]
  /\ halted' = (m_next[Cur] = NULL)
  /\ UNCHANGED <<list, objects, pc, node, reg, boot>>

Spawn(p) ==
  \/ Kmalloc(p)
  \/ KmallocLink(p)
  \/ Construct(p)
  \/ StorePid(p)
  \/ AppendFirst(p)
  \/ AppendLoad(p)
  \/ AppendLink(p)
  \/ AppendTail(p)
  \/ AppendReload(p)
  \/ AppendClose(p)

Next == TaskSwitch \/ \E p \in Node : Spawn(p)

Spec == Init /\ [][Next]_vars

(* Ticks keep coming, and a flow that has the processor executes.          *)
Fairness ==
  /\ WF_vars(TaskSwitch)
  /\ \A p \in Node : WF_vars(pc[p] # "idle" /\ Spawn(p))
  /\ WF_vars(boot = "start" /\ Spawn(Kernel))

LiveSpec == Spec /\ Fairness

-----------------------------------------------------------------------------
TypeOK ==
  /\ m_head \in Node \cup {NULL}
  /\ m_tail \in Node \cup {NULL}
  /\ m_next \in [Node -> Node \cup {NULL}]
  /\ current_proc \in Node \cup {NULL}
  /\ users \subseteq (heap \cup {node[p] : p \in Node}) \ {Kernel}
  /\ heap \subseteq Node
  /\ GLOBAL_PID \in 0..Cardinality(Node)
  /\ \A n \in Node : m_pid[n] \in 0..Cardinality(Node) \cup {NULL}
  /\ pc \in [Node -> {"idle", "kmalloc", "new", "pid", "append", "link", "tail",
                      "close", "closing"}]
  /\ node \in [Node -> Node \cup {NULL}]
  /\ boot \in {"start", "spawning", "closing", "up"}
  /\ halted \in BOOLEAN

(* The process i links after the head of the list, or NULL.                *)
Walk[i \in Nat] ==
  IF i = 0 THEN m_head
  ELSE IF Walk[i - 1] = NULL THEN NULL ELSE m_next[Walk[i - 1]]

Constructed == {n \in Node : m_pid[n] # NULL}

(***************************************************************************)
(* "ASSERT(current_proc)" (scheduler.cpp:58): a tick always finds a next   *)
(* process.                                                                *)
(***************************************************************************)
NoAssertionFailure == ~halted

(***************************************************************************)
(* While nothing is being spawned, each process has memory and a pid of    *)
(* its own, and the list is a ring of all the kernel processes, that       *)
(* starts with the first and is in the order of their pids.                *)
(***************************************************************************)
RingInPidOrder ==
  boot = "up" /\ ~halted /\ (\A p \in Node : pc[p] = "idle") =>
    LET size == Cardinality(Constructed \ users)
    IN  /\ heap = Constructed
        /\ {m_pid[n] : n \in Constructed} = 0..(Cardinality(Constructed) - 1)
        /\ {Walk[i] : i \in 0..(size - 1)} = Constructed \ users
        /\ \A i \in 1..(size - 1) : m_pid[Walk[i - 1]] < m_pid[Walk[i]]
        /\ Walk[size] = m_head

(***************************************************************************)
(* The list implements ProcQueue: the queue is what one meets on the way   *)
(* from m_head to m_tail, so that a process has joined it when m_tail      *)
(* points at it.                                                           *)
(***************************************************************************)
UpToTail ==
  {i \in 0..(Cardinality(Node) - 1) :
     Walk[i] # NULL /\ \A j \in 0..(i - 1) : Walk[j] # m_tail}

Queue == INSTANCE ProcQueue WITH
  order <- [i \in 1..Cardinality(UpToTail) |-> Walk[i - 1]],
  turn  <- Cur

ImplementsQueue == Queue!Spec

(* A kernel process that was constructed gets the processor.               *)
EverySpawnRuns ==
  \A n \in Node : m_pid[n] # NULL /\ n \notin users ~> current_proc = n
=============================================================================
