--------------------------- MODULE ProcRingProofs ---------------------------
(***************************************************************************)
(* If processes are spawned with interrupts masked, then for any number of *)
(* processes the list is a ring in the order of their pids whenever a tick *)
(* follows it, so that the scheduler always finds a next process.          *)
(***************************************************************************)
EXTENDS ProcRing, Sequences, NatRecursion, FiniteSetTheorems

(* Where the running flow is, and the object that it constructs.           *)
Flow == pc[Cur]
New == node[Cur]

Appending == {"append", "link", "tail", "close", "closing"}
Labels == {"idle", "kmalloc", "new", "pid"} \cup Appending

(* The kernel processes that were constructed.                             *)
Members == Constructed \ users

(* No tick comes between the steps of a flow.                              *)
Alone == \A p \in Node : pc[p] # "idle" => p = Cur

(* The object under construction is nobody else's.                         *)
Memory ==
  /\ Flow \notin {"new", "pid"} => heap = Constructed
  /\ Flow = "kmalloc" => New \in Node \ heap
  /\ Flow \in {"new", "pid"} => New \in Node \ Constructed /\ heap = Constructed \cup {New}
  /\ Flow \in Appending => New \in Members
  /\ users \subseteq IF Flow = "kmalloc" THEN heap \cup {New} ELSE heap
  /\ Kernel \notin users

(* Pids are handed out one after the other.                                *)
Pids ==
  /\ GLOBAL_PID = Cardinality(Constructed)
  /\ \A n \in Constructed : m_pid[n] \in 0..(GLOBAL_PID - 1)
  /\ \A i \in 0..(GLOBAL_PID - 1) : \E n \in Constructed : m_pid[n] = i
  /\ \A n, o \in Constructed : m_pid[n] = m_pid[o] => n = o
  /\ Flow = "pid" => reg[Cur] = GLOBAL_PID
  /\ Kernel \in Constructed => m_pid[Kernel] = 0

(* The stages of Scheduler::initialise.                                    *)
Starting ==
  /\ boot = "start" =>
       Flow = "idle" /\ Constructed = {} /\ current_proc = NULL /\ m_head = NULL
  /\ boot = "spawning" =>
       /\ current_proc = NULL /\ m_head = NULL /\ New = Kernel /\ users = {}
       /\ Flow \in {"kmalloc", "new", "pid", "append"}
       /\ Constructed = IF Flow = "append" THEN {Kernel} ELSE {}
  /\ boot = "closing" =>
       /\ current_proc = NULL /\ m_head = Kernel /\ m_tail = Kernel
       /\ New = Kernel /\ users = {} /\ Constructed = {Kernel}
       /\ Flow \in Appending
       /\ Flow \in {"link", "closing"} => reg[Cur] = Kernel
  /\ boot = "up" => m_head = Kernel /\ Kernel \in Members /\ Cur \in Members

(* The links of S lead from each of its processes to the one with the next *)
(* pid, up to t.                                                           *)
IsSucc(n, x, S) ==
  /\ x \in S /\ m_pid[n] < m_pid[x]
  /\ \A y \in S : m_pid[n] < m_pid[y] => m_pid[x] <= m_pid[y]

Chain(S, t) ==
  /\ t \in S
  /\ \A n \in S : m_pid[n] <= m_pid[t]
  /\ \A n \in S \ {t} : IsSucc(n, m_next[n], S)

(* What append has done to the ring so far.                                *)
Ring ==
  boot = "up" =>
    /\ Flow \notin Appending => Chain(Members, m_tail) /\ m_next[m_tail] = Kernel
    /\ Flow \in {"append", "link", "tail"} =>
         /\ Chain(Members \ {New}, m_tail)
         /\ \A n \in Members \ {New} : m_pid[n] < m_pid[New]
    /\ Flow = "link" => reg[Cur] = m_tail
    /\ Flow = "tail" => m_next[m_tail] = New
    /\ Flow \in {"close", "closing"} => Chain(Members, m_tail) /\ m_tail = New
    /\ Flow = "closing" => reg[Cur] = New

Types ==
  /\ m_head \in Node \cup {NULL} /\ m_tail \in Node \cup {NULL}
  /\ current_proc \in Node \cup {NULL}
  /\ m_next \in [Node -> Node \cup {NULL}]
  /\ heap \subseteq Node
  /\ GLOBAL_PID \in Nat
  /\ m_pid \in [Node -> Nat \cup {NULL}]
  /\ pc \in [Node -> Labels]
  /\ node \in [Node -> Node \cup {NULL}]
  /\ reg \in [Node -> Node \cup Nat \cup {NULL}]
  /\ boot \in {"start", "spawning", "closing", "up"}

IInv ==
  /\ Types
  /\ halted = FALSE
  /\ Alone
  /\ Memory
  /\ Pids
  /\ Starting
  /\ Ring

-----------------------------------------------------------------------------
(* Nothing is constructed yet. *)
LEMMA InitInvariant == Init => IInv
<1> SUFFICES ASSUME Init PROVE IInv
  OBVIOUS
<1>1. Cardinality({}) = 0
  BY FS_EmptySet
<1>2. Constructed = {} /\ Cur = Kernel /\ Flow = "idle"
  BY RingAssumption DEF Init, Constructed, Cur, Flow
<1>3. Types
  BY DEF Init, Types, Labels
<1>4. Alone
  BY DEF Init, Alone
<1>5. Memory
  BY <1>2 DEF Init, Memory, Appending
<1>6. Pids
  BY <1>1, <1>2 DEF Init, Pids
<1>7. Starting /\ Ring
  BY <1>2 DEF Init, Starting, Ring
<1>8. halted = FALSE
  BY Zenon DEF Init
<1> QED
  BY <1>3, <1>4, <1>5, <1>6, <1>7, <1>8 DEF IInv

(* A step of a flow is one of the current process.                         *)
LEMMA FlowStep ==
  ASSUME IInv, NEW p \in Node, NEW k, NEW l \in Labels, At(p, k, l),
         current_proc' = current_proc
  PROVE  /\ p = Cur /\ Cur \in Node /\ Cur' = Cur
         /\ Flow = k /\ Flow' = l
         /\ pc' \in [Node -> Labels] /\ Alone'
<1>1. pc \in [Node -> Labels]
  BY DEF IInv, Types
<1>2. p = Cur /\ pc[p] = k /\ pc' = [pc EXCEPT ![p] = l]
  BY DEF At
<1>3. Cur' = Cur
  BY DEF Cur
<1>4. pc' \in [Node -> Labels] /\ pc'[p] = l
  BY <1>1, <1>2
<1>5. Alone'
  BY <1>1, <1>2, <1>3 DEF IInv, Alone
<1> QED
  BY <1>2, <1>3, <1>4, <1>5 DEF Flow

(***************************************************************************)
(* kmalloc sees from the list what memory comes next: an object that is    *)
(* not in it.                                                              *)
(***************************************************************************)
LEMMA KmallocStep ==
  ASSUME IInv, NEW p \in Node, Kmalloc(p)
  PROVE  IInv'
<1>1. /\ p = Cur /\ Cur \in Node /\ Cur' = Cur /\ Flow = "idle" /\ Flow' = "kmalloc"
      /\ pc' \in [Node -> Labels] /\ Alone'
  <2>1. At(p, "idle", "kmalloc") /\ current_proc' = current_proc /\ "kmalloc" \in Labels
    BY DEF Kmalloc, Labels
  <2> QED
    BY <2>1, FlowStep
<1>2. /\ list' = list /\ heap' = heap /\ GLOBAL_PID' = GLOBAL_PID /\ m_pid' = m_pid
      /\ reg' = reg /\ current_proc' = current_proc /\ halted' = halted
      /\ Constructed' = Constructed
  BY DEF Kmalloc, Constructed
<1>3. /\ m_head' = m_head /\ m_tail' = m_tail /\ m_next' = m_next
  BY <1>2 DEF list
<1>4. heap = Constructed /\ users \subseteq heap /\ Kernel \notin users
  BY <1>1 DEF IInv, Memory
<1>5. NextObject \in Node \ heap /\ (boot = "up" => NextObject # Kernel)
  <2>1. boot = "up" => Kernel \in heap
    BY <1>4 DEF IInv, Starting, Members
  <2>2. boot # "up" => heap = {}
    BY <1>1, <1>4 DEF IInv, Starting, Types, Appending
  <2>3. CASE heap = {}
    BY <2>1, <2>3, RingAssumption DEF NextObject
  <2>4. CASE heap # {}
    <3>1. \E n \in Node \ (heap \cup {Kernel}) : TRUE
      BY <2>1, <2>2, <2>4 DEF Kmalloc, IInv, Types
    <3> QED
      BY <2>4, <3>1, Zenon DEF NextObject
  <2> QED
    BY <2>3, <2>4
<1>6. node' = [node EXCEPT ![p] = NextObject]
  BY DEF Kmalloc
<1>7. node' \in [Node -> Node \cup {NULL}] /\ New' = NextObject
  BY <1>1, <1>5, <1>6 DEF IInv, Types, New
<1>8. \/ boot = "start" /\ boot' = "spawning" /\ users' = users /\ p = Kernel
      \/ boot = "up" /\ boot' = "up" /\ users' \subseteq users \cup {NextObject}
  BY DEF Kmalloc
<1>9. Types'
  BY <1>1, <1>2, <1>3, <1>7, <1>8 DEF IInv, Types
<1>10. Memory' /\ Members' = Members
  <2>1. users' \subseteq users \cup {NextObject} /\ users \subseteq users'
    BY DEF Kmalloc
  <2>2. Kernel \notin users'
    BY <1>4, <1>5, <1>8
  <2>3. Members' = Members
    BY <1>2, <1>4, <1>5, <2>1 DEF Members
  <2> QED
    BY <1>1, <1>2, <1>4, <1>5, <1>7, <2>1, <2>2, <2>3 DEF Memory, Appending
<1>11. Pids'
  BY <1>1, <1>2 DEF IInv, Pids
<1>12. Starting'
  <2>1. CASE boot = "start"
    <3>1. boot' = "spawning" /\ users' = users /\ Constructed = {} /\ heap = {} /\ m_head = NULL
          /\ current_proc = NULL
      BY <1>4, <1>8, <2>1 DEF IInv, Starting
    <3>2. NextObject = Kernel /\ users' = {}
      BY <1>4, <3>1 DEF NextObject
    <3> QED
      BY <1>1, <1>2, <1>3, <1>7, <3>1, <3>2 DEF Starting
  <2>2. CASE boot = "up"
    BY <1>1, <1>2, <1>3, <1>8, <1>10, <2>2 DEF IInv, Starting
  <2> QED
    BY <1>8, <2>1, <2>2
<1>13. Ring'
  <2> SUFFICES ASSUME boot' = "up" PROVE Ring'
    BY DEF Ring
  <2>1. boot = "up"
    BY <1>8
  <2>2. Chain(Members, m_tail) /\ m_next[m_tail] = Kernel
    BY <1>1, <2>1 DEF IInv, Ring, Appending
  <2>3. Chain(Members, m_tail)'
    BY <1>2, <1>3, <1>10, <2>2 DEF Chain, IsSucc
  <2> QED
    BY <1>1, <1>3, <2>2, <2>3 DEF Ring, Appending
<1> QED
  BY <1>1, <1>2, <1>9, <1>10, <1>11, <1>12, <1>13, Zenon DEF IInv

(* The object's block is in the heap's list now; no process changed. *)
LEMMA KmallocLinkStep ==
  ASSUME IInv, NEW p \in Node, KmallocLink(p)
  PROVE  IInv'
<1>1. /\ p = Cur /\ Cur \in Node /\ Cur' = Cur /\ Flow = "kmalloc" /\ Flow' = "new"
      /\ pc' \in [Node -> Labels] /\ Alone'
  <2>1. At(p, "kmalloc", "new") /\ current_proc' = current_proc /\ "new" \in Labels
    BY DEF KmallocLink, Labels
  <2> QED
    BY <2>1, FlowStep
<1>2. /\ m_head' = m_head /\ m_tail' = m_tail /\ m_next' = m_next
      /\ users' = users /\ GLOBAL_PID' = GLOBAL_PID /\ m_pid' = m_pid
      /\ node' = node /\ reg' = reg /\ current_proc' = current_proc
      /\ boot' = boot /\ halted' = halted
      /\ Constructed' = Constructed /\ Members' = Members
  BY DEF KmallocLink, list, Constructed, Members
<1>3. heap' = heap \cup {New} /\ New' = New
  BY <1>1, <1>2 DEF KmallocLink, New
<1>4. New \in Node \ heap /\ heap = Constructed
  BY <1>1 DEF IInv, Memory
<1>5. Types'
  BY <1>1, <1>2, <1>3, <1>4 DEF IInv, Types
<1>6. Memory'
  BY <1>1, <1>2, <1>3, <1>4 DEF IInv, Memory, Appending
<1>7. Pids'
  BY <1>1, <1>2 DEF IInv, Pids
<1>8. Starting'
  BY <1>1, <1>2, <1>3 DEF IInv, Starting, Appending
<1>9. Ring'
  <2> SUFFICES ASSUME boot = "up" PROVE Ring'
    BY <1>2 DEF Ring
  <2>1. Chain(Members, m_tail) /\ m_next[m_tail] = Kernel
    BY <1>1 DEF IInv, Ring, Appending
  <2>2. Chain(Members, m_tail)'
    BY <1>2, <2>1 DEF Chain, IsSucc
  <2> QED
    BY <1>1, <1>2, <2>1, <2>2 DEF Ring, Appending
<1> QED
  BY <1>1, <1>2, <1>5, <1>6, <1>7, <1>8, <1>9, Zenon DEF IInv

(* The new object's link is not one of the ring's.                         *)
LEMMA ConstructStep ==
  ASSUME IInv, NEW p \in Node, Construct(p)
  PROVE  IInv'
<1>1. /\ p = Cur /\ Cur \in Node /\ Cur' = Cur /\ Flow = "new" /\ Flow' = "pid"
      /\ pc' \in [Node -> Labels] /\ Alone'
  <2>1. At(p, "new", "pid") /\ current_proc' = current_proc /\ "pid" \in Labels
    BY DEF Construct, Labels
  <2> QED
    BY <2>1, FlowStep
<1>2. /\ m_head' = m_head /\ m_tail' = m_tail
      /\ heap' = heap /\ users' = users /\ GLOBAL_PID' = GLOBAL_PID /\ m_pid' = m_pid
      /\ node' = node /\ current_proc' = current_proc /\ boot' = boot /\ halted' = halted
      /\ Constructed' = Constructed /\ Members' = Members
  BY DEF Construct, objects, Constructed, Members
<1>3. New \in Node \ Constructed /\ heap = Constructed \cup {New} /\ New' = New
  BY <1>1, <1>2 DEF IInv, Memory, New
<1>4. m_next' = [m_next EXCEPT ![New] = NULL] /\ reg' = [reg EXCEPT ![Cur] = GLOBAL_PID]
  BY <1>1 DEF Construct, New
<1>5. Types'
  BY <1>1, <1>2, <1>3, <1>4 DEF IInv, Types
<1>6. Memory'
  BY <1>1, <1>2, <1>3 DEF IInv, Memory, Appending
<1>7. Pids'
  <2>1. reg'[Cur] = GLOBAL_PID
    BY <1>1, <1>4 DEF IInv, Types
  <2> QED
    BY <1>1, <1>2, <2>1 DEF IInv, Pids
<1>8. Starting'
  BY <1>1, <1>2, <1>3 DEF IInv, Starting, Appending
<1>9. Ring'
  <2> SUFFICES ASSUME boot = "up" PROVE Ring'
    BY <1>2 DEF Ring
  <2>1. Chain(Members, m_tail) /\ m_next[m_tail] = Kernel
    BY <1>1 DEF IInv, Ring, Appending
  <2>2. \A n \in Members : m_next'[n] = m_next[n]
    BY <1>3, <1>4 DEF IInv, Types, Members, Constructed
  <2>3. Chain(Members, m_tail)'
    BY <1>2, <2>1, <2>2 DEF Chain, IsSucc
  <2> QED
    BY <1>1, <1>2, <2>1, <2>2, <2>3 DEF Ring, Appending, Chain
<1> QED
  BY <1>1, <1>2, <1>5, <1>6, <1>7, <1>8, <1>9, Zenon DEF IInv

(* The pid that was loaded is still the next one.                          *)
LEMMA StorePidStep ==
  ASSUME IInv, NEW p \in Node, StorePid(p)
  PROVE  IInv'
<1>1. /\ p = Cur /\ Cur \in Node /\ Cur' = Cur /\ Flow = "pid" /\ Flow' = AfterPid(p)
      /\ pc' \in [Node -> Labels] /\ Alone'
  <2>1. At(p, "pid", AfterPid(p)) /\ current_proc' = current_proc /\ AfterPid(p) \in Labels
    BY DEF StorePid, Labels, Appending, AfterPid
  <2> QED
    BY <2>1, FlowStep
<1>2. /\ m_head' = m_head /\ m_tail' = m_tail /\ m_next' = m_next
      /\ heap' = heap /\ users' = users
      /\ node' = node /\ reg' = reg /\ current_proc' = current_proc
      /\ boot' = boot /\ halted' = halted
  BY DEF StorePid, list
<1>3. New \in Node \ Constructed /\ heap = Constructed \cup {New} /\ New' = New
  BY <1>1, <1>2 DEF IInv, Memory, New
<1>4. GLOBAL_PID \in Nat /\ GLOBAL_PID # NULL /\ reg[p] = GLOBAL_PID
  BY <1>1, RingAssumption DEF IInv, Types, Pids
<1>5. GLOBAL_PID' = GLOBAL_PID + 1 /\ m_pid' = [m_pid EXCEPT ![New] = GLOBAL_PID]
  BY <1>1, <1>4 DEF StorePid, New
<1>6. m_pid'[New] = GLOBAL_PID /\ \A n \in Constructed : m_pid'[n] = m_pid[n]
  BY <1>3, <1>5 DEF IInv, Types, Constructed
<1>7. Constructed' = Constructed \cup {New}
  BY <1>3, <1>4, <1>5 DEF IInv, Types, Constructed
<1>8. Types'
  BY <1>1, <1>2, <1>3, <1>4, <1>5 DEF IInv, Types
<1>9. /\ users \subseteq heap /\ Kernel \notin users
      /\ Flow' = IF New \in users THEN "idle" ELSE "append"
  BY <1>1 DEF IInv, Memory, AfterPid, New
<1>10. Memory'
  BY <1>2, <1>3, <1>7, <1>9 DEF Memory, Members, Appending
<1>11. Pids'
  <2>1. \A n \in Constructed : m_pid[n] \in 0..(GLOBAL_PID - 1)
    BY DEF IInv, Pids
  <2>2. Cardinality(Constructed') = GLOBAL_PID + 1
    <3>1. IsFiniteSet(Constructed)
      BY RingAssumption, FS_Subset DEF Constructed
    <3>2. Cardinality(Constructed \cup {New}) = Cardinality(Constructed) + 1
      BY <1>3, <3>1, FS_AddElement
    <3> QED
      BY <1>7, <3>2 DEF IInv, Pids
  <2>3. \A n \in Constructed' : m_pid'[n] \in 0..GLOBAL_PID
    BY <1>4, <1>6, <1>7, <2>1
  <2>4. \A i \in 0..GLOBAL_PID : \E n \in Constructed' : m_pid'[n] = i
    <3> SUFFICES ASSUME NEW i \in 0..GLOBAL_PID
                 PROVE  \E n \in Constructed' : m_pid'[n] = i
      OBVIOUS
    <3>1. CASE i = GLOBAL_PID
      BY <1>6, <1>7, <3>1
    <3>2. CASE i # GLOBAL_PID
      <4>1. i \in 0..(GLOBAL_PID - 1)
        BY <1>4, <3>2
      <4>2. PICK n \in Constructed : m_pid[n] = i
        BY <4>1 DEF IInv, Pids
      <4> QED
        BY <1>6, <1>7, <4>2
    <3> QED
      BY <3>1, <3>2
  <2>5. \A n, o \in Constructed' : m_pid'[n] = m_pid'[o] => n = o
    <3>1. \A n, o \in Constructed : m_pid[n] = m_pid[o] => n = o
      BY DEF IInv, Pids
    <3>2. \A n \in Constructed : m_pid'[n] # m_pid'[New]
      BY <1>4, <1>6, <2>1
    <3> QED
      BY <1>6, <1>7, <3>1, <3>2
  <2>6. Kernel \in Constructed' => m_pid'[Kernel] = 0
    <3>1. CASE Kernel \in Constructed
      BY <1>6, <3>1 DEF IInv, Pids
    <3>2. CASE Kernel \notin Constructed
      <4>1. boot = "spawning"
        BY <1>1, <3>2 DEF IInv, Starting, Types, Members, Appending
      <4>2. Constructed = {}
        BY <1>1, <4>1 DEF IInv, Starting
      <4>3. GLOBAL_PID = 0
        BY <4>2, FS_EmptySet DEF IInv, Pids
      <4> QED
        BY <1>6, <1>7, <3>2, <4>3
    <3> QED
      BY <3>1, <3>2
  <2>7. GLOBAL_PID' - 1 = GLOBAL_PID /\ Flow' # "pid"
    BY <1>4, <1>5, <1>9
  <2> QED
    BY <1>5, <2>2, <2>3, <2>4, <2>5, <2>6, <2>7 DEF Pids
<1>12. boot = "up" => New \notin Members /\ Members' = IF New \in users THEN Members
                                                      ELSE Members \cup {New}
  BY <1>2, <1>3, <1>7 DEF Members
<1>13. Starting'
  <2>1. CASE boot = "spawning"
    <3>1. /\ current_proc = NULL /\ m_head = NULL /\ New = Kernel /\ users = {}
          /\ Constructed = {}
      BY <1>1, <2>1 DEF IInv, Starting
    <3>2. Flow' = "append" /\ Constructed' = {Kernel}
      BY <1>7, <1>9, <3>1
    <3> QED
      BY <1>2, <1>3, <2>1, <3>1, <3>2 DEF Starting
  <2>2. CASE boot = "up"
    BY <1>1, <1>2, <1>12, <2>2 DEF IInv, Starting
  <2> QED
    BY <1>1, <2>1, <2>2 DEF IInv, Types, Starting, Appending
<1>14. Ring'
  <2> SUFFICES ASSUME boot = "up" PROVE Ring'
    BY <1>2 DEF Ring
  <2>1. Chain(Members, m_tail) /\ m_next[m_tail] = Kernel
    BY <1>1 DEF IInv, Ring, Appending
  <2>2. Members \subseteq Constructed
    BY DEF Members
  <2>4. CASE New \in users
    <3>1. Members' = Members
      BY <1>12, <2>4
    <3>2. Chain(Members, m_tail)'
      BY <1>2, <1>6, <2>1, <2>2, <3>1 DEF Chain, IsSucc
    <3> QED
      BY <1>2, <1>9, <2>1, <2>4, <3>2 DEF Ring, Appending
  <2>5. CASE New \notin users
    <3>1. Members' \ {New'} = Members
      BY <1>3, <1>12, <2>5
    <3>2. Chain(Members \ {New}, m_tail)'
      BY <1>2, <1>6, <2>1, <2>2, <3>1 DEF Chain, IsSucc
    <3>3. \A n \in Members : m_pid'[n] < m_pid'[New]
      BY <1>4, <1>6, <2>2 DEF IInv, Pids
    <3> QED
      BY <1>3, <1>9, <2>5, <3>1, <3>2, <3>3 DEF Ring, Appending
  <2> QED
    BY <2>4, <2>5
<1> QED
  BY <1>1, <1>2, <1>8, <1>10, <1>11, <1>13, <1>14, Zenon DEF IInv

-----------------------------------------------------------------------------
(* append and a tick leave the objects and their pids alone.               *)
LEMMA SameObjects ==
  ASSUME IInv, objects' = objects, node' = node, Cur' = Cur,
         Flow' \in {"idle"} \cup Appending, Flow \in Appending
  PROVE  /\ Memory' /\ Pids' /\ Members' = Members /\ New' = New
         /\ users' = users /\ m_pid' = m_pid
         /\ Constructed' = Constructed
<1>1. heap' = heap /\ users' = users /\ GLOBAL_PID' = GLOBAL_PID /\ m_pid' = m_pid
  BY DEF objects
<1>2. Constructed' = Constructed /\ Members' = Members /\ New' = New
  BY <1>1 DEF Constructed, Members, New
<1>3. Memory'
  BY <1>1, <1>2 DEF IInv, Memory, Appending
<1>4. Pids'
  BY <1>1, <1>2 DEF IInv, Pids, Appending
<1> QED
  BY <1>1, <1>2, <1>3, <1>4

(* The first object becomes head and tail; initialise appends it again.    *)
LEMMA AppendFirstStep ==
  ASSUME IInv, NEW p \in Node, AppendFirst(p)
  PROVE  IInv'
<1>1. Flow = "append" /\ m_head = NULL /\ current_proc' = current_proc
  BY DEF AppendFirst, Return, At, Flow
<1>2. boot = "spawning"
  BY <1>1, RingAssumption DEF IInv, Types, Starting
<1>3. At(p, "append", "append") /\ boot' = "closing"
  BY <1>2 DEF AppendFirst, Return
<1>4. /\ p = Cur /\ Cur \in Node /\ Cur' = Cur /\ Flow' = "append"
      /\ pc' \in [Node -> Labels] /\ Alone'
  <2>1. "append" \in Labels
    BY DEF Labels, Appending
  <2> QED
    BY <1>1, <1>3, <2>1, FlowStep
<1>5. /\ m_head' = New /\ m_tail' = New /\ m_next' = m_next /\ reg' = reg /\ node' = node
      /\ objects' = objects /\ halted' = halted
  BY <1>4 DEF AppendFirst, New
<1>6. /\ Memory' /\ Pids' /\ New' = New /\ users' = users /\ m_pid' = m_pid
      /\ Constructed' = Constructed
  <2>1. Flow \in Appending /\ Flow' \in {"idle"} \cup Appending
    BY <1>1, <1>4 DEF Appending
  <2> QED
    BY <1>4, <1>5, <2>1, SameObjects
<1>7. New = Kernel /\ users = {} /\ Constructed = {Kernel} /\ current_proc = NULL
  BY <1>1, <1>2 DEF IInv, Starting
<1>8. Types'
  BY <1>1, <1>3, <1>4, <1>5, <1>7, RingAssumption DEF IInv, Types, objects
<1>9. Starting' /\ Ring'
  BY <1>1, <1>3, <1>4, <1>5, <1>6, <1>7 DEF Starting, Ring, Appending
<1> QED
  BY <1>4, <1>5, <1>6, <1>8, <1>9, Zenon DEF IInv

(* What append may start from: the ring without the new process.           *)
LEMMA AppendLoadStep ==
  ASSUME IInv, NEW p \in Node, AppendLoad(p)
  PROVE  IInv'
<1>1. /\ p = Cur /\ Cur \in Node /\ Cur' = Cur /\ Flow = "append" /\ Flow' = "link"
      /\ pc' \in [Node -> Labels] /\ Alone'
  <2>1. At(p, "append", "link") /\ current_proc' = current_proc /\ "link" \in Labels
    BY DEF AppendLoad, Labels, Appending
  <2> QED
    BY <2>1, FlowStep
<1>2. /\ m_head' = m_head /\ m_tail' = m_tail /\ m_next' = m_next /\ m_head # NULL
      /\ node' = node /\ objects' = objects /\ boot' = boot /\ halted' = halted
      /\ current_proc' = current_proc /\ reg' = [reg EXCEPT ![Cur] = m_tail]
  BY <1>1 DEF AppendLoad, list
<1>3. /\ Memory' /\ Pids' /\ Members' = Members /\ New' = New
      /\ users' = users /\ m_pid' = m_pid /\ Constructed' = Constructed
  <2>1. Flow \in Appending /\ Flow' \in {"idle"} \cup Appending
    BY <1>1 DEF Appending
  <2> QED
    BY <1>1, <1>2, <2>1, SameObjects
<1>4. reg'[Cur] = m_tail
  BY <1>1, <1>2 DEF IInv, Types
<1>5. Types'
  BY <1>1, <1>2 DEF IInv, Types, objects
<1>6. Starting'
  BY <1>1, <1>2, <1>3, <1>4 DEF IInv, Starting, Appending
<1>7. Ring'
  <2> SUFFICES ASSUME boot = "up" PROVE Ring'
    BY <1>2 DEF Ring
  <2>1. Chain(Members \ {New}, m_tail) /\ \A n \in Members \ {New} : m_pid[n] < m_pid[New]
    BY <1>1 DEF IInv, Ring, Appending
  <2>2. Chain(Members \ {New}, m_tail)'
    BY <1>2, <1>3, <2>1 DEF Chain, IsSucc
  <2> QED
    BY <1>1, <1>2, <1>3, <1>4, <2>1, <2>2 DEF Ring, Appending
<1> QED
  BY <1>1, <1>2, <1>3, <1>5, <1>6, <1>7, Zenon DEF IInv

(* Only the last link is overwritten, which led back to the head.          *)
LEMMA AppendLinkStep ==
  ASSUME IInv, NEW p \in Node, AppendLink(p)
  PROVE  IInv'
<1>1. /\ p = Cur /\ Cur \in Node /\ Cur' = Cur /\ Flow = "link" /\ Flow' = "tail"
      /\ pc' \in [Node -> Labels] /\ Alone'
  <2>1. At(p, "link", "tail") /\ current_proc' = current_proc /\ "tail" \in Labels
    BY DEF AppendLink, Labels, Appending
  <2> QED
    BY <2>1, FlowStep
<1>2. /\ m_head' = m_head /\ m_tail' = m_tail /\ reg' = reg
      /\ node' = node /\ objects' = objects /\ boot' = boot /\ halted' = halted
      /\ current_proc' = current_proc /\ m_next' = [m_next EXCEPT ![reg[Cur]] = New]
  BY <1>1 DEF AppendLink, New
<1>3. /\ Memory' /\ Pids' /\ Members' = Members /\ New' = New
      /\ users' = users /\ m_pid' = m_pid /\ Constructed' = Constructed
  <2>1. Flow \in Appending /\ Flow' \in {"idle"} \cup Appending
    BY <1>1 DEF Appending
  <2> QED
    BY <1>1, <1>2, <2>1, SameObjects
<1>4. New \in Members /\ Members \subseteq Node
  BY <1>1 DEF IInv, Memory, Appending, Members, Constructed
<1>5. Types'
  BY <1>1, <1>2, <1>4 DEF IInv, Types, objects
<1>6. Starting'
  BY <1>1, <1>2, <1>3 DEF IInv, Starting, Appending
<1>7. Ring'
  <2> SUFFICES ASSUME boot = "up" PROVE Ring'
    BY <1>2 DEF Ring
  <2>1. /\ Chain(Members \ {New}, m_tail)
        /\ \A n \in Members \ {New} : m_pid[n] < m_pid[New]
        /\ reg[Cur] = m_tail
    BY <1>1 DEF IInv, Ring, Appending
  <2>2. m_tail \in Node
    BY <1>4, <2>1 DEF Chain
  <2>3. m_next'[m_tail] = New /\ \A n \in Node \ {m_tail} : m_next'[n] = m_next[n]
    BY <1>2, <2>1, <2>2 DEF IInv, Types
  <2>4. Chain(Members \ {New}, m_tail)'
    BY <1>2, <1>3, <1>4, <2>1, <2>3 DEF Chain, IsSucc
  <2> QED
    BY <1>1, <1>2, <1>3, <2>1, <2>3, <2>4 DEF Ring, Appending
<1> QED
  BY <1>1, <1>2, <1>3, <1>5, <1>6, <1>7, Zenon DEF IInv

(* A process with a greater pid than all others is linked behind the last. *)
LEMMA ChainGrows ==
  ASSUME NEW S, NEW t, NEW x, x \notin S, Chain(S, t), m_next[t] = x,
         \A n \in S \cup {x} : m_pid[n] \in Nat,
         \A n \in S : m_pid[n] < m_pid[x]
  PROVE  Chain(S \cup {x}, x)
<1> DEFINE W == S \cup {x}
<1>1. t \in S /\ x \in W /\ S \subseteq W
  BY DEF Chain
<1>2. \A n \in W : m_pid[n] <= m_pid[x]
  OBVIOUS
<1>3. ASSUME NEW n \in W \ {x}
      PROVE  IsSucc(n, m_next[n], W)
  <2>1. n \in S
    OBVIOUS
  <2>2. CASE n = t
    <3>1. \A y \in W : m_pid[n] < m_pid[y] => y = x
      BY <2>1, <2>2 DEF Chain
    <3> QED
      BY <1>1, <2>1, <2>2, <3>1 DEF IsSucc
  <2>3. CASE n # t
    <3>1. IsSucc(n, m_next[n], S)
      BY <2>1, <2>3 DEF Chain
    <3> QED
      BY <1>1, <3>1 DEF IsSucc
  <2> QED
    BY <2>2, <2>3
<1> QED
  BY <1>1, <1>2, <1>3 DEF Chain

(* m_tail points at the new process: it is the last of the chain. *)
LEMMA AppendTailStep ==
  ASSUME IInv, NEW p \in Node, AppendTail(p)
  PROVE  IInv'
<1>1. /\ p = Cur /\ Cur \in Node /\ Cur' = Cur /\ Flow = "tail" /\ Flow' = "close"
      /\ pc' \in [Node -> Labels] /\ Alone'
  <2>1. At(p, "tail", "close") /\ current_proc' = current_proc /\ "close" \in Labels
    BY DEF AppendTail, Labels, Appending
  <2> QED
    BY <2>1, FlowStep
<1>2. /\ m_head' = m_head /\ m_tail' = New /\ m_next' = m_next /\ reg' = reg
      /\ node' = node /\ objects' = objects /\ boot' = boot /\ halted' = halted
      /\ current_proc' = current_proc
  BY <1>1 DEF AppendTail, New
<1>3. /\ Memory' /\ Pids' /\ Members' = Members /\ New' = New
      /\ users' = users /\ m_pid' = m_pid /\ Constructed' = Constructed
  <2>1. Flow \in Appending /\ Flow' \in {"idle"} \cup Appending
    BY <1>1 DEF Appending
  <2> QED
    BY <1>1, <1>2, <2>1, SameObjects
<1>4. New \in Members /\ Members \subseteq Node
  BY <1>1 DEF IInv, Memory, Appending, Members, Constructed
<1>5. Types'
  BY <1>1, <1>2, <1>4 DEF IInv, Types, objects
<1>6. Starting'
  BY <1>1, <1>2, <1>3 DEF IInv, Starting, Appending
<1>7. Ring'
  <2> SUFFICES ASSUME boot = "up" PROVE Ring'
    BY <1>2 DEF Ring
  <2>1. /\ Chain(Members \ {New}, m_tail)
        /\ \A n \in Members \ {New} : m_pid[n] < m_pid[New]
        /\ m_next[m_tail] = New
    BY <1>1 DEF IInv, Ring, Appending
  <2>2. (Members \ {New}) \cup {New} = Members
    BY <1>4
  <2>3. \A n \in Members : m_pid[n] \in Nat
    BY DEF IInv, Pids, Members
  <2>4. Chain(Members, New)
    BY <2>1, <2>2, <2>3, ChainGrows
  <2>5. Chain(Members, m_tail)'
    BY <1>2, <1>3, <2>4 DEF Chain, IsSucc
  <2> QED
    BY <1>1, <1>2, <1>3, <2>5 DEF Ring, Appending
<1> QED
  BY <1>1, <1>2, <1>3, <1>5, <1>6, <1>7, Zenon DEF IInv

(* What is loaded again is the new process. *)
LEMMA AppendReloadStep ==
  ASSUME IInv, NEW p \in Node, AppendReload(p)
  PROVE  IInv'
<1>1. /\ p = Cur /\ Cur \in Node /\ Cur' = Cur /\ Flow = "close" /\ Flow' = "closing"
      /\ pc' \in [Node -> Labels] /\ Alone'
  <2>1. At(p, "close", "closing") /\ current_proc' = current_proc /\ "closing" \in Labels
    BY DEF AppendReload, Labels, Appending
  <2> QED
    BY <2>1, FlowStep
<1>2. /\ m_head' = m_head /\ m_tail' = m_tail /\ m_next' = m_next
      /\ node' = node /\ objects' = objects /\ boot' = boot /\ halted' = halted
      /\ current_proc' = current_proc /\ reg' = [reg EXCEPT ![Cur] = m_tail]
  BY <1>1 DEF AppendReload, list
<1>3. /\ Memory' /\ Pids' /\ Members' = Members /\ New' = New
      /\ users' = users /\ m_pid' = m_pid /\ Constructed' = Constructed
  <2>1. Flow \in Appending /\ Flow' \in {"idle"} \cup Appending
    BY <1>1 DEF Appending
  <2> QED
    BY <1>1, <1>2, <2>1, SameObjects
<1>4. reg'[Cur] = m_tail
  BY <1>1, <1>2 DEF IInv, Types
<1>5. Types'
  BY <1>1, <1>2 DEF IInv, Types, objects
<1>6. Starting'
  BY <1>1, <1>2, <1>3, <1>4 DEF IInv, Starting, Appending
<1>7. Ring'
  <2> SUFFICES ASSUME boot = "up" PROVE Ring'
    BY <1>2 DEF Ring
  <2>1. Chain(Members, m_tail) /\ m_tail = New
    BY <1>1 DEF IInv, Ring, Appending
  <2>2. Chain(Members, m_tail)'
    BY <1>2, <1>3, <2>1 DEF Chain, IsSucc
  <2> QED
    BY <1>1, <1>2, <1>3, <1>4, <2>1, <2>2 DEF Ring, Appending
<1> QED
  BY <1>1, <1>2, <1>3, <1>5, <1>6, <1>7, Zenon DEF IInv

(* The last link leads to the head again, the first time round as well.    *)
LEMMA AppendCloseStep ==
  ASSUME IInv, NEW p \in Node, AppendClose(p)
  PROVE  IInv'
<1>1. Flow = "closing" /\ current_proc' = current_proc
  BY DEF AppendClose, Return, At, Flow
<1>2. boot \in {"closing", "up"} /\ m_head = Kernel
  BY <1>1 DEF IInv, Types, Starting
<1>3. At(p, "closing", "idle") /\ boot' = "up"
  BY <1>2 DEF AppendClose, Return
<1>4. /\ p = Cur /\ Cur \in Node /\ Cur' = Cur /\ Flow' = "idle"
      /\ pc' \in [Node -> Labels] /\ Alone'
  <2>1. "idle" \in Labels
    BY DEF Labels
  <2> QED
    BY <1>1, <1>3, <2>1, FlowStep
<1>5. /\ m_head' = m_head /\ m_tail' = m_tail /\ reg' = reg /\ node' = node
      /\ objects' = objects /\ halted' = halted
      /\ m_next' = [m_next EXCEPT ![reg[Cur]] = Kernel]
  BY <1>2, <1>4 DEF AppendClose
<1>6. /\ Memory' /\ Pids' /\ Members' = Members /\ New' = New
      /\ users' = users /\ m_pid' = m_pid /\ Constructed' = Constructed
  <2>1. Flow \in Appending /\ Flow' \in {"idle"} \cup Appending
    BY <1>1, <1>4 DEF Appending
  <2> QED
    BY <1>4, <1>5, <2>1, SameObjects
<1>7. /\ Chain(Members, m_tail) /\ reg[Cur] = m_tail
      /\ Kernel \in Members /\ Cur \in Members
  <2>1. CASE boot = "up"
    BY <1>1, <2>1 DEF IInv, Starting, Ring, Appending
  <2>2. CASE boot = "closing"
    <3>1. /\ Members = {Kernel} /\ m_tail = Kernel /\ reg[Cur] = Kernel
          /\ current_proc = NULL /\ Kernel \in Constructed
      BY <1>1, <2>2 DEF IInv, Starting, Members
    <3>2. m_pid[Kernel] = 0
      BY <3>1 DEF IInv, Pids
    <3> QED
      BY <3>1, <3>2 DEF Chain, Cur
  <2> QED
    BY <1>2, <2>1, <2>2
<1>8. Members \subseteq Node /\ m_tail \in Node
  BY <1>7 DEF Members, Constructed, Chain
<1>9. Types'
  BY <1>1, <1>3, <1>4, <1>5, <1>7, <1>8, RingAssumption DEF IInv, Types, objects
<1>10. Starting'
  BY <1>2, <1>3, <1>4, <1>5, <1>6, <1>7 DEF Starting
<1>11. Ring'
  <2>1. m_next'[m_tail] = Kernel /\ \A n \in Node \ {m_tail} : m_next'[n] = m_next[n]
    BY <1>5, <1>7, <1>8 DEF IInv, Types
  <2>2. Chain(Members, m_tail)'
    BY <1>5, <1>6, <1>7, <1>8, <2>1 DEF Chain, IsSucc
  <2> QED
    BY <1>4, <1>5, <2>1, <2>2 DEF Ring, Appending
<1> QED
  BY <1>4, <1>5, <1>6, <1>9, <1>10, <1>11, Zenon DEF IInv

(***************************************************************************)
(* A tick comes only when no flow is under way, so the ring is closed and  *)
(* there is a next process.                                                *)
(***************************************************************************)
LEMMA TaskSwitchStep ==
  ASSUME IInv, Masked, TaskSwitch
  PROVE  IInv'
<1>1. boot = "up" /\ Flow = "idle"
  BY DEF TaskSwitch, Flow
<1>2. /\ m_head' = m_head /\ m_tail' = m_tail /\ m_next' = m_next
      /\ heap' = heap /\ users' = users /\ GLOBAL_PID' = GLOBAL_PID /\ m_pid' = m_pid
      /\ pc' = pc /\ node' = node /\ reg' = reg /\ boot' = boot
      /\ current_proc' = m_next[Cur] /\ halted' = (m_next[Cur] = NULL)
      /\ Constructed' = Constructed /\ Members' = Members
  BY DEF TaskSwitch, list, objects, Constructed, Members
<1>3. Chain(Members, m_tail) /\ m_next[m_tail] = Kernel /\ Kernel \in Members /\ Cur \in Members
  BY <1>1 DEF IInv, Ring, Starting, Appending
<1>4. m_next[Cur] \in Members
  BY <1>3 DEF Chain, IsSucc
<1>5. Members \subseteq Node /\ NULL \notin Node
  BY RingAssumption DEF Members, Constructed
<1>6. Cur' = m_next[Cur] /\ Cur' \in Members
  BY <1>2, <1>4, <1>5 DEF Cur
<1>7. halted' = FALSE
  BY <1>2, <1>4, <1>5
<1>8. \A p \in Node : pc[p] = "idle"
  BY <1>1 DEF IInv, Alone, Flow
<1>9. Flow' = "idle" /\ Alone'
  BY <1>2, <1>5, <1>6, <1>8 DEF Flow, Alone
<1>10. Types'
  BY <1>2, <1>4, <1>5 DEF IInv, Types
<1>11. Memory' /\ Pids'
  BY <1>1, <1>2, <1>9 DEF IInv, Memory, Pids, Appending
<1>12. Starting'
  BY <1>1, <1>2, <1>3, <1>6, <1>9 DEF IInv, Starting
<1>13. Ring'
  <2>1. Chain(Members, m_tail)'
    BY <1>2, <1>3 DEF Chain, IsSucc
  <2> QED
    BY <1>2, <1>3, <1>9, <2>1 DEF Ring, Appending
<1> QED
  BY <1>7, <1>9, <1>10, <1>11, <1>12, <1>13 DEF IInv

(* Every step keeps the invariant. *)
LEMMA NextInvariant ==
  ASSUME Masked, IInv, [Next]_vars
  PROVE  IInv'
<1>1. CASE TaskSwitch
  BY <1>1, TaskSwitchStep
<1>2. ASSUME NEW p \in Node, Spawn(p)
      PROVE  IInv'
  BY <1>2, KmallocStep, KmallocLinkStep, ConstructStep, StorePidStep, AppendFirstStep,
     AppendLoadStep, AppendLinkStep, AppendTailStep, AppendReloadStep, AppendCloseStep, Zenon
  DEF Spawn
<1>3. CASE UNCHANGED vars
  <2>1. /\ m_head' = m_head /\ m_tail' = m_tail /\ m_next' = m_next
        /\ current_proc' = current_proc /\ heap' = heap /\ users' = users
        /\ GLOBAL_PID' = GLOBAL_PID /\ m_pid' = m_pid /\ pc' = pc /\ node' = node
        /\ reg' = reg /\ boot' = boot /\ halted' = halted
    BY <1>3 DEF vars
  <2>2. /\ Cur' = Cur /\ Flow' = Flow /\ New' = New /\ Constructed' = Constructed
        /\ Members' = Members
    BY <2>1 DEF Cur, Flow, New, Constructed, Members
  <2>3. Types' /\ Alone'
    BY <2>1, <2>2 DEF IInv, Types, Alone
  <2>4. Memory'
    BY <2>1, <2>2 DEF IInv, Memory
  <2>5. Pids'
    BY <2>1, <2>2 DEF IInv, Pids
  <2>6. Starting'
    BY <2>1, <2>2 DEF IInv, Starting
  <2>7. Ring'
    BY <2>1, <2>2 DEF IInv, Ring, Chain, IsSucc
  <2> QED
    BY <2>1, <2>3, <2>4, <2>5, <2>6, <2>7 DEF IInv
<1> QED
  BY <1>1, <1>2, <1>3, Zenon DEF Next

-----------------------------------------------------------------------------
(* With interrupts masked, the invariant always holds. *)
THEOREM Invariance ==
  ASSUME Masked
  PROVE  Spec => []IInv
<1>1. IInv /\ [Next]_vars => IInv'
  BY NextInvariant
<1> QED
  BY InitInvariant, <1>1, PTL DEF Spec

(***************************************************************************)
(* "ASSERT(current_proc)" (scheduler.cpp:58) never fails: the link that a  *)
(* tick follows is never the null link of a process that is being appended.*)
(***************************************************************************)
THEOREM AlwaysANextProcess ==
  ASSUME Masked
  PROVE  Spec => []NoAssertionFailure
<1>1. IInv => NoAssertionFailure
  BY DEF IInv, NoAssertionFailure
<1> QED
  BY Invariance, <1>1, PTL

(* The list, the objects and the pids are of their types, and there are no *)
(* more pids than objects.                                                 *)
THEOREM TypeCorrectness ==
  ASSUME Masked
  PROVE  Spec => []TypeOK
<1>1. IInv => TypeOK
  <2> SUFFICES ASSUME IInv PROVE TypeOK
    OBVIOUS
  <2>1. /\ Types /\ halted \in BOOLEAN
    BY Zenon DEF IInv
  <2>2. Cardinality(Node) \in Nat /\ GLOBAL_PID \in 0..Cardinality(Node)
    <3>1. Cardinality(Constructed) <= Cardinality(Node)
      BY RingAssumption, FS_Subset DEF Constructed
    <3>2. Cardinality(Node) \in Nat
      BY RingAssumption, FS_CardinalityType
    <3> QED
      BY <2>1, <3>1, <3>2 DEF IInv, Pids, Types
  <2>3. \A n \in Node : m_pid[n] \in 0..Cardinality(Node) \cup {NULL}
    <3>1. \A n \in Constructed : m_pid[n] \in 0..(GLOBAL_PID - 1)
      BY DEF IInv, Pids
    <3> QED
      BY <2>2, <3>1 DEF Constructed
  <2>4. users \subseteq (heap \cup {node[p] : p \in Node}) \ {Kernel}
    <3>1. Cur \in Node
      BY <2>1, RingAssumption DEF Types, Cur
    <3>2. users \subseteq heap \cup {New} /\ Kernel \notin users
      BY DEF IInv, Memory
    <3> QED
      BY <3>1, <3>2 DEF New
  <2> QED
    BY <2>1, <2>2, <2>3, <2>4, Zenon DEF TypeOK, Types, Labels, Appending
<1> QED
  BY Invariance, <1>1, PTL
-----------------------------------------------------------------------------
(* Walk starts at m_head and follows the links. *)
LEMMA WalkFollows ==
  ASSUME m_head \in Node \cup {NULL}, m_next \in [Node -> Node \cup {NULL}]
  PROVE  /\ Walk[0] = m_head
         /\ \A i \in Nat \ {0} :
              Walk[i] = IF Walk[i - 1] = NULL THEN NULL ELSE m_next[Walk[i - 1]]
<1> DEFINE V == Node \cup {NULL}
           step == [p \in V \X Nat |-> IF p[1] = NULL THEN NULL ELSE m_next[p[1]]]
<1>1. step \in [V \X Nat -> V]
  OBVIOUS
<1>2. PICK f \in [Nat -> V] : IteratesOn(f, step, m_head)
  <2>1. m_head \in V
    OBVIOUS
  <2> HIDE DEF step, V
  <2> QED
    BY <1>1, <2>1, RecursionOnNat, Zenon
<1>3. ASSUME NEW i \in Nat \ {0}
      PROVE  f[i] = IF f[i - 1] = NULL THEN NULL ELSE m_next[f[i - 1]]
  <2>1. <<f[i - 1], i>> \in V \X Nat
    <3>1. i - 1 \in Nat /\ i \in Nat
      OBVIOUS
    <3> QED
      BY <1>2, <3>1
  <2>2. f[i] = step[<<f[i - 1], i>>]
    BY <1>2 DEF IteratesOn
  <2> QED
    BY <2>1, <2>2
<1>4. f = [i \in Nat |->
             IF i = 0 THEN m_head
             ELSE IF f[i - 1] = NULL THEN NULL ELSE m_next[f[i - 1]]]
  <2>1. f[0] = m_head
    BY <1>2 DEF IteratesOn
  <2> QED
    BY <1>2, <1>3, <2>1
<1>5. Walk = [i \in Nat |->
                IF i = 0 THEN m_head
                ELSE IF Walk[i - 1] = NULL THEN NULL ELSE m_next[Walk[i - 1]]]
  BY <1>4 DEF Walk
<1> QED
  BY <1>5

(* The processes of S that were spawned before n. *)
Before(n, S) == {y \in S : m_pid[y] < m_pid[n]}

(* How many there are says which process it is. *)
LEMMA BeforeIdentifies ==
  ASSUME NEW S, IsFiniteSet(S), \A n \in S : m_pid[n] \in Nat,
         \A n, o \in S : m_pid[n] = m_pid[o] => n = o,
         NEW a \in S, NEW b \in S,
         Cardinality(Before(a, S)) = Cardinality(Before(b, S))
  PROVE  a = b
<1>1. ASSUME NEW x \in S, NEW y \in S, m_pid[x] < m_pid[y],
             Cardinality(Before(x, S)) = Cardinality(Before(y, S))
      PROVE  FALSE
  <2>1. Before(x, S) \in SUBSET Before(y, S)
    BY <1>1 DEF Before
  <2>2. x \in Before(y, S) /\ x \notin Before(x, S)
    BY <1>1 DEF Before
  <2>3. Before(y, S) \in SUBSET S
    BY DEF Before
  <2>4. IsFiniteSet(Before(y, S))
    BY <2>3, FS_Subset
  <2> QED
    BY <1>1, <2>1, <2>2, <2>4, FS_Subset
<1> QED
  BY <1>1

(* The link of a process leads to the one before which there is one more.  *)
LEMMA SuccessorIsNext ==
  ASSUME NEW S, IsFiniteSet(S), \A n \in S : m_pid[n] \in Nat,
         \A n, o \in S : m_pid[n] = m_pid[o] => n = o,
         NEW n \in S, NEW x, IsSucc(n, x, S)
  PROVE  x \in S /\ Cardinality(Before(x, S)) = Cardinality(Before(n, S)) + 1
<1>1. x \in S
  BY DEF IsSucc
<1>2. Before(x, S) = Before(n, S) \cup {n}
  <2>1. ASSUME NEW y \in S, m_pid[y] < m_pid[x]
        PROVE  y \in Before(n, S) \cup {n}
    <3>1. ~(m_pid[n] < m_pid[y])
      BY <1>1, <2>1 DEF IsSucc
    <3> QED
      BY <2>1, <3>1 DEF Before
  <2>2. ASSUME NEW y \in S, m_pid[y] <= m_pid[n]
        PROVE  m_pid[y] < m_pid[x]
    BY <1>1, <2>2 DEF IsSucc
  <2> QED
    BY <2>1, <2>2 DEF Before
<1>3. n \notin Before(n, S) /\ IsFiniteSet(Before(n, S))
  <2>1. Before(n, S) \in SUBSET S
    BY DEF Before
  <2> QED
    BY <2>1, FS_Subset DEF Before
<1> QED
  BY <1>1, <1>2, <1>3, FS_AddElement

(* All the others come before the last.                                    *)
LEMMA TailIsLast ==
  ASSUME NEW S, IsFiniteSet(S), \A n \in S : m_pid[n] \in Nat,
         \A n, o \in S : m_pid[n] = m_pid[o] => n = o,
         NEW t, Chain(S, t)
  PROVE  t \in S /\ Cardinality(Before(t, S)) = Cardinality(S) - 1
<1>1. t \in S /\ Before(t, S) = S \ {t}
  BY DEF Chain, Before
<1> QED
  BY <1>1, FS_RemoveElement

(* The i-th link after the head of a chain leads to the process before     *)
(* which there are i.                                                      *)
LEMMA WalkVisits ==
  ASSUME NEW S, IsFiniteSet(S), S \subseteq Node, \A n \in S : m_pid[n] \in Nat,
         \A n, o \in S : m_pid[n] = m_pid[o] => n = o,
         m_head \in S, m_pid[m_head] = 0, m_next \in [Node -> Node \cup {NULL}],
         NEW t, Chain(S, t)
  PROVE  \A i \in 0..(Cardinality(S) - 1) :
           Walk[i] \in S /\ Cardinality(Before(Walk[i], S)) = i
<1> DEFINE N == Cardinality(S) - 1
           Good(i) == Walk[i] \in S /\ Cardinality(Before(Walk[i], S)) = i
           T == {i \in 0..N : Good(i)}
<1>1. N \in Nat
  <2>1. t \in S
    BY DEF Chain
  <2>2. Cardinality(S) \in Nat /\ Cardinality(S) # 0
    BY <2>1, FS_CardinalityType, FS_EmptySet
  <2> QED
    BY <2>2
<1>2. /\ Walk[0] = m_head
      /\ \A i \in Nat \ {0} :
           Walk[i] = IF Walk[i - 1] = NULL THEN NULL ELSE m_next[Walk[i - 1]]
  BY WalkFollows
<1>3. 0 \in T
  <2>1. Before(m_head, S) = {}
    BY DEF Before
  <2> QED
    BY <1>1, <1>2, <2>1, FS_EmptySet
<1>4. ASSUME NEW i \in 1..N, i - 1 \in T
      PROVE  i \in T
  <2> DEFINE x == Walk[i - 1]
  <2>1. x \in S /\ Cardinality(Before(x, S)) = i - 1
    BY <1>4
  <2>2. x # t
    BY <1>1, <2>1, TailIsLast
  <2>3. IsSucc(x, m_next[x], S)
    BY <2>1, <2>2 DEF Chain
  <2>4. Walk[i] = m_next[x]
    BY <1>2, <2>1, RingAssumption
  <2>5. m_next[x] \in S /\ Cardinality(Before(m_next[x], S)) = i
    <3> HIDE DEF x
    <3> QED
      BY <2>1, <2>3, SuccessorIsNext
  <2> QED
    BY <2>4, <2>5
<1>5. 0..N \subseteq T
  <2> HIDE DEF T, N
  <2> QED
    BY <1>1, <1>3, <1>4, InductionUpTo
<1> QED
  BY <1>5

(***************************************************************************)
(* While nothing is being spawned, the list is a ring of all the kernel    *)
(* processes that starts with the first and is in the order of their pids: *)
(* for any number of processes.                                            *)
(***************************************************************************)
THEOREM ListIsRing ==
  ASSUME Masked
  PROVE  Spec => []RingInPidOrder
<1>1. ASSUME IInv, boot = "up", \A p \in Node : pc[p] = "idle"
      PROVE  LET size == Cardinality(Constructed \ users)
             IN  /\ heap = Constructed
                 /\ {m_pid[n] : n \in Constructed} = 0..(Cardinality(Constructed) - 1)
                 /\ {Walk[i] : i \in 0..(size - 1)} = Constructed \ users
                 /\ \A i \in 1..(size - 1) : m_pid[Walk[i - 1]] < m_pid[Walk[i]]
                 /\ Walk[size] = m_head
  <2> DEFINE size == Cardinality(Members)
  <2>1. Cur \in Members /\ Members \subseteq Node /\ m_head = Kernel /\ Kernel \in Members
        /\ m_head \in Node \cup {NULL} /\ m_next \in [Node -> Node \cup {NULL}]
    BY <1>1 DEF IInv, Starting, Types, Members, Constructed
  <2>2. Flow = "idle"
    BY <1>1, <2>1 DEF Flow
  <2>3. Chain(Members, m_tail) /\ m_next[m_tail] = Kernel
    BY <1>1, <2>2 DEF IInv, Ring, Appending
  <2>4. \A n \in Constructed : m_pid[n] \in 0..(GLOBAL_PID - 1) /\ m_pid[n] \in Nat
    BY <1>1 DEF IInv, Pids, Types
  <2>5. /\ \A n \in Members : m_pid[n] \in Nat
        /\ \A n, o \in Members : m_pid[n] = m_pid[o] => n = o
        /\ m_pid[m_head] = 0
    BY <1>1, <2>1, <2>4 DEF IInv, Pids, Members
  <2>6. IsFiniteSet(Members) /\ size \in Nat
    BY <2>1, RingAssumption, FS_Subset, FS_CardinalityType
  <2>7. \A i \in 0..(size - 1) : Walk[i] \in Members /\ Cardinality(Before(Walk[i], Members)) = i
    BY <2>1, <2>3, <2>5, <2>6, WalkVisits
  <2>8. heap = Constructed
    BY <1>1, <2>2 DEF IInv, Memory
  <2>9. {m_pid[n] : n \in Constructed} = 0..(Cardinality(Constructed) - 1)
    <3>1. GLOBAL_PID = Cardinality(Constructed)
          /\ \A i \in 0..(GLOBAL_PID - 1) : \E n \in Constructed : m_pid[n] = i
      BY <1>1 DEF IInv, Pids
    <3> QED
      BY <2>4, <3>1
  <2>10. m_tail \in Members /\ Cardinality(Before(m_tail, Members)) = size - 1
    BY <2>3, <2>5, <2>6, TailIsLast
  <2>11. \A i \in Nat \ {0} :
           Walk[i] = IF Walk[i - 1] = NULL THEN NULL ELSE m_next[Walk[i - 1]]
    BY <2>1, WalkFollows
  <2>12. {Walk[i] : i \in 0..(size - 1)} = Members
    <3>1. ASSUME NEW y \in Members
          PROVE  \E i \in 0..(size - 1) : Walk[i] = y
      <4> DEFINE i == Cardinality(Before(y, Members))
      <4>1. Before(y, Members) \in SUBSET (Members \ {y})
        BY <2>5 DEF Before
      <4>2. IsFiniteSet(Members \ {y}) /\ Cardinality(Members \ {y}) = size - 1
        BY <2>6, <3>1, FS_RemoveElement
      <4>3. i \in 0..(size - 1)
        <5>1. IsFiniteSet(Before(y, Members)) /\ i <= size - 1
          BY <4>1, <4>2, FS_Subset
        <5>2. i \in Nat
          BY <5>1, FS_CardinalityType
        <5> QED
          BY <2>6, <5>1, <5>2
      <4>4. Walk[i] \in Members /\ Cardinality(Before(Walk[i], Members)) = i
        BY <2>7, <4>3
      <4>5. Walk[i] = y
        BY <2>5, <2>6, <3>1, <4>4, BeforeIdentifies
      <4> QED
        BY <4>3, <4>5
    <3> QED
      BY <2>7, <3>1
  <2>13. ASSUME NEW i \in 1..(size - 1)
         PROVE  m_pid[Walk[i - 1]] < m_pid[Walk[i]]
    <3>1. i - 1 \in 0..(size - 1) /\ i \in Nat \ {0}
      BY <2>6
    <3>2. Walk[i - 1] \in Members /\ Cardinality(Before(Walk[i - 1], Members)) = i - 1
      BY <2>7, <3>1
    <3>3. Walk[i - 1] # m_tail /\ Walk[i - 1] # NULL
      BY <2>1, <2>6, <2>10, <3>2, RingAssumption
    <3> QED
      BY <2>3, <2>11, <3>1, <3>2, <3>3 DEF Chain, IsSucc
  <2>14. Walk[size] = m_head
    <3>1. size - 1 \in 0..(size - 1) /\ size \in Nat \ {0}
      BY <2>1, <2>6, FS_EmptySet
    <3>2. Walk[size - 1] \in Members /\ Cardinality(Before(Walk[size - 1], Members)) = size - 1
      BY <2>7, <3>1
    <3>3. Walk[size - 1] = m_tail
      BY <2>5, <2>6, <2>10, <3>2, BeforeIdentifies
    <3> QED
      BY <2>1, <2>3, <2>10, <2>11, <3>1, <3>3, RingAssumption
  <2> QED
    BY <2>8, <2>9, <2>12, <2>13, <2>14 DEF Members
<1>2. IInv => RingInPidOrder
  BY <1>1 DEF RingInPidOrder
<1> QED
  BY Invariance, <1>2, PTL
-----------------------------------------------------------------------------
(* The processes that have joined the queue: one that is being appended    *)
(* has when m_tail points at it.                                           *)
Joined ==
  IF m_head = NULL THEN {}
  ELSE IF boot = "up" /\ Flow \in {"append", "link", "tail"} THEN Members \ {New}
  ELSE Members

(* The queue of the refinement, and what its order is.                     *)
Order == [i \in 1..Cardinality(UpToTail) |-> Walk[i - 1]]

The(A) == CHOOSE x : x \in A
AtPlace(i, S) == {x \in S : Cardinality(Before(x, S)) = i - 1}
ByPid(S) == [i \in 1..Cardinality(S) |-> The(AtPlace(i, S))]

(* What the invariant says of the pids of a set of processes.              *)
Distinct(S) ==
  /\ IsFiniteSet(S)
  /\ \A n \in S : m_pid[n] \in Nat
  /\ \A n, o \in S : m_pid[n] = m_pid[o] => n = o

(* The pids in the queue differ. *)
LEMMA JoinedDistinct ==
  ASSUME IInv
  PROVE  Joined \subseteq Members /\ Members \subseteq Node /\ Distinct(Joined) /\ Distinct(Members)
<1>1. Joined \subseteq Members /\ Members \subseteq Node /\ Members \subseteq Constructed
  BY DEF Joined, Members, Constructed
<1>2. IsFiniteSet(Members) /\ IsFiniteSet(Joined)
  BY <1>1, RingAssumption, FS_Subset
<1>3. \A n \in Constructed : m_pid[n] \in Nat
  BY DEF IInv, Types, Constructed
<1> QED
  BY <1>1, <1>2, <1>3 DEF IInv, Pids, Distinct

(* A process of S is the one of its place in ByPid(S).                     *)
LEMMA PlaceByPid ==
  ASSUME NEW S, Distinct(S), NEW i \in 1..Cardinality(S), NEW x \in S,
         Cardinality(Before(x, S)) = i - 1
  PROVE  ByPid(S)[i] = x
<1> DEFINE y == The(AtPlace(i, S))
<1>1. y \in S /\ Cardinality(Before(y, S)) = i - 1
  <2>1. x \in AtPlace(i, S)
    BY DEF AtPlace
  <2>2. The(AtPlace(i, S)) \in AtPlace(i, S)
    BY <2>1 DEF The
  <2> QED
    BY <2>2 DEF AtPlace
<1>2. ByPid(S)[i] = y
  BY DEF ByPid
<1> HIDE DEF y
<1>3. Cardinality(Before(x, S)) = Cardinality(Before(y, S))
  BY <1>1
<1>4. x = y
  BY <1>1, <1>3, BeforeIdentifies DEF Distinct
<1> QED
  BY <1>2, <1>4

(* An empty list has nothing to walk over.                                 *)
LEMMA WalkOfNothing ==
  ASSUME m_head = NULL, m_next \in [Node -> Node \cup {NULL}]
  PROVE  UpToTail = {}
<1>1. ASSUME NEW N \in Nat
      PROVE  Walk[N] = NULL
  <2> DEFINE T == {i \in 0..N : Walk[i] = NULL}
  <2>1. /\ Walk[0] = NULL
        /\ \A i \in Nat \ {0} :
             Walk[i] = IF Walk[i - 1] = NULL THEN NULL ELSE m_next[Walk[i - 1]]
    BY WalkFollows
  <2>2. 0 \in T
    BY <2>1
  <2>3. ASSUME NEW n \in 1..N, n - 1 \in T
        PROVE  n \in T
    BY <2>1, <2>3
  <2>4. 0..N \subseteq T
    <3> HIDE DEF T
    <3> QED
      BY <2>2, <2>3, InductionUpTo
  <2> QED
    BY <2>4
<1> QED
  BY <1>1 DEF UpToTail

(* On a chain, the way from m_head to m_tail visits S in the order of pids. *)
LEMMA OrderOfChain ==
  ASSUME NEW S, Distinct(S), S \subseteq Node, m_head \in S, m_pid[m_head] = 0,
         m_next \in [Node -> Node \cup {NULL}], Chain(S, m_tail)
  PROVE  Order = ByPid(S)
<1> DEFINE N == Cardinality(S)
<1>1. \A i \in 0..(N - 1) : Walk[i] \in S /\ Cardinality(Before(Walk[i], S)) = i
  BY WalkVisits DEF Distinct
<1>2. m_tail \in S /\ Cardinality(Before(m_tail, S)) = N - 1
  BY TailIsLast DEF Distinct
<1>3. N \in Nat \ {0} /\ N <= Cardinality(Node)
  <2>1. N \in Nat /\ N # 0
    BY FS_CardinalityType, FS_EmptySet DEF Distinct
  <2>2. S \in SUBSET Node
    OBVIOUS
  <2> QED
    BY <2>1, <2>2, RingAssumption, FS_Subset
<1>4. Cardinality(Node) \in Nat
  BY RingAssumption, FS_CardinalityType
<1>5. NULL \notin S
  BY RingAssumption
<1>6. Walk[N - 1] = m_tail
  <2>1. Walk[N - 1] \in S /\ Cardinality(Before(Walk[N - 1], S)) = N - 1
    BY <1>1, <1>3
  <2> QED
    BY <1>2, <2>1, BeforeIdentifies DEF Distinct
<1>7. UpToTail = 0..(N - 1)
  <2>1. ASSUME NEW i \in 0..(N - 1)
        PROVE  i \in UpToTail
    <3>1. i \in 0..(Cardinality(Node) - 1) /\ Walk[i] # NULL
      BY <1>1, <1>3, <1>4, <1>5
    <3>2. ASSUME NEW j \in 0..(i - 1)
          PROVE  Walk[j] # m_tail
      <4>1. j \in 0..(N - 1) /\ j # N - 1
        BY <1>3
      <4> QED
        BY <1>1, <1>2, <1>3, <4>1
    <3> QED
      BY <3>1, <3>2 DEF UpToTail
  <2>2. ASSUME NEW i \in UpToTail
        PROVE  i \in 0..(N - 1)
    <3>1. i \in 0..(Cardinality(Node) - 1) /\ \A j \in 0..(i - 1) : Walk[j] # m_tail
      BY DEF UpToTail
    <3>2. N - 1 \notin 0..(i - 1)
      BY <1>6, <3>1
    <3> QED
      BY <1>3, <1>4, <3>1, <3>2
  <2> QED
    BY <2>1, <2>2
<1>8. Cardinality(UpToTail) = N
  BY <1>3, <1>7, FS_Interval
<1>9. ASSUME NEW i \in 1..N
      PROVE  Walk[i - 1] = ByPid(S)[i]
  <2>1. i - 1 \in 0..(N - 1)
    BY <1>3
  <2>2. Walk[i - 1] \in S /\ Cardinality(Before(Walk[i - 1], S)) = i - 1
    BY <1>1, <2>1
  <2> QED
    BY <2>2, PlaceByPid
<1> QED
  BY <1>8, <1>9 DEF Order, ByPid

(* What has joined the queue is a chain that starts with the kernel process. *)
LEMMA JoinedChain ==
  ASSUME IInv, m_head # NULL
  PROVE  /\ m_head = Kernel /\ Kernel \in Joined /\ m_pid[Kernel] = 0
         /\ Chain(Joined, m_tail) /\ boot \in {"closing", "up"}
<1>0. m_next \in [Node -> Node \cup {NULL}] /\ m_head \in Node \cup {NULL}
      /\ boot \in {"start", "spawning", "closing", "up"}
  BY DEF IInv, Types
<1>1. m_head = Kernel /\ Kernel \in Members /\ boot \in {"closing", "up"}
  BY <1>0, RingAssumption DEF IInv, Starting, Members, Constructed
<1>2. m_pid[Kernel] = 0
  BY <1>1 DEF IInv, Pids, Members
<1>3. Chain(Joined, m_tail)
  <2>1. CASE boot = "up"
    BY <2>1 DEF IInv, Ring, Joined, Appending
  <2>2. CASE boot = "closing"
    <3>1. Joined = {Kernel} /\ m_tail = Kernel
      BY <2>2 DEF IInv, Starting, Joined, Members
    <3> QED
      BY <1>2, <3>1 DEF Chain
  <2> QED
    BY <1>1, <2>1, <2>2
<1>4. Kernel \in Joined
  <2>1. CASE boot = "up" /\ Flow \in {"append", "link", "tail"}
    <3>1. \A n \in Members \ {New} : m_pid[n] < m_pid[New]
      BY <2>1 DEF IInv, Ring
    <3>2. m_tail \in Members \ {New}
      BY <1>3, <2>1 DEF Joined, Chain
    <3>3. m_pid[m_tail] \in Nat
      BY <3>2, JoinedDistinct DEF Distinct
    <3>4. New # Kernel
      BY <1>2, <3>1, <3>2, <3>3
    <3> QED
      BY <1>1, <2>1, <3>4 DEF Joined
  <2>2. CASE ~(boot = "up" /\ Flow \in {"append", "link", "tail"})
    BY <1>1, <2>2 DEF Joined
  <2> QED
    BY <2>1, <2>2
<1> QED
  BY <1>1, <1>2, <1>3, <1>4

(* Every place is taken by one of its processes.                           *)
LEMMA PlacesTaken ==
  ASSUME IInv, m_head # NULL
  PROVE  \A i \in 1..Cardinality(Joined) :
           /\ ByPid(Joined)[i] \in Joined
           /\ Cardinality(Before(ByPid(Joined)[i], Joined)) = i - 1
<1>1. m_next \in [Node -> Node \cup {NULL}]
  BY DEF IInv, Types
<1>2. Distinct(Joined) /\ Joined \subseteq Node
  BY JoinedDistinct
<1>3. \A i \in 0..(Cardinality(Joined) - 1) :
        Walk[i] \in Joined /\ Cardinality(Before(Walk[i], Joined)) = i
  BY <1>1, <1>2, JoinedChain, WalkVisits DEF Distinct
<1>4. Cardinality(Joined) \in Nat
  BY <1>2, FS_CardinalityType DEF Distinct
<1>5. ASSUME NEW i \in 1..Cardinality(Joined)
      PROVE  ByPid(Joined)[i] \in Joined
             /\ Cardinality(Before(ByPid(Joined)[i], Joined)) = i - 1
  <2>1. Walk[i - 1] \in Joined /\ Cardinality(Before(Walk[i - 1], Joined)) = i - 1
    BY <1>3, <1>4
  <2>2. ByPid(Joined)[i] = Walk[i - 1]
    BY <1>2, <2>1, PlaceByPid
  <2> QED
    BY <2>1, <2>2
<1> QED
  BY <1>5

(* The queue is what has joined it, in the order of pids.                  *)
LEMMA OrderIsByPid ==
  ASSUME IInv
  PROVE  Order = ByPid(Joined)
<1>1. m_next \in [Node -> Node \cup {NULL}]
  BY DEF IInv, Types
<1>2. CASE m_head = NULL
  <2>1. UpToTail = {} /\ Joined = {}
    BY <1>1, <1>2, WalkOfNothing DEF Joined
  <2> QED
    BY <2>1, FS_EmptySet DEF Order, ByPid
<1>3. CASE m_head # NULL
  <2>1. Distinct(Joined) /\ Joined \subseteq Node
    BY JoinedDistinct
  <2> QED
    BY <1>1, <1>3, <2>1, JoinedChain, OrderOfChain
<1> QED
  BY <1>2, <1>3

(* The order depends on the pids of the set alone.                         *)
LEMMA SameOrder ==
  ASSUME Joined' = Joined, \A n \in Joined : m_pid'[n] = m_pid[n]
  PROVE  ByPid(Joined)' = ByPid(Joined)
<1>1. \A x \in Joined : Before(x, Joined)' = Before(x, Joined)
  BY DEF Before
<1>2. \A i : AtPlace(i, Joined)' = AtPlace(i, Joined)
  BY <1>1 DEF AtPlace
<1>3. ByPid(Joined)' = [i \in 1..Cardinality(Joined) |-> The(AtPlace(i, Joined)')]
  BY DEF ByPid
<1> QED
  BY <1>2, <1>3 DEF ByPid

(* A process with a greater pid than all others comes last.                *)
LEMMA LastByPid ==
  ASSUME NEW S, NEW n, n \notin S, Distinct(S \cup {n}), Distinct(S),
         \A x \in S : m_pid[x] < m_pid[n]
  PROVE  ByPid(S \cup {n}) = Append(ByPid(S), n)
<1> DEFINE T == S \cup {n}
           N == Cardinality(S)
<1>1. N \in Nat /\ Cardinality(T) = N + 1
  BY FS_CardinalityType, FS_AddElement DEF Distinct
<1>2. Before(n, T) = S /\ \A x \in S : Before(x, T) = Before(x, S)
  BY DEF Before, Distinct
<1>3. ByPid(T)[N + 1] = n
  <2>1. N + 1 \in 1..Cardinality(T) /\ Cardinality(Before(n, T)) = (N + 1) - 1 /\ n \in T
        /\ Distinct(T)
    BY <1>1, <1>2
  <2> HIDE DEF T
  <2> QED
    BY <2>1, PlaceByPid
<1>4. ASSUME NEW i \in 1..N
      PROVE  ByPid(T)[i] = ByPid(S)[i]
  <2>1. AtPlace(i, T) = AtPlace(i, S)
    BY <1>1, <1>2 DEF AtPlace
  <2>2. ByPid(T)[i] = The(AtPlace(i, T)) /\ ByPid(S)[i] = The(AtPlace(i, S))
    <3>1. i \in 1..Cardinality(T)
      BY <1>1
    <3> HIDE DEF T
    <3> QED
      BY <3>1 DEF ByPid
  <2> QED
    BY <2>1, <2>2
<1>5. Append(ByPid(S), n) = [i \in 1..(N + 1) |-> IF i = N + 1 THEN n ELSE ByPid(S)[i]]
  BY <1>1 DEF ByPid
<1>6. ByPid(T) = [i \in 1..(N + 1) |-> ByPid(T)[i]]
  <2> HIDE DEF T
  <2> QED
    BY <1>1 DEF ByPid
<1>7. ASSUME NEW i \in 1..(N + 1)
      PROVE  ByPid(T)[i] = IF i = N + 1 THEN n ELSE ByPid(S)[i]
  <2> HIDE DEF T
  <2>1. CASE i = N + 1
    BY <1>3, <2>1
  <2>2. CASE i # N + 1
    <3>1. i \in 1..N
      BY <1>1, <2>2
    <3> QED
      BY <1>4, <2>2, <3>1
  <2> QED
    BY <2>1, <2>2
<1>8. ByPid(T) = Append(ByPid(S), n)
  <2> HIDE DEF T
  <2> QED
    BY <1>5, <1>6, <1>7
<1> QED
  BY <1>8

(* Most steps leave the queue as it is.                                    *)
Stutters == ByPid(Joined)' = ByPid(Joined) /\ Cur' = Cur

(* No step of a flow but two changes the queue.                            *)
LEMMA QuietSteps ==
  ASSUME IInv, IInv', NEW p \in Node,
         \/ Kmalloc(p) \/ KmallocLink(p) \/ Construct(p) \/ StorePid(p)
         \/ AppendLoad(p) \/ AppendLink(p) \/ AppendReload(p) \/ AppendClose(p)
  PROVE  Stutters
<1>1. m_head' = m_head /\ current_proc' = current_proc /\ Cur' = Cur
  BY DEF Kmalloc, KmallocLink, Construct, StorePid, AppendLoad, AppendLink, AppendReload,
         AppendClose, list, Cur
<1>2. p = Cur /\ Flow = pc[p]
  BY DEF Kmalloc, KmallocLink, Construct, StorePid, AppendLoad, AppendLink, AppendReload,
         AppendClose, Return, At, Flow
<1>3. m_head # NULL => boot \in {"closing", "up"}
  BY DEF IInv, Starting, Types
<1>4. pc' \in [Node -> Labels] /\ pc \in [Node -> Labels]
  BY DEF IInv, Types
<1>5. CASE Kmalloc(p)
  <2>1. Flow = "idle" /\ Flow' = "kmalloc"
    BY <1>1, <1>2, <1>4, <1>5 DEF Kmalloc, At, Flow
  <2>2. m_pid' = m_pid /\ Members' = Members /\ Constructed' = Constructed
    <3>1. m_pid' = m_pid /\ Constructed' = Constructed /\ heap' = heap
      BY <1>5 DEF Kmalloc, Constructed
    <3>2. heap = Constructed /\ New' \in Node \ heap /\ New' = NextObject
      BY <1>1, <1>2, <1>5, <2>1, <3>1 DEF IInv, Memory, New, Kmalloc, Types
    <3>3. users \subseteq users' /\ users' \subseteq users \cup {NextObject}
      BY <1>5 DEF Kmalloc
    <3> QED
      BY <3>1, <3>2, <3>3 DEF Members
  <2>3. Joined' = Joined
    BY <1>1, <2>1, <2>2 DEF Joined
  <2> QED
    BY <1>1, <2>2, <2>3, SameOrder DEF Stutters
<1>6. CASE StorePid(p)
  <2>1. Flow = "pid" /\ Flow' = AfterPid(p) /\ New = node[p] /\ New' = New
    BY <1>1, <1>2, <1>4, <1>6 DEF StorePid, At, Flow, New
  <2>2. New \in Node \ Constructed
    BY <2>1 DEF IInv, Memory
  <2>3. m_pid' = [m_pid EXCEPT ![New] = reg[p]] /\ users' = users /\ boot' = boot
    BY <1>6, <2>1 DEF StorePid
  <2>4. reg[p] \in Nat
    BY <1>2, <2>1 DEF IInv, Pids, Types
  <2>5. Constructed' = Constructed \cup {New} /\ \A n \in Constructed : m_pid'[n] = m_pid[n]
    BY <2>2, <2>3, <2>4, RingAssumption DEF Constructed, IInv, Types
  <2>6. Joined' = Joined
    <3>1. CASE m_head = NULL
      BY <1>1, <3>1 DEF Joined
    <3>2. CASE m_head # NULL
      <4>1. boot = "up"
        BY <1>3, <2>1, <3>2 DEF IInv, Starting, Appending
      <4>2. CASE New \in users
        BY <1>1, <2>1, <2>3, <2>5, <4>1, <4>2 DEF Joined, Members, AfterPid
      <4>3. CASE New \notin users
        BY <1>1, <2>1, <2>2, <2>3, <2>5, <3>2, <4>1, <4>3 DEF Joined, Members, AfterPid
      <4> QED
        BY <4>2, <4>3
    <3> QED
      BY <3>1, <3>2
  <2>7. Joined \subseteq Constructed
    BY DEF Joined, Members
  <2> QED
    BY <1>1, <2>5, <2>6, <2>7, SameOrder DEF Stutters
<1>7. CASE \/ KmallocLink(p) \/ Construct(p) \/ AppendLoad(p) \/ AppendLink(p)
           \/ AppendReload(p) \/ AppendClose(p)
  <2>1. m_pid' = m_pid /\ users' = users /\ New' = New
    BY <1>1, <1>7 DEF KmallocLink, Construct, AppendLoad, AppendLink, AppendReload, AppendClose,
                      objects, New
  <2>2. Members' = Members
    BY <2>1 DEF Members, Constructed
  <2>3. CASE AppendClose(p)
    <3>1. Flow = "closing" /\ Flow' = "idle" /\ (boot = "spawning" \/ boot' = "up")
      <4>1. Flow = "closing"
        BY <1>2, <2>3 DEF AppendClose, Return, At
      <4>2. boot # "spawning"
        BY <4>1 DEF IInv, Starting
      <4>3. At(p, "closing", "idle")
        BY <2>3, <4>2 DEF AppendClose, Return
      <4> QED
        BY <1>1, <1>2, <1>4, <2>3, <4>1, <4>2, <4>3 DEF AppendClose, Return, At, Flow
    <3>2. Joined' = Joined
      BY <1>1, <2>1, <2>2, <3>1 DEF Joined
    <3> QED
      BY <1>1, <2>1, <3>2, SameOrder DEF Stutters
  <2>4. CASE ~AppendClose(p)
    <3>1. boot' = boot
      BY <1>7, <2>4 DEF KmallocLink, Construct, AppendLoad, AppendLink, AppendReload
    <3>2. (Flow \in {"append", "link", "tail"}) <=> (Flow' \in {"append", "link", "tail"})
      <4>1. \/ At(p, "kmalloc", "new") \/ At(p, "new", "pid") \/ At(p, "append", "link")
            \/ At(p, "link", "tail") \/ At(p, "close", "closing")
        BY <1>7, <2>4 DEF KmallocLink, Construct, AppendLoad, AppendLink, AppendReload
      <4>2. <<Flow, Flow'>> \in {<<"kmalloc", "new">>, <<"new", "pid">>, <<"append", "link">>,
                                <<"link", "tail">>, <<"close", "closing">>}
        BY <1>1, <1>2, <1>4, <4>1 DEF At, Flow
      <4> QED
        BY <4>2
    <3>3. Joined' = Joined
      BY <1>1, <2>1, <2>2, <3>1, <3>2 DEF Joined
    <3> QED
      BY <1>1, <2>1, <3>3, SameOrder DEF Stutters
  <2> QED
    BY <2>3, <2>4
<1> QED
  BY <1>5, <1>6, <1>7

(* With the same pids, only the set decides. *)
LEMMA SamePids ==
  ASSUME m_pid' = m_pid, NEW X, Joined' = X
  PROVE  ByPid(Joined)' = ByPid(X)
<1>1. ByPid(Joined)' = [i \in 1..Cardinality(X) |-> The(AtPlace(i, Joined)')]
  BY DEF ByPid
<1>2. \A i : AtPlace(i, Joined)' = AtPlace(i, X)
  BY DEF AtPlace, Before
<1> QED
  BY <1>1, <1>2 DEF ByPid

(* The first process joins the empty queue.                                *)
LEMMA FirstJoins ==
  ASSUME IInv, IInv', NEW p \in Node, AppendFirst(p)
  PROVE  /\ ByPid(Joined) = << >> /\ ByPid(Joined)' = Append(<< >>, Kernel)
         /\ Cur' = Cur
<1>1. /\ m_head = NULL /\ p = Cur /\ Flow = "append"
      /\ current_proc' = current_proc /\ m_pid' = m_pid /\ users' = users
      /\ boot = "spawning" => boot' = "closing"
  BY DEF AppendFirst, Return, At, Flow, objects
<1>2. boot = "spawning"
  BY <1>1, RingAssumption DEF IInv, Starting, Types, Appending, Members, Constructed
<1>3. Members = {Kernel} /\ Members' = Members /\ m_head' = Kernel
  BY <1>1, <1>2 DEF AppendFirst, IInv, Starting, Members, Constructed, New
<1>4. Joined = {} /\ Joined' = {} \cup {Kernel}
  BY <1>1, <1>2, <1>3, RingAssumption DEF Joined
<1>5. ByPid({}) = << >>
  BY FS_EmptySet DEF ByPid
<1>6. ByPid({} \cup {Kernel}) = Append(ByPid({}), Kernel)
  <2>1. Distinct(Members) /\ {} \cup {Kernel} = Members
    BY <1>3, JoinedDistinct
  <2>2. Distinct({}) /\ Distinct({} \cup {Kernel})
    BY <2>1, FS_EmptySet DEF Distinct
  <2> QED
    BY <2>2, LastByPid
<1>7. ByPid(Joined)' = ByPid({} \cup {Kernel})
  BY <1>1, <1>4, SamePids
<1> QED
  BY <1>1, <1>4, <1>5, <1>6, <1>7 DEF Cur

(* A process joins the queue at its end when m_tail points at it.          *)
LEMMA TailJoins ==
  ASSUME IInv, IInv', NEW p \in Node, AppendTail(p)
  PROVE  \/ Stutters
         \/ /\ New \in Node \ Joined /\ m_head # NULL
            /\ ByPid(Joined)' = Append(ByPid(Joined), New)
            /\ Cur' = Cur
<1>1. /\ p = Cur /\ Flow = "tail" /\ m_head' = m_head /\ boot' = boot
      /\ current_proc' = current_proc /\ m_pid' = m_pid /\ users' = users /\ node' = node
      /\ Cur' = Cur
  BY DEF AppendTail, At, Flow, objects, Cur
<1>2. Flow' = "close"
  BY <1>1 DEF AppendTail, At, Flow, IInv, Types
<1>3. Members' = Members
  BY <1>1 DEF Members, Constructed
<1>4. m_head # NULL /\ boot \in {"closing", "up"}
  <2>1. boot \in {"closing", "up"}
    BY <1>1 DEF IInv, Starting, Types
  <2> QED
    BY <2>1, RingAssumption DEF IInv, Starting
<1>5. Joined' = Members
  BY <1>1, <1>2, <1>3, <1>4 DEF Joined
<1>6. CASE boot = "closing"
  <2>1. Joined = Members
    BY <1>4, <1>6 DEF Joined
  <2> QED
    BY <1>1, <1>5, <2>1, SamePids DEF Stutters
<1>7. CASE boot = "up"
  <2>1. Joined = Members \ {New} /\ New \in Members
    BY <1>1, <1>4, <1>7 DEF Joined, IInv, Memory, Appending
  <2>2. \A n \in Joined : m_pid[n] < m_pid[New]
    BY <1>1, <1>7, <2>1 DEF IInv, Ring
  <2>3. Distinct(Joined) /\ Distinct(Joined \cup {New}) /\ New \in Node /\ New \notin Joined
        /\ Joined \cup {New} = Members
    <3>1. Joined \cup {New} = Members
      BY <2>1
    <3> QED
      BY <2>1, <3>1, JoinedDistinct
  <2>4. ByPid(Joined \cup {New}) = Append(ByPid(Joined), New)
    BY <2>2, <2>3, LastByPid
  <2>5. ByPid(Joined)' = ByPid(Members)
    BY <1>1, <1>5, SamePids
  <2> QED
    BY <1>1, <1>4, <2>3, <2>4, <2>5
<1> QED
  BY <1>4, <1>6, <1>7

(* The place after the last one is the first.                              *)
LEMMA RoundAndRound ==
  ASSUME NEW n \in Nat \ {0}, NEW i \in 1..n
  PROVE  (i % n) + 1 = IF i = n THEN 1 ELSE i + 1
  OBVIOUS

(* A tick passes the turn to the process that follows in the queue.        *)
LEMMA TickPasses ==
  ASSUME Masked, IInv, IInv', TaskSwitch
  PROVE  /\ ByPid(Joined)' = ByPid(Joined)
         /\ \E i \in 1..Cardinality(Joined) :
              /\ ByPid(Joined)[i] = Cur
              /\ Cur' = ByPid(Joined)[(i % Cardinality(Joined)) + 1]
<1>1. /\ boot = "up" /\ Flow = "idle" /\ Flow' = "idle" /\ m_pid' = m_pid /\ m_head' = m_head
      /\ Members' = Members /\ Cur' = m_next[Cur]
  <2>1. /\ boot = "up" /\ Flow = "idle" /\ m_pid' = m_pid /\ users' = users /\ m_head' = m_head
        /\ pc' = pc /\ m_next' = m_next /\ current_proc' = m_next[Cur]
    BY DEF TaskSwitch, Flow, list, objects
  <2>2. \A p \in Node : pc[p] = "idle"
    BY <2>1 DEF IInv, Alone, Flow
  <2>3. halted' = (m_next[Cur] = NULL) /\ halted' = FALSE
    BY Zenon DEF TaskSwitch, IInv
  <2>4. m_next[Cur] # NULL
    BY <2>3
  <2>5. Cur' = m_next[Cur]
    BY <2>1, <2>4 DEF Cur
  <2>6. Cur' \in Node
    BY <2>1, <2>4, RingAssumption DEF IInv, Types, Cur
  <2>7. Flow' = "idle"
    BY <2>1, <2>2, <2>6 DEF Flow
  <2>8. Members' = Members
    BY <2>1 DEF Members, Constructed
  <2> QED
    BY <2>1, <2>5, <2>7, <2>8
<1>2. m_head # NULL /\ Cur \in Members /\ m_head = Kernel
  BY <1>1, RingAssumption DEF IInv, Starting
<1>3. Joined = Members /\ Joined' = Joined
  BY <1>1, <1>2 DEF Joined
<1>4. ByPid(Joined)' = ByPid(Joined)
  BY <1>1, <1>3, SameOrder
<1> DEFINE S == Joined
           N == Cardinality(S)
           i == Cardinality(Before(Cur, S)) + 1
<1>5. Distinct(S) /\ Chain(S, m_tail) /\ m_pid[Kernel] = 0 /\ Kernel \in S
      /\ m_next[m_tail] = Kernel /\ Cur \in S
  <2>1. m_next[m_tail] = Kernel
    BY <1>1 DEF IInv, Ring, Appending
  <2> QED
    BY <1>2, <1>3, <2>1, JoinedDistinct, JoinedChain
<1>6. N \in Nat \ {0} /\ m_tail \in S /\ Cardinality(Before(m_tail, S)) = N - 1
  <2>1. N \in Nat /\ N # 0
    BY <1>5, FS_CardinalityType, FS_EmptySet DEF Distinct
  <2> QED
    BY <1>5, <2>1, TailIsLast DEF Distinct
<1>7. i \in 1..N
  <2>1. Before(Cur, S) \in SUBSET (S \ {Cur})
    BY <1>5 DEF Before, Distinct
  <2>2. IsFiniteSet(S \ {Cur}) /\ Cardinality(S \ {Cur}) = N - 1
    BY <1>5, FS_RemoveElement DEF Distinct
  <2>3. Cardinality(Before(Cur, S)) \in Nat /\ Cardinality(Before(Cur, S)) <= N - 1
    BY <2>1, <2>2, FS_Subset, FS_CardinalityType
  <2> QED
    BY <1>6, <2>3
<1>8. ByPid(S)[i] = Cur
  <2>1. Cardinality(Before(Cur, S)) = i - 1
    BY <1>7, FS_CardinalityType, <1>5, FS_Subset DEF Before, Distinct
  <2> HIDE DEF S, i
  <2> QED
    BY <1>5, <1>7, <2>1, PlaceByPid
<1>9. m_next[Cur] = ByPid(S)[(i % N) + 1]
  <2>1. CASE Cur = m_tail
    <3>1. i = N /\ (i % N) + 1 = 1
      <4>1. i = N
        BY <1>6, <2>1
      <4> HIDE DEF i, N
      <4> QED
        BY <1>6, <1>7, <4>1, RoundAndRound
    <3>2. Before(Kernel, S) = {}
      BY <1>5 DEF Before, Distinct
    <3>3. 1 \in 1..N /\ Cardinality(Before(Kernel, S)) = 1 - 1
      BY <1>6, <3>2, FS_EmptySet
    <3>4. ByPid(S)[1] = Kernel
      <4> HIDE DEF S
      <4> QED
        BY <1>5, <3>3, PlaceByPid
    <3> HIDE DEF S, N, i
    <3> QED
      BY <1>5, <2>1, <3>1, <3>4
  <2>2. CASE Cur # m_tail
    <3>1. IsSucc(Cur, m_next[Cur], S)
      BY <1>5, <2>2 DEF Chain
    <3>2. m_next[Cur] \in S
          /\ Cardinality(Before(m_next[Cur], S)) = Cardinality(Before(Cur, S)) + 1
      <4> HIDE DEF S
      <4> QED
        BY <1>5, <3>1, SuccessorIsNext DEF Distinct
    <3>3. i # N
      <4>1. Cardinality(Before(Cur, S)) # Cardinality(Before(m_tail, S))
        <5> HIDE DEF S
        <5> QED
          BY <1>5, <1>6, <2>2, BeforeIdentifies DEF Distinct
      <4>2. i \in 1..N /\ i = Cardinality(Before(Cur, S)) + 1
        BY <1>7
      <4>3. Cardinality(Before(Cur, S)) \in Nat
        BY <1>5, FS_CardinalityType, FS_Subset DEF Before, Distinct
      <4> HIDE DEF i, N
      <4> QED
        BY <1>6, <4>1, <4>2, <4>3
    <3>4. i + 1 \in 1..N /\ (i % N) + 1 = i + 1
      <4> HIDE DEF i, N
      <4>1. (i % N) + 1 = IF i = N THEN 1 ELSE i + 1
        BY <1>6, <1>7, RoundAndRound
      <4>2. i + 1 \in 1..N
        BY <1>6, <1>7, <3>3
      <4> QED
        BY <3>3, <4>1, <4>2
    <3>5. Cardinality(Before(m_next[Cur], S)) = (i + 1) - 1
      <4>1. Cardinality(Before(Cur, S)) \in Nat
        BY <1>5, FS_CardinalityType, FS_Subset DEF Before, Distinct
      <4> QED
        BY <3>2, <4>1
    <3>6. ByPid(S)[i + 1] = m_next[Cur]
      <4> HIDE DEF S, i
      <4> QED
        BY <1>5, <3>2, <3>4, <3>5, PlaceByPid
    <3> HIDE DEF S, N, i
    <3> QED
      BY <3>4, <3>6
  <2> QED
    BY <2>1, <2>2
<1> HIDE DEF i
<1> QED
  BY <1>1, <1>4, <1>7, <1>8, <1>9

(* The queue of ProcQueue, in terms of that.                               *)
LEMMA StepImplements ==
  ASSUME Masked, IInv, IInv', [Next]_vars,
         Order = ByPid(Joined), Order' = ByPid(Joined)'
  PROVE  [Queue!Next]_Queue!vars
<1>1. ASSUME Order' = Order, Cur' = Cur
      PROVE  [Queue!Next]_Queue!vars
  BY <1>1 DEF Queue!vars, Order
<1>2. ASSUME Stutters
      PROVE  [Queue!Next]_Queue!vars
  BY <1>1, <1>2 DEF Stutters
<1>3. Cardinality(Joined) \in Nat /\ Len(Order) = Cardinality(Joined)
  <2>1. Cardinality(Joined) \in Nat
    BY JoinedDistinct, FS_CardinalityType DEF Distinct
  <2> QED
    BY <2>1 DEF ByPid
<1>4. CASE TaskSwitch
  <2>1. Order' = Order /\ \E i \in 1..Len(Order) :
                            Order[i] = Cur /\ Cur' = Order[(i % Len(Order)) + 1]
    BY <1>3, <1>4, TickPasses
  <2>2. Queue!Tick
    BY <2>1 DEF Queue!Tick, Order
  <2> QED
    BY <2>2 DEF Queue!Next
<1>5. ASSUME NEW n \in Node, \A i \in 1..Len(Order) : Order[i] # n, Order = << >> => n = Kernel,
             Order' = Append(Order, n), Cur' = Cur
      PROVE  [Queue!Next]_Queue!vars
  <2>1. Queue!Spawn(n)
    BY <1>5 DEF Queue!Spawn, Queue!Spawned, Order
  <2> QED
    BY <2>1 DEF Queue!Next
<1>6. ASSUME NEW p \in Node, AppendFirst(p)
      PROVE  [Queue!Next]_Queue!vars
  <2>1. Order = << >> /\ Order' = Append(Order, Kernel) /\ Cur' = Cur
    BY <1>6, FirstJoins
  <2> QED
    BY <1>5, <2>1, RingAssumption
<1>7. ASSUME NEW p \in Node, AppendTail(p), ~Stutters
      PROVE  [Queue!Next]_Queue!vars
  <2>1. /\ New \in Node \ Joined /\ m_head # NULL
        /\ Order' = Append(Order, New) /\ Cur' = Cur
    BY <1>7, TailJoins
  <2>2. \A i \in 1..Len(Order) : Order[i] \in Joined
    BY <1>3, <2>1, PlacesTaken
  <2>3. Order # << >>
    <3>1. Cardinality(Joined) # 0
      BY <2>1, JoinedDistinct, JoinedChain, FS_EmptySet DEF Distinct
    <3> QED
      BY <1>3, <3>1
  <2> QED
    BY <1>5, <2>1, <2>2, <2>3
<1>8. ASSUME NEW p \in Node, Spawn(p)
      PROVE  [Queue!Next]_Queue!vars
  BY <1>2, <1>6, <1>7, <1>8, QuietSteps DEF Spawn
<1>9. CASE UNCHANGED vars
  <2>1. Cur' = Cur /\ Order' = Order
    <3>1. m_head' = m_head /\ m_next' = m_next /\ m_tail' = m_tail
          /\ current_proc' = current_proc
      BY <1>9 DEF vars
    <3>2. Walk' = Walk
      BY <3>1 DEF Walk
    <3> QED
      BY <3>1, <3>2 DEF Order, UpToTail, Cur
  <2> QED
    BY <1>1, <2>1
<1> QED
  BY <1>4, <1>8, <1>9 DEF Next

(***************************************************************************)
(* The list implements ProcQueue: appending link by link, and ticks that   *)
(* follow the links, are processes that join a queue in spawning order and *)
(* take turns, for any number of them.                                     *)
(***************************************************************************)
THEOREM RingImplementsQueue ==
  ASSUME Masked
  PROVE  Spec => ImplementsQueue
<1>1. Init => Queue!Init
  <2> SUFFICES ASSUME Init PROVE Queue!Init
    OBVIOUS
  <2>1. UpToTail = {} /\ Cur = Kernel
    BY WalkOfNothing DEF Init, Cur
  <2> QED
    BY <2>1, FS_EmptySet DEF Queue!Init
<1>2. IInv => Order = ByPid(Joined)
  BY OrderIsByPid
<1>3. (Order = ByPid(Joined)) /\ (Order = ByPid(Joined))' /\ IInv /\ IInv' /\ [Next]_vars
        => [Queue!Next]_Queue!vars
  BY StepImplements
<1> QED
  BY <1>1, <1>2, <1>3, Invariance, PTL DEF Spec, ImplementsQueue, Queue!Spec
=============================================================================
