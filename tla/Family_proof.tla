---------------------------- MODULE Family_proof ----------------------------
(***************************************************************************)
(* Proofs about the ready queue, PID2PCB, the family tree and sys_wait4    *)
(* for any number of processes: no task is lost or cloned, the tables are  *)
(* exact, the kernel implements ProcessLife, and with the init program it  *)
(* embeds it shuts down only when every exit code was collected.           *)
(***************************************************************************)
EXTENDS System, ProcessImpl, Process_proof, WellFoundedInduction

USE DEF hartVars, queueVars, runVars, familyVars

-----------------------------------------------------------------------------
\* VecDeque::push_back and Vec::push add one element, once if it was not there.
LEMMA ElemsAppend ==
  ASSUME NEW T, NEW s \in Seq(T), NEW x \in T
  PROVE  /\ Elems(Append(s, x)) = Elems(s) \cup {x}
         /\ NoDuplicates(s) /\ x \notin Elems(s) => NoDuplicates(Append(s, x))
  <1> DEFINE n == Len(s)
             a == Append(s, x)
  <1>1. /\ n \in Nat /\ DOMAIN s = 1 .. n /\ DOMAIN a = 1 .. n + 1
        /\ a[n + 1] = x /\ \A i \in 1 .. n : a[i] = s[i]
    BY AppendProperties, LenProperties
  <1>2. Elems(a) \subseteq Elems(s) \cup {x}
    BY <1>1 DEF Elems
  <1>3. Elems(s) \cup {x} \subseteq Elems(a)
    <2>1. \A i \in 1 .. n : i \in 1 .. n + 1 /\ s[i] = a[i]
      BY <1>1
    <2>2. n + 1 \in 1 .. n + 1
      BY <1>1
    <2> QED
      BY <1>1, <2>1, <2>2 DEF Elems
  <1>4. ASSUME NoDuplicates(s), x \notin Elems(s), NEW i \in 1 .. n + 1,
               NEW j \in 1 .. n + 1, a[i] = a[j]
        PROVE  i = j
    BY <1>1, <1>4 DEF NoDuplicates, Elems
  <1> QED
    BY <1>1, <1>2, <1>3, <1>4 DEF NoDuplicates

\* VecDeque::pop_front takes one element away and, without duplicates, all of it.
LEMMA ElemsTail ==
  ASSUME NEW T, NEW s \in Seq(T), s # <<>>
  PROVE  /\ Head(s) \in Elems(s)
         /\ Elems(Tail(s)) \subseteq Elems(s)
         /\ Elems(s) \subseteq Elems(Tail(s)) \cup {Head(s)}
         /\ NoDuplicates(s) => NoDuplicates(Tail(s)) /\ Head(s) \notin Elems(Tail(s))
  <1> DEFINE n == Len(s)
             t == Tail(s)
  <1>1. /\ n \in Nat /\ n >= 1 /\ DOMAIN s = 1 .. n /\ DOMAIN t = 1 .. n - 1
        /\ Head(s) = s[1] /\ \A i \in 1 .. n - 1 : t[i] = s[i + 1]
    BY HeadTailProperties, LenProperties, EmptySeq
  <1>2. Head(s) \in Elems(s)
    BY <1>1 DEF Elems
  <1>3. Elems(t) \subseteq Elems(s)
    <2>1. \A i \in 1 .. n - 1 : i + 1 \in 1 .. n /\ t[i] = s[i + 1]
      BY <1>1
    <2> QED
      BY <1>1, <2>1 DEF Elems
  <1>4. ASSUME NEW i \in 1 .. n, i # 1
        PROVE  s[i] \in Elems(t)
    <2>1. i - 1 \in 1 .. n - 1 /\ t[i - 1] = s[i]
      BY <1>1, <1>4
    <2> QED
      BY <1>1, <2>1, Zenon DEF Elems
  <1>5. ASSUME NoDuplicates(s)
        PROVE  NoDuplicates(t) /\ Head(s) \notin Elems(t)
    <2>1. \A i, j \in 1 .. n - 1 : t[i] = t[j] => i = j
      BY <1>1, <1>5 DEF NoDuplicates
    <2>2. \A i \in 1 .. n - 1 : t[i] # s[1]
      BY <1>1, <1>5 DEF NoDuplicates
    <2> QED
      BY <1>1, <2>1, <2>2 DEF NoDuplicates, Elems
  <1> QED
    BY <1>1, <1>2, <1>3, <1>4, <1>5 DEF Elems

\* Appending one vector of children to another joins the sets.
LEMMA ElemsConcat ==
  ASSUME NEW T, NEW s \in Seq(T), NEW t \in Seq(T)
  PROVE  /\ Elems(s \o t) = Elems(s) \cup Elems(t)
         /\ NoDuplicates(s) /\ NoDuplicates(t) /\ Elems(s) \cap Elems(t) = {}
              => NoDuplicates(s \o t)
  <1> DEFINE n == Len(s)
             m == Len(t)
             u == s \o t
  <1>1. /\ n \in Nat /\ m \in Nat /\ DOMAIN s = 1 .. n /\ DOMAIN t = 1 .. m
        /\ DOMAIN u = 1 .. n + m
    BY ConcatProperties, LenProperties
  <1>2. \A i \in 1 .. n + m : u[i] = IF i <= n THEN s[i] ELSE t[i - n]
    BY ConcatProperties
  <1>3. ASSUME NEW i \in 1 .. n + m
        PROVE  \/ i \in 1 .. n /\ u[i] = s[i]
               \/ i - n \in 1 .. m /\ u[i] = t[i - n] /\ ~(i <= n)
    BY <1>1, <1>2
  <1>4. Elems(u) \subseteq Elems(s) \cup Elems(t)
    BY <1>1, <1>3 DEF Elems
  <1>5. ASSUME NEW i \in 1 .. n PROVE s[i] \in Elems(u)
    <2>1. i \in 1 .. n + m /\ u[i] = s[i]
      BY <1>1, <1>2
    <2> QED
      BY <1>1, <2>1 DEF Elems
  <1>6. ASSUME NEW i \in 1 .. m PROVE t[i] \in Elems(u)
    <2>1. n + i \in 1 .. n + m /\ ~(n + i <= n) /\ (n + i) - n = i
      BY <1>1
    <2> QED
      BY <1>1, <1>2, <2>1 DEF Elems
  <1>7. ASSUME NoDuplicates(s), NoDuplicates(t), Elems(s) \cap Elems(t) = {},
               NEW i \in 1 .. n + m, NEW j \in 1 .. n + m, u[i] = u[j]
        PROVE  i = j
    <2>1. CASE i \in 1 .. n /\ u[i] = s[i] /\ j \in 1 .. n /\ u[j] = s[j]
      BY <1>1, <1>7, <2>1, Zenon DEF NoDuplicates
    <2>2. CASE i - n \in 1 .. m /\ u[i] = t[i - n] /\ j - n \in 1 .. m /\ u[j] = t[j - n]
      <3>1. i - n = j - n
        BY <1>1, <1>7, <2>2, Zenon DEF NoDuplicates
      <3> QED
        BY <1>1, <3>1
    <2>3. ~(i \in 1 .. n /\ u[i] = s[i] /\ j - n \in 1 .. m /\ u[j] = t[j - n])
      BY <1>1, <1>7, Zenon DEF Elems
    <2>4. ~(j \in 1 .. n /\ u[j] = s[j] /\ i - n \in 1 .. m /\ u[i] = t[i - n])
      BY <1>1, <1>7, Zenon DEF Elems
    <2> QED
      BY <1>3, <2>1, <2>2, <2>3, <2>4
  <1>8. Elems(s) \subseteq Elems(u) /\ Elems(t) \subseteq Elems(u)
    BY <1>1, <1>5, <1>6 DEF Elems
  <1>9. NoDuplicates(s) /\ NoDuplicates(t) /\ Elems(s) \cap Elems(t) = {} => NoDuplicates(u)
    BY <1>1, <1>7 DEF NoDuplicates
  <1> QED
    BY <1>4, <1>8, <1>9

\* Vec::remove takes exactly one element away.
LEMMA ElemsRemove ==
  ASSUME NEW T, NEW s \in Seq(T), NEW i \in DOMAIN s, NoDuplicates(s)
  PROVE  /\ Elems(RemoveIndex(s, i)) = Elems(s) \ {s[i]}
         /\ NoDuplicates(RemoveIndex(s, i))
  <1> DEFINE n == Len(s)
             r == RemoveIndex(s, i)
             At(j) == IF j < i THEN j ELSE j + 1
  <1>1. n \in Nat /\ n >= 1 /\ DOMAIN s = 1 .. n /\ i \in 1 .. n
    BY LenProperties
  <1>2. DOMAIN r = 1 .. n - 1 /\ \A j \in 1 .. n - 1 : r[j] = s[At(j)]
    BY DEF RemoveIndex
  <1>3. \A j \in 1 .. n - 1 : At(j) \in 1 .. n /\ At(j) # i
    BY <1>1
  <1>4. \A j, k \in 1 .. n - 1 : At(j) = At(k) => j = k
    BY <1>1
  <1>5. Elems(r) \subseteq Elems(s) \ {s[i]}
    <2>1. \A j \in 1 .. n - 1 : s[At(j)] # s[i]
      BY ONLY <1>1, <1>3, NoDuplicates(s) DEF NoDuplicates
    <2> HIDE DEF At
    <2> QED
      BY <1>1, <1>2, <1>3, <2>1 DEF Elems
  <1>6. ASSUME NEW k \in 1 .. n, k # i PROVE s[k] \in Elems(r)
    <2>1. PICK j \in 1 .. n - 1 : At(j) = k
      <3>1. CASE k < i
        BY <1>1, <3>1
      <3>2. CASE ~(k < i)
        <4>1. k - 1 \in 1 .. n - 1 /\ At(k - 1) = k
          BY <1>1, <1>6, <3>2
        <4> QED
          BY <4>1
      <3> QED
        BY <3>1, <3>2
    <2> HIDE DEF At
    <2> QED
      BY <1>2, <2>1 DEF Elems
  <1>7. ASSUME NEW j \in 1 .. n - 1, NEW k \in 1 .. n - 1, r[j] = r[k] PROVE j = k
    <2>1. At(j) = At(k)
      BY ONLY <1>1, <1>2, <1>3, <1>7, NoDuplicates(s) DEF NoDuplicates
    <2> QED
      BY <1>4, <2>1
  <1>8. NoDuplicates(r)
    BY <1>2, <1>7 DEF NoDuplicates
  <1>9. Elems(s) \ {s[i]} \subseteq Elems(r)
    BY <1>1, <1>6 DEF Elems
  <1> QED
    BY <1>5, <1>8, <1>9

-----------------------------------------------------------------------------
\* what the queue, the tables and the family consist of
treeVars == <<current, halted, ready_queue, pid2pcb, next_pid, task_status,
              parent, children, is_zombie, exit_code, report>>
kinVars == <<parent, children, is_zombie, exit_code, report>>

\* p gives the hart away: the timer, sys_yield, the loop of sys_wait4
Yields(p) ==
    /\ halted = "no" /\ current = p
    /\ current' = None
    /\ task_status' = [task_status EXCEPT ![p] = "Ready"]
    /\ ready_queue' = Append(ready_queue, p)
    /\ UNCHANGED <<halted, pid2pcb, next_pid, kinVars>>

\* p exits, whatever for
Dies(p) == halted = "no" /\ current = p /\ \E code \in Int : ExitProcess(p, code)

\* init exits
Stops == halted = "no" /\ ExitInit(IDLE_PID)

\* exit_current_and_run_next with an exit code is one of the two.
LEMMA ExitKinds ==
  ASSUME NEW p \in Pids, NEW code \in Int, halted = "no", current = p, Exit(p, code)
  PROVE  Dies(p) \/ Stops
  BY DEF Exit, ExitInit, Dies, Stops

\* Of all the steps of the kernel and of user code only six kinds touch the
\* queue, the tables or the family.
LEMMA StepKinds ==
  ASSUME TypeOK, [Next]_vars
  PROVE  \/ UNCHANGED treeVars \/ RunTasks \/ Stops
         \/ \E p \in Pids : Yields(p) \/ Dies(p) \/ Fork(p) \/ Wait4Reap(p)
  <1> USE DEF treeVars, kinVars, Runs
  <1>1. ASSUME NEW p \in Pids, UserEntry(p) \/ WaitReturn(p) \/ TrapReturn(p)
        PROVE  UNCHANGED treeVars
    BY <1>1 DEF UserEntry, WaitReturn, TrapReturn
  <1>2. ASSUME NEW p \in Pids, Wait4NoChild(p) \/ Wait4NoHang(p)
        PROVE  UNCHANGED treeVars
    BY <1>2 DEF Wait4NoChild, Wait4NoHang, Wait4Done
  <1>3. ASSUME NEW p \in Pids, Wait4Suspend(p) \/ TimerTick(p) \/ SysYield(p)
        PROVE  Yields(p)
    BY <1>3 DEF Wait4Suspend, TimerTick, SysYield, Suspend, Yields
  <1>4. ASSUME NEW p \in Pids, TrapSignal(p)
        PROVE  Dies(p) \/ Stops
    <2>1. check_signals_of_current(p) \in Int
      BY <1>4, CheckErrorType DEF TrapSignal, check_signals_of_current
    <2> QED
      BY <1>4, <2>1, ExitKinds DEF TrapSignal
  <1>5. ASSUME NEW p \in Pids, UserCall(p)
        PROVE  UNCHANGED treeVars \/ Yields(p) \/ Dies(p) \/ Stops \/ Fork(p)
    <2>1. ASSUME NEW code \in ExitCodes, SysExit(p, code) PROVE Dies(p) \/ Stops
      BY <2>1, ExitKinds, ProcessAssumption DEF SysExit
    <2>2. ASSUME IllegalInstruction(p) PROVE Dies(p) \/ Stops
      BY <2>2, ExitKinds DEF IllegalInstruction
    <2>3. ASSUME PageFault(p) \/ SysGetppid(p) PROVE UNCHANGED treeVars
      BY <2>3 DEF PageFault, SysGetppid
    <2>4. ASSUME NEW target \in Pids, NEW mask \in KillFlags \cup {None},
                 SysKill(p, target, mask)
          PROVE  UNCHANGED treeVars
      BY <2>4 DEF SysKill
    <2>5. ASSUME NEW found \in BOOLEAN, SysExecve(p, found) PROVE UNCHANGED treeVars
      BY <2>5 DEF SysExecve
    <2>6. ASSUME NEW target \in Pids \cup {ANY}, NEW nohang \in BOOLEAN,
                 SysWait4(p, target, nohang)
          PROVE  UNCHANGED treeVars
      BY <2>6 DEF SysWait4
    <2> QED
      BY ONLY <1>3, <1>5, <2>1, <2>2, <2>3, <2>4, <2>5, <2>6 DEF UserCall
  <1>6. CASE UNCHANGED vars
    BY <1>6 DEF vars
  <1>7. CASE Halted
    BY <1>7 DEF Halted, vars
  <1> HIDE DEF treeVars, kinVars, Runs
  <1> QED
    BY ONLY [Next]_vars, <1>1, <1>2, <1>3, <1>4, <1>5, <1>6, <1>7
       DEF Next, Kernel, Timer, User

-----------------------------------------------------------------------------
\* init stays, a pid not handed out yet is nobody's, a parent is older than its
\* children, and a process is a zombie only with an exit code
Rooted ==
    /\ ~is_zombie[IDLE_PID] /\ parent[IDLE_PID] = None /\ report[IDLE_PID] = None
    /\ \A c \in Pids : c >= next_pid => ~is_zombie[c] /\ report[c] = None /\ parent[c] = None
    /\ \A c \in Pids : parent[c] # None => parent[c] < c
    /\ \A c \in Pids : is_zombie[c] => exit_code[c] \in Int

Tree == Rooted /\ QueueIntegrity /\ PidTableExact /\ FamilyTree /\ ReportFaithful
FInv == SInv /\ Tree

\* The live processes.
Alive == {p \in Created : ~is_zombie[p]}

\* Only pids that were handed out are alive.
LEMMA AliveArePids ==
  ASSUME TypeOK
  PROVE  Created \subseteq Pids /\ Alive \subseteq Created
  BY ProcessAssumption DEF TypeOK, Created, Alive, Pids

\* While the machine runs, the process on the hart is alive and not queued, and
\* init is alive.
LEMMA OnHartAlive ==
  ASSUME FInv, halted = "no"
  PROVE  /\ NoDuplicates(ready_queue) /\ Elems(ready_queue) = Alive \ {current}
         /\ current # None => current \in Alive /\ current \notin Elems(ready_queue)
         /\ IDLE_PID \in Alive
         /\ pid2pcb = Alive \ {IDLE_PID}
         /\ \A p \in Elems(ready_queue) : task_status[p] = "Ready"
  BY DEF FInv, SInv, TypeOK, Tree, QueueIntegrity, PidTableExact, Rooted, Alive, Live, Created,
         IDLE_PID

\* run_tasks takes the first task of a queue that is never empty.
LEMMA RunTree ==
  ASSUME FInv, RunTasks
  PROVE  Tree'
  <1>1. TypeOK /\ halted = "no" /\ current = None /\ IDLE_PID \in Pids
    BY ProcessAssumption DEF FInv, SInv, RunTasks, IDLE_PID, Pids
  <1>2. /\ NoDuplicates(ready_queue) /\ Elems(ready_queue) = Alive
        /\ \A p \in Elems(ready_queue) : task_status[p] = "Ready"
    BY <1>1, OnHartAlive, ProcessAssumption DEF Alive, Created
  <1>3. ready_queue # <<>>
    BY <1>1, <1>2, OnHartAlive DEF Elems
  <1> DEFINE h == Head(ready_queue)
  <1>4. /\ h \in Alive /\ Elems(Tail(ready_queue)) = Alive \ {h}
        /\ NoDuplicates(Tail(ready_queue))
    BY <1>1, <1>2, <1>3, ElemsTail DEF TypeOK
  <1>5. /\ current' = h /\ ready_queue' = Tail(ready_queue) /\ halted' = "no"
        /\ task_status' = [task_status EXCEPT ![h] = "Running"]
        /\ UNCHANGED <<pid2pcb, next_pid, kinVars>>
    BY <1>1, <1>3 DEF RunTasks, kinVars
  <1>6. Alive' = Alive /\ Created' = Created
    BY <1>5 DEF Alive, Created, kinVars
  <1>7. \A p \in Elems(Tail(ready_queue)) : task_status'[p] = "Ready"
    BY <1>1, <1>2, <1>4, <1>5 DEF TypeOK, Alive, Created, Pids
  <1>8. QueueIntegrity'
    BY <1>4, <1>5, <1>6, <1>7 DEF QueueIntegrity, Alive, Live
  <1>9. PidTableExact'
    BY <1>1, <1>5, <1>6 DEF FInv, Tree, PidTableExact, Alive
  <1> QED
    BY <1>5, <1>6, <1>8, <1>9 DEF FInv, Tree, Rooted, FamilyTree, ReportFaithful, Live, Elems,
                                  NoDuplicates, kinVars

\* suspend_current_and_run_next puts a task that is not queued into the queue.
LEMMA YieldTree ==
  ASSUME FInv, NEW p \in Pids, Yields(p)
  PROVE  Tree'
  <1>1. TypeOK /\ halted = "no" /\ current = p /\ p # None
    BY ProcessAssumption DEF FInv, SInv, Yields, Pids
  <1>2. /\ NoDuplicates(ready_queue) /\ Elems(ready_queue) = Alive \ {p} /\ p \in Alive
        /\ \A q \in Elems(ready_queue) : task_status[q] = "Ready"
    BY <1>1, OnHartAlive
  <1>3. /\ current' = None /\ ready_queue' = Append(ready_queue, p) /\ halted' = "no"
        /\ task_status' = [task_status EXCEPT ![p] = "Ready"]
        /\ UNCHANGED <<pid2pcb, next_pid, kinVars>>
    BY <1>1 DEF Yields
  <1>4. Elems(ready_queue') = Alive /\ NoDuplicates(ready_queue')
    <2>1. ready_queue \in Seq(Pids)
      BY <1>1 DEF TypeOK
    <2>2. /\ Elems(Append(ready_queue, p)) = Elems(ready_queue) \cup {p}
          /\ NoDuplicates(Append(ready_queue, p))
      BY ONLY p \in Pids, <1>2, <2>1, ElemsAppend
    <2> QED
      BY <1>2, <1>3, <2>2
  <1>5. Alive' = Alive /\ Created' = Created /\ None \notin Alive
    BY <1>3, ProcessAssumption DEF Alive, Created, kinVars
  <1>6. \A q \in Elems(ready_queue') : task_status'[q] = "Ready"
    <2>1. Alive \subseteq Pids
      BY <1>1, AliveArePids
    <2>2. task_status \in [Pids -> {"Ready", "Running"}]
      BY <1>1 DEF TypeOK
    <2> QED
      BY <1>2, <1>3, <1>4, <2>1, <2>2
  <1>7. QueueIntegrity'
    BY <1>3, <1>4, <1>5, <1>6 DEF QueueIntegrity, Alive
  <1>8. PidTableExact'
    BY <1>1, <1>3, <1>5 DEF FInv, Tree, PidTableExact, Alive
  <1> QED
    BY <1>3, <1>5, <1>7, <1>8 DEF FInv, Tree, Rooted, FamilyTree, ReportFaithful, Live, Elems,
                                  NoDuplicates, kinVars

\* init leaves everything behind as it was.
LEMMA StopTree ==
  ASSUME FInv, Stops
  PROVE  Tree'
  <1>1. /\ halted' = "shutdown"
        /\ UNCHANGED <<pid2pcb, next_pid, kinVars>>
    BY DEF Stops, ExitInit, kinVars
  <1>2. QueueIntegrity'
    BY <1>1 DEF QueueIntegrity
  <1>3. PidTableExact'
    BY <1>1 DEF FInv, Tree, PidTableExact, Created, kinVars
  <1> QED
    BY <1>1, <1>2, <1>3 DEF FInv, Tree, Rooted, FamilyTree, ReportFaithful, Live, Elems,
                            NoDuplicates, kinVars, Created

\* fork queues, registers and links a process that nobody knew.
LEMMA ForkTree ==
  ASSUME FInv, NEW p \in Pids, Fork(p)
  PROVE  Tree'
  <1> DEFINE c == next_pid
  <1>1. TypeOK /\ halted = "no" /\ current = p /\ p # None /\ c < MaxPid
    BY ProcessAssumption DEF FInv, SInv, Fork, Runs, Pids
  <1>2. /\ NoDuplicates(ready_queue) /\ Elems(ready_queue) = Alive \ {p} /\ p \in Alive
        /\ pid2pcb = Alive \ {IDLE_PID}
        /\ \A q \in Elems(ready_queue) : task_status[q] = "Ready"
    BY <1>1, OnHartAlive
  <1>3. c \in Pids /\ c \notin Created /\ c # IDLE_PID /\ c # p /\ p \in Created /\ p < c
    <2>1. c \in Nat /\ c >= 1 /\ MaxPid \in Nat /\ p \in Created
      BY <1>1, <1>2, ProcessAssumption DEF TypeOK, Alive
    <2> QED
      BY <1>1, <2>1 DEF Created, Pids, IDLE_PID
  <1>4. ~is_zombie[c] /\ report[c] = None /\ parent[c] = None
    BY <1>1, <1>3 DEF FInv, Tree, Rooted, TypeOK
  <1>5. /\ current' = p /\ halted' = "no" /\ next_pid' = c + 1
        /\ ready_queue' = Append(ready_queue, c) /\ pid2pcb' = pid2pcb \cup {c}
        /\ task_status' = [task_status EXCEPT ![c] = "Ready"]
        /\ parent' = [parent EXCEPT ![c] = p]
        /\ children' = [children EXCEPT ![p] = Append(@, c)]
        /\ UNCHANGED <<is_zombie, exit_code, report>>
    BY <1>1 DEF Fork, Register
  <1>6. Created' = Created \cup {c} /\ Alive' = Alive \cup {c} /\ c \notin Alive
    <2>1. Created' = Created \cup {c}
      BY <1>1, <1>5 DEF Created, TypeOK
    <2> QED
      BY <1>3, <1>4, <1>5, <2>1 DEF Alive
  <1>7. QueueIntegrity'
    <2>1. ready_queue \in Seq(Pids)
      BY <1>1 DEF TypeOK
    <2>2. /\ Elems(Append(ready_queue, c)) = Elems(ready_queue) \cup {c}
          /\ NoDuplicates(Append(ready_queue, c))
      BY ONLY <1>2, <1>3, <1>6, <2>1, ElemsAppend
    <2>3. \A q \in Elems(ready_queue) \cup {c} : task_status'[q] = "Ready"
      <3>1. task_status \in [Pids -> {"Ready", "Running"}] /\ Alive \subseteq Pids
        BY <1>1, AliveArePids DEF TypeOK
      <3> QED
        BY <1>2, <1>3, <1>5, <3>1
    <2> QED
      BY <1>2, <1>3, <1>5, <1>6, <2>2, <2>3 DEF QueueIntegrity, Alive, Live
  <1>8. PidTableExact'
    BY <1>2, <1>3, <1>5, <1>6 DEF PidTableExact, Alive
  <1>9. /\ parent'[c] = p /\ \A q \in Pids \ {c} : parent'[q] = parent[q]
        /\ children'[p] = Append(children[p], c)
        /\ \A q \in Pids \ {p} : children'[q] = children[q]
    BY <1>1, <1>3, <1>5 DEF TypeOK
  <1>10. Rooted'
    <2>1. \A q \in Pids : q >= c + 1 => q # c /\ q >= c
      BY <1>1 DEF TypeOK, Pids
    <2>2. \A q \in Pids : q >= next_pid => ~is_zombie[q] /\ report[q] = None /\ parent[q] = None
      BY DEF FInv, Tree, Rooted
    <2>3. \A q \in Pids : parent'[q] # None => parent'[q] < q
      BY <1>3, <1>9 DEF FInv, Tree, Rooted
    <2>4. IDLE_PID \in Pids
      BY ProcessAssumption DEF IDLE_PID, Pids
    <2> QED
      BY <1>3, <1>5, <1>9, <2>1, <2>2, <2>3, <2>4 DEF FInv, Tree, Rooted
  <1>11. FamilyTree'
    <2>1. c \notin Elems(children[p])
      BY <1>3 DEF FInv, Tree, FamilyTree
    <2>2. NoDuplicates(children[p])
      BY DEF FInv, Tree, FamilyTree
    <2>3. children[p] \in Seq(Pids)
      BY <1>1 DEF TypeOK
    <2>4. /\ Elems(children'[p]) = Elems(children[p]) \cup {c}
          /\ NoDuplicates(children'[p])
      BY ONLY <1>3, <1>9, <2>1, <2>2, <2>3, ElemsAppend
    <2>5. \A q \in Pids : NoDuplicates(children'[q])
      BY <1>9, <2>4, Zenon DEF FInv, Tree, FamilyTree
    <2>6. ASSUME NEW q \in Pids, NEW d \in Pids
          PROVE  d \in Elems(children'[q]) <=>
                    d \in Created' \ {IDLE_PID} /\ report'[d] = None /\ parent'[d] = q
      <3>1. d \in Elems(children[q]) <=>
                    d \in Created \ {IDLE_PID} /\ report[d] = None /\ parent[d] = q
        BY DEF FInv, Tree, FamilyTree
      <3>2. CASE d = c
        BY <1>3, <1>4, <1>5, <1>6, <1>9, <2>4, <3>1, <3>2, Zenon
      <3>3. CASE d # c
        BY <1>5, <1>6, <1>9, <2>4, <3>1, <3>3, Zenon
      <3> QED
        BY <3>2, <3>3
    <2>7. ASSUME NEW d \in Created' \ {IDLE_PID}, report'[d] = None
          PROVE  parent'[d] # None /\ parent'[d] \in Alive'
      <3>1. CASE d = c
        BY <1>1, <1>2, <1>6, <1>9, <3>1
      <3>2. CASE d # c
        <4>1. d \in Created \ {IDLE_PID} /\ d \in Pids
          BY <1>1, <1>6, <3>2, AliveArePids
        <4> QED
          BY <1>5, <1>6, <1>9, <2>7, <3>2, <4>1 DEF FInv, Tree, FamilyTree, Live, Alive
      <3> QED
        BY <3>1, <3>2
    <2> QED
      BY <2>5, <2>6, <2>7 DEF FamilyTree, Live, Alive
  <1>12. ReportFaithful'
    <2>1. \A d \in Pids : report[d] # None => d # c
      BY <1>4
    <2> QED
      BY <1>5, <1>9, <2>1 DEF FInv, Tree, ReportFaithful
  <1> QED
    BY <1>7, <1>8, <1>10, <1>11, <1>12 DEF Tree

\* Exit takes the process out of the table and the queue, and hands its children
\* to init.
LEMMA DieTree ==
  ASSUME FInv, NEW p \in Pids, Dies(p)
  PROVE  Tree'
  <1>1. TypeOK /\ halted = "no" /\ current = p /\ p # None /\ IDLE_PID \in Pids
    BY ProcessAssumption DEF FInv, SInv, Dies, Pids, IDLE_PID
  <1>2. /\ NoDuplicates(ready_queue) /\ Elems(ready_queue) = Alive \ {p} /\ p \in Alive
        /\ pid2pcb = Alive \ {IDLE_PID} /\ IDLE_PID \in Alive
        /\ \A q \in Elems(ready_queue) : task_status[q] = "Ready"
    BY <1>1, OnHartAlive
  <1>3. PICK code \in Int : ExitProcess(p, code)
    BY DEF Dies
  <1>4. /\ p # IDLE_PID /\ current' = None /\ halted' = "no" /\ pid2pcb' = pid2pcb \ {p}
        /\ is_zombie' = [is_zombie EXCEPT ![p] = TRUE]
        /\ exit_code' = [exit_code EXCEPT ![p] = code]
        /\ Adopt(p)
        /\ UNCHANGED <<ready_queue, next_pid, task_status, report>>
    BY <1>2, <1>3 DEF ExitProcess
  <1>5. /\ is_zombie'[p] /\ exit_code'[p] = code
        /\ \A q \in Pids \ {p} : is_zombie'[q] = is_zombie[q] /\ exit_code'[q] = exit_code[q]
    BY <1>1, <1>4 DEF TypeOK
  <1>6. Created' = Created /\ Alive' = Alive \ {p} /\ p \in Created
    <2>1. Created' = Created /\ Created \subseteq Pids
      BY <1>1, <1>4, AliveArePids DEF Created
    <2> QED
      BY <1>2, <1>5, <2>1 DEF Alive
  <1>7. QueueIntegrity'
    <2>1. None \notin Alive
      BY <1>1, AliveArePids, ProcessAssumption DEF Pids
    <2> QED
      BY <1>2, <1>4, <1>6, <2>1 DEF QueueIntegrity, Alive
  <1>8. PidTableExact'
    BY <1>2, <1>4, <1>6 DEF PidTableExact, Alive
  <1>9. ASSUME NEW q \in Pids, NEW d \in Pids
        PROVE  d \in Elems(children[q]) <=>
                    d \in Created \ {IDLE_PID} /\ report[d] = None /\ parent[d] = q
    BY DEF FInv, Tree, FamilyTree
  <1>10. /\ children'[IDLE_PID] = children[IDLE_PID] \o children[p]
         /\ children'[p] = <<>>
         /\ \A q \in Pids \ {p, IDLE_PID} : children'[q] = children[q]
    BY <1>1, <1>4 DEF Adopt, TypeOK
  <1>11. \A d \in Pids : parent'[d] = IF d \in Elems(children[p]) THEN IDLE_PID ELSE parent[d]
    BY <1>4 DEF Adopt
  <1>12. /\ Elems(children'[IDLE_PID]) = Elems(children[IDLE_PID]) \cup Elems(children[p])
         /\ NoDuplicates(children'[IDLE_PID])
    <2>1. children[p] \in Seq(Pids) /\ children[IDLE_PID] \in Seq(Pids)
      BY <1>1 DEF TypeOK
    <2>2. Elems(children[p]) \subseteq Pids
      BY <2>1, ElementOfSeq, LenProperties DEF Elems
    <2>3. Elems(children[IDLE_PID]) \cap Elems(children[p]) = {}
      BY <1>1, <1>4, <1>9, <2>2
    <2>4. NoDuplicates(children[IDLE_PID]) /\ NoDuplicates(children[p])
      BY <1>1 DEF FInv, Tree, FamilyTree
    <2> QED
      BY ONLY <1>10, <2>1, <2>3, <2>4, ElemsConcat
  <1>13. Elems(children'[p]) = {} /\ NoDuplicates(children'[p])
    BY <1>10 DEF Elems, NoDuplicates
  <1>14. FamilyTree'
    <2>1. \A q \in Pids : NoDuplicates(children'[q])
      BY <1>10, <1>12, <1>13, Zenon DEF FInv, Tree, FamilyTree
    <2>2. ASSUME NEW q \in Pids, NEW d \in Pids
          PROVE  d \in Elems(children'[q]) <=>
                    d \in Created' \ {IDLE_PID} /\ report'[d] = None /\ parent'[d] = q
      <3>1. CASE q = IDLE_PID
        BY <1>1, <1>4, <1>6, <1>9, <1>11, <1>12, <3>1
      <3>2. CASE q = p
        BY <1>4, <1>6, <1>9, <1>11, <1>13, <3>2
      <3>3. CASE q # p /\ q # IDLE_PID
        BY <1>4, <1>6, <1>9, <1>10, <1>11, <3>3
      <3> QED
        BY <3>1, <3>2, <3>3
    <2>3. ASSUME NEW d \in Created' \ {IDLE_PID}, report'[d] = None
          PROVE  parent'[d] # None /\ parent'[d] \in Alive'
      <3>1. d \in Created \ {IDLE_PID} /\ d \in Pids /\ report[d] = None
        BY <1>1, <1>4, <1>6, <2>3, AliveArePids
      <3>2. parent[d] # None /\ parent[d] \in Alive
        BY <3>1 DEF FInv, Tree, FamilyTree, Live, Alive
      <3>3. CASE d \in Elems(children[p])
        BY <1>1, <1>2, <1>4, <1>6, <1>11, <3>1, <3>3, ProcessAssumption DEF IDLE_PID
      <3>4. CASE d \notin Elems(children[p])
        BY <1>6, <1>9, <1>11, <3>1, <3>2, <3>4
      <3> QED
        BY <3>3, <3>4
    <2> QED
      BY <2>1, <2>2, <2>3 DEF FamilyTree, Live, Alive
  <1>15. report[p] = None
    BY <1>2 DEF FInv, Tree, ReportFaithful, Alive
  <1>16. ReportFaithful'
    <2>1. ASSUME NEW d \in Pids, report[d] # None
          PROVE  /\ is_zombie'[d] /\ exit_code'[d] = exit_code[d] /\ parent'[d] = parent[d]
      BY <1>5, <1>9, <1>11, <1>15, <2>1 DEF FInv, Tree, ReportFaithful
    <2> QED
      BY <1>4, <2>1 DEF FInv, Tree, ReportFaithful
  <1>17. Rooted'
    <2>1. \A d \in Pids : d >= next_pid => d # p /\ d \notin Elems(children[p])
      BY <1>1, <1>6, <1>9 DEF Created, Pids, TypeOK
    <2>2. IDLE_PID \notin Elems(children[p])
      BY <1>1, <1>9
    <2>3. \A d \in Pids : d \in Elems(children[p]) => IDLE_PID < d
      BY <1>9 DEF Created, IDLE_PID, Pids
    <2>4. \A d \in Pids : parent'[d] # None => parent'[d] < d
      BY <1>11, <2>3 DEF FInv, Tree, Rooted
    <2>5. \A d \in Pids : is_zombie'[d] => exit_code'[d] \in Int
      BY <1>5 DEF FInv, Tree, Rooted
    <2> QED
      BY <1>1, <1>4, <1>5, <1>11, <2>1, <2>2, <2>4, <2>5 DEF FInv, Tree, Rooted
  <1> QED
    BY <1>7, <1>8, <1>14, <1>16, <1>17 DEF Tree

\* What sys_wait4 takes out of the vector: a dead child nobody was told of.
LEMMA ReapFacts ==
  ASSUME FInv, NEW p \in Pids, NEW i \in Found(p)
  PROVE  /\ i \in DOMAIN children[p] /\ children[p] \in Seq(Pids)
         /\ children[p][i] \in Pids /\ children[p][i] \in Elems(children[p])
         /\ children[p][i] \in Created \ {IDLE_PID} /\ report[children[p][i]] = None
         /\ parent[children[p][i]] = p
         /\ is_zombie[children[p][i]] /\ exit_code[children[p][i]] \in Int
  <1>1. i \in DOMAIN children[p] /\ is_zombie[children[p][i]]
    BY DEF Found, Zombies, Candidates
  <1>2. children[p] \in Seq(Pids)
    BY DEF FInv, SInv, TypeOK
  <1>3. children[p][i] \in Pids /\ children[p][i] \in Elems(children[p])
    BY <1>1, <1>2, ElementOfSeq, LenProperties DEF Elems
  <1> QED
    BY <1>1, <1>2, <1>3 DEF FInv, Tree, FamilyTree, Rooted

\* sys_wait4 unlinks the zombie it reports.
LEMMA ReapTree ==
  ASSUME FInv, NEW p \in Pids, Wait4Reap(p)
  PROVE  Tree'
  <1>1. TypeOK /\ halted = "no" /\ current = p /\ pc[p] = "wait4"
    BY DEF FInv, SInv, Wait4Reap, Runs
  <1>2. PICK i \in Found(p) :
          LET c == children[p][i] IN
          /\ children' = [children EXCEPT ![p] = RemoveIndex(@, i)]
          /\ report' = [report EXCEPT ![c] = [by |-> p, code |-> exit_code[c],
                                              space |-> satp]]
          /\ halted' = IF exit_code[c] = None THEN "panic" ELSE "no"
          /\ Wait4Done(p, c)
    BY Zenon DEF Wait4Reap
  <1> DEFINE c == children[p][i]
  <1>3. /\ i \in DOMAIN children[p] /\ children[p] \in Seq(Pids)
        /\ c \in Pids /\ c \in Elems(children[p]) /\ c \in Created \ {IDLE_PID}
        /\ report[c] = None /\ parent[c] = p /\ is_zombie[c] /\ exit_code[c] \in Int
    BY ReapFacts
  <1> HIDE DEF c
  <1>4. /\ halted' = "no"
        /\ UNCHANGED <<current, ready_queue, pid2pcb, next_pid, task_status, parent,
                       is_zombie, exit_code>>
    BY <1>2, <1>3, ProcessAssumption DEF Wait4Done, c
  <1>5. satp[1] = p
    BY <1>1 DEF FInv, SInv, Inside, OnHart, Home, Token
  <1>6. /\ report'[c] = [by |-> p, code |-> exit_code[c], space |-> satp]
        /\ \A d \in Pids \ {c} : report'[d] = report[d]
    BY <1>1, <1>2, <1>3 DEF TypeOK, c
  <1>7. report'[c] # None
    <2>1. report'[c] \in Reports
      BY <1>1, <1>3, <1>6 DEF TypeOK, Reports
    <2> QED
      BY <2>1, ProcessAssumption
  <1>8. /\ Elems(children'[p]) = Elems(children[p]) \ {c} /\ NoDuplicates(children'[p])
        /\ \A q \in Pids \ {p} : children'[q] = children[q]
    <2>1. NoDuplicates(children[p])
      BY DEF FInv, Tree, FamilyTree
    <2>2. children'[p] = RemoveIndex(children[p], i)
          /\ \A q \in Pids \ {p} : children'[q] = children[q]
      BY <1>1, <1>2 DEF TypeOK
    <2>3. /\ Elems(RemoveIndex(children[p], i)) = Elems(children[p]) \ {children[p][i]}
          /\ NoDuplicates(RemoveIndex(children[p], i))
      BY ONLY <1>3, <2>1, ElemsRemove
    <2> QED
      BY <2>2, <2>3 DEF c
  <1>9. Created' = Created
    BY <1>4 DEF Created
  <1>10. QueueIntegrity' /\ PidTableExact'
    BY <1>1, <1>4, <1>9 DEF FInv, Tree, QueueIntegrity, PidTableExact, Live, Elems, NoDuplicates
  <1>11. FamilyTree'
    <2>1. \A q \in Pids : NoDuplicates(children'[q])
      BY <1>8 DEF FInv, Tree, FamilyTree
    <2>2. ASSUME NEW q \in Pids, NEW d \in Pids
          PROVE  d \in Elems(children'[q]) <=>
                    d \in Created' \ {IDLE_PID} /\ report'[d] = None /\ parent'[d] = q
      <3>1. d \in Elems(children[q]) <=>
                    d \in Created \ {IDLE_PID} /\ report[d] = None /\ parent[d] = q
        BY DEF FInv, Tree, FamilyTree
      <3> QED
        BY <1>3, <1>4, <1>6, <1>7, <1>8, <1>9, <3>1
    <2>3. ASSUME NEW d \in Created' \ {IDLE_PID}, report'[d] = None
          PROVE  parent'[d] # None /\ Live(parent[d])
      <3>1. d \in Created \ {IDLE_PID} /\ d \in Pids
        BY <1>1, <1>9, AliveArePids
      <3> QED
        BY <1>4, <1>6, <1>7, <2>3, <3>1, Zenon DEF FInv, Tree, FamilyTree
    <2> QED
      BY <1>4, <1>9, <2>1, <2>2, <2>3 DEF FamilyTree, Live
  <1>12. ReportFaithful'
    BY <1>3, <1>4, <1>5, <1>6 DEF FInv, Tree, ReportFaithful
  <1>13. Rooted'
    <2>1. IDLE_PID \in Pids /\ c # IDLE_PID
      BY <1>3, ProcessAssumption DEF IDLE_PID, Pids
    <2>2. \A d \in Pids : d >= next_pid => d # c
      BY <1>1, <1>3 DEF Created, Pids, TypeOK
    <2> QED
      BY <1>4, <1>6, <2>1, <2>2, Zenon DEF FInv, Tree, Rooted
  <1> QED
    BY <1>10, <1>11, <1>12, <1>13 DEF Tree

\* A step that touches neither queue nor family.
LEMMA QuietTree ==
  ASSUME FInv, UNCHANGED treeVars
  PROVE  Tree'
  BY DEF FInv, Tree, treeVars, Rooted, QueueIntegrity, PidTableExact, FamilyTree,
         ReportFaithful, Live, Created, Elems, NoDuplicates

\* Every step of the kernel and of user code keeps queue, tables and family.
LEMMA FamilyStep == FInv /\ [Next]_vars => FInv'
  <1> SUFFICES ASSUME FInv, [Next]_vars PROVE Tree'
    BY SpaceStep DEF FInv
  <1>1. TypeOK
    BY DEF FInv, SInv
  <1> QED
    BY <1>1, StepKinds, RunTree, YieldTree, StopTree, ForkTree, DieTree, ReapTree, QuietTree

\* The machine starts with init in the queue and nobody else anywhere.
LEMMA FamilyInit == Init => FInv
  <1> SUFFICES ASSUME Init PROVE Tree
    BY SpaceInit DEF FInv
  <1>1. IDLE_PID \in Pids /\ Created = {IDLE_PID}
    BY ProcessAssumption DEF Init, Created, IDLE_PID, Pids
  <1>2. Rooted
    BY <1>1, ProcessAssumption DEF Init, Rooted
  <1>3. QueueIntegrity
    <2>1. Elems(ready_queue) = {IDLE_PID} /\ NoDuplicates(ready_queue)
      BY DEF Init, Elems, NoDuplicates
    <2> QED
      BY <1>1, <2>1, ProcessAssumption DEF Init, QueueIntegrity, IDLE_PID
  <1>4. PidTableExact
    BY <1>1 DEF Init, PidTableExact
  <1>5. FamilyTree
    <2>1. \A p \in Pids : Elems(children[p]) = {} /\ NoDuplicates(children[p])
      BY DEF Init, Elems, NoDuplicates
    <2> QED
      BY <1>1, <2>1 DEF FamilyTree
  <1>6. ReportFaithful
    BY DEF Init, ReportFaithful
  <1> QED
    BY <1>2, <1>3, <1>4, <1>5, <1>6 DEF Tree

\* The family invariant holds in every reachable state.
THEOREM FamilyInvariant == Spec => []FInv
  BY FamilyInit, FamilyStep, PTL DEF Spec

\* Whatever the number of processes and the order of forks, timer interrupts,
\* yields, waits and exits: while the machine runs, every live process is on the
\* hart or in the ready queue, exactly once, and no zombie is in either.
THEOREM QueueIntegrityAlways == Spec => []QueueIntegrity
  BY FamilyInvariant, PTL DEF FInv, Tree

\* Neither remove_from_pid2process nor exit_code.unwrap() in sys_wait4 panics,
\* run_tasks never finds the queue empty, and PID2PCB holds exactly the live
\* processes other than init.
THEOREM PidTableExactAlways == Spec => []PidTableExact
  BY FamilyInvariant, PTL DEF FInv, Tree

\* Every process sys_wait4 has not reported is in the children vector of its
\* parent, once, and the parent is alive: exit hands orphans over to init in
\* both directions of the link.
THEOREM FamilyTreeAlways == Spec => []FamilyTree
  BY FamilyInvariant, PTL DEF FInv, Tree

\* sys_wait4 tells the parent of a dead process, nobody else, the code it exited
\* with, and stores it in an address space of that parent.
THEOREM ReportFaithfulAlways == Spec => []ReportFaithful
  BY FamilyInvariant, PTL DEF FInv, Tree

-----------------------------------------------------------------------------
\* The states of a process under the refinement mapping.
LEMMA LifeStates ==
  ASSUME FInv, NEW p \in Pids
  PROVE  /\ LifeOf(p) = "live" <=> p \in Alive
         /\ LifeOf(p) = "none" <=> p \notin Created
         /\ LifeOf(p) = "reaped" <=> report[p] # None
         /\ LifeOf(p) = "zombie" <=> p \in Created /\ is_zombie[p] /\ report[p] = None
  <1>1. report[p] # None => is_zombie[p]
    BY DEF FInv, Tree, ReportFaithful
  <1>2. report[p] # None => p \in Created
    BY DEF FInv, SInv, TypeOK, Tree, Rooted, Created, Pids
  <1> QED
    BY <1>1, <1>2 DEF LifeOf, Alive

\* fork is Create.
LEMMA ForkCreates ==
  ASSUME FInv, NEW p \in Pids, Fork(p)
  PROVE  Life!Create(p, next_pid) /\ next_pid \in Pids
  <1>1. TypeOK /\ halted = "no" /\ current = p /\ p # None /\ next_pid < MaxPid
    BY ProcessAssumption DEF FInv, SInv, Fork, Runs, Pids
  <1>2. PICK c \in Pids : c = next_pid
    BY <1>1, ProcessAssumption DEF TypeOK, Pids
  <1>3. p \in Alive
    BY <1>1, OnHartAlive
  <1>4. c \in Pids /\ c \notin Created /\ Created' = Created \cup {c} /\ next_pid' = c + 1
    <2>1. c \in Nat /\ c >= 1 /\ MaxPid \in Nat /\ next_pid' = c + 1
      BY <1>1, <1>2, ProcessAssumption DEF TypeOK, Fork
    <2> QED
      BY <1>1, <1>2, <2>1 DEF Created, Pids
  <1>5. /\ halted' = halted /\ parent' = [parent EXCEPT ![c] = p]
        /\ UNCHANGED <<is_zombie, exit_code, report>>
    BY <1>2 DEF Fork
  <1>6. ~is_zombie[c]
    BY <1>1, <1>2 DEF FInv, Tree, Rooted, TypeOK
  <1>7. LifeOf(p) = "live" /\ LifeOf(c) = "none"
    BY <1>3, <1>4, LifeStates
  <1>8. LifeOf(c)' = "live" /\ \A q \in Pids \ {c} : LifeOf(q)' = LifeOf(q)
    BY <1>4, <1>5, <1>6 DEF LifeOf
  <1>9. [q \in Pids |-> LifeOf(q)]' = [[q \in Pids |-> LifeOf(q)] EXCEPT ![c] = "live"]
    BY <1>4, <1>8, Zenon
  <1>10. [q \in Pids |-> IF report[q] = None THEN None ELSE report[q].code]'
          = [q \in Pids |-> IF report[q] = None THEN None ELSE report[q].code]
    BY <1>5
  <1> QED
    BY <1>2, <1>4, <1>5, <1>7, <1>9, <1>10 DEF Life!Create

\* exit is Die: the children that change hands are those not reaped yet.
LEMMA ExitDies ==
  ASSUME FInv, NEW p \in Pids, Dies(p)
  PROVE  Life!Die(p)
  <1>1. TypeOK /\ halted = "no" /\ current = p /\ p # None
    BY ProcessAssumption DEF FInv, SInv, Dies, Pids
  <1>2. p \in Alive /\ pid2pcb = Alive \ {IDLE_PID}
    BY <1>1, OnHartAlive
  <1>3. PICK code \in Int : ExitProcess(p, code)
    BY DEF Dies
  <1>4. /\ p # IDLE_PID /\ halted' = "no"
        /\ is_zombie' = [is_zombie EXCEPT ![p] = TRUE]
        /\ exit_code' = [exit_code EXCEPT ![p] = code]
        /\ parent' = [c \in Pids |-> IF c \in Elems(children[p]) THEN IDLE_PID ELSE parent[c]]
        /\ report' = report /\ next_pid' = next_pid
    BY <1>2, <1>3, Zenon DEF ExitProcess, Adopt
  <1>5. exit_code'[p] = code /\ exit_code' = [exit_code EXCEPT ![p] = exit_code'[p]]
    BY <1>1, <1>4 DEF TypeOK
  <1>6. Created' = Created /\ report[p] = None /\ p \in Created
    BY <1>2, <1>4 DEF Created, Alive, FInv, Tree, ReportFaithful
  <1>7. LifeOf(p) = "live"
    BY <1>2, LifeStates, Zenon
  <1>8. LifeOf(p)' = "zombie" /\ \A q \in Pids \ {p} : LifeOf(q)' = LifeOf(q)
    BY <1>1, <1>4, <1>6 DEF LifeOf, TypeOK
  <1>9. [q \in Pids |-> LifeOf(q)]' = [[q \in Pids |-> LifeOf(q)] EXCEPT ![p] = "zombie"]
    BY <1>8, Zenon
  <1>10. ASSUME NEW c \in Pids
         PROVE  c \in Elems(children[p]) <=> parent[c] = p /\ LifeOf(c) # "reaped"
    <2>1. LifeOf(c) = "reaped" <=> report[c] # None
      BY LifeStates
    <2>2. parent[c] = p => c \in Created \ {IDLE_PID}
      BY <1>1 DEF FInv, Tree, Rooted, Created, TypeOK, Pids
    <2> QED
      BY <2>1, <2>2, Zenon DEF FInv, Tree, FamilyTree
  <1>11. parent' = [c \in Pids |-> IF parent[c] = p /\ [q \in Pids |-> LifeOf(q)][c] # "reaped"
                                     THEN 0 ELSE parent[c]]
    BY <1>4, <1>10 DEF IDLE_PID
  <1>12. [q \in Pids |-> IF report[q] = None THEN None ELSE report[q].code]'
          = [q \in Pids |-> IF report[q] = None THEN None ELSE report[q].code]
    BY <1>4
  <1>13. Life!Procs = Pids
    BY DEF Life!Procs, Pids
  <1> QED
    BY <1>1, <1>4, <1>5, <1>7, <1>9, <1>11, <1>12, <1>13 DEF Life!Die, IDLE_PID

\* sys_wait4 is Reap when it finds a zombie.
LEMMA WaitReaps ==
  ASSUME FInv, NEW p \in Pids, Wait4Reap(p)
  PROVE  \E c \in Pids : Life!Reap(p, c)
  <1>1. TypeOK /\ halted = "no" /\ current = p /\ p # None
    BY ProcessAssumption DEF FInv, SInv, Wait4Reap, Runs, Pids
  <1>2. p \in Alive
    BY <1>1, OnHartAlive
  <1>3. PICK i \in Found(p) :
          LET c == children[p][i] IN
          /\ report' = [report EXCEPT ![c] = [by |-> p, code |-> exit_code[c],
                                              space |-> satp]]
          /\ halted' = IF exit_code[c] = None THEN "panic" ELSE "no"
          /\ Wait4Done(p, c)
    BY Zenon DEF Wait4Reap
  <1>4. PICK c \in Pids : c = children[p][i]
    BY ReapFacts
  <1>5. /\ c \in Created /\ report[c] = None /\ parent[c] = p /\ is_zombie[c]
        /\ exit_code[c] \in Int
    BY <1>4, ReapFacts
  <1>6. /\ halted' = "no" /\ UNCHANGED <<parent, is_zombie, exit_code, next_pid>>
        /\ report' = [report EXCEPT ![c] = [by |-> p, code |-> exit_code[c], space |-> satp]]
    BY <1>3, <1>4, <1>5, ProcessAssumption DEF Wait4Done
  <1>7. /\ report'[c].code = exit_code[c] /\ report'[c] \in Reports
        /\ \A q \in Pids \ {c} : report'[q] = report[q]
    BY <1>1, <1>5, <1>6 DEF TypeOK, Reports
  <1>8. report'[c] # None /\ Created' = Created
    BY <1>6, <1>7, ProcessAssumption, Zenon DEF Created
  <1>9. LifeOf(p) = "live" /\ LifeOf(c) = "zombie"
    BY <1>2, <1>5, LifeStates
  <1>10. LifeOf(c)' = "reaped" /\ \A q \in Pids \ {c} : LifeOf(q)' = LifeOf(q)
    BY <1>5, <1>6, <1>7, <1>8 DEF LifeOf
  <1>11. [q \in Pids |-> LifeOf(q)]' = [[q \in Pids |-> LifeOf(q)] EXCEPT ![c] = "reaped"]
    BY <1>10, Zenon
  <1>12. [q \in Pids |-> IF report[q] = None THEN None ELSE report[q].code]'
          = [[q \in Pids |-> IF report[q] = None THEN None ELSE report[q].code]
               EXCEPT ![c] = exit_code[c]]
    BY <1>7, <1>8, Zenon
  <1> QED
    BY <1>1, <1>5, <1>6, <1>9, <1>11, <1>12, Zenon DEF Life!Reap

\* A step that leaves the relatives and the pids alone is invisible.
LEMMA Invisible ==
  ASSUME UNCHANGED <<next_pid, kinVars>>
  PROVE  /\ [q \in Pids |-> LifeOf(q)]' = [q \in Pids |-> LifeOf(q)]
         /\ parent' = parent /\ exit_code' = exit_code
         /\ [q \in Pids |-> IF report[q] = None THEN None ELSE report[q].code]'
              = [q \in Pids |-> IF report[q] = None THEN None ELSE report[q].code]
  BY DEF kinVars, LifeOf, Created

\* Every step of the kernel and of user code is a step of ProcessLife or none.
LEMMA LifeStep == FInv /\ [Next]_vars => [Life!Next]_(Life!vars)
  <1> SUFFICES ASSUME FInv, [Next]_vars PROVE [Life!Next]_(Life!vars)
    OBVIOUS
  <1>1. TypeOK /\ Life!Procs = Pids
    BY DEF FInv, SInv, Life!Procs, Pids
  <1>2. CASE UNCHANGED treeVars
    BY <1>2, Invisible DEF treeVars, kinVars, Life!vars
  <1>3. CASE RunTasks
    <2>1. UNCHANGED <<next_pid, kinVars>> /\ halted = "no"
      BY <1>3 DEF RunTasks, kinVars
    <2>2. halted' = "no"
      <3>1. IDLE_PID \in Elems(ready_queue)
        BY <1>3, OnHartAlive, ProcessAssumption DEF RunTasks, IDLE_PID
      <3> QED
        BY <1>3, <3>1 DEF RunTasks, Elems
    <2> QED
      BY <2>1, <2>2, Invisible DEF Life!vars
  <1>4. CASE Stops
    <2>1. halted = "no" /\ halted' = "shutdown" /\ UNCHANGED <<next_pid, kinVars>>
      BY <1>4 DEF Stops, ExitInit, kinVars
    <2> QED
      BY <2>1, Invisible DEF Life!Next, Life!PowerOff
  <1>5. ASSUME NEW p \in Pids, Yields(p) PROVE [Life!Next]_(Life!vars)
    BY <1>5, Invisible DEF Yields, Life!vars
  <1>6. ASSUME NEW p \in Pids, Dies(p) PROVE Life!Next
    BY <1>1, <1>6, ExitDies DEF Dies, Life!Next
  <1>7. ASSUME NEW p \in Pids, Fork(p) PROVE Life!Next
    BY <1>1, <1>7, ForkCreates, Zenon DEF Fork, Runs, Life!Next
  <1>8. ASSUME NEW p \in Pids, Wait4Reap(p) PROVE Life!Next
    BY <1>1, <1>8, WaitReaps, Zenon DEF Wait4Reap, Runs, Life!Next
  <1> QED
    BY <1>1, <1>2, <1>3, <1>4, <1>5, <1>6, <1>7, <1>8, StepKinds

\* The machine starts as ProcessLife does: init alive and nobody else.
LEMMA LifeInit == Init => Life!Init
  <1> SUFFICES ASSUME Init PROVE Life!Init
    OBVIOUS
  <1>1. Life!Procs = Pids /\ Created = {0}
    BY DEF Life!Procs, Pids, Init, Created
  <1>2. [p \in Pids |-> LifeOf(p)] = [p \in Pids |-> IF p = 0 THEN "live" ELSE "none"]
    BY <1>1 DEF Init, LifeOf
  <1> QED
    BY <1>1, <1>2 DEF Init, Life!Init

\* Process management implements ProcessLife for any number of processes: every
\* process is created by a living one, dies at most once, and is reaped at most
\* once, by the process that is its parent then, who learns the code it died
\* with, whatever the scheduler, signals and execve do in between.
THEOREM ImplementsLifeAlways == Spec => ImplementsLife
  BY LifeInit, LifeStep, FamilyInvariant, PTL DEF Spec, ImplementsLife, Life!Spec

-----------------------------------------------------------------------------
\* A set of pids that is not empty has a least member.
LEMMA LeastPid ==
  ASSUME NEW T \in SUBSET Nat, T # {}
  PROVE  \E m \in T : \A k \in T : ~(k < m)
  <1>1. \E m \in T : \A k \in T : ~(<<k, m>> \in OpToRel(<, Nat))
    BY WFMin, NatLessThanWellFounded, Zenon
  <1> QED
    BY <1>1, Zenon DEF OpToRel

\* every process but init has been reported
Finished == \A c \in Created \ {IDLE_PID} : report[c] # None

\* If init has no children, nobody is left: the oldest process not reported yet
\* would have a parent that is alive, older and not init.
LEMMA NoChildrenFinished ==
  ASSUME FInv, children[IDLE_PID] = <<>>
  PROVE  Finished
  <1> DEFINE T == {c \in Created \ {IDLE_PID} : report[c] = None}
  <1>1. TypeOK /\ Created \subseteq Pids /\ Created \subseteq Nat
    BY AliveArePids DEF FInv, SInv, Pids
  <1>2. SUFFICES ASSUME T # {} PROVE FALSE
    BY DEF Finished
  <1>3. PICK m \in T : \A k \in T : ~(k < m)
    BY <1>1, <1>2, LeastPid, Zenon
  <1>4. parent[m] # None /\ parent[m] \in Alive /\ parent[m] < m
    BY <1>1 DEF FInv, Tree, FamilyTree, Rooted, Live, Alive
  <1>5. parent[m] # IDLE_PID
    <2>1. m \notin Elems(children[IDLE_PID])
      BY DEF Elems
    <2>2. IDLE_PID \in Pids /\ m \in Pids
      BY <1>1, ProcessAssumption DEF IDLE_PID, Pids
    <2> QED
      BY <2>1, <2>2 DEF FInv, Tree, FamilyTree
  <1>6. report[parent[m]] = None /\ parent[m] \in Created
    BY <1>1, <1>4 DEF FInv, Tree, ReportFaithful, Alive
  <1> QED
    BY <1>3, <1>4, <1>5, <1>6

\* When all are reported there is nobody left to fork but init.
LEMMA FinishedStays ==
  ASSUME FInv, Finished, [Next]_vars, ~Fork(IDLE_PID)
  PROVE  Finished'
  <1>1. TypeOK /\ Created \subseteq Pids
    BY AliveArePids DEF FInv, SInv
  <1>2. CASE UNCHANGED treeVars \/ RunTasks \/ Stops
    BY <1>2 DEF Finished, Created, treeVars, RunTasks, Stops, ExitInit
  <1>3. ASSUME NEW p \in Pids, Yields(p) \/ Dies(p) PROVE Finished'
    BY <1>3 DEF Finished, Created, Yields, kinVars, Dies, ExitProcess
  <1>4. ASSUME NEW p \in Pids, Fork(p) PROVE FALSE
    <2>1. p # IDLE_PID
      BY <1>4
    <2>2. p \in Alive
      BY <1>4, OnHartAlive, ProcessAssumption DEF Fork, Runs, Pids
    <2> QED
      BY <2>1, <2>2 DEF Finished, FInv, Tree, ReportFaithful, Alive
  <1>5. ASSUME NEW p \in Pids, Wait4Reap(p) PROVE Finished'
    <2>1. PICK i \in Found(p) :
            LET c == children[p][i] IN
            report' = [report EXCEPT ![c] = [by |-> p, code |-> exit_code[c], space |-> satp]]
            /\ Wait4Done(p, c)
      BY <1>5, Zenon DEF Wait4Reap
    <2>2. children[p][i] \in Created \ {IDLE_PID} /\ report[children[p][i]] = None
      BY ReapFacts
    <2> QED
      BY <2>2 DEF Finished
  <1> QED
    BY <1>1, <1>2, <1>3, <1>4, <1>5, StepKinds

\* The init program only does what user code may do.
LEMMA SystemSteps == [SystemNext]_allVars => [Next]_vars
  <1> SUFFICES ASSUME [SystemNext]_allVars PROVE [Next]_vars
    OBVIOUS
  <1>1. IDLE_PID \in Pids /\ ANY \in Pids \cup {ANY} /\ FALSE \in BOOLEAN
    BY ProcessAssumption DEF IDLE_PID, Pids
  <1>2. ASSUME SysExit(IDLE_PID, 0) PROVE IllegalInstruction(IDLE_PID)
    BY <1>2 DEF SysExit, IllegalInstruction, Exit, ExitProcess
  <1>3. CASE InitCalls
    <2>1. UserCall(IDLE_PID)
      BY <1>1, <1>2, <1>3, Zenon DEF InitCalls, UserCall
    <2> QED
      BY ONLY <1>1, <2>1 DEF Next, User
  <1>4. CASE InitReturns
    BY <1>1, <1>4 DEF InitReturns, Next, Kernel
  <1>5. CASE Others
    BY ONLY <1>5 DEF Others, Next, User
  <1>6. CASE UNCHANGED allVars
    BY <1>6 DEF allVars
  <1> QED
    BY <1>3, <1>4, <1>5, <1>6 DEF SystemNext

\* The init program keeps track of what it knows: nobody sends init a signal, it
\* waits for any child, and ECHILD means that everybody has been reported.
Knows ==
    /\ signals[IDLE_PID] = {}
    /\ pc[IDLE_PID] \in {"wait4", "wait_return"} => trap[IDLE_PID].target = ANY
    /\ (/\ pc[IDLE_PID] = "tail" /\ trap[IDLE_PID].call = "wait4"
        /\ trap[IDLE_PID].result = ECHILD)
       => Finished
    /\ init_at = "exit" => Finished
    /\ CleanShutdown

YInv == FInv /\ Knows

\* A step of another process changes neither the trap frame of init nor its
\* signals, and does not shut the machine down: kill looks its target up in
\* PID2PCB, where init is not.
LEMMA NotInit ==
  ASSUME FInv, NEW p \in Pids \ {IDLE_PID},
         \/ UserCall(p) \/ TimerTick(p) \/ UserEntry(p) \/ Wait4NoChild(p) \/ Wait4Reap(p)
         \/ Wait4NoHang(p) \/ Wait4Suspend(p) \/ WaitReturn(p) \/ TrapSignal(p) \/ TrapReturn(p)
  PROVE  /\ pc'[IDLE_PID] = pc[IDLE_PID] /\ trap'[IDLE_PID] = trap[IDLE_PID]
         /\ signals'[IDLE_PID] = signals[IDLE_PID] /\ halted' # "shutdown" /\ ~Fork(IDLE_PID)
  <1> DEFINE G == /\ pc'[IDLE_PID] = pc[IDLE_PID] /\ trap'[IDLE_PID] = trap[IDLE_PID]
                  /\ signals'[IDLE_PID] = signals[IDLE_PID] /\ halted' # "shutdown"
  <1>1. TypeOK /\ IDLE_PID \in Pids /\ p # IDLE_PID
    BY ProcessAssumption DEF FInv, SInv, IDLE_PID, Pids
  <1>2. halted = "no" /\ current = p
    BY DEF UserCall, TimerTick, UserEntry, Wait4NoChild, Wait4Reap, Wait4NoHang, Wait4Suspend,
           WaitReturn, TrapSignal, TrapReturn, Fork, SysExit, IllegalInstruction, PageFault,
           SysYield, SysGetppid, SysKill, SysExecve, SysWait4, Runs
  <1>3. ~Fork(IDLE_PID)
    BY <1>1, <1>2 DEF Fork, Runs
  <1>4. ASSUME NEW code, Exit(p, code) PROVE G
    BY <1>1, <1>4 DEF Exit, ExitProcess, ExitInit, TypeOK
  <1>5. ASSUME Fork(p) PROVE G
    <2>1. next_pid # IDLE_PID
      BY <1>1 DEF TypeOK, IDLE_PID
    <2> QED
      BY <1>1, <1>2, <1>5, <2>1 DEF Fork, Enter, TypeOK
  <1>6. ASSUME NEW target \in Pids, NEW mask \in KillFlags \cup {None},
               SysKill(p, target, mask)
        PROVE  G
    <2>1. IDLE_PID \notin pid2pcb
      BY <1>2, OnHartAlive, Zenon
    <2>2. signals'[IDLE_PID] = signals[IDLE_PID]
      BY <1>1, <1>6, <2>1, Zenon DEF SysKill, TypeOK
    <2> QED
      BY <1>1, <1>2, <1>6, <2>2 DEF SysKill, Enter, TypeOK
  <1>7. ASSUME TimerTick(p) \/ SysYield(p) \/ Wait4Suspend(p) PROVE G
    BY <1>1, <1>2, <1>7 DEF TimerTick, SysYield, Wait4Suspend, Suspend, Enter, TypeOK
  <1>8. ASSUME PageFault(p) \/ SysGetppid(p) PROVE G
    BY <1>1, <1>2, <1>8 DEF PageFault, SysGetppid, Enter, TypeOK
  <1>9. ASSUME NEW found \in BOOLEAN, SysExecve(p, found) PROVE G
    BY <1>1, <1>2, <1>9 DEF SysExecve, Enter, TypeOK
  <1>10. ASSUME NEW target \in Pids \cup {ANY}, NEW nohang \in BOOLEAN,
                SysWait4(p, target, nohang)
         PROVE  G
    BY <1>1, <1>2, <1>10, Zenon DEF SysWait4, TypeOK
  <1>11. ASSUME Wait4NoChild(p) \/ Wait4NoHang(p) \/ Wait4Reap(p) PROVE G
    BY <1>1, <1>2, <1>11, Zenon DEF Wait4NoChild, Wait4NoHang, Wait4Reap, Wait4Done, TypeOK
  <1>12. ASSUME UserEntry(p) \/ WaitReturn(p) \/ TrapReturn(p) PROVE G
    BY <1>1, <1>2, <1>12 DEF UserEntry, WaitReturn, TrapReturn, TypeOK
  <1>13. G
    <2> HIDE DEF G
    <2> QED
      BY ONLY <1>4, <1>5, <1>6, <1>7, <1>8, <1>9, <1>10, <1>11, <1>12,
              \/ UserCall(p) \/ TimerTick(p) \/ UserEntry(p) \/ Wait4NoChild(p) \/ Wait4Reap(p)
              \/ Wait4NoHang(p) \/ Wait4Suspend(p) \/ WaitReturn(p) \/ TrapSignal(p)
              \/ TrapReturn(p)
         DEF UserCall, SysExit, IllegalInstruction, TrapSignal
  <1> QED
    BY <1>3, <1>13, Zenon

\* With no signal pending, init does not leave the kernel through exit.
LEMMA InitNotKilled ==
  ASSUME YInv PROVE check_signals_of_current(IDLE_PID) = None
  BY DEF YInv, Knows, check_signals_of_current, check_error

\* What the kernel does for init on the way to and from user mode.
InitStep ==
    \/ TimerTick(IDLE_PID) \/ UserEntry(IDLE_PID) \/ Wait4NoChild(IDLE_PID)
    \/ Wait4Reap(IDLE_PID) \/ Wait4NoHang(IDLE_PID) \/ Wait4Suspend(IDLE_PID)
    \/ WaitReturn(IDLE_PID) \/ TrapSignal(IDLE_PID) \/ TrapReturn(IDLE_PID)

\* None of it makes init forget: ECHILD is stored only when the vector of its
\* children is empty, every other result is a pid.
LEMMA InitKernel ==
  ASSUME YInv, UNCHANGED init_at, InitStep
  PROVE  Knows'
  <1>1. TypeOK /\ FInv /\ IDLE_PID \in Pids
    BY ProcessAssumption DEF YInv, FInv, SInv, IDLE_PID, Pids
  <1>2. Next
    BY ONLY <1>1, InitStep DEF InitStep, Next, Kernel, Timer
  <1>3. halted = "no" /\ current = IDLE_PID /\ (pc[IDLE_PID] = "user" => TimerTick(IDLE_PID))
    BY DEF InitStep, TimerTick, UserEntry, Wait4NoChild, Wait4Reap, Wait4NoHang, Wait4Suspend,
           WaitReturn, TrapSignal, TrapReturn, Runs
  <1>4. ~TrapSignal(IDLE_PID)
    BY InitNotKilled DEF TrapSignal
  <1>5. signals' = signals /\ halted' # "shutdown"
    BY <1>3, <1>4, Zenon DEF InitStep, TimerTick, UserEntry, Wait4NoChild, Wait4Reap, Wait4NoHang,
              Wait4Suspend, WaitReturn, TrapReturn, Wait4Done
  <1>6. Finished => Finished'
    <2>1. ~Fork(IDLE_PID)
      BY <1>1, <1>3 DEF TimerTick, Fork, Runs, Enter, NoTrap, TypeOK
    <2> QED
      BY <1>1, <1>2, <2>1, FinishedStays
  <1>7. /\ pc'[IDLE_PID] \in {"wait4", "wait_return"} => trap'[IDLE_PID].target = ANY
        /\ (/\ pc'[IDLE_PID] = "tail" /\ trap'[IDLE_PID].call = "wait4"
            /\ trap'[IDLE_PID].result = ECHILD)
           => Finished
    <2>1. CASE TimerTick(IDLE_PID)
      BY <1>1, <2>1 DEF TimerTick, Suspend, Enter, NoTrap, TypeOK
    <2>2. CASE UserEntry(IDLE_PID) \/ TrapReturn(IDLE_PID)
      BY <1>1, <2>2 DEF UserEntry, TrapReturn, TypeOK
    <2>3. CASE Wait4NoChild(IDLE_PID)
      <3>1. Candidates(IDLE_PID) = DOMAIN children[IDLE_PID] /\ pc'[IDLE_PID] = "tail"
        BY <1>1, <2>3 DEF YInv, Knows, Wait4NoChild, Wait4Done, Runs, Candidates, Matches, TypeOK
      <3>2. children[IDLE_PID] \in Seq(Pids) /\ DOMAIN children[IDLE_PID] = {}
        BY <1>1, <2>3, <3>1 DEF Wait4NoChild, TypeOK
      <3>3. children[IDLE_PID] = <<>>
        BY <3>2, ElemsTail DEF Elems
      <3> QED
        BY <1>1, <3>1, <3>3, NoChildrenFinished
    <2>4. CASE Wait4Reap(IDLE_PID)
      <3>1. PICK i \in Found(IDLE_PID) : Wait4Done(IDLE_PID, children[IDLE_PID][i])
        BY <2>4 DEF Wait4Reap
      <3>2. children[IDLE_PID][i] \in Pids
        BY <1>1, ReapFacts
      <3>3. pc'[IDLE_PID] = "tail" /\ trap'[IDLE_PID].result \in Pids
        BY <1>1, <3>1, <3>2 DEF Wait4Done, TypeOK
      <3> QED
        BY <3>3 DEF ECHILD, Pids
    <2>5. CASE Wait4NoHang(IDLE_PID)
      BY <1>1, <2>5 DEF Wait4NoHang, Wait4Done, TypeOK, ECHILD
    <2>6. CASE Wait4Suspend(IDLE_PID)
      BY <1>1, <2>6 DEF Wait4Suspend, Suspend, Runs, TypeOK, YInv, Knows
    <2>7. CASE WaitReturn(IDLE_PID)
      BY <1>1, <2>7 DEF WaitReturn, Runs, TypeOK, YInv, Knows
    <2> QED
      BY <1>4, <2>1, <2>2, <2>3, <2>4, <2>5, <2>6, <2>7, Zenon DEF InitStep
  <1>8. init_at' = "exit" => Finished
    BY DEF YInv, Knows
  <1> QED
    BY <1>5, <1>6, <1>7, <1>8 DEF YInv, Knows, CleanShutdown, Finished

\* Every step of the system keeps what init knows.
LEMMA SystemStep == YInv /\ [SystemNext]_allVars => YInv'
  <1> SUFFICES ASSUME YInv, [SystemNext]_allVars PROVE Knows'
    BY SystemSteps, FamilyStep DEF YInv
  <1>1. TypeOK /\ FInv /\ [Next]_vars /\ IDLE_PID \in Pids
    BY SystemSteps, ProcessAssumption DEF YInv, FInv, SInv, IDLE_PID, Pids
  <1>2. CASE InitCalls
    <2>1. CASE init_at = "fork" /\ init_at' = "wait" /\ Fork(IDLE_PID)
      <3>1. next_pid # IDLE_PID
        BY <1>1 DEF TypeOK, IDLE_PID
      <3>2. /\ pc'[IDLE_PID] = "tail" /\ trap'[IDLE_PID].call = "clone" /\ signals' = signals
            /\ halted' = "no"
        BY <1>1, <2>1, <3>1 DEF Fork, Enter, NoTrap, TypeOK, Runs
      <3> QED
        BY <2>1, <3>2, Zenon DEF YInv, Knows, CleanShutdown
    <2>2. CASE init_at' = "wait" /\ SysYield(IDLE_PID)
      <3>1. /\ pc'[IDLE_PID] = "tail" /\ trap'[IDLE_PID].call = "yield" /\ signals' = signals
            /\ halted' = "no"
        BY <1>1, <2>2 DEF SysYield, Suspend, Enter, NoTrap, TypeOK, Runs
      <3> QED
        BY <2>2, <3>1, Zenon DEF YInv, Knows, CleanShutdown
    <2>3. CASE init_at' = "waiting" /\ SysWait4(IDLE_PID, ANY, FALSE)
      <3>1. /\ pc'[IDLE_PID] = "wait4" /\ trap'[IDLE_PID].target = ANY /\ signals' = signals
            /\ halted' = "no"
        BY <1>1, <2>3 DEF SysWait4, TypeOK, Runs
      <3> QED
        BY <2>3, <3>1, Zenon DEF YInv, Knows, CleanShutdown
    <2>4. CASE init_at = "exit" /\ init_at' = "exit" /\ SysExit(IDLE_PID, 0)
      <3>1. Finished /\ pc[IDLE_PID] = "user"
        BY <2>4 DEF YInv, Knows, SysExit, Runs
      <3>2. UNCHANGED <<next_pid, report, signals, trap, pc>>
        BY <2>4 DEF SysExit, Exit, ExitProcess, ExitInit
      <3>3. Finished'
        BY <3>1, <3>2 DEF Finished, Created
      <3> QED
        BY <3>1, <3>2, <3>3, Zenon DEF YInv, Knows, CleanShutdown, Finished
    <2> QED
      BY <1>2, <2>1, <2>2, <2>3, <2>4, Zenon DEF InitCalls
  <1>3. CASE InitReturns
    <2>1. /\ pc'[IDLE_PID] = "user" /\ signals' = signals /\ halted' = "no"
          /\ UNCHANGED <<next_pid, report>>
      BY <1>1, <1>3 DEF InitReturns, TrapReturn, TypeOK, Runs
    <2>2. ASSUME init_at' = "exit" PROVE Finished
      BY <1>3, <2>2 DEF InitReturns, AfterWait, TrapReturn, Runs, YInv, Knows
    <2>3. Finished => Finished'
      BY <2>1 DEF Finished, Created
    <2> QED
      BY <2>1, <2>2, <2>3 DEF YInv, Knows, CleanShutdown
  <1>4. CASE Others
    <2>1. init_at' = init_at
      BY <1>4 DEF Others
    <2>2. ASSUME /\ pc'[IDLE_PID] = pc[IDLE_PID] /\ trap'[IDLE_PID] = trap[IDLE_PID]
                 /\ signals'[IDLE_PID] = signals[IDLE_PID] /\ halted' # "shutdown"
                 /\ ~Fork(IDLE_PID)
          PROVE  Knows'
      <3>1. Finished => Finished'
        BY <1>1, <2>2, FinishedStays
      <3> QED
        BY <2>1, <2>2, <3>1 DEF YInv, Knows, CleanShutdown
    <2>3. CASE RunTasks
      BY <1>1, <2>2, <2>3 DEF RunTasks, Fork, Runs
    <2>4. CASE Halted
      <3>1. UNCHANGED vars
        BY <2>4 DEF Halted
      <3> QED
        BY <2>1, <3>1 DEF vars, YInv, Knows, CleanShutdown, Finished, Created
    <2>5. CASE InitStep
      BY <2>1, <2>5, InitKernel
    <2>6. ASSUME NEW p \in Pids \ {IDLE_PID},
                 \/ UserCall(p) \/ TimerTick(p) \/ UserEntry(p) \/ Wait4NoChild(p)
                 \/ Wait4Reap(p) \/ Wait4NoHang(p) \/ Wait4Suspend(p) \/ WaitReturn(p)
                 \/ TrapSignal(p) \/ TrapReturn(p)
          PROVE  Knows'
      BY <1>1, <2>2, <2>6, NotInit, Zenon
    <2> QED
      BY ONLY <1>4, <2>3, <2>4, <2>5, <2>6 DEF Others, Kernel, Timer, InitStep
  <1>5. CASE UNCHANGED allVars
    BY <1>5, Zenon DEF allVars, vars, YInv, Knows, CleanShutdown, Finished, Created
  <1> QED
    BY <1>2, <1>3, <1>4, <1>5 DEF SystemNext

\* The machine starts with init at its fork.
LEMMA SystemStart == SystemInit => YInv
  <1> SUFFICES ASSUME SystemInit PROVE Knows
    BY FamilyInit DEF YInv, SystemInit
  <1>1. IDLE_PID \in Pids
    BY ProcessAssumption DEF IDLE_PID, Pids
  <1> QED
    BY <1>1 DEF SystemInit, Init, Knows, CleanShutdown

\* When initproc's loop ends and shuts the machine down, every process ever
\* created has exited and its exit code was collected, for any number of
\* processes: ECHILD from wait(-1) leaves no grandchild behind, because exit
\* hands orphans to init at once.
THEOREM CleanShutdownAlways == SystemSpec => []CleanShutdown
  <1>1. YInv => CleanShutdown
    BY DEF YInv, Knows
  <1> QED
    BY <1>1, SystemStart, SystemStep, PTL DEF SystemSpec

=============================================================================
