---------------------------- MODULE Process_proof ----------------------------
(***************************************************************************)
(* Proofs about Process for any number of processes: its state keeps its   *)
(* type, user code runs in the address space of its own process and never  *)
(* past a fatal signal, and the result of sys_wait4 reaches the caller.    *)
(***************************************************************************)
EXTENDS Process, SequenceTheorems, TLAPS

USE DEF hartVars, queueVars, runVars, familyVars

Frames == [call : Calls, satp : (Pids \cup {None}) \X Nat, result : Int,
           target : Pids \cup {ANY}, nohang : BOOLEAN]

\* The locals trap_handler starts with are well typed.
LEMMA NoTrapType == NoTrap \in Frames
  BY DEF NoTrap, Frames, Calls, KERNEL_TOKEN, ANY

\* get_user_token is a well-typed value of satp.
LEMMA TokenType ==
  ASSUME TypeOK, NEW p \in Pids PROVE Token(p) \in (Pids \cup {None}) \X Nat
  BY DEF TypeOK, Token

\* The trap prologue keeps the type of the locals.
LEMMA EnterType ==
  ASSUME TypeOK, NEW p \in Pids, NEW call \in Calls, NEW result \in Int,
         Enter(p, call, result)
  PROVE  trap' \in [Pids -> Frames]
  <1> DEFINE new == [NoTrap EXCEPT !.call = call, !.satp = satp, !.result = result]
  <1>1. new \in Frames
    BY NoTrapType, Zenon DEF TypeOK, Frames
  <1>2. trap \in [Pids -> Frames]
    BY DEF TypeOK, Frames
  <1> QED
    BY <1>1, <1>2 DEF Enter

\* SignalFlags::check_error yields an exit code or nothing.
LEMMA CheckErrorType == ASSUME NEW s PROVE check_error(s) \in Int \cup {None}
  BY DEF check_error

\* Both ways out of exit_current_and_run_next keep the type of the state.
LEMMA ExitType ==
  ASSUME TypeOK, NEW p \in Pids, NEW code \in Int \cup {None}, Exit(p, code)
  PROVE  TypeOK'
  <1>1. CASE ExitInit(p)
    BY <1>1, Zenon DEF ExitInit, TypeOK
  <1>2. CASE ExitProcess(p, code)
    <2>1. trap' \in [Pids -> Frames]
      BY <1>2, NoTrapType DEF ExitProcess, TypeOK, Frames
    <2>2. children' \in [Pids -> Seq(Pids)]
      <3>1. children[IDLE_PID] \o children[p] \in Seq(Pids)
        BY ConcatProperties, ProcessAssumption DEF TypeOK, IDLE_PID, Pids
      <3>2. <<>> \in Seq(Pids)
        BY EmptySeq
      <3> QED
        BY <1>2, <3>1, <3>2, Zenon DEF ExitProcess, Adopt, TypeOK
    <2>3. parent' \in [Pids -> Pids \cup {None}]
      BY <1>2, ProcessAssumption DEF ExitProcess, Adopt, TypeOK, IDLE_PID, Pids
    <2>4. is_zombie' \in [Pids -> BOOLEAN]
      BY <1>2 DEF ExitProcess, TypeOK
    <2> QED
      BY <1>2, <2>1, <2>2, <2>3, <2>4 DEF ExitProcess, TypeOK, Frames
  <1> QED
    BY <1>1, <1>2 DEF Exit

\* Putting the running task at the end of the queue keeps the queue's type.
LEMMA SuspendType ==
  ASSUME TypeOK, NEW p \in Pids
  PROVE  Append(ready_queue, p) \in Seq(Pids)
  BY AppendProperties DEF TypeOK

\* Vec::remove of an index in range keeps the type of a children vector.
LEMMA RemoveType ==
  ASSUME NEW s \in Seq(Pids), NEW i \in DOMAIN s
  PROVE  RemoveIndex(s, i) \in Seq(Pids)
  <1>1. Len(s) \in Nat /\ Len(s) >= 1 /\ \A j \in 1 .. Len(s) : s[j] \in Pids
    BY LenProperties, ElementOfSeq
  <1>2. i \in 1 .. Len(s)
    BY LenProperties
  <1>3. RemoveIndex(s, i) \in [1 .. Len(s) - 1 -> Pids]
    BY <1>1, <1>2 DEF RemoveIndex
  <1>4. Len(s) - 1 \in Nat
    BY <1>1
  <1> QED
    BY <1>3, <1>4, SeqDef

\* The return from sys_wait4's loop to the end of trap_handler.
LEMMA DoneType ==
  ASSUME TypeOK, NEW p \in Pids, NEW result \in Int, Wait4Done(p, result)
  PROVE  trap' \in [Pids -> Frames]
  <1>1. trap \in [Pids -> Frames]
    BY DEF TypeOK, Frames
  <1>2. [trap[p] EXCEPT !.result = result] \in Frames
    BY <1>1 DEF Frames
  <1> QED
    BY <1>1, <1>2 DEF Wait4Done

\* Every step of the kernel and of user code keeps the type of the state.
LEMMA TypeStep == TypeOK /\ [Next]_vars => TypeOK'
  <1> SUFFICES ASSUME TypeOK, [Next]_vars PROVE TypeOK'
    OBVIOUS
  <1> USE ProcessAssumption
  <1>1. CASE RunTasks
    <2>1. CASE ready_queue = <<>>
      BY <1>1, <2>1 DEF RunTasks, TypeOK
    <2>2. CASE ready_queue # <<>>
      <3>1. Head(ready_queue) \in Pids /\ Tail(ready_queue) \in Seq(Pids)
        BY <2>2, HeadTailProperties DEF TypeOK
      <3> QED
        BY <1>1, <2>2, <3>1, Zenon DEF RunTasks, TypeOK
    <2> QED
      BY <2>1, <2>2
  <1>2. ASSUME NEW p \in Pids, UserEntry(p) PROVE TypeOK'
    BY <1>2, TokenType, Zenon DEF UserEntry, TypeOK
  <1>3. ASSUME NEW p \in Pids, Wait4NoChild(p) PROVE TypeOK'
    <2>1. trap' \in [Pids -> Frames]
      BY <1>3, DoneType DEF Wait4NoChild, ECHILD
    <2> QED
      BY <1>3, <2>1, Zenon DEF Wait4NoChild, Wait4Done, TypeOK, Frames
  <1>4. ASSUME NEW p \in Pids, Wait4NoHang(p) PROVE TypeOK'
    <2>1. trap' \in [Pids -> Frames]
      BY <1>4, DoneType DEF Wait4NoHang
    <2> QED
      BY <1>4, <2>1, Zenon DEF Wait4NoHang, Wait4Done, TypeOK, Frames
  <1>5. ASSUME NEW p \in Pids, Wait4Reap(p) PROVE TypeOK'
    <2>1. PICK i \in Found(p) :
            LET c == children[p][i] IN
            /\ children' = [children EXCEPT ![p] = RemoveIndex(@, i)]
            /\ report' = [report EXCEPT ![c] = [by |-> p, code |-> exit_code[c],
                                                space |-> satp]]
            /\ halted' = IF exit_code[c] = None THEN "panic" ELSE "no"
            /\ Wait4Done(p, c)
      BY <1>5, Zenon DEF Wait4Reap
    <2>2. children[p] \in Seq(Pids)
      BY DEF TypeOK
    <2>3. i \in DOMAIN children[p]
      BY DEF Found, Zombies, Candidates
    <2>4. children[p][i] \in Pids
      BY <2>2, <2>3, ElementOfSeq, LenProperties
    <2>5. trap' \in [Pids -> Frames]
      BY <2>1, <2>4, DoneType DEF Pids
    <2>6. RemoveIndex(children[p], i) \in Seq(Pids)
      BY ONLY <2>2, <2>3, RemoveType
    <2>7. children' \in [Pids -> Seq(Pids)]
      BY <2>1, <2>6 DEF TypeOK
    <2>8. report' \in [Pids -> Reports \cup {None}]
      BY <2>1, <2>4 DEF TypeOK, Reports
    <2>9. halted' \in {"no", "panic"}
      BY <2>1
    <2> QED
      BY <2>1, <2>5, <2>7, <2>8, <2>9, Zenon DEF Wait4Done, TypeOK, Frames
  <1>6. ASSUME NEW p \in Pids, Wait4Suspend(p) PROVE TypeOK'
    BY <1>6, SuspendType DEF Wait4Suspend, Suspend, TypeOK
  <1>7. ASSUME NEW p \in Pids, WaitReturn(p) PROVE TypeOK'
    BY <1>7, TokenType, Zenon DEF WaitReturn, TypeOK
  <1>8. ASSUME NEW p \in Pids, TrapSignal(p) PROVE TypeOK'
    BY <1>8, ExitType, CheckErrorType DEF TrapSignal, check_signals_of_current
  <1>9. ASSUME NEW p \in Pids, TrapReturn(p) PROVE TypeOK'
    <2>1. trap' \in [Pids -> Frames]
      BY <1>9, NoTrapType, Zenon DEF TrapReturn, TypeOK, Frames, Calls
    <2>2. satp' \in (Pids \cup {None}) \X Nat
      BY <1>9 DEF TrapReturn, TypeOK, Token
    <2>3. a0' \in [Pids -> {"arg", "result"}]
      BY <1>9 DEF TrapReturn, TypeOK
    <2> QED
      BY <1>9, <2>1, <2>2, <2>3, Zenon DEF TrapReturn, TypeOK, Frames
  <1>10. ASSUME NEW p \in Pids, TimerTick(p) PROVE TypeOK'
    <2>1. trap' \in [Pids -> Frames]
      BY <1>10, EnterType DEF TimerTick, Calls
    <2> QED
      BY <1>10, <2>1, SuspendType, Zenon DEF TimerTick, Suspend, TypeOK, Frames
  <1>11. ASSUME NEW p \in Pids, Fork(p) PROVE TypeOK'
    <2>1. trap' \in [Pids -> Frames]
      <3>1. Enter(p, "clone", next_pid) /\ next_pid \in Int /\ "clone" \in Calls
        BY <1>11 DEF Fork, Calls, TypeOK
      <3> QED
        BY ONLY TypeOK, p \in Pids, <3>1, EnterType
    <2>2. next_pid \in Pids
      BY <1>11 DEF Fork, TypeOK, Pids
    <2>3. children' \in [Pids -> Seq(Pids)]
      <3>1. Append(children[p], next_pid) \in Seq(Pids)
        BY <2>2, AppendProperties DEF TypeOK
      <3> QED
        BY <1>11, <3>1 DEF Fork, TypeOK
    <2>4. ready_queue' \in Seq(Pids)
      BY <1>11, <2>2, SuspendType DEF Fork
    <2>5. next_pid' \in 1 .. MaxPid
      BY <1>11 DEF Fork, TypeOK
    <2> QED
      BY <1>11, <2>1, <2>2, <2>3, <2>4, <2>5, Zenon DEF Fork, Register, TypeOK, Frames
  <1>12. ASSUME NEW p \in Pids, NEW code \in ExitCodes, SysExit(p, code) PROVE TypeOK'
    BY <1>12, ExitType DEF SysExit
  <1>13. ASSUME NEW p \in Pids, IllegalInstruction(p) PROVE TypeOK'
    BY <1>13, ExitType DEF IllegalInstruction
  <1>14. ASSUME NEW p \in Pids, PageFault(p) PROVE TypeOK'
    <2>1. trap' \in [Pids -> Frames]
      BY <1>14, EnterType DEF PageFault, Calls
    <2> QED
      BY <1>14, <2>1, Zenon DEF PageFault, TypeOK, Frames, Signals
  <1>15. ASSUME NEW p \in Pids, SysYield(p) PROVE TypeOK'
    <2>1. trap' \in [Pids -> Frames]
      BY <1>15, EnterType DEF SysYield, Calls
    <2> QED
      BY <1>15, <2>1, SuspendType, Zenon DEF SysYield, Suspend, TypeOK, Frames
  <1>16. ASSUME NEW p \in Pids, SysGetppid(p) PROVE TypeOK'
    <2>1. (IF parent[p] = None THEN ESRCH ELSE parent[p]) \in Int
      BY DEF TypeOK, ESRCH, Pids
    <2>2. trap' \in [Pids -> Frames]
      BY <1>16, <2>1, EnterType DEF SysGetppid, Calls
    <2> QED
      BY <1>16, <2>2, Zenon DEF SysGetppid, TypeOK, Frames
  <1>17. ASSUME NEW p \in Pids, NEW target \in Pids, NEW mask \in KillFlags \cup {None},
                SysKill(p, target, mask)
         PROVE  TypeOK'
    <2>1. trap' \in [Pids -> Frames]
      BY <1>17, EnterType DEF SysKill, Calls, ESRCH, EINVAL
    <2>2. signals' \in [Pids -> SUBSET Signals]
      BY <1>17 DEF SysKill, TypeOK
    <2> QED
      BY <1>17, <2>1, <2>2, Zenon DEF SysKill, TypeOK, Frames
  <1>18. ASSUME NEW p \in Pids, NEW found \in BOOLEAN, SysExecve(p, found) PROVE TypeOK'
    <2>1. trap' \in [Pids -> Frames]
      BY <1>18, EnterType DEF SysExecve, Calls, ENOENT
    <2>2. generation' \in [Pids -> 0 .. MaxExec]
      <3>1. CASE found
        <4>1. generation[p] + 1 \in 0 .. MaxExec
          BY <1>18, <3>1 DEF SysExecve, TypeOK
        <4> QED
          BY <1>18, <3>1, <4>1, Zenon DEF SysExecve, exec, TypeOK
      <3>2. CASE ~found
        BY <1>18, <3>2 DEF SysExecve, TypeOK
      <3> QED
        BY <3>1, <3>2
    <2> QED
      BY <1>18, <2>1, <2>2, Zenon DEF SysExecve, TypeOK, Frames
  <1>19. ASSUME NEW p \in Pids, NEW target \in Pids \cup {ANY}, NEW nohang \in BOOLEAN,
                SysWait4(p, target, nohang)
         PROVE  TypeOK'
    <2>1. trap' \in [Pids -> Frames]
      BY <1>19 DEF SysWait4, TypeOK, Frames, Calls
    <2> QED
      BY <1>19, <2>1 DEF SysWait4, TypeOK, Frames
  <1>20. CASE UNCHANGED vars
    BY <1>20 DEF vars, TypeOK
  <1>21. CASE User
    BY <1>21, <1>11, <1>12, <1>13, <1>14, <1>15, <1>16, <1>17, <1>18, <1>19
       DEF User, UserCall
  <1>22. CASE Kernel
    BY <1>22, <1>1, <1>2, <1>3, <1>4, <1>5, <1>6, <1>7, <1>8, <1>9 DEF Kernel
  <1> QED
    BY <1>10, <1>20, <1>21, <1>22 DEF Next, Timer, Halted

\* The machine starts in a well-typed state: init_task.
LEMMA TypeInit == Init => TypeOK
  <1> SUFFICES ASSUME Init PROVE TypeOK
    OBVIOUS
  <1>1. trap \in [Pids -> Frames]
    BY NoTrapType DEF Init
  <1>2. 0 \in Pids /\ ready_queue \in Seq(Pids)
    BY ProcessAssumption DEF Init, IDLE_PID, Pids
  <1>3. children \in [Pids -> Seq(Pids)]
    BY EmptySeq DEF Init
  <1>4. is_zombie \in [Pids -> BOOLEAN]
    BY DEF Init
  <1> QED
    BY <1>1, <1>2, <1>3, <1>4, ProcessAssumption DEF Init, TypeOK, Frames, KERNEL_TOKEN

\* Type correctness of the scheduler and process state, whatever the number of
\* processes and the order of traps: no queue, table, link or trap frame ever
\* holds a value its Rust type does not.
THEOREM TypeCorrect == Spec => []TypeOK
  BY TypeInit, TypeStep, PTL DEF Spec

-----------------------------------------------------------------------------
\* p runs in its own space: in user mode, at the head of the sys_wait4 loop,
\* and from the end of sys_wait4 to the end of trap_handler
Home(p) ==
    \/ pc[p] \in {"user", "wait4"}
    \/ pc[p] = "tail" /\ trap[p].call = "wait4"

OnHart == halted = "no" => \A p \in Pids : Home(p) => current = p /\ satp = Token(p)

\* the satp a trap came with is that of the process unless execve replaced it
Kept ==
    \A p \in Pids : pc[p] \in {"tail", "wait4", "wait_return"} /\ trap[p].call # "execve"
                       => trap[p].satp = Token(p)

\* a process that was not dispatched yet has not trapped
Fresh ==
    \A p \in Pids : /\ pc[p] \in {"entry", "unused"} => trap[p].call = "none"
                    /\ p >= next_pid => pc[p] = "unused"

Inside == OnHart /\ Kept /\ Fresh /\ FatalSignalStopsUser
SInv == TypeOK /\ Inside

\* Whatever the process on the hart does, the others wait outside user mode and
\* keep the satp they trapped with.
LEMMA OthersStay ==
  ASSUME SInv, NEW p \in Pids, NEW q \in Pids, q # p, halted = "no", current = p,
         pc'[q] = pc[q], trap'[q] = trap[q], generation'[q] = generation[q]
  PROVE  /\ ~Home(q) /\ ~Home(q)'
         /\ pc'[q] \in {"tail", "wait4", "wait_return"} /\ trap'[q].call # "execve"
               => trap'[q].satp = Token(q)'
  <1>1. ~Home(q)
    BY DEF SInv, Inside, OnHart
  <1>2. ~Home(q)'
    BY <1>1 DEF Home
  <1>3. Token(q)' = Token(q)
    BY DEF Token
  <1> QED
    BY <1>1, <1>2, <1>3 DEF SInv, Inside, Kept

\* A step of the process on the hart that leaves the others alone keeps the
\* invariant if it keeps it for that process.
LEMMA Local ==
  ASSUME SInv, NEW p \in Pids, halted = "no", current = p, pc[p] # "unused",
         next_pid' = next_pid,
         \A q \in Pids \ {p} : /\ pc'[q] = pc[q] /\ trap'[q] = trap[q]
                               /\ generation'[q] = generation[q],
         halted' = "no" /\ Home(p)' => current' = p /\ satp' = Token(p)',
         pc'[p] \in {"tail", "wait4", "wait_return"} /\ trap'[p].call # "execve"
            => trap'[p].satp = Token(p)',
         pc'[p] \notin {"entry", "unused"},
         pc'[p] = "user" /\ trap'[p].call # "none" => check_error(signals'[p]) = None
  PROVE  Inside'
  <1>1. \A q \in Pids \ {p} : /\ ~Home(q)'
                              /\ pc'[q] \in {"tail", "wait4", "wait_return"}
                                   /\ trap'[q].call # "execve" => trap'[q].satp = Token(q)'
    BY OthersStay
  <1>2. OnHart'
    BY <1>1 DEF OnHart
  <1>3. Kept'
    BY <1>1 DEF Kept
  <1>4. Fresh'
    BY DEF SInv, Inside, Fresh
  <1>5. FatalSignalStopsUser'
    BY <1>1 DEF FatalSignalStopsUser, Home, Runs
  <1> QED
    BY <1>2, <1>3, <1>4, <1>5 DEF Inside

\* exit_current_and_run_next leaves nobody on the hart.
LEMMA ExitInside ==
  ASSUME SInv, NEW p \in Pids, NEW code, halted = "no", current = p,
         pc[p] \in {"user", "tail"}, Exit(p, code)
  PROVE  Inside'
  <1> TypeOK
    BY DEF SInv
  <1>1. CASE ExitInit(p)
    <2>1. /\ halted' = "shutdown" /\ pc' = pc /\ trap' = trap /\ next_pid' = next_pid
          /\ generation' = generation
      BY <1>1 DEF ExitInit
    <2> QED
      BY <2>1 DEF SInv, Inside, OnHart, Kept, Fresh, FatalSignalStopsUser, Token, Runs
  <1>2. CASE ExitProcess(p, code)
    <2>1. next_pid' = next_pid /\ generation' = generation
      BY <1>2 DEF ExitProcess
    <2>2. pc'[p] = "gone" /\ \A q \in Pids \ {p} : pc'[q] = pc[q] /\ trap'[q] = trap[q]
      BY <1>2 DEF ExitProcess, TypeOK
    <2>3. ~Home(p)'
      BY <2>2 DEF Home
    <2> QED
      BY <2>1, <2>2, <2>3, Local
  <1> QED
    BY <1>1, <1>2 DEF Exit

\* Every step keeps the space invariant.
LEMMA SpaceStep == SInv /\ [Next]_vars => SInv'
  <1> SUFFICES ASSUME SInv, [Next]_vars PROVE Inside'
    BY TypeStep DEF SInv
  <1> TypeOK
    BY DEF SInv
  <1>1. CASE RunTasks
    <2>1. \A p \in Pids : ~Home(p)
      BY <1>1, ProcessAssumption DEF RunTasks, Pids, SInv, Inside, OnHart
    <2>2. /\ pc' = pc /\ trap' = trap /\ generation' = generation
          /\ signals' = signals /\ next_pid' = next_pid
      BY <1>1 DEF RunTasks
    <2> QED
      BY <2>1, <2>2 DEF SInv, Inside, OnHart, Kept, Fresh, FatalSignalStopsUser, Home,
                        Token, Runs
  <1>2. ASSUME NEW p \in Pids, UserEntry(p)
        PROVE  Inside'
    <2>1. /\ halted = "no" /\ current = p /\ pc[p] = "entry" /\ next_pid' = next_pid
          /\ generation' = generation /\ satp' = Token(p) /\ current' = p
      BY <1>2 DEF UserEntry, Runs
    <2>2. pc'[p] = "user" /\ \A q \in Pids \ {p} : pc'[q] = pc[q]
      BY <1>2 DEF UserEntry, TypeOK
    <2>3. trap'[p].call = "none" /\ \A q \in Pids \ {p} : trap'[q] = trap[q]
      BY <1>2 DEF UserEntry, Runs, SInv, Inside, Fresh, TypeOK
    <2>4. Token(p)' = Token(p)
      BY <2>1 DEF Token
    <2> QED
      BY <2>1, <2>2, <2>3, <2>4, Local DEF Home
  <1>3. ASSUME NEW p \in Pids, Wait4NoChild(p)
        PROVE  Inside'
    <2>1. /\ halted = "no" /\ current = p /\ pc[p] = "wait4" /\ next_pid' = next_pid
          /\ generation' = generation /\ satp' = satp /\ current' = p
      BY <1>3 DEF Wait4NoChild, Wait4Done, Runs
    <2>2. pc'[p] = "tail" /\ \A q \in Pids \ {p} : pc'[q] = pc[q]
      BY <1>3 DEF Wait4NoChild, Wait4Done, TypeOK
    <2>3. trap'[p].call = trap[p].call /\ trap'[p].satp = trap[p].satp
          /\ \A q \in Pids \ {p} : trap'[q] = trap[q]
      BY <1>3 DEF Wait4NoChild, Wait4Done, TypeOK
    <2>4. satp = Token(p) /\ (trap[p].call # "execve" => trap[p].satp = Token(p))
      BY <2>1 DEF SInv, Inside, OnHart, Home, Kept
    <2>5. Token(p)' = Token(p)
      BY <2>1 DEF Token
    <2> QED
      BY <2>1, <2>2, <2>3, <2>4, <2>5, Local DEF Home
  <1>4. ASSUME NEW p \in Pids, Wait4NoHang(p)
        PROVE  Inside'
    <2>1. /\ halted = "no" /\ current = p /\ pc[p] = "wait4" /\ next_pid' = next_pid
          /\ generation' = generation /\ satp' = satp /\ current' = p
      BY <1>4 DEF Wait4NoHang, Wait4Done, Runs
    <2>2. pc'[p] = "tail" /\ \A q \in Pids \ {p} : pc'[q] = pc[q]
      BY <1>4 DEF Wait4NoHang, Wait4Done, TypeOK
    <2>3. trap'[p].call = trap[p].call /\ trap'[p].satp = trap[p].satp
          /\ \A q \in Pids \ {p} : trap'[q] = trap[q]
      BY <1>4 DEF Wait4NoHang, Wait4Done, TypeOK
    <2>4. satp = Token(p) /\ (trap[p].call # "execve" => trap[p].satp = Token(p))
      BY <2>1 DEF SInv, Inside, OnHart, Home, Kept
    <2>5. Token(p)' = Token(p)
      BY <2>1 DEF Token
    <2> QED
      BY <2>1, <2>2, <2>3, <2>4, <2>5, Local DEF Home
  <1>5. ASSUME NEW p \in Pids, Wait4Reap(p)
        PROVE  Inside'
    <2>1. /\ halted = "no" /\ current = p /\ pc[p] = "wait4" /\ next_pid' = next_pid
          /\ generation' = generation /\ satp' = satp /\ current' = p
      BY <1>5 DEF Wait4Reap, Wait4Done, Runs
    <2>2. pc'[p] = "tail" /\ \A q \in Pids \ {p} : pc'[q] = pc[q]
      BY <1>5 DEF Wait4Reap, Wait4Done, TypeOK
    <2>3. trap'[p].call = trap[p].call /\ trap'[p].satp = trap[p].satp
          /\ \A q \in Pids \ {p} : trap'[q] = trap[q]
      BY <1>5 DEF Wait4Reap, Wait4Done, TypeOK
    <2>4. satp = Token(p) /\ (trap[p].call # "execve" => trap[p].satp = Token(p))
      BY <2>1 DEF SInv, Inside, OnHart, Home, Kept
    <2>5. Token(p)' = Token(p)
      BY <2>1 DEF Token
    <2> QED
      BY <2>1, <2>2, <2>3, <2>4, <2>5, Local DEF Home
  <1>6. ASSUME NEW p \in Pids, Wait4Suspend(p)
        PROVE  Inside'
    <2>1. /\ halted = "no" /\ current = p /\ pc[p] = "wait4" /\ next_pid' = next_pid
          /\ generation' = generation
      BY <1>6 DEF Wait4Suspend, Suspend, Runs
    <2>2. pc'[p] = "wait_return" /\ \A q \in Pids \ {p} : pc'[q] = pc[q]
      BY <1>6 DEF Wait4Suspend, Suspend, TypeOK
    <2>3. trap'[p] = trap[p] /\ \A q \in Pids \ {p} : trap'[q] = trap[q]
      BY <1>6 DEF Wait4Suspend, TypeOK
    <2>4. satp = Token(p) /\ (trap[p].call # "execve" => trap[p].satp = Token(p))
      BY <2>1 DEF SInv, Inside, OnHart, Home, Kept
    <2>5. Token(p)' = Token(p)
      BY <2>1 DEF Token
    <2> QED
      BY <2>1, <2>2, <2>3, <2>4, <2>5, Local DEF Home
  <1>7. ASSUME NEW p \in Pids, WaitReturn(p)
        PROVE  Inside'
    <2>1. /\ halted = "no" /\ current = p /\ pc[p] = "wait_return" /\ next_pid' = next_pid
          /\ generation' = generation /\ satp' = Token(p) /\ current' = p
      BY <1>7 DEF WaitReturn, Runs
    <2>2. pc'[p] = "wait4" /\ \A q \in Pids \ {p} : pc'[q] = pc[q]
      BY <1>7 DEF WaitReturn, TypeOK
    <2>3. trap'[p] = trap[p] /\ \A q \in Pids \ {p} : trap'[q] = trap[q]
      BY <1>7 DEF WaitReturn, TypeOK
    <2>4. trap[p].call # "execve" => trap[p].satp = Token(p)
      BY <2>1 DEF SInv, Inside, Kept
    <2>5. Token(p)' = Token(p)
      BY <2>1 DEF Token
    <2> QED
      BY <2>1, <2>2, <2>3, <2>4, <2>5, Local DEF Home
  <1>8. ASSUME NEW p \in Pids, TrapSignal(p)
        PROVE  Inside'
    BY <1>8, ExitInside DEF TrapSignal, Runs
  <1>9. ASSUME NEW p \in Pids, TrapReturn(p)
        PROVE  Inside'
    <2>1. /\ halted = "no" /\ current = p /\ pc[p] = "tail" /\ next_pid' = next_pid
          /\ generation' = generation /\ current' = p /\ signals' = signals
      BY <1>9 DEF TrapReturn, Runs
    <2>2. pc'[p] = "user" /\ \A q \in Pids \ {p} : pc'[q] = pc[q]
      BY <1>9 DEF TrapReturn, TypeOK
    <2>3. trap'[p].call = "returned" /\ \A q \in Pids \ {p} : trap'[q] = trap[q]
      BY <1>9 DEF TrapReturn, NoTrap, TypeOK
    <2>4. trap[p].call # "execve" => trap[p].satp = Token(p)
      BY <2>1 DEF SInv, Inside, Kept
    <2>5. satp' = Token(p)
      BY <1>9, <2>4 DEF TrapReturn, Reenters
    <2>6. Token(p)' = Token(p) /\ check_error(signals'[p]) = None
      BY <1>9, <2>1 DEF Token, TrapReturn, check_signals_of_current
    <2> QED
      BY <2>1, <2>2, <2>3, <2>5, <2>6, Local DEF Home
  <1>10. ASSUME NEW p \in Pids, TimerTick(p)
        PROVE  Inside'
    <2>1. /\ halted = "no" /\ current = p /\ pc[p] = "user" /\ next_pid' = next_pid
          /\ generation' = generation
      BY <1>10 DEF TimerTick, Suspend, Runs
    <2>2. pc'[p] = "tail" /\ \A q \in Pids \ {p} : pc'[q] = pc[q]
      BY <1>10 DEF TimerTick, Suspend, TypeOK
    <2>3. trap'[p].call = "timer" /\ trap'[p].satp = satp
          /\ \A q \in Pids \ {p} : trap'[q] = trap[q]
      BY <1>10 DEF TimerTick, Enter, NoTrap, TypeOK
    <2>4. satp = Token(p)
      BY <2>1 DEF SInv, Inside, OnHart, Home
    <2>5. Token(p)' = Token(p)
      BY <2>1 DEF Token
    <2> QED
      BY <2>1, <2>2, <2>3, <2>4, <2>5, Local DEF Home
  <1>11. ASSUME NEW p \in Pids, Fork(p)
        PROVE  Inside'
    <2>1. PICK c \in Pids : c = next_pid
      BY <1>11, ProcessAssumption DEF Fork, TypeOK, Pids
    <2>2. /\ halted = "no" /\ current = p /\ pc[p] = "user" /\ satp' = satp
          /\ generation' = generation
      BY <1>11 DEF Fork, Runs
    <2>3. pc[c] = "unused" /\ c # p /\ trap[c].call = "none"
      BY <2>1, <2>2 DEF SInv, Inside, Fresh, Pids
    <2>4. /\ pc'[p] = "tail" /\ pc'[c] = "entry" /\ next_pid' = c + 1
          /\ \A q \in Pids \ {p, c} : pc'[q] = pc[q]
      BY <1>11, <2>1, <2>3 DEF Fork, TypeOK
    <2>5. /\ trap'[p].call = "clone" /\ trap'[p].satp = satp
          /\ \A q \in Pids \ {p} : trap'[q] = trap[q]
      BY <1>11 DEF Fork, Enter, NoTrap, TypeOK
    <2>6. satp = Token(p) /\ Token(p)' = Token(p)
      BY <2>2 DEF SInv, Inside, OnHart, Home, Token
    <2>7. \A q \in Pids \ {p, c} :
             /\ ~Home(q)'
             /\ pc'[q] \in {"tail", "wait4", "wait_return"} /\ trap'[q].call # "execve"
                   => trap'[q].satp = Token(q)'
      BY <2>2, <2>4, <2>5, OthersStay
    <2>8. ~Home(p)' /\ ~Home(c)'
      BY <2>4, <2>5 DEF Home
    <2>9. OnHart'
      BY <2>7, <2>8 DEF OnHart
    <2>10. Kept'
      BY <2>4, <2>5, <2>6, <2>7 DEF Kept
    <2>11. Fresh'
      <3>1. p < c /\ \A q \in Pids : q >= c => pc[q] = "unused"
        BY <2>1, <2>2 DEF SInv, Inside, Fresh, Pids
      <3>2. \A q \in Pids : pc[q] \in {"entry", "unused"} => trap[q].call = "none"
        BY DEF SInv, Inside, Fresh
      <3>3. \A q \in Pids : pc'[q] \in {"entry", "unused"} => trap'[q].call = "none"
        BY <2>3, <2>4, <2>5, <3>2
      <3>4. \A q \in Pids : q >= c + 1 => q # p /\ q # c /\ q >= c
        BY <3>1 DEF Pids
      <3>5. \A q \in Pids : q >= c + 1 => pc'[q] = "unused"
        BY <2>4, <3>1, <3>4
      <3> QED
        BY <2>4, <3>3, <3>5 DEF Fresh
    <2>12. FatalSignalStopsUser'
      BY <2>7, <2>8 DEF FatalSignalStopsUser, Home, Runs
    <2> QED
      BY <2>9, <2>10, <2>11, <2>12 DEF Inside
  <1>12. ASSUME NEW p \in Pids, NEW code \in ExitCodes, SysExit(p, code)
        PROVE  Inside'
    BY <1>12, ExitInside DEF SysExit, Runs
  <1>13. ASSUME NEW p \in Pids, IllegalInstruction(p)
        PROVE  Inside'
    BY <1>13, ExitInside DEF IllegalInstruction, Runs
  <1>14. ASSUME NEW p \in Pids, PageFault(p)
        PROVE  Inside'
    <2>1. /\ halted = "no" /\ current = p /\ pc[p] = "user" /\ next_pid' = next_pid
          /\ generation' = generation
      BY <1>14 DEF PageFault, Runs
    <2>2. pc'[p] = "tail" /\ \A q \in Pids \ {p} : pc'[q] = pc[q]
      BY <1>14 DEF PageFault, TypeOK
    <2>3. trap'[p].call = "fault" /\ trap'[p].satp = satp
          /\ \A q \in Pids \ {p} : trap'[q] = trap[q]
      BY <1>14 DEF PageFault, Enter, NoTrap, TypeOK
    <2>4. satp = Token(p)
      BY <2>1 DEF SInv, Inside, OnHart, Home
    <2>5. Token(p)' = Token(p)
      BY <2>1 DEF Token
    <2> QED
      BY <2>1, <2>2, <2>3, <2>4, <2>5, Local DEF Home
  <1>15. ASSUME NEW p \in Pids, SysYield(p)
        PROVE  Inside'
    <2>1. /\ halted = "no" /\ current = p /\ pc[p] = "user" /\ next_pid' = next_pid
          /\ generation' = generation
      BY <1>15 DEF SysYield, Suspend, Runs
    <2>2. pc'[p] = "tail" /\ \A q \in Pids \ {p} : pc'[q] = pc[q]
      BY <1>15 DEF SysYield, Suspend, TypeOK
    <2>3. trap'[p].call = "yield" /\ trap'[p].satp = satp
          /\ \A q \in Pids \ {p} : trap'[q] = trap[q]
      BY <1>15 DEF SysYield, Enter, NoTrap, TypeOK
    <2>4. satp = Token(p)
      BY <2>1 DEF SInv, Inside, OnHart, Home
    <2>5. Token(p)' = Token(p)
      BY <2>1 DEF Token
    <2> QED
      BY <2>1, <2>2, <2>3, <2>4, <2>5, Local DEF Home
  <1>16. ASSUME NEW p \in Pids, SysGetppid(p)
        PROVE  Inside'
    <2>1. /\ halted = "no" /\ current = p /\ pc[p] = "user" /\ next_pid' = next_pid
          /\ generation' = generation
      BY <1>16 DEF SysGetppid, Runs
    <2>2. pc'[p] = "tail" /\ \A q \in Pids \ {p} : pc'[q] = pc[q]
      BY <1>16 DEF SysGetppid, TypeOK
    <2>3. trap'[p].call = "getppid" /\ trap'[p].satp = satp
          /\ \A q \in Pids \ {p} : trap'[q] = trap[q]
      BY <1>16 DEF SysGetppid, Enter, NoTrap, TypeOK
    <2>4. satp = Token(p)
      BY <2>1 DEF SInv, Inside, OnHart, Home
    <2>5. Token(p)' = Token(p)
      BY <2>1 DEF Token
    <2> QED
      BY <2>1, <2>2, <2>3, <2>4, <2>5, Local DEF Home
  <1>17. ASSUME NEW p \in Pids, NEW target \in Pids, NEW mask \in KillFlags \cup {None},
                SysKill(p, target, mask)
        PROVE  Inside'
    <2>1. /\ halted = "no" /\ current = p /\ pc[p] = "user" /\ next_pid' = next_pid
          /\ generation' = generation
      BY <1>17 DEF SysKill, Runs
    <2>2. pc'[p] = "tail" /\ \A q \in Pids \ {p} : pc'[q] = pc[q]
      BY <1>17 DEF SysKill, TypeOK
    <2>3. trap'[p].call = "kill" /\ trap'[p].satp = satp
          /\ \A q \in Pids \ {p} : trap'[q] = trap[q]
      BY <1>17 DEF SysKill, Enter, NoTrap, TypeOK
    <2>4. satp = Token(p)
      BY <2>1 DEF SInv, Inside, OnHart, Home
    <2>5. Token(p)' = Token(p)
      BY <2>1 DEF Token
    <2> QED
      BY <2>1, <2>2, <2>3, <2>4, <2>5, Local DEF Home
  <1>18. ASSUME NEW p \in Pids, NEW found \in BOOLEAN, SysExecve(p, found)
        PROVE  Inside'
    <2>1. halted = "no" /\ current = p /\ pc[p] = "user" /\ next_pid' = next_pid
      BY <1>18 DEF SysExecve, Runs
    <2>2. pc'[p] = "tail" /\ \A q \in Pids \ {p} : pc'[q] = pc[q]
      BY <1>18 DEF SysExecve, TypeOK
    <2>3. trap'[p].call = "execve" /\ \A q \in Pids \ {p} : trap'[q] = trap[q]
      BY <1>18 DEF SysExecve, Enter, NoTrap, TypeOK
    <2>4. \A q \in Pids \ {p} : generation'[q] = generation[q]
      <3>1. CASE found
        BY <1>18, <3>1 DEF SysExecve, exec, TypeOK
      <3>2. CASE ~found
        BY <1>18, <3>2 DEF SysExecve
      <3> QED
        BY <3>1, <3>2
    <2> QED
      BY <2>1, <2>2, <2>3, <2>4, Local DEF Home
  <1>19. ASSUME NEW p \in Pids, NEW target \in Pids \cup {ANY}, NEW nohang \in BOOLEAN,
                SysWait4(p, target, nohang)
        PROVE  Inside'
    <2>1. /\ halted = "no" /\ current = p /\ pc[p] = "user" /\ next_pid' = next_pid
          /\ generation' = generation /\ satp' = satp /\ current' = p
      BY <1>19 DEF SysWait4, Runs
    <2>2. pc'[p] = "wait4" /\ \A q \in Pids \ {p} : pc'[q] = pc[q]
      BY <1>19 DEF SysWait4, TypeOK
    <2>3. trap'[p].call = "wait4" /\ trap'[p].satp = satp
          /\ \A q \in Pids \ {p} : trap'[q] = trap[q]
      BY <1>19 DEF SysWait4, TypeOK
    <2>4. satp = Token(p)
      BY <2>1 DEF SInv, Inside, OnHart, Home
    <2>5. Token(p)' = Token(p)
      BY <2>1 DEF Token
    <2> QED
      BY <2>1, <2>2, <2>3, <2>4, <2>5, Local DEF Home
  <1>20. CASE UNCHANGED vars
    BY <1>20 DEF vars, SInv, Inside, OnHart, Kept, Fresh, FatalSignalStopsUser, Home,
                 Token, Runs
  <1>21. CASE User
    BY ONLY <1>21, <1>11, <1>12, <1>13, <1>14, <1>15, <1>16, <1>17, <1>18, <1>19
       DEF User, UserCall
  <1>22. CASE Kernel
    BY ONLY <1>22, <1>1, <1>2, <1>3, <1>4, <1>5, <1>6, <1>7, <1>8, <1>9 DEF Kernel
  <1> QED
    BY ONLY [Next]_vars, <1>10, <1>20, <1>21, <1>22 DEF Next, Timer, Halted

\* The machine starts with nobody on the hart.
LEMMA SpaceInit == Init => SInv
  <1> SUFFICES ASSUME Init PROVE Inside
    BY TypeInit DEF SInv
  <1>1. \A p \in Pids : pc[p] \in {"entry", "unused"} /\ trap[p].call = "none"
    BY DEF Init, NoTrap
  <1>2. \A p \in Pids : p >= 1 => pc[p] = "unused"
    BY DEF Init, IDLE_PID, Pids
  <1> QED
    BY <1>1, <1>2 DEF Init, Inside, OnHart, Home, Kept, Fresh, FatalSignalStopsUser, Runs

\* The space invariant holds in every reachable state.
THEOREM SpaceInvariant == Spec => []SInv
  BY SpaceInit, SpaceStep, PTL DEF Spec

\* User code always runs under the satp of its own process, for any number of
\* processes: initproc_entry, user_entry, wait_return and the comparison with
\* current_satp at the end of trap_handler together make up for __switch, which
\* restores no satp.
THEOREM UserRunsInOwnSpaceAlways == Spec => []UserRunsInOwnSpace
  <1>1. SInv => UserRunsInOwnSpace
    BY DEF SInv, Inside, OnHart, Home, UserRunsInOwnSpace, Runs
  <1> QED
    BY <1>1, SpaceInvariant, PTL

\* Past its first trap, a process never runs user code with a fatal signal
\* pending, whoever called sys_kill and whenever.
THEOREM FatalSignalStopsUserAlways == Spec => []FatalSignalStopsUser
  <1>1. SInv => FatalSignalStopsUser
    BY DEF SInv, Inside
  <1> QED
    BY <1>1, SpaceInvariant, PTL

\* A sys_wait4 that returns to user mode leaves its result in a0, although the
\* store is skipped whenever satp is not the one the trap came with: after any
\* number of suspensions wait_return has restored exactly that satp.
THEOREM Wait4ResultDeliveredAlways == Spec => Wait4ResultDelivered
  <1> DEFINE Delivered ==
        \A p \in Pids : Runs(p, "tail") /\ trap[p].call = "wait4" /\ pc'[p] = "user"
                           => a0'[p] = "result"
  <1>1. SInv /\ [Next]_vars => [Delivered]_vars
    <2> SUFFICES ASSUME SInv, Next, NEW p \in Pids, Runs(p, "tail"),
                        trap[p].call = "wait4", pc'[p] = "user"
                 PROVE  a0'[p] = "result"
      BY DEF Delivered
    <2>1. halted = "no" /\ current = p /\ pc[p] = "tail" /\ p # None
      BY ProcessAssumption DEF Runs, Pids
    <2> pc \in [Pids -> {"unused", "entry", "user", "wait4", "wait_return", "tail", "gone"}]
      BY DEF SInv, TypeOK
    <2>2. TrapSignal(p) \/ TrapReturn(p)
      <3>1. ~Halted /\ ~RunTasks
        BY <2>1 DEF Halted, RunTasks
      <3>2. \A q \in Pids : Runs(q, "tail") => q = p
        BY <2>1 DEF Runs
      <3>3. \A q \in Pids : ~Runs(q, "user") /\ ~Runs(q, "entry") /\ ~Runs(q, "wait4")
                               /\ ~Runs(q, "wait_return")
        BY <2>1 DEF Runs
      <3>4. \A q \in Pids : ~UserCall(q) /\ ~TimerTick(q)
        BY ONLY <3>3 DEF UserCall, TimerTick, Fork, SysExit, IllegalInstruction, PageFault,
                         SysYield, SysGetppid, SysKill, SysExecve, SysWait4
      <3>5. \A q \in Pids : /\ ~UserEntry(q) /\ ~Wait4NoChild(q) /\ ~Wait4Reap(q)
                            /\ ~Wait4NoHang(q) /\ ~Wait4Suspend(q) /\ ~WaitReturn(q)
        BY ONLY <3>3 DEF UserEntry, Wait4NoChild, Wait4Reap, Wait4NoHang, Wait4Suspend,
                         WaitReturn
      <3>6. PICK q \in Pids : TrapSignal(q) \/ TrapReturn(q)
        BY ONLY Next, <3>1, <3>4, <3>5 DEF Next, Kernel, Timer, User
      <3> QED
        BY <3>2, <3>6 DEF TrapSignal, TrapReturn
    <2>3. ~TrapSignal(p)
      BY <2>1, pc'[p] = "user" DEF TrapSignal, Exit, ExitProcess, ExitInit
    <2>4. trap[p].satp = Token(p) /\ satp = Token(p)
      BY <2>1 DEF SInv, Inside, OnHart, Home, Kept
    <2>5. StoresResult(p)
      BY <2>4 DEF StoresResult
    <2>6. a0 \in [Pids -> {"arg", "result"}]
      BY DEF SInv, TypeOK
    <2> QED
      BY <2>2, <2>3, <2>5, <2>6 DEF TrapReturn
  <1> QED
    BY <1>1, SpaceInvariant, PTL DEF Spec, Wait4ResultDelivered

=============================================================================
