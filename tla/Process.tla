------------------------------ MODULE Process ------------------------------
(***************************************************************************)
(* Scheduling and life cycle of processes in the chaos kernel.             *)
(*                                                                         *)
(* One hart, no preemption in kernel mode: a process leaves the hart only  *)
(* where the kernel calls suspend_current_and_run_next or                  *)
(* exit_current_and_run_next, so each kernel path between two such points  *)
(* is a chain of steps of the current task that nothing interleaves.  What *)
(* interleaves is everything else: timer interrupts taken in user mode,    *)
(* the order of the ready queue, and the steps of other processes while a  *)
(* process is suspended inside sys_wait4, sys_yield or the timer handler.  *)
(*                                                                         *)
(* __switch saves neither satp nor any other CSR, so `satp' is a variable  *)
(* of the hart and not of a task.                                          *)
(***************************************************************************)
EXTENDS Integers, Sequences, FiniteSets

CONSTANTS
    MaxPid,     \* bound: pids 0 .. MaxPid-1 are ever allocated
    MaxExec,    \* bound: successful execve calls per process
    ExitCodes,  \* codes passed to sys_exit
    KillFlags,  \* signal masks passed to sys_kill
    None        \* Option::None

Signals == {"SIGINT", "SIGILL", "SIGABRT", "SIGFPE", "SIGSEGV", "SIGKILL"}
Pids == 0 .. MaxPid - 1

\* what sys_wait4 reported of a process: to whom, with which code, stored where
Reports == [by : Pids, code : Int \cup {None}, space : (Pids \cup {None}) \X Nat]

ASSUME ProcessAssumption ==
    /\ MaxPid \in Nat \ {0}
    /\ MaxExec \in Nat
    /\ ExitCodes \subseteq Int
    /\ KillFlags \subseteq SUBSET Signals
    /\ None \notin Int /\ None \notin KillFlags /\ None \notin Reports

IDLE_PID == 0
ECHILD == -10
ESRCH == -3
EINVAL == -22
ENOENT == -2
ANY == -1       \* the pid argument of sys_wait4 that matches every child

VARIABLES
    \* the hart
    current,        \* Processor.current: a pid or None
    satp,           \* the active address space, <<pid, generation>>
    halted,         \* "no", "shutdown", "finished" (run_tasks returned), "panic"
    \* TASK_MANAGER, PID2PCB and the pid allocator
    ready_queue, pid2pcb, next_pid,
    \* the task control blocks
    task_status,    \* TaskStatus
    pc,             \* where the task continues when it runs next
    trap,           \* locals of trap_handler and sys_wait4 on its kernel stack
    a0,             \* what x[10] of its trap context holds, "arg" or "result"
    generation,     \* which of its address spaces it owns: execve replaces it
    parent, children, signals, is_zombie, exit_code,
    \* history
    report          \* report[c]: to whom sys_wait4 reported c, with which code

hartVars == <<current, satp, halted>>
queueVars == <<ready_queue, pid2pcb, next_pid>>
runVars == <<task_status, pc, trap, a0, generation>>
familyVars == <<parent, children, signals, is_zombie, exit_code, report>>
vars == <<hartVars, queueVars, runVars, familyVars>>

Created == 0 .. next_pid - 1
Live(p) == p \in Created /\ ~is_zombie[p]
Elems(s) == {s[i] : i \in DOMAIN s}

\* TaskControlBlock::get_user_token: satp of the address space p owns now
Token(p) == <<p, generation[p]>>
KERNEL_TOKEN == <<None, 0>>

Calls == {"none", "returned", "clone", "execve", "yield", "wait4", "kill", "getppid",
          "timer", "fault"}
NoTrap == [call |-> "none", satp |-> KERNEL_TOKEN, result |-> 0,
           target |-> ANY, nohang |-> FALSE]

\* SignalFlags::check_error: the exit code of the first fatal signal, if any
check_error(s) ==
    IF "SIGINT" \in s THEN -2
    ELSE IF "SIGILL" \in s THEN -4
    ELSE IF "SIGABRT" \in s THEN -6
    ELSE IF "SIGFPE" \in s THEN -8
    ELSE IF "SIGSEGV" \in s THEN -11
    ELSE None

-----------------------------------------------------------------------------
\* init_task: INITPROC is in the ready queue and not in PID2PCB
Init ==
    /\ current = None
    /\ satp = KERNEL_TOKEN
    /\ halted = "no"
    /\ ready_queue = <<IDLE_PID>>
    /\ pid2pcb = {}
    /\ next_pid = 1
    /\ task_status = [p \in Pids |-> "Ready"]
    /\ pc = [p \in Pids |-> IF p = IDLE_PID THEN "entry" ELSE "unused"]
    /\ trap = [p \in Pids |-> NoTrap]
    /\ a0 = [p \in Pids |-> "result"]
    /\ generation = [p \in Pids |-> 0]
    /\ parent = [p \in Pids |-> None]
    /\ children = [p \in Pids |-> <<>>]
    /\ signals = [p \in Pids |-> {}]
    /\ is_zombie = [p \in Pids |-> FALSE]
    /\ exit_code = [p \in Pids |-> None]
    /\ report = [p \in Pids |-> None]

Runs(p, at) == halted = "no" /\ current = p /\ pc[p] = at

\* trap_handler up to the dispatch: satp and the call are kept in locals
Enter(p, call, result) ==
    trap' = [trap EXCEPT ![p] = [NoTrap EXCEPT !.call = call, !.satp = satp,
                                               !.result = result]]

\* fault: the task is not put back into the ready queue
Suspend_Lost(p, at) ==
    /\ current' = None
    /\ task_status' = [task_status EXCEPT ![p] = "Ready"]
    /\ UNCHANGED ready_queue
    /\ pc' = [pc EXCEPT ![p] = at]

\* fault: push_front instead of push_back
Suspend_Front(p, at) ==
    /\ current' = None
    /\ task_status' = [task_status EXCEPT ![p] = "Ready"]
    /\ ready_queue' = <<p>> \o ready_queue
    /\ pc' = [pc EXCEPT ![p] = at]

\* suspend_current_and_run_next: p will continue at `at'
Suspend(p, at) ==
    /\ current' = None
    /\ task_status' = [task_status EXCEPT ![p] = "Ready"]
    /\ ready_queue' = Append(ready_queue, p)
    /\ pc' = [pc EXCEPT ![p] = at]

\* fault: the parent link of the orphans is not redirected
Adopt_NoLink(p) ==
    /\ UNCHANGED parent
    /\ children' = [children EXCEPT ![IDLE_PID] = @ \o children[p], ![p] = <<>>]

\* fault: the orphans are not pushed onto INITPROC's children
Adopt_NoPush(p) ==
    /\ parent' = [c \in Pids |-> IF c \in Elems(children[p]) THEN IDLE_PID
                                                             ELSE parent[c]]
    /\ children' = [children EXCEPT ![p] = <<>>]

\* the children of an exiting process become the last children of init
Adopt(p) ==
    /\ parent' = [c \in Pids |-> IF c \in Elems(children[p]) THEN IDLE_PID
                                                             ELSE parent[c]]
    /\ children' = [children EXCEPT ![IDLE_PID] = @ \o children[p], ![p] = <<>>]

\* exit_current_and_run_next of the main thread of a process other than init
ExitProcess(p, code) ==
    /\ p # IDLE_PID
    /\ current' = None
    /\ halted' = IF p \in pid2pcb THEN "no" ELSE "panic"
    /\ pid2pcb' = pid2pcb \ {p}
    /\ pc' = [pc EXCEPT ![p] = "gone"]
    /\ trap' = [trap EXCEPT ![p] = NoTrap]
    /\ a0' = [a0 EXCEPT ![p] = "result"]
    /\ is_zombie' = [is_zombie EXCEPT ![p] = TRUE]
    /\ exit_code' = [exit_code EXCEPT ![p] = code]
    /\ Adopt(p)
    /\ UNCHANGED <<satp, ready_queue, next_pid, task_status, generation,
                   signals, report>>

\* exit_current_and_run_next of init: the machine is shut down
ExitInit(p) ==
    /\ p = IDLE_PID
    /\ current' = None
    /\ halted' = "shutdown"
    /\ UNCHANGED <<satp, queueVars, runVars, familyVars>>

Exit(p, code) == ExitProcess(p, code) \/ ExitInit(p)

-----------------------------------------------------------------------------
\* run_tasks: one turn of the idle loop
RunTasks ==
    /\ halted = "no" /\ current = None
    /\ IF ready_queue = <<>>
         THEN /\ halted' = "finished"
              /\ UNCHANGED <<current, ready_queue, task_status>>
         ELSE /\ current' = Head(ready_queue)
              /\ ready_queue' = Tail(ready_queue)
              /\ task_status' = [task_status EXCEPT ![Head(ready_queue)] = "Running"]
              /\ UNCHANGED halted
    /\ UNCHANGED <<satp, pid2pcb, next_pid, pc, trap, a0, generation, familyVars>>

\* initproc_entry / user_entry as the target of the first dispatch
UserEntry(p) ==
    /\ Runs(p, "entry")
    /\ satp' = Token(p)
    /\ pc' = [pc EXCEPT ![p] = "user"]
    /\ UNCHANGED <<current, halted, queueVars, task_status, trap, a0,
                   generation, familyVars>>

\* fault: the child is never registered
Register_Missing(c) == UNCHANGED pid2pcb

\* insert_into_pid2process
Register(c) == pid2pcb' = pid2pcb \cup {c}

\* sys_clone without CLONE_THREAD: TaskControlBlock::fork
Fork(p) ==
    LET c == next_pid IN
    /\ Runs(p, "user")
    /\ next_pid < MaxPid
    /\ next_pid' = next_pid + 1
    /\ Enter(p, "clone", c)
    /\ pc' = [pc EXCEPT ![p] = "tail", ![c] = "entry"]
    /\ task_status' = [task_status EXCEPT ![c] = "Ready"]
    /\ parent' = [parent EXCEPT ![c] = p]
    /\ children' = [children EXCEPT ![p] = Append(@, c)]
    /\ a0' = [a0 EXCEPT ![p] = "arg", ![c] = "result"]
    /\ Register(c)
    /\ ready_queue' = Append(ready_queue, c)
    /\ UNCHANGED <<hartVars, generation, signals, is_zombie, exit_code, report>>

\* sys_exit and sys_exit_group
SysExit(p, code) ==
    /\ Runs(p, "user")
    /\ Exit(p, code)

\* the IllegalInstruction arm of trap_handler
IllegalInstruction(p) ==
    /\ Runs(p, "user")
    /\ Exit(p, -1)

\* the page-fault arms of trap_handler
PageFault(p) ==
    /\ Runs(p, "user")
    /\ Enter(p, "fault", 0)
    /\ signals' = [signals EXCEPT ![p] = @ \cup {"SIGSEGV"}]
    /\ pc' = [pc EXCEPT ![p] = "tail"]
    /\ UNCHANGED <<hartVars, queueVars, task_status, a0, generation, parent,
                   children, is_zombie, exit_code, report>>

\* the timer arm of trap_handler
TimerTick(p) ==
    /\ Runs(p, "user")
    /\ Enter(p, "timer", 0)
    /\ Suspend(p, "tail")
    /\ UNCHANGED <<satp, halted, pid2pcb, next_pid, a0, generation, familyVars>>

SysYield(p) ==
    /\ Runs(p, "user")
    /\ Enter(p, "yield", 0)
    /\ Suspend(p, "tail")
    /\ a0' = [a0 EXCEPT ![p] = "arg"]
    /\ UNCHANGED <<satp, halted, pid2pcb, next_pid, generation, familyVars>>

SysGetppid(p) ==
    /\ Runs(p, "user")
    /\ Enter(p, "getppid", IF parent[p] = None THEN ESRCH ELSE parent[p])
    /\ pc' = [pc EXCEPT ![p] = "tail"]
    /\ a0' = [a0 EXCEPT ![p] = "arg"]
    /\ UNCHANGED <<hartVars, queueVars, task_status, generation, familyVars>>

\* sys_kill; mask = None stands for bits SignalFlags::from_bits rejects
SysKill(p, target, mask) ==
    /\ Runs(p, "user")
    /\ Enter(p, "kill", IF target \notin pid2pcb THEN ESRCH
                        ELSE IF mask = None THEN EINVAL ELSE 0)
    /\ signals' = IF target \in pid2pcb /\ mask # None
                    THEN [signals EXCEPT ![target] = @ \cup mask]
                    ELSE signals
    /\ pc' = [pc EXCEPT ![p] = "tail"]
    /\ a0' = [a0 EXCEPT ![p] = "arg"]
    /\ UNCHANGED <<hartVars, queueVars, task_status, generation, parent,
                   children, is_zombie, exit_code, report>>

\* TaskControlBlock::exec: a new address space replaces the old one; satp still
\* names the old one
exec(p) == generation' = [generation EXCEPT ![p] = @ + 1]

\* sys_execve: `found' says whether open_file finds the program
SysExecve(p, found) ==
    /\ Runs(p, "user")
    /\ found => generation[p] < MaxExec
    /\ Enter(p, "execve", IF found THEN 1 ELSE ENOENT)
    /\ IF found THEN exec(p) ELSE UNCHANGED generation
    /\ pc' = [pc EXCEPT ![p] = "tail"]
    /\ a0' = [a0 EXCEPT ![p] = "arg"]
    /\ UNCHANGED <<hartVars, queueVars, task_status, familyVars>>

-----------------------------------------------------------------------------
\* sys_wait4, from the trap to the head of its loop
SysWait4(p, target, nohang) ==
    /\ Runs(p, "user")
    /\ trap' = [trap EXCEPT ![p] = [call |-> "wait4", satp |-> satp, result |-> 0,
                                    target |-> target, nohang |-> nohang]]
    /\ pc' = [pc EXCEPT ![p] = "wait4"]
    /\ a0' = [a0 EXCEPT ![p] = "arg"]
    /\ UNCHANGED <<hartVars, queueVars, task_status, generation, familyVars>>

Matches(p, c) == trap[p].target = ANY \/ trap[p].target = c
Candidates(p) == {i \in DOMAIN children[p] : Matches(p, children[p][i])}
Zombies(p) == {i \in Candidates(p) : is_zombie[children[p][i]]}

\* fault: only the head of the children vector is looked at
Found_HeadOnly(p) == {i \in Zombies(p) : i = 1}

\* what iter().enumerate().find() yields: the index of the first zombie, if any
Found(p) == {i \in Zombies(p) : \A j \in Zombies(p) : i <= j}

\* Vec::remove
RemoveIndex(s, i) == [j \in 1 .. Len(s) - 1 |-> IF j < i THEN s[j] ELSE s[j + 1]]

Wait4Done(p, result) ==
    /\ trap' = [trap EXCEPT ![p].result = result]
    /\ pc' = [pc EXCEPT ![p] = "tail"]
    /\ UNCHANGED <<current, satp, ready_queue, pid2pcb, next_pid, task_status,
                   a0, generation, parent, signals, is_zombie, exit_code>>

Wait4NoChild(p) ==
    /\ Runs(p, "wait4")
    /\ Candidates(p) = {}
    /\ Wait4Done(p, ECHILD)
    /\ UNCHANGED <<halted, children, report>>

\* the first zombie in the order of the children vector is removed from it and
\* its exit code stored through exit_code_ptr in whatever space satp selects
Wait4Reap(p) ==
    /\ Runs(p, "wait4")
    /\ \E i \in Found(p) :
         LET c == children[p][i] IN
         /\ children' = [children EXCEPT ![p] = RemoveIndex(@, i)]
         /\ report' = [report EXCEPT ![c] = [by |-> p, code |-> exit_code[c],
                                             space |-> satp]]
         /\ halted' = IF exit_code[c] = None THEN "panic" ELSE "no"
         /\ Wait4Done(p, c)

Wait4NoHang(p) ==
    /\ Runs(p, "wait4")
    /\ Candidates(p) # {} /\ Found(p) = {}
    /\ trap[p].nohang
    /\ Wait4Done(p, 0)
    /\ UNCHANGED <<halted, children, report>>

Wait4Suspend(p) ==
    /\ Runs(p, "wait4")
    /\ Candidates(p) # {} /\ Found(p) = {}
    /\ ~trap[p].nohang
    /\ Suspend(p, "wait_return")
    /\ UNCHANGED <<satp, halted, pid2pcb, next_pid, trap, a0, generation,
                   familyVars>>

\* fault: satp is left as the other processes left it
WaitReturn_NoSwitch(p) ==
    /\ Runs(p, "wait_return")
    /\ pc' = [pc EXCEPT ![p] = "wait4"]
    /\ UNCHANGED <<hartVars, queueVars, task_status, trap, a0, generation, familyVars>>

\* trap::wait_return, back from suspend_current_and_run_next
WaitReturn(p) ==
    /\ Runs(p, "wait_return")
    /\ satp' = Token(p)
    /\ pc' = [pc EXCEPT ![p] = "wait4"]
    /\ UNCHANGED <<current, halted, queueVars, task_status, trap, a0,
                   generation, familyVars>>

-----------------------------------------------------------------------------
\* fault: only execve goes through user_entry
Reenters_ExecOnly(p) == trap[p].call = "execve"

\* trap_handler leaves through user_entry, which loads p's own satp, after
\* execve and when satp is not the one the trap came with; otherwise through
\* trap_return, which leaves satp alone
Reenters(p) == trap[p].call = "execve" \/ trap[p].satp # satp

\* the result of a call is stored in x[10] after execve and before trap_return
StoresResult(p) ==
    \/ trap[p].call = "execve"
    \/ trap[p].call \notin {"timer", "fault"} /\ trap[p].satp = satp

\* fault: signals are not looked at after a timer interrupt
check_signals_NotAfterTimer(p) ==
    IF trap[p].call = "timer" THEN None ELSE check_error(signals[p])

check_signals_of_current(p) == check_error(signals[p])

\* the end of trap_handler: fatal signals first ...
TrapSignal(p) ==
    /\ Runs(p, "tail")
    /\ check_signals_of_current(p) # None
    /\ Exit(p, check_signals_of_current(p))

\* ... then back to user mode; the locals of the trap are gone
TrapReturn(p) ==
    /\ Runs(p, "tail")
    /\ check_signals_of_current(p) = None
    /\ satp' = IF Reenters(p) THEN Token(p) ELSE satp
    /\ a0' = IF StoresResult(p) THEN [a0 EXCEPT ![p] = "result"] ELSE a0
    /\ pc' = [pc EXCEPT ![p] = "user"]
    /\ trap' = [trap EXCEPT ![p] = [NoTrap EXCEPT !.call = "returned"]]
    /\ UNCHANGED <<current, halted, queueVars, task_status, generation,
                   familyVars>>

Halted == halted # "no" /\ UNCHANGED vars

-----------------------------------------------------------------------------
\* steps of the kernel itself, which nothing can withhold
Kernel ==
    \/ RunTasks
    \/ \E p \in Pids : \/ UserEntry(p)
                       \/ Wait4NoChild(p) \/ Wait4Reap(p)
                       \/ Wait4NoHang(p) \/ Wait4Suspend(p)
                       \/ WaitReturn(p)
                       \/ TrapSignal(p) \/ TrapReturn(p)

Timer == \E p \in Pids : TimerTick(p)

\* what user code may do next
UserCall(p) ==
    \/ Fork(p)
    \/ \E code \in ExitCodes : SysExit(p, code)
    \/ IllegalInstruction(p)
    \/ PageFault(p)
    \/ SysYield(p)
    \/ SysGetppid(p)
    \/ \E target \in Pids, mask \in KillFlags \cup {None} : SysKill(p, target, mask)
    \/ \E found \in BOOLEAN : SysExecve(p, found)
    \/ \E target \in Pids \cup {ANY}, nohang \in BOOLEAN : SysWait4(p, target, nohang)

User == \E p \in Pids : UserCall(p)

Next == Kernel \/ Timer \/ User \/ Halted

Spec == Init /\ [][Next]_vars

\* A kernel path once entered is run to its end.  A timer interrupt stays
\* pending while the kernel runs and is taken on the next return to user mode.
FairSpec == Spec /\ WF_vars(Kernel) /\ SF_vars(Timer)

-----------------------------------------------------------------------------
TypeOK ==
    /\ current \in Pids \cup {None}
    /\ satp \in (Pids \cup {None}) \X Nat
    /\ halted \in {"no", "shutdown", "finished", "panic"}
    /\ ready_queue \in Seq(Pids)
    /\ pid2pcb \subseteq Pids
    /\ next_pid \in 1 .. MaxPid
    /\ task_status \in [Pids -> {"Ready", "Running"}]
    /\ pc \in [Pids -> {"unused", "entry", "user", "wait4", "wait_return",
                        "tail", "gone"}]
    /\ trap \in [Pids -> [call : Calls, satp : (Pids \cup {None}) \X Nat,
                          result : Int, target : Pids \cup {ANY},
                          nohang : BOOLEAN]]
    /\ a0 \in [Pids -> {"arg", "result"}]
    /\ generation \in [Pids -> 0 .. MaxExec]
    /\ parent \in [Pids -> Pids \cup {None}]
    /\ children \in [Pids -> Seq(Pids)]
    /\ signals \in [Pids -> SUBSET Signals]
    /\ is_zombie \in [Pids -> BOOLEAN]
    /\ exit_code \in [Pids -> Int \cup {None}]
    /\ report \in [Pids -> Reports \cup {None}]

NoDuplicates(s) == \A i, j \in DOMAIN s : s[i] = s[j] => i = j

\* While the machine runs, every live process is on the hart or in the ready
\* queue, never both and never twice, and no zombie is in either: fork, the
\* timer, sys_yield, the sys_wait4 loop and exit neither lose nor clone a task.
QueueIntegrity ==
    halted = "no" =>
        /\ NoDuplicates(ready_queue)
        /\ Elems(ready_queue) = {p \in Created : ~is_zombie[p]} \ {current}
        /\ current # None => Live(current)
        /\ \A p \in Elems(ready_queue) : task_status[p] = "Ready"

\* The kernel neither panics in remove_from_pid2process or in sys_wait4's
\* exit_code.unwrap(), nor falls out of run_tasks because the queue is empty;
\* PID2PCB holds exactly the live processes other than init.
PidTableExact ==
    /\ halted \in {"no", "shutdown"}
    /\ pid2pcb = {p \in Created : ~is_zombie[p]} \ {IDLE_PID}

\* Every process but init that no sys_wait4 has reported yet is in the children
\* vector of exactly the process its parent link names, once, and that process
\* is alive, through every order of exits and adoptions by init.
FamilyTree ==
    /\ \A p \in Pids : NoDuplicates(children[p])
    /\ \A p, c \in Pids : c \in Elems(children[p]) <=>
                              /\ c \in Created \ {IDLE_PID}
                              /\ report[c] = None
                              /\ parent[c] = p
    /\ \A c \in Created \ {IDLE_PID} : report[c] = None =>
                              parent[c] # None /\ Live(parent[c])

\* sys_wait4 reports a process only after it exited, to its parent, with the
\* code it exited with, stored in an address space of that parent even when
\* the parent was suspended in between.
ReportFaithful ==
    \A c \in Pids : report[c] # None =>
        /\ is_zombie[c]
        /\ report[c].code = exit_code[c]
        /\ report[c].by = parent[c]
        /\ report[c].space[1] = parent[c]

\* User code runs under the address space its process owns now, although no
\* context switch restores satp and execve replaces the space under the trap.
UserRunsInOwnSpace ==
    \A p \in Pids : Runs(p, "user") => satp = Token(p)

\* A process that goes back to user mode from sys_wait4 finds the result in a0,
\* however often other processes ran while it waited.
Wait4ResultDelivered ==
    [][\A p \in Pids : Runs(p, "tail") /\ trap[p].call = "wait4" /\ pc'[p] = "user"
                         => a0'[p] = "result"]_vars

\* A process that has trapped at least once never executes user code with a
\* fatal signal pending, whoever sent it and whenever: only a process killed
\* before its first dispatch runs up to its first trap.
FatalSignalStopsUser ==
    \A p \in Pids : Runs(p, "user") /\ trap[p].call # "none"
                       => check_error(signals[p]) = None

-----------------------------------------------------------------------------
Up == halted = "no"

\* The FIFO ready queue starves nobody: a queued process gets the hart.
NoStarvation ==
    \A p \in Pids : (Up /\ p \in Elems(ready_queue)) ~> (~Up \/ current = p)

\* A process waiting in sys_wait4 for a child that has exited gets out of it.
Wait4Completes ==
    \A p \in Pids :
        (Up /\ pc[p] \in {"wait4", "wait_return"} /\ Zombies(p) # {})
            ~> (~Up \/ pc[p] \notin {"wait4", "wait_return"})

\* A process with a fatal signal pending outside sys_wait4 dies.
KilledDies ==
    \A p \in Pids :
        (Up /\ pc[p] \in {"entry", "user", "tail"} /\ check_error(signals[p]) # None)
            ~> (~Up \/ is_zombie[p] \/ pc[p] \in {"wait4", "wait_return"})

=============================================================================
