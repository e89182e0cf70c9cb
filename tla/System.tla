------------------------------- MODULE System -------------------------------
(***************************************************************************)
(* The kernel with the init program it embeds (user/src/bin/initproc.rs):  *)
(* pid 0 forks once, then calls wait(-1) until the answer is ECHILD, and   *)
(* returns from main, which shuts the machine down.  All other processes   *)
(* do what they like.                                                      *)
(***************************************************************************)
EXTENDS Process

VARIABLE init_at    \* the statement of initproc's main that runs next

allVars == <<vars, init_at>>

SystemInit == Init /\ init_at = "fork"

\* fault: main takes ECHILD for the pid of a process it released
AfterWait_NoEchild == IF a0'[IDLE_PID] # "result" THEN "yield" ELSE "wait"

\* what main makes of the value it finds in a0 when the call returns: its own
\* argument -1 if nothing was stored there, ECHILD (-10), or a pid
AfterWait == IF a0'[IDLE_PID] # "result" THEN "yield"
             ELSE IF trap[IDLE_PID].result = ECHILD THEN "exit"
             ELSE "wait"

InitCalls ==
    \/ /\ init_at = "fork" /\ init_at' = "wait"
       /\ Fork(IDLE_PID)
    \/ /\ init_at \in {"wait", "yield"}
       /\ IF init_at = "yield" THEN init_at' = "wait" /\ SysYield(IDLE_PID)
          ELSE init_at' = "waiting" /\ SysWait4(IDLE_PID, ANY, FALSE)
    \/ /\ init_at = "exit" /\ init_at' = "exit"
       /\ SysExit(IDLE_PID, 0)

InitReturns ==
    /\ init_at = "waiting" /\ trap[IDLE_PID].call = "wait4"
    /\ TrapReturn(IDLE_PID)
    /\ init_at' = AfterWait

Others ==
    /\ \/ \E p \in Pids \ {IDLE_PID} : UserCall(p)
       \/ Timer
       \/ Kernel /\ ~(/\ Runs(IDLE_PID, "tail") /\ trap[IDLE_PID].call = "wait4")
       \/ Halted
    /\ UNCHANGED init_at

SystemNext == InitCalls \/ InitReturns \/ Others

SystemSpec == SystemInit /\ [][SystemNext]_allVars

\* As for FairSpec; the init program proceeds, and every other process calls
\* exit sooner or later when it gets to run.
FairSystemSpec ==
    /\ SystemSpec
    /\ WF_allVars(Kernel /\ SystemNext)
    /\ SF_allVars(Timer /\ SystemNext)
    /\ SF_allVars(InitCalls)
    /\ \A p \in Pids \ {IDLE_PID} :
         SF_allVars(\E c \in ExitCodes : SysExit(p, c) /\ SystemNext)

-----------------------------------------------------------------------------
\* "All tasks have exited, shutting down": when init's loop ends, every process
\* ever created has exited and its exit code was collected.
CleanShutdown ==
    halted = "shutdown" => \A c \in Created \ {IDLE_PID} : report[c] # None

\* If every other process exits when it is given the chance, the loop does end.
ShutsDown == <>(halted = "shutdown")
=============================================================================
