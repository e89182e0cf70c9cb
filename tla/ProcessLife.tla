---------------------------- MODULE ProcessLife ----------------------------
(***************************************************************************)
(* What process management promises, without scheduler, traps or queues: a *)
(* process is created by a living one, dies once, and once dead is reaped  *)
(* exactly once by its parent, who learns the code it died with; orphans   *)
(* belong to init; the death of init is the end of the system.             *)
(***************************************************************************)
EXTENDS Integers

CONSTANTS MaxPid, None

VARIABLES life,   \* life[p] \in {"none", "live", "zombie", "reaped"}
          ppid,   \* the process that may reap p
          code,   \* what p died with
          told,   \* what the one who reaped p was told
          off     \* the machine is off

vars == <<life, ppid, code, told, off>>

Procs == 0 .. MaxPid - 1

Init ==
    /\ life = [p \in Procs |-> IF p = 0 THEN "live" ELSE "none"]
    /\ ppid = [p \in Procs |-> None]
    /\ code = [p \in Procs |-> None]
    /\ told = [p \in Procs |-> None]
    /\ off = FALSE

Create(p, c) ==
    /\ life[p] = "live" /\ life[c] = "none"
    /\ life' = [life EXCEPT ![c] = "live"]
    /\ ppid' = [ppid EXCEPT ![c] = p]
    /\ UNCHANGED <<code, told, off>>

Die(p) ==
    /\ p # 0 /\ life[p] = "live"
    /\ life' = [life EXCEPT ![p] = "zombie"]
    /\ code' = [code EXCEPT ![p] = code'[p]] /\ code'[p] \in Int
    /\ ppid' = [c \in Procs |-> IF ppid[c] = p /\ life[c] # "reaped"
                                  THEN 0 ELSE ppid[c]]
    /\ UNCHANGED <<told, off>>

Reap(p, c) ==
    /\ life[p] = "live" /\ life[c] = "zombie" /\ ppid[c] = p
    /\ life' = [life EXCEPT ![c] = "reaped"]
    /\ told' = [told EXCEPT ![c] = code[c]]
    /\ UNCHANGED <<ppid, code, off>>

PowerOff == off' = TRUE /\ UNCHANGED <<life, ppid, code, told>>

Next ==
    /\ ~off
    /\ \/ \E p, c \in Procs : Create(p, c) \/ Reap(p, c)
       \/ \E p \in Procs : Die(p)
       \/ PowerOff

Spec == Init /\ [][Next]_vars
=============================================================================
