---------------------------- MODULE ProcessImpl ----------------------------
(* The kernel's process management implements the life cycle of ProcessLife. *)
EXTENDS Process

LifeOf(p) == IF p \notin Created THEN "none"
             ELSE IF ~is_zombie[p] THEN "live"
             ELSE IF report[p] = None THEN "zombie" ELSE "reaped"

Life == INSTANCE ProcessLife WITH
            life <- [p \in Pids |-> LifeOf(p)],
            ppid <- parent,
            code <- exit_code,
            told <- [p \in Pids |-> IF report[p] = None THEN None
                                                        ELSE report[p].code],
            off  <- halted # "no"

\* Every behaviour of fork, exit with its adoption of orphans, signals, execve
\* and sys_wait4 is one of ProcessLife: each process is reaped exactly once, by
\* its parent at the time, with the code it died with.
ImplementsLife == Life!Spec
=============================================================================
