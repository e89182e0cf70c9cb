-------------------------------- MODULE Disk --------------------------------
(***************************************************************************)
(* What the block cache promises its clients: a disk whose reads see the   *)
(* last write.  `last' is the last operation of a client with its result:  *)
(* the content changes only with a write of a client, which shows in it,   *)
(* or with a restart, which leaves no client and clears it.  A write       *)
(* becomes durable at some later time, in no particular order, at the      *)
(* latest with a sync; a restart goes back to what is durable.             *)
(***************************************************************************)
CONSTANTS Block, Data

VARIABLES store, durable, last
vars == <<store, durable, last>>

Init ==
    /\ store \in [Block -> Data]
    /\ durable = store
    /\ last = <<>>

Read(b) == last' = <<"read", b, store[b]>> /\ UNCHANGED <<store, durable>>

Write(b, d) ==
    /\ store' = [store EXCEPT ![b] = d]
    /\ last' = <<"write", b, d>>
    /\ UNCHANGED durable

Persist(b) == durable' = [durable EXCEPT ![b] = store[b]] /\ UNCHANGED <<store, last>>

Sync == durable' = store /\ UNCHANGED <<store, last>>

Restart == store' = durable /\ last' = <<>> /\ UNCHANGED durable

Next ==
    \/ \E b \in Block : Read(b) \/ Persist(b) \/ \E d \in Data : Write(b, d)
    \/ Sync
    \/ Restart

Spec == Init /\ [][Next]_vars
=============================================================================
