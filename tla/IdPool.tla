------------------------------- MODULE IdPool -------------------------------
(***************************************************************************)
(* What RecycleAllocator promises to pid_alloc and kstack_alloc: the id of *)
(* a new handle is not the id of any handle that exists.                   *)
(***************************************************************************)
EXTENDS Integers

VARIABLES held,     \* the ids of the handles that exist
          handles   \* how many there are

Init == held = {} /\ handles = 0

Acquire == /\ \E id \in held' \ held : held' = held \cup {id}
           /\ handles' = handles + 1

Release == /\ \E id \in held : held' = held \ {id}
           /\ handles' = handles - 1

Spec == Init /\ [][Acquire \/ Release]_<<held, handles>>
=============================================================================
