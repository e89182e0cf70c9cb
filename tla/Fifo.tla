-------------------------------- MODULE Fifo --------------------------------
(***************************************************************************)
(* What a pipe promises to the two sides: a bounded queue of bytes.        *)
(***************************************************************************)
EXTENDS Integers, Sequences

CONSTANTS Byte, Capacity
VARIABLE queue

Init == queue = <<>>

Put(b) == Len(queue) < Capacity /\ queue' = Append(queue, b)
Get == queue # <<>> /\ queue' = Tail(queue)

Next == Get \/ \E b \in Byte : Put(b)

Spec == Init /\ [][Next]_queue
=============================================================================
