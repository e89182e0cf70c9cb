-------------------------------- MODULE Ring --------------------------------
(***************************************************************************)
(* PipeRingBuffer: the ring both ends of a pipe share.  head = tail is     *)
(* ambiguous, so the ring keeps a status besides the two indices.          *)
(***************************************************************************)
EXTENDS Integers, Sequences

CONSTANTS
    RING_BUFFER_SIZE,
    Byte

ASSUME RingAssumption == RING_BUFFER_SIZE \in Nat \ {0} /\ 0 \in Byte

VARIABLES arr, head, tail, status

ringVars == <<arr, head, tail, status>>

\* PipeRingBuffer::new
RingInit ==
    /\ arr = [i \in 0 .. RING_BUFFER_SIZE - 1 |-> 0]
    /\ head = 0 /\ tail = 0
    /\ status = "Empty"

\* fault: a ring whose indices meet is taken for empty
write_byte_NoFull(b) ==
    /\ arr' = [arr EXCEPT ![tail] = b]
    /\ tail' = (tail + 1) % RING_BUFFER_SIZE
    /\ status' = "Normal"
    /\ UNCHANGED head

write_byte(b) ==
    /\ arr' = [arr EXCEPT ![tail] = b]
    /\ tail' = (tail + 1) % RING_BUFFER_SIZE
    /\ status' = IF tail' = head THEN "Full" ELSE "Normal"
    /\ UNCHANGED head

\* returns arr[head]
read_byte ==
    /\ head' = (head + 1) % RING_BUFFER_SIZE
    /\ status' = IF head' = tail THEN "Empty" ELSE "Normal"
    /\ UNCHANGED <<arr, tail>>

available_read ==
    IF status = "Empty" THEN 0
    ELSE IF tail > head THEN tail - head
    ELSE tail + RING_BUFFER_SIZE - head

\* fault: the room is taken from the indices alone
available_write_NoStatus ==
    IF tail >= head THEN RING_BUFFER_SIZE - (tail - head) ELSE head - tail

available_write == IF status = "Full" THEN 0 ELSE RING_BUFFER_SIZE - available_read

\* the loops of Pipe::write and Pipe::read call the two only when there is room
Put(b) == available_write > 0 /\ write_byte(b)
Get == available_read > 0 /\ read_byte

RingNext == Get \/ \E b \in Byte : Put(b)

RingSpec == RingInit /\ [][RingNext]_ringVars

-----------------------------------------------------------------------------
RingTypeOK ==
    /\ arr \in [0 .. RING_BUFFER_SIZE - 1 -> Byte]
    /\ head \in 0 .. RING_BUFFER_SIZE - 1
    /\ tail \in 0 .. RING_BUFFER_SIZE - 1
    /\ status \in {"Full", "Empty", "Normal"}

\* The status tells apart the two meanings of head = tail, at every wrap.
StatusExact == status = "Normal" <=> head # tail

\* the slot k bytes behind the head
Slot(k) == IF head + k < RING_BUFFER_SIZE THEN head + k ELSE head + k - RING_BUFFER_SIZE

\* the bytes in the ring, oldest first
Contents == [k \in 1 .. available_read |-> arr[Slot(k - 1)]]

F == INSTANCE Fifo WITH queue <- Contents, Capacity <- RING_BUFFER_SIZE

\* The ring is a bounded FIFO queue: bytes come out in the order they went in,
\* none is lost, duplicated or overwritten, and all RING_BUFFER_SIZE slots are
\* usable, wherever the indices have wrapped.
ImplementsFifo == F!Spec
=============================================================================
