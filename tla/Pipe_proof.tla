----------------------------- MODULE Pipe_proof -----------------------------
(***************************************************************************)
(* For every size and every set of bytes, PipeRingBuffer is a bounded FIFO *)
(* queue; and for every number of processes and every length of a call,    *)
(* the loops of Pipe::read and Pipe::write use it as one, across every     *)
(* suspension.                                                             *)
(***************************************************************************)
EXTENDS Pipe, SequenceTheorems, TLAPS

N == RING_BUFFER_SIZE

\* The step of an index is a step or a wrap to 0.
LEMMA Wrap ==
  ASSUME NEW i \in 0 .. N - 1
  PROVE  (i + 1) % N = IF i + 1 = N THEN 0 ELSE i + 1
  BY RingAssumption DEF N

RInv == RingTypeOK /\ StatusExact

\* What the ring offers and what it holds add up to its size.
LEMMA Available ==
  ASSUME RInv
  PROVE  /\ available_read \in 0 .. N
         /\ available_write = N - available_read
         /\ available_read = 0 <=> status = "Empty"
         /\ available_write = 0 <=> status = "Full"
  BY RingAssumption DEF RInv, RingTypeOK, StatusExact, available_read, available_write, N

\* Writing a byte where there is room keeps the invariant and adds one byte.
LEMMA PutStep ==
  ASSUME RInv, NEW b \in Byte, Put(b)
  PROVE  RInv' /\ available_read' = available_read + 1
  <1>1. tail' = IF tail + 1 = N THEN 0 ELSE tail + 1
    BY Wrap DEF Put, write_byte, RInv, RingTypeOK, N
  <1>2. status # "Full" /\ head' = head /\ head \in 0 .. N - 1 /\ tail \in 0 .. N - 1
        /\ status \in {"Full", "Empty", "Normal"} /\ N \in Nat \ {0}
    BY Available, RingAssumption DEF Put, write_byte, RInv, RingTypeOK, N
  <1>3. status' = IF tail' = head THEN "Full" ELSE "Normal"
    BY DEF Put, write_byte
  <1>4. RingTypeOK'
    BY <1>1, <1>2, <1>3 DEF Put, write_byte, RInv, RingTypeOK, N
  <1>5. StatusExact'
    BY <1>2, <1>3 DEF StatusExact
  <1>6. status = "Normal" <=> head # tail
    BY DEF RInv, StatusExact
  <1>7. available_read' = available_read + 1
    BY <1>1, <1>2, <1>3, <1>6 DEF available_read, N
  <1> QED
    BY <1>4, <1>5, <1>7 DEF RInv

\* Reading a byte where there is one keeps the invariant and takes one byte.
LEMMA GetStep ==
  ASSUME RInv, Get
  PROVE  RInv' /\ available_read' = available_read - 1
  <1>1. head' = IF head + 1 = N THEN 0 ELSE head + 1
    BY Wrap DEF Get, read_byte, RInv, RingTypeOK, N
  <1>2. status # "Empty" /\ tail' = tail /\ head \in 0 .. N - 1 /\ tail \in 0 .. N - 1
        /\ status \in {"Full", "Empty", "Normal"} /\ N \in Nat \ {0}
    BY Available, RingAssumption DEF Get, read_byte, RInv, RingTypeOK, N
  <1>3. status' = IF head' = tail THEN "Empty" ELSE "Normal"
    BY DEF Get, read_byte
  <1>4. RingTypeOK'
    BY <1>1, <1>2, <1>3 DEF Get, read_byte, RInv, RingTypeOK, N
  <1>5. StatusExact'
    BY <1>2, <1>3 DEF StatusExact
  <1>6. status = "Normal" <=> head # tail
    BY DEF RInv, StatusExact
  <1>7. available_read' = available_read - 1
    BY <1>1, <1>2, <1>3, <1>6 DEF available_read, N
  <1> QED
    BY <1>4, <1>5, <1>7 DEF RInv

\* The ring keeps its invariant.
LEMMA RingInvariant == RingSpec => []RInv
  <1>1. RingInit => RInv
    BY RingAssumption DEF RingInit, RInv, RingTypeOK, StatusExact
  <1>2. RInv /\ [RingNext]_ringVars => RInv'
    <2> SUFFICES ASSUME RInv, [RingNext]_ringVars PROVE RInv'
      OBVIOUS
    <2>1. CASE UNCHANGED ringVars
      BY <2>1 DEF ringVars, RInv, RingTypeOK, StatusExact
    <2> QED
      BY <2>1, PutStep, GetStep DEF RingNext
  <1> QED
    BY <1>1, <1>2, PTL DEF RingSpec

\* head, tail and the array keep their types for every size of the ring.
THEOREM TypeCorrect == RingSpec => []RingTypeOK
  <1>1. RInv => RingTypeOK
    BY DEF RInv
  <1> QED
    BY <1>1, RingInvariant, PTL

\* RingBufferStatus is Normal exactly while head and tail differ, for every size.
THEOREM StatusExactAlways == RingSpec => []StatusExact
  <1>1. RInv => StatusExact
    BY DEF RInv
  <1> QED
    BY <1>1, RingInvariant, PTL

-----------------------------------------------------------------------------
\* A function on 1 .. n is a sequence of length n.
LEMMA FunctionIsSeq ==
  ASSUME NEW S, NEW n \in Nat, NEW f \in [1 .. n -> S]
  PROVE  f \in Seq(S) /\ Len(f) = n
  <1>1. f \in Seq(S)
    BY SeqDef
  <1> QED
    BY <1>1, LenProperties

\* The bytes in the ring form a sequence of available_read bytes.
LEMMA ContentsType ==
  ASSUME RInv
  PROVE  /\ Contents \in Seq(Byte) /\ Len(Contents) = available_read
         /\ \A k \in 1 .. available_read : Contents[k] = arr[Slot(k - 1)]
         /\ \A k \in 0 .. N - 1 : Slot(k) \in 0 .. N - 1
  <1>1. available_read \in 0 .. N /\ N \in Nat
    BY Available, RingAssumption DEF N
  <1>2. \A k \in 0 .. N - 1 : Slot(k) \in 0 .. N - 1
    BY RingAssumption DEF Slot, RInv, RingTypeOK, N
  <1>3. \A k \in 1 .. available_read : arr[Slot(k - 1)] \in Byte
    BY <1>1, <1>2 DEF RInv, RingTypeOK, N
  <1>4. Contents \in [1 .. available_read -> Byte]
    BY <1>3 DEF Contents
  <1>5. Contents \in Seq(Byte) /\ Len(Contents) = available_read
    BY <1>1, <1>4, FunctionIsSeq
  <1> QED
    BY <1>2, <1>5, Zenon DEF Contents

\* write_byte appends to the contents: it overwrites none of them.
LEMMA PutAppends ==
  ASSUME RInv, NEW b \in Byte, Put(b)
  PROVE  F!Put(b)
  <1> DEFINE m == available_read
  <1>1. m \in 0 .. N - 1 /\ N \in Nat \ {0} /\ RInv' /\ available_read' = m + 1
    BY Available, PutStep, RingAssumption DEF Put, N
  <1>2. head \in 0 .. N - 1 /\ tail \in 0 .. N - 1 /\ status # "Full"
        /\ status \in {"Full", "Empty", "Normal"} /\ (status = "Normal" <=> head # tail)
    BY Available DEF Put, RInv, RingTypeOK, StatusExact, N
  <1>3. Slot(m) = tail /\ \A k \in 0 .. m - 1 : Slot(k) # tail
    BY <1>1, <1>2 DEF Slot, available_read, N
  <1>4. head' = head /\ arr' = [arr EXCEPT ![tail] = b]
    BY DEF Put, write_byte
  <1>5. \A k : Slot(k)' = Slot(k)
    BY <1>4 DEF Slot
  <1>6. arr' [tail] = b /\ \A k \in 0 .. m - 1 : arr'[Slot(k)] = arr[Slot(k)]
    BY <1>1, <1>2, <1>3, <1>4 DEF RInv, RingTypeOK, N
  <1>7. /\ Contents \in Seq(Byte) /\ Len(Contents) = m
        /\ \A k \in 1 .. m : Contents[k] = arr[Slot(k - 1)]
    BY ContentsType
  <1>8. Contents' = [k \in 1 .. m + 1 |-> arr'[Slot(k - 1)]]
    BY <1>1, <1>5 DEF Contents
  <1> HIDE DEF m
  <1>9. /\ Append(Contents, b) \in Seq(Byte) /\ Len(Append(Contents, b)) = m + 1
        /\ \A k \in 1 .. m : Append(Contents, b)[k] = Contents[k]
        /\ Append(Contents, b)[m + 1] = b
    BY <1>7, AppendProperties
  <1>10. Contents' \in Seq(Byte) /\ Len(Contents') = m + 1
    <2>1. \A k \in 1 .. m : arr'[Slot(k - 1)] = Contents[k] /\ Contents[k] \in Byte
      BY <1>1, <1>6, <1>7, ElementOfSeq
    <2>2. \A k \in 1 .. m + 1 : arr'[Slot(k - 1)] \in Byte
      <3>1. (m + 1) - 1 = m /\ \A k \in 1 .. m + 1 : k \in 1 .. m \/ k = m + 1
        BY ONLY <1>1
      <3>2. arr'[Slot((m + 1) - 1)] \in Byte
        BY ONLY <1>3, <1>6, <3>1, b \in Byte, Zenon
      <3>3. TAKE k \in 1 .. m + 1
      <3>4. CASE k = m + 1
        BY ONLY <3>2, <3>4, Zenon
      <3>5. CASE k \in 1 .. m
        <4>1. arr'[Slot(k - 1)] = Contents[k] /\ Contents[k] \in Byte
          BY ONLY <2>1, <3>5, Zenon
        <4> QED
          BY ONLY <4>1, Zenon
      <3> QED
        BY ONLY <3>1, <3>4, <3>5, k \in 1 .. m + 1, Zenon
    <2>3. Contents' \in [1 .. m + 1 -> Byte] /\ m + 1 \in Nat
      BY ONLY <1>1, <1>8, <2>2
    <2> QED
      BY <2>3, FunctionIsSeq
  <1>11. Contents' = Append(Contents, b)
    <2>1. \A k \in 1 .. m + 1 : Contents'[k] = arr'[Slot(k - 1)]
      BY <1>8
    <2>2. ASSUME NEW k \in 1 .. m PROVE Contents'[k] = Append(Contents, b)[k]
      <3>1. k \in 1 .. m + 1 /\ k - 1 \in 0 .. m - 1
        BY ONLY <1>1, k \in 1 .. m
      <3>2. Contents'[k] = arr'[Slot(k - 1)] /\ arr'[Slot(k - 1)] = arr[Slot(k - 1)]
        BY ONLY <1>6, <2>1, <3>1, Zenon
      <3> QED
        BY ONLY <1>7, <1>9, <3>2, k \in 1 .. m, Zenon
    <2>3. Contents'[m + 1] = b
      BY <1>1, <1>3, <1>6, <2>1
    <2>4. \A k \in 1 .. m + 1 : Contents'[k] = Append(Contents, b)[k]
      BY <1>1, <1>9, <2>2, <2>3
    <2> QED
      BY <1>9, <1>10, <2>4, SeqEqual
  <1> QED
    BY <1>1, <1>7, <1>11 DEF F!Put, N

\* read_byte removes the oldest byte of the contents.
LEMMA GetTakes ==
  ASSUME RInv, Get
  PROVE  F!Get
  <1> DEFINE m == available_read
  <1>1. m \in 1 .. N /\ N \in Nat \ {0} /\ RInv' /\ available_read' = m - 1
    BY Available, GetStep, RingAssumption DEF Get, N
  <1>2. head \in 0 .. N - 1
    BY DEF RInv, RingTypeOK, N
  <1>3. head' = (IF head + 1 = N THEN 0 ELSE head + 1) /\ arr' = arr
    BY <1>2, Wrap DEF Get, read_byte, N
  <1>4. \A k \in 1 .. N - 1 : Slot(k - 1)' = Slot(k)
    BY <1>1, <1>2, <1>3 DEF Slot, N
  <1>5. /\ Contents \in Seq(Byte) /\ Len(Contents) = m
        /\ \A k \in 1 .. m : Contents[k] = arr[Slot(k - 1)]
    BY ContentsType
  <1>6. Contents' = [k \in 1 .. m - 1 |-> arr[Slot(k - 1)']]
    BY <1>1, <1>3 DEF Contents
  <1> HIDE DEF m
  <1>7. \A k \in 1 .. m - 1 : arr[Slot(k - 1)'] = Contents[k + 1]
    BY <1>1, <1>4, <1>5
  <1>8. Contents # <<>>
    BY <1>1, <1>5
  <1>9. /\ Tail(Contents) \in Seq(Byte) /\ Len(Tail(Contents)) = m - 1
        /\ \A k \in 1 .. m - 1 : Tail(Contents)[k] = Contents[k + 1]
    BY <1>5, <1>8, HeadTailProperties
  <1>10. Contents' = Tail(Contents)
    <2>1. Contents' \in Seq(Byte) /\ Len(Contents') = m - 1
      <3>1. \A k \in 1 .. m - 1 : arr[Slot(k - 1)'] \in Byte
        BY <1>1, <1>5, <1>7, ElementOfSeq
      <3>2. Contents' \in [1 .. m - 1 -> Byte] /\ m - 1 \in Nat
        BY <1>1, <1>6, <3>1
      <3> QED
        BY <3>2, FunctionIsSeq
    <2>2. \A k \in 1 .. m - 1 : Contents'[k] = Tail(Contents)[k]
      BY <1>6, <1>7, <1>9
    <2> QED
      BY <1>9, <2>1, <2>2, SeqEqual
  <1> QED
    BY <1>8, <1>10 DEF F!Get

\* PipeRingBuffer implements the bounded FIFO queue for every RING_BUFFER_SIZE:
\* whatever the calls of write_byte and read_byte and however the indices wrap.
THEOREM FifoRefinement == RingSpec => ImplementsFifo
  <1>1. RingInit => F!Init
    <2> SUFFICES ASSUME RingInit PROVE Contents = <<>>
      BY DEF F!Init
    <2>1. available_read = 0
      BY DEF RingInit, available_read
    <2> QED
      BY <2>1 DEF Contents
  <1>2. RInv /\ [RingNext]_ringVars => [F!Next]_Contents
    <2> SUFFICES ASSUME RInv, [RingNext]_ringVars PROVE [F!Next]_Contents
      OBVIOUS
    <2>1. CASE UNCHANGED ringVars
      BY <2>1 DEF ringVars, Contents, available_read, Slot
    <2> QED
      BY <2>1, PutAppends, GetTakes DEF RingNext, F!Next
  <1> QED
    BY <1>1, <1>2, RingInvariant, PTL DEF RingSpec, ImplementsFifo, F!Spec

-----------------------------------------------------------------------------
Places == {"unused", "user", "read", "write", "gone"}
Calls == {"none", "read", "write", "writev", "sendfile"}
Locals == [call : Calls, file : Files \cup {None}, out : Files \cup {None},
           want : Nat, done : Nat, left : Nat, more : Nat]

\* process ids are given out in order
PType ==
    /\ next_pid \in 1 .. MaxProc
    /\ at \in [Procs -> Places]
    /\ io \in [Procs -> Locals]
    /\ \A p \in Procs : p >= next_pid <=> at[p] = "unused"

\* loop_read and loop_write are counts of bytes and of room that are still
\* there, and only the process on the hart has one
Counted ==
    \A p \in Procs : halted = "no" /\ io[p].left > 0 =>
        /\ current = p
        /\ \/ at[p] = "read" /\ io[p].left <= available_read
           \/ at[p] = "write" /\ io[p].left <= available_write

\* a process in user mode or in Pipe::read has its own space active
Home == \A p \in Procs : current = p /\ at[p] \in {"user", "read"} => satp = p

Numbers == sent \in 0 .. Modulus - 1 /\ got \in 0 .. Modulus - 1

PInv == RInv /\ Numbers /\ DeliveredInOrder /\ PType /\ Counted /\ Home

\* A remainder of a number less than one turn away.
LEMMA Turn ==
  ASSUME NEW m \in Nat \ {0}, NEW x \in Int
  PROVE  /\ x \in 0 .. m - 1 => x % m = x
         /\ x \in m .. m + m - 1 => x % m = x - m
         /\ x \in -m .. -1 => x % m = x + m
  OBVIOUS

\* the number of the byte k bytes behind the next one to be read
Number(k) == IF got + k < Modulus THEN got + k ELSE got + k - Modulus

\* DeliveredInOrder without remainders
Ordered ==
    /\ available_read = IF sent >= got THEN sent - got ELSE sent - got + Modulus
    /\ \A k \in 0 .. available_read - 1 : arr[Slot(k)] = Number(k)

\* The two ways to say that the ring holds the bytes in their order agree.
LEMMA OrderedExact ==
  ASSUME RInv, Numbers
  PROVE  DeliveredInOrder <=> Ordered
  <1>1. /\ N \in Nat \ {0} /\ Modulus \in Nat \ {0} /\ Modulus > N
        /\ available_read \in 0 .. N /\ head \in 0 .. N - 1
        /\ sent \in 0 .. Modulus - 1 /\ got \in 0 .. Modulus - 1
    BY Available, RingAssumption, PipeAssumption DEF RInv, RingTypeOK, Numbers, N
  <1>2. (sent - got) % Modulus = IF sent >= got THEN sent - got ELSE sent - got + Modulus
    <2>1. PICK x \in Int : x = sent - got
      BY <1>1
    <2>2. /\ x \in 0 .. Modulus - 1 => x % Modulus = x
          /\ x \in -Modulus .. -1 => x % Modulus = x + Modulus
      BY ONLY <1>1, Turn
    <2>3. sent >= got => x \in 0 .. Modulus - 1
      BY ONLY <1>1, <2>1
    <2>4. ~(sent >= got) => x \in -Modulus .. -1
      BY ONLY <1>1, <2>1
    <2> QED
      BY <2>1, <2>2, <2>3, <2>4
  <1>3. ASSUME NEW k \in 0 .. available_read - 1
        PROVE  (head + k) % N = Slot(k) /\ (got + k) % Modulus = Number(k)
    <2>1. PICK x \in Int : x = head + k
      BY <1>1
    <2>2. PICK y \in Int : y = got + k
      BY <1>1
    <2>3. x \in 0 .. N + N - 1 /\ y \in 0 .. Modulus + Modulus - 1
      BY <1>1, <2>1, <2>2
    <2>4. /\ x \in 0 .. N - 1 => x % N = x
          /\ x \in N .. N + N - 1 => x % N = x - N
      BY ONLY <1>1, Turn
    <2>5. /\ y \in 0 .. Modulus - 1 => y % Modulus = y
          /\ y \in Modulus .. Modulus + Modulus - 1 => y % Modulus = y - Modulus
      BY ONLY <1>1, Turn, Zenon
    <2>6. x % N = IF x < N THEN x ELSE x - N
      BY ONLY <1>1, <2>3, <2>4
    <2>7. y % Modulus = IF y < Modulus THEN y ELSE y - Modulus
      BY ONLY <1>1, <2>3, <2>5
    <2>8. Slot(k) = (IF x < N THEN x ELSE x - N) /\ Number(k) = (IF y < Modulus THEN y ELSE y - Modulus)
      BY ONLY <1>1, <2>1, <2>2, k \in 0 .. available_read - 1 DEF Slot, Number, N
    <2> QED
      BY ONLY <2>1, <2>2, <2>6, <2>7, <2>8, Zenon
  <1>4. (\A k \in 0 .. available_read - 1 : arr[(head + k) % N] = (got + k) % Modulus)
          <=> (\A k \in 0 .. available_read - 1 : arr[Slot(k)] = Number(k))
    BY ONLY <1>3, Zenon
  <1> QED
    BY ONLY <1>2, <1>4, Zenon DEF DeliveredInOrder, Ordered, N

\* Writing byte number sent where there is room keeps the bytes in order.
LEMMA PutOrdered ==
  ASSUME RInv, Numbers, DeliveredInOrder, Put(sent),
         sent' = (sent + 1) % Modulus, got' = got
  PROVE  RInv' /\ Numbers' /\ DeliveredInOrder'
  <1> DEFINE m == available_read
  <1>1. sent \in Byte /\ Modulus \in Nat \ {0} /\ Modulus > N
    BY PipeAssumption, RingAssumption DEF Numbers, N
  <1>2. m \in 0 .. N - 1 /\ N \in Nat \ {0} /\ RInv' /\ available_read' = m + 1
    BY <1>1, Available, PutStep, RingAssumption DEF Put, N
  <1>3. sent' = (IF sent + 1 = Modulus THEN 0 ELSE sent + 1) /\ Numbers'
    <2>1. PICK x \in Int : x = sent + 1
      BY DEF Numbers
    <2>2. /\ x \in 0 .. Modulus - 1 => x % Modulus = x
          /\ x \in Modulus .. Modulus + Modulus - 1 => x % Modulus = x - Modulus
      BY ONLY <1>1, Turn, Zenon
    <2>3. x % Modulus = IF x = Modulus THEN 0 ELSE x
      BY <1>1, <2>1, <2>2 DEF Numbers
    <2>4. sent' = IF sent + 1 = Modulus THEN 0 ELSE sent + 1
      BY ONLY <2>1, <2>3, sent' = (sent + 1) % Modulus, Zenon
    <2> QED
      BY ONLY <1>1, <2>4, Numbers, got' = got DEF Numbers
  <1>4. Slot(m) = tail /\ \A k \in 0 .. m - 1 : Slot(k) # tail /\ Slot(k) \in 0 .. N - 1
    BY <1>2, Available DEF Put, RInv, RingTypeOK, StatusExact, Slot, available_read, N
  <1>5. /\ \A k : Slot(k)' = Slot(k)
        /\ arr' = [arr EXCEPT ![tail] = sent]
    BY DEF Put, write_byte, Slot
  <1>6. arr \in [0 .. N - 1 -> Byte] /\ tail \in 0 .. N - 1
    BY DEF RInv, RingTypeOK, N
  <1> HIDE DEF m
  <1>7. arr'[tail] = sent /\ \A k \in 0 .. m - 1 : arr'[Slot(k)] = arr[Slot(k)]
    BY ONLY <1>4, <1>5, <1>6
  <1>8. /\ m = (IF sent >= got THEN sent - got ELSE sent - got + Modulus)
        /\ \A k \in 0 .. m - 1 : arr[Slot(k)] = Number(k)
    BY OrderedExact DEF Ordered, m
  <1>9. \A k : Number(k)' = Number(k)
    BY DEF Number
  <1>10. Number(m) = sent
    BY ONLY <1>1, <1>2, <1>8, Numbers DEF Numbers, Number
  <1>11. m + 1 = IF sent' >= got THEN sent' - got ELSE sent' - got + Modulus
    BY ONLY <1>1, <1>2, <1>3, <1>8, Numbers DEF Numbers
  <1>12. \A k \in 0 .. (m + 1) - 1 : (k \in 0 .. m - 1) \/ k = m
    BY ONLY <1>2
  <1>13. \A k \in 0 .. (m + 1) - 1 : arr'[Slot(k)'] = Number(k)'
    <2> TAKE k \in 0 .. (m + 1) - 1
    <2>1. CASE k = m
      BY ONLY <1>4, <1>5, <1>7, <1>9, <1>10, <2>1, Zenon
    <2>2. CASE k \in 0 .. m - 1
      BY ONLY <1>5, <1>7, <1>8, <1>9, <2>2, Zenon
    <2> QED
      BY <1>12, <2>1, <2>2, Zenon
  <1>14. Ordered'
    BY ONLY <1>2, <1>11, <1>13, got' = got, Zenon DEF Ordered
  <1>15. RInv' /\ Numbers' => (DeliveredInOrder' <=> Ordered')
    BY OrderedExact, PTL
  <1> QED
    BY <1>2, <1>3, <1>14, <1>15, Zenon

\* Reading the oldest byte where there is one keeps the bytes in order.
LEMMA GetOrdered ==
  ASSUME RInv, Numbers, DeliveredInOrder, Get,
         got' = (got + 1) % Modulus, sent' = sent
  PROVE  RInv' /\ Numbers' /\ DeliveredInOrder' /\ got' # got
  <1> DEFINE m == available_read
  <1>1. Modulus \in Nat \ {0} /\ Modulus > N
    BY PipeAssumption, RingAssumption DEF N
  <1>2. m \in 1 .. N /\ N \in Nat \ {0} /\ RInv' /\ available_read' = m - 1
    BY Available, GetStep, RingAssumption DEF Get, N
  <1>3. got' = (IF got + 1 = Modulus THEN 0 ELSE got + 1) /\ Numbers' /\ got' # got
    <2>1. PICK x \in Int : x = got + 1
      BY DEF Numbers
    <2>2. /\ x \in 0 .. Modulus - 1 => x % Modulus = x
          /\ x \in Modulus .. Modulus + Modulus - 1 => x % Modulus = x - Modulus
      BY ONLY <1>1, Turn, Zenon
    <2>3. x % Modulus = IF x = Modulus THEN 0 ELSE x
      BY <1>1, <2>1, <2>2 DEF Numbers
    <2>4. got' = IF got + 1 = Modulus THEN 0 ELSE got + 1
      BY ONLY <2>1, <2>3, got' = (got + 1) % Modulus, Zenon
    <2> QED
      BY ONLY <1>1, <1>2, <2>4, Numbers, sent' = sent DEF Numbers
  <1>4. head \in 0 .. N - 1
    BY DEF RInv, RingTypeOK, N
  <1>5. head' = (IF head + 1 = N THEN 0 ELSE head + 1) /\ arr' = arr
    BY <1>4, Wrap DEF Get, read_byte, N
  <1> HIDE DEF m
  <1>6. \A k \in 0 .. (m - 1) - 1 : Slot(k)' = Slot(k + 1) /\ Number(k)' = Number(k + 1)
    BY ONLY <1>1, <1>2, <1>3, <1>4, <1>5, Numbers DEF Slot, Number, Numbers, N
  <1>7. /\ m = (IF sent >= got THEN sent - got ELSE sent - got + Modulus)
        /\ \A k \in 0 .. m - 1 : arr[Slot(k)] = Number(k)
    BY OrderedExact DEF Ordered, m
  <1>8. m - 1 = IF sent >= got' THEN sent - got' ELSE sent - got' + Modulus
    BY ONLY <1>1, <1>2, <1>3, <1>7, Numbers DEF Numbers
  <1>9. \A k \in 0 .. (m - 1) - 1 : arr'[Slot(k)'] = Number(k)'
    <2> TAKE k \in 0 .. (m - 1) - 1
    <2>1. k + 1 \in 0 .. m - 1
      BY ONLY <1>2, k \in 0 .. (m - 1) - 1
    <2>2. arr[Slot(k + 1)] = Number(k + 1)
      BY ONLY <1>7, <2>1, Zenon
    <2> QED
      BY ONLY <1>5, <1>6, <2>2, k \in 0 .. (m - 1) - 1, Zenon
  <1>10. Ordered'
    BY ONLY <1>2, <1>8, <1>9, sent' = sent, Zenon DEF Ordered
  <1>11. RInv' /\ Numbers' => (DeliveredInOrder' <=> Ordered')
    BY OrderedExact, PTL
  <1> QED
    BY <1>2, <1>3, <1>10, <1>11, Zenon

-----------------------------------------------------------------------------
\* what a step of p that is not a fork does: p comes to a place of the call with
\* the locals l, on the hart or off it, and a count it keeps is right
Settled(p, place, l) ==
    /\ halted = "no" /\ current \in {p, None} /\ current' \in {p, None}
    /\ place \in Places \ {"unused"} /\ at[p] # "unused" /\ l \in Locals
    /\ at' = [at EXCEPT ![p] = place]
    /\ io' = [io EXCEPT ![p] = l]
    /\ next_pid' = next_pid
    /\ current' = p /\ place \in {"user", "read"} => satp' = p
    /\ l.left > 0 /\ halted' = "no" =>
        /\ current' = p
        /\ \/ place = "read" /\ l.left <= available_read'
           \/ place = "write" /\ l.left <= available_write'

\* What the invariant says of one process and of the locals of its call.
LEMMA Here ==
  ASSUME PType, Counted, NEW p \in Procs
  PROVE  /\ at[p] \in Places /\ io[p] \in Locals
         /\ at = [at EXCEPT ![p] = at[p]] /\ io = [io EXCEPT ![p] = io[p]]
         /\ halted = "no" /\ (current # p \/ at[p] \notin {"read", "write"}) => io[p].left = 0
         /\ p # None
  <1>1. at \in [Procs -> Places] /\ io \in [Procs -> Locals]
    BY DEF PType
  <1>2. at[p] \in Places /\ io[p] \in Locals
    BY ONLY <1>1, p \in Procs
  <1>3. at = [at EXCEPT ![p] = at[p]] /\ io = [io EXCEPT ![p] = io[p]]
    BY ONLY <1>1, p \in Procs
  <1>4. io[p].left \in Nat
    BY ONLY <1>2 DEF Locals
  <1>5. io[p].left = 0 \/ io[p].left > 0
    BY ONLY <1>4
  <1>6. p \in Int /\ None \notin Int
    BY ONLY PipeAssumption, p \in Procs DEF Procs
  <1> QED
    BY <1>2, <1>3, <1>5, <1>6, Zenon DEF Counted

\* Idle is a value of the locals.
LEMMA IdleTyped == Idle \in Locals /\ Idle.left = 0
  BY DEF Idle, Locals, Calls, Files

\* Such a step keeps the types, the counts of every process, and the space of
\* the one on the hart: nobody else has a count.
LEMMA SettledKeeps ==
  ASSUME PType, Counted, NEW p \in Procs, NEW place, NEW l, Settled(p, place, l)
  PROVE  PType' /\ Counted' /\ Home'
  <1>1. Procs' = Procs /\ Locals' = Locals /\ Places' = Places
    BY DEF Procs, Locals, Places, Files, Calls
  <1>2. at \in [Procs -> Places] /\ io \in [Procs -> Locals]
    BY DEF PType
  <1>3. /\ at' \in [Procs -> Places] /\ io' \in [Procs -> Locals]
        /\ at'[p] = place /\ io'[p] = l
        /\ \A q \in Procs : q # p => at'[q] = at[q] /\ io'[q] = io[q]
    BY ONLY <1>2, p \in Procs, Settled(p, place, l) DEF Settled
  <1>4. PType'
    <2>1. \A q \in Procs : q >= next_pid <=> at'[q] = "unused"
      <3> TAKE q \in Procs
      <3>1. q >= next_pid <=> at[q] = "unused"
        BY DEF PType
      <3>2. at'[q] = "unused" <=> at[q] = "unused"
        BY <1>3, Zenon DEF Settled
      <3> QED
        BY ONLY <3>1, <3>2
    <2>2. next_pid' = next_pid /\ next_pid \in 1 .. MaxProc
      BY DEF Settled, PType
    <2> QED
      BY ONLY <1>1, <1>3, <2>1, <2>2 DEF PType
  <1>5. \A q \in Procs : q # p => io'[q].left = 0 /\ current' # q
    <2> TAKE q \in Procs
    <2> HAVE q # p
    <2>1. q # None /\ (halted = "no" /\ current # q => io[q].left = 0)
      BY Here, Zenon
    <2> QED
      BY <1>3, <2>1, Zenon DEF Settled
  <1>6. Counted'
    <2> SUFFICES ASSUME NEW q \in Procs, halted' = "no", io'[q].left > 0
                 PROVE  /\ current' = q
                        /\ \/ at'[q] = "read" /\ io'[q].left <= available_read'
                           \/ at'[q] = "write" /\ io'[q].left <= available_write'
      BY <1>1, Zenon DEF Counted
    <2>1. ~ (0 > 0)
      OBVIOUS
    <2>2. q = p
      BY <1>5, <2>1, Zenon
    <2> QED
      BY <1>3, <2>2, Zenon DEF Settled
  <1>7. Home'
    BY <1>1, <1>3, <1>5, Zenon DEF Home, Settled
  <1> QED
    BY <1>4, <1>6, <1>7

-----------------------------------------------------------------------------
\* a step that moves no byte
Still == UNCHANGED <<ringVars, sent, got>>

\* A ring that no byte enters or leaves offers what it did.
LEMMA StillOffers ==
  ASSUME Still
  PROVE  available_read' = available_read /\ available_write' = available_write
  BY DEF Still, ringVars, available_read, available_write

\* run_tasks hands the hart to a task in user mode, in Pipe::read (which calls
\* wait_return) or in Pipe::write (which does not reload satp).
LEMMA ResumeStep ==
  ASSUME PInv, NEW p \in Procs, ResumeUser(p) \/ ResumeRead(p) \/ ResumeWrite(p)
  PROVE  Still /\ Settled(p, at[p], io[p])
  <1>1. /\ at[p] \in Places /\ io[p] \in Locals /\ p # None
        /\ at = [at EXCEPT ![p] = at[p]] /\ io = [io EXCEPT ![p] = io[p]]
        /\ (halted = "no" /\ current # p => io[p].left = 0)
    BY Here, Zenon DEF PInv
  <1>2. Still /\ halted = "no" /\ current = None /\ current' = p /\ at' = at /\ io' = io
        /\ next_pid' = next_pid
    BY Zenon DEF ResumeUser, ResumeRead, ResumeWrite, Dispatch, Still, history, fileVars
  <1>3. at[p] \in {"user", "read", "write"} /\ (at[p] \in {"user", "read"} => satp' = p)
    BY DEF ResumeUser, ResumeRead, ResumeWrite
  <1>4. ~ (io[p].left > 0)
    BY <1>1, <1>2
  <1> QED
    BY <1>1, <1>2, <1>3, <1>4 DEF Settled

\* A timer tick, and the suspensions in the loops of Pipe::read and Pipe::write:
\* the process keeps its place and has no count.
LEMMA SuspendStep ==
  ASSUME PInv, NEW p \in Procs, TimerTick(p) \/ ReadSuspend(p) \/ WriteSuspend(p)
  PROVE  Still /\ Settled(p, at[p], io[p])
  <1>1. /\ at[p] \in Places /\ io[p] \in Locals /\ p # None
        /\ at = [at EXCEPT ![p] = at[p]] /\ io = [io EXCEPT ![p] = io[p]]
        /\ (halted = "no" /\ at[p] \notin {"read", "write"} => io[p].left = 0)
    BY Here, Zenon DEF PInv
  <1>2. /\ Still /\ halted = "no" /\ current = p /\ current' = None /\ at' = at /\ io' = io
        /\ next_pid' = next_pid
    BY Zenon DEF TimerTick, ReadSuspend, WriteSuspend, Suspend, Writes, Runs, Still, history, fileVars
  <1>3. at[p] \in {"user", "read", "write"} /\ (at[p] # "user" => io[p].left = 0)
    BY DEF TimerTick, ReadSuspend, WriteSuspend, Writes, Runs
  <1>4. ~ (io[p].left > 0)
    BY <1>1, <1>2, <1>3
  <1> QED
    BY <1>1, <1>2, <1>3, <1>4 DEF Settled

\* The calls on the descriptor table, and the end of a process.
LEMMA TableStep ==
  ASSUME PInv, NEW p \in Procs,
         \/ SysExit(p)
         \/ \E table : Tables(p, table)
  PROVE  /\ Still
         /\ \E place \in {"user", "gone"} : Settled(p, place, io[p])
  <1>1. /\ at[p] \in Places /\ io[p] \in Locals /\ p # None
        /\ at = [at EXCEPT ![p] = at[p]] /\ io = [io EXCEPT ![p] = io[p]]
        /\ (halted = "no" /\ at[p] \notin {"read", "write"} => io[p].left = 0)
    BY Here, Zenon DEF PInv
  <1>2. /\ Still /\ halted = "no" /\ current = p /\ at[p] = "user" /\ io' = io
        /\ next_pid' = next_pid /\ halted' = halted /\ satp' = satp
    BY Zenon DEF SysExit, Tables, Runs, Still, history, hartVars
  <1>3. satp = p
    BY <1>2 DEF PInv, Home
  <1>4. ~ (io[p].left > 0)
    BY <1>1, <1>2
  <1>5. CASE SysExit(p)
    <2>1. current' = None /\ at' = [at EXCEPT ![p] = "gone"]
      BY <1>5 DEF SysExit
    <2>2. Settled(p, "gone", io[p])
      BY <1>1, <1>2, <1>4, <2>1 DEF Settled, Places
    <2> QED
      BY <1>2, <2>2
  <1>6. CASE \E table : Tables(p, table)
    <2>1. current' = p /\ at' = [at EXCEPT ![p] = "user"]
      BY <1>1, <1>2, <1>6 DEF Tables, hartVars
    <2>2. Settled(p, "user", io[p])
      BY <1>1, <1>2, <1>3, <1>4, <2>1 DEF Settled, Places
    <2> QED
      BY <1>2, <2>2
  <1> QED
    BY <1>5, <1>6

\* sys_read, sys_write, sys_writev and sys_sendfile start a loop without a count.
LEMMA BeginStep ==
  ASSUME PInv, NEW p \in Procs, NEW where \in {"read", "write"},
         NEW l \in Locals, l.left = 0, NEW mode, Begin(p, where, l, mode)
  PROVE  Still /\ Settled(p, where, l)
  <1>1. /\ Still /\ halted = "no" /\ current = p /\ at[p] = "user"
        /\ current' = p /\ next_pid' = next_pid /\ satp' = satp
        /\ at' = [at EXCEPT ![p] = where] /\ io' = [io EXCEPT ![p] = l]
    BY DEF Begin, Runs, Still, history, fileVars
  <1>2. satp = p
    BY <1>1 DEF PInv, Home
  <1>3. ~ (l.left > 0)
    OBVIOUS
  <1> QED
    BY <1>1, <1>2, <1>3 DEF Settled, Places

\* Each of these calls starts with locals of the right type.
LEMMA CallStep ==
  ASSUME PInv, NEW p \in Procs, NEW e \in Ends,
         \/ \E len \in Lengths :
             \/ SysRead(p, e, len) \/ SysWrite(p, e, len) \/ SendFromFile(p, e, len)
             \/ \E iovcnt \in 1 .. MaxIov : SysWritev(p, e, len, iovcnt)
         \/ \E out \in Files : SendFromPipe(p, out, e)
  PROVE  /\ Still /\ at[p] = "user"
         /\ \E where \in {"read", "write"}, l \in Locals : Settled(p, where, l)
  <1> DEFINE Starts(where, l) == \E mode : Begin(p, where, l, mode)
  <1>1. \A where \in {"read", "write"}, l \in Locals :
            l.left = 0 /\ Starts(where, l) => Still /\ at[p] = "user" /\ Settled(p, where, l)
    <2> SUFFICES ASSUME NEW where \in {"read", "write"}, NEW l \in Locals, l.left = 0,
                        NEW mode, Begin(p, where, l, mode)
                 PROVE  Still /\ at[p] = "user" /\ Settled(p, where, l)
      OBVIOUS
    <2>1. at[p] = "user"
      BY DEF Begin, Runs
    <2>2. Still /\ Settled(p, where, l)
      BY BeginStep
    <2> QED
      BY <2>1, <2>2
  <1>2. /\ e \in Files \cup {None} /\ "file" \in Files /\ Lengths \subseteq Nat
        /\ SENDFILE \in Nat /\ MaxIov \in Nat
    BY PipeAssumption DEF Ends, Files
  <1>3. \E where \in {"read", "write"}, l \in Locals : l.left = 0 /\ Starts(where, l)
    <2>1. CASE \E len \in Lengths : SysRead(p, e, len)
      <3>1. PICK len \in Lengths : SysRead(p, e, len)
        BY <2>1
      <3> DEFINE l == [Idle EXCEPT !.call = "read", !.file = e, !.want = len]
      <3>2. l \in Locals /\ l.left = 0
        BY <1>2, Zenon DEF Idle, Locals, Calls
      <3>3. Starts("read", l)
        BY <3>1, Zenon DEF SysRead
      <3> QED
        BY <3>2, <3>3, Zenon
    <2>2. CASE \E len \in Lengths : SysWrite(p, e, len)
      <3>1. PICK len \in Lengths : SysWrite(p, e, len)
        BY <2>2
      <3> DEFINE l == [Idle EXCEPT !.call = "write", !.file = e, !.want = len]
      <3>2. l \in Locals /\ l.left = 0
        BY <1>2, Zenon DEF Idle, Locals, Calls
      <3>3. Starts("write", l)
        BY <3>1, Zenon DEF SysWrite
      <3> QED
        BY <3>2, <3>3, Zenon
    <2>3. CASE \E len \in Lengths : SendFromFile(p, e, len)
      <3>1. PICK len \in Lengths : SendFromFile(p, e, len)
        BY <2>3
      <3> DEFINE l == [Idle EXCEPT !.call = "sendfile", !.file = "file", !.out = e, !.want = len]
      <3>2. l \in Locals /\ l.left = 0
        BY <1>2, Zenon DEF Idle, Locals, Calls
      <3>3. Starts("write", l)
        BY <3>1, Zenon DEF SendFromFile
      <3> QED
        BY <3>2, <3>3, Zenon
    <2>4. CASE \E len \in Lengths : \E iovcnt \in 1 .. MaxIov : SysWritev(p, e, len, iovcnt)
      <3>1. PICK len \in Lengths, iovcnt \in 1 .. MaxIov : SysWritev(p, e, len, iovcnt)
        BY <2>4
      <3> DEFINE l == [Idle EXCEPT !.call = "writev", !.file = e, !.want = len,
                                   !.more = iovcnt - 1]
      <3>2. l \in Locals /\ l.left = 0
        <4>1. PICK more \in Nat : more = iovcnt - 1
          BY <1>2
        <4>2. [Idle EXCEPT !.call = "writev", !.file = e, !.want = len, !.more = more] \in Locals
          BY <1>2, Zenon DEF Idle, Locals, Calls
        <4>3. l \in Locals
          BY <4>1, <4>2
        <4> QED
          BY <4>3 DEF Idle
      <3>3. Starts("write", l)
        BY <3>1, Zenon DEF SysWritev
      <3> QED
        BY <3>2, <3>3, Zenon
    <2>5. CASE \E out \in Files : SendFromPipe(p, out, e)
      <3>1. PICK out \in Files : SendFromPipe(p, out, e)
        BY <2>5
      <3> DEFINE l == [Idle EXCEPT !.call = "sendfile", !.file = e, !.out = out,
                                   !.want = SENDFILE]
      <3>2. l \in Locals /\ l.left = 0
        BY <1>2, Zenon DEF Idle, Locals, Calls
      <3>3. Starts("read", l)
        BY <3>1, Zenon DEF SendFromPipe
      <3> QED
        BY <3>2, <3>3, Zenon
    <2> QED
      BY <2>1, <2>2, <2>3, <2>4, <2>5
  <1> HIDE DEF Starts
  <1> QED
    BY <1>1, <1>3, Zenon

-----------------------------------------------------------------------------
\* the process p is on the hart in a call on the pipe
Inside(p) == halted = "no" /\ current = p /\ at[p] \in {"read", "write"} /\ next_pid' = next_pid

\* The way back to user mode ends in the space of the process.
LEMMA ToUserSettles ==
  ASSUME NEW p \in Procs, Inside(p), ToUser(p)
  PROVE  Settled(p, "user", Idle)
  <1>1. ~ (Idle.left > 0) /\ Idle \in Locals
    BY IdleTyped
  <1> QED
    BY <1>1 DEF Inside, ToUser, Settled, Places

\* sys_sendfile turns to its write without a count.
LEMMA TurnSettles ==
  ASSUME PType, Counted, NEW p \in Procs, Inside(p), NEW n \in Nat, TurnToWrite(p, n)
  PROVE  \E l \in Locals : Settled(p, "write", l)
  <1> DEFINE l == [io[p] EXCEPT !.want = n, !.done = 0, !.left = 0]
  <1>1. io[p] \in Locals /\ io \in [Procs -> Locals]
    BY Here, Zenon DEF PType
  <1>2. l \in Locals /\ l.left = 0
    BY ONLY <1>1, n \in Nat, Zenon DEF Locals
  <1>3. io' = [io EXCEPT ![p] = l]
    BY <1>1, Zenon DEF TurnToWrite
  <1>4. at' = [at EXCEPT ![p] = "write"] /\ current' = current /\ halted' = halted
    BY DEF TurnToWrite, hartVars
  <1>5. ~ (l.left > 0)
    BY <1>2
  <1> HIDE DEF l
  <1>6. Settled(p, "write", l)
    BY <1>2, <1>3, <1>4, <1>5 DEF Settled, Places, Inside
  <1> QED
    BY <1>2, <1>6, Zenon

\* Pipe::write returns to user mode, or to sys_writev without a count.
LEMMA ReturnSettles ==
  ASSUME PType, Counted, NEW p \in Procs, Inside(p), at[p] = "write", WriteReturn(p)
  PROVE  \E place \in {"user", "write"}, l \in Locals : Settled(p, place, l)
  <1>1. CASE io[p].more = 0
    <2>1. Settled(p, "user", Idle)
      BY <1>1, ToUserSettles DEF WriteReturn
    <2> QED
      BY <2>1, IdleTyped, Zenon
  <1>2. CASE io[p].more # 0
    <2> DEFINE l == [io[p] EXCEPT !.more = io[p].more - 1, !.done = 0, !.left = 0]
    <2>1. /\ io[p] \in Locals /\ io \in [Procs -> Locals]
          /\ at = [at EXCEPT ![p] = at[p]]
      BY Here, Zenon DEF PType
    <2>2. io[p].more \in Nat
      BY ONLY <2>1 DEF Locals
    <2>3. io[p].more - 1 \in Nat
      BY ONLY <1>2, <2>2
    <2>4. l \in Locals /\ l.left = 0
      BY ONLY <2>1, <2>3, Zenon DEF Locals
    <2>5. /\ io' = [io EXCEPT ![p] = l]
          /\ at' = at /\ current' = current /\ halted' = halted
      BY <1>2, <2>1, Zenon DEF WriteReturn
    <2>6. ~ (l.left > 0)
      BY <2>4
    <2> HIDE DEF l
    <2>7. Settled(p, "write", l)
      BY <2>1, <2>4, <2>5, <2>6 DEF Settled, Places, Inside
    <2> QED
      BY <2>4, <2>7, Zenon
  <1> QED
    BY <1>1, <1>2

\* Taking the count of a loop: it is what the ring offers.
LEMMA LoopStep ==
  ASSUME PInv, NEW p \in Procs, ReadLoop(p) \/ WriteLoop(p)
  PROVE  /\ Still
         /\ at'[p] = at[p]
         /\ \E l \in Locals : Settled(p, at[p], l)
  <1>1. /\ at[p] \in Places /\ io[p] \in Locals /\ io \in [Procs -> Locals]
        /\ at = [at EXCEPT ![p] = at[p]]
    BY Here, Zenon DEF PInv, PType
  <1>2. /\ Still /\ halted = "no" /\ current = p /\ current' = p /\ at' = at
        /\ next_pid' = next_pid /\ satp' = satp /\ at[p] \in {"read", "write"}
    BY DEF ReadLoop, WriteLoop, Writes, Runs, Still, history, hartVars, fileVars
  <1>3. available_read' = available_read /\ available_write' = available_write
    BY <1>2, StillOffers
  <1>4. available_read \in Nat /\ available_write \in Nat
    BY Available, RingAssumption DEF PInv, N
  <1>5. at[p] = "read" => satp = p
    BY <1>2, Zenon DEF PInv, Home
  <1>6. PICK n \in Nat : /\ io' = [io EXCEPT ![p].left = n]
                         /\ \/ at[p] = "read" /\ n = available_read
                            \/ at[p] = "write" /\ n = available_write
    BY <1>4, Zenon DEF ReadLoop, WriteLoop, Writes, Runs
  <1> DEFINE l == [io[p] EXCEPT !.left = n]
  <1>7. l \in Locals /\ l.left = n /\ io' = [io EXCEPT ![p] = l]
    BY <1>1, <1>6 DEF Locals
  <1>8. n <= n
    OBVIOUS
  <1> HIDE DEF l
  <1>9. Settled(p, at[p], l)
    BY <1>1, <1>2, <1>3, <1>5, <1>6, <1>7, <1>8, Zenon DEF Settled
  <1> QED
    BY <1>2, <1>7, <1>9, Zenon

\* A trap or a second borrow inside the kernel ends the run.
LEMMA HaltStep ==
  ASSUME PInv, NEW p \in Procs, ReadFault(p) \/ WriteFault(p) \/ WriteBorrow(p)
  PROVE  Still /\ at' = at /\ Settled(p, at[p], io[p])
  <1>1. /\ at[p] \in Places /\ io[p] \in Locals
        /\ at = [at EXCEPT ![p] = at[p]] /\ io = [io EXCEPT ![p] = io[p]]
    BY Here, Zenon DEF PInv
  <1>2. /\ Still /\ halted = "no" /\ current = p /\ current' = p /\ at' = at /\ io' = io
        /\ next_pid' = next_pid /\ satp' = satp /\ at[p] \in {"read", "write"}
        /\ halted' # "no"
    BY DEF ReadFault, WriteFault, WriteBorrow, Fault, Writes, Runs, Still, history, fileVars
  <1>3. at[p] = "read" => satp = p
    BY <1>2, Zenon DEF PInv, Home
  <1> QED
    BY <1>1, <1>2, <1>3 DEF Settled

\* A byte is read while there is one, and the count stays what is there.
LEMMA ReadByteStep ==
  ASSUME PInv, NEW p \in Procs, ReadByte(p)
  PROVE  /\ Get /\ got' = (got + 1) % Modulus /\ sent' = sent
         /\ \E place \in {"read", "user", "write"}, l \in Locals : Settled(p, place, l)
  <1>1. /\ halted = "no" /\ current = p /\ at[p] = "read" /\ Inside(p)
        /\ io[p].left > 0 /\ io[p].done < io[p].want /\ read_byte
        /\ got' = (got + 1) % Modulus /\ sent' = sent
    BY DEF ReadByte, Runs, Inside, fileVars
  <1>2. /\ RInv /\ PType /\ Counted /\ satp = p
        /\ io[p].left <= available_read
    BY <1>1 DEF PInv, Counted, Home
  <1>3. /\ io[p] \in Locals /\ io \in [Procs -> Locals]
        /\ at = [at EXCEPT ![p] = at[p]]
    BY <1>2, Here, Zenon DEF PType
  <1>4. io[p].left \in Nat /\ io[p].done \in Nat /\ io[p].want \in Nat
    BY ONLY <1>3 DEF Locals
  <1>5. Get
    <2>1. available_read \in Nat
      BY <1>2, Available, RingAssumption DEF N
    <2>2. available_read > 0
      BY ONLY <1>1, <1>2, <1>4, <2>1
    <2> QED
      BY <1>1, <2>2 DEF Get
  <1>6. available_read' = available_read - 1 /\ available_read \in Nat
    BY <1>2, <1>5, GetStep, Available, RingAssumption DEF N
  <1>7. CASE io[p].done + 1 < io[p].want
    <2> DEFINE l == [io[p] EXCEPT !.done = io[p].done + 1, !.left = io[p].left - 1]
    <2>1. io' = [io EXCEPT ![p].done = @ + 1, ![p].left = @ - 1] /\ UNCHANGED <<hartVars, at>>
      <3>1. ~ (io[p].done + 1 = io[p].want)
        BY ONLY <1>4, <1>7
      <3>2. (io[p].done + 1 < io[p].want)
              => io' = [io EXCEPT ![p].done = @ + 1, ![p].left = @ - 1] /\ UNCHANGED <<hartVars, at>>
        BY <3>1 DEF ReadByte
      <3> QED
        BY ONLY <1>7, <3>2, Zenon
    <2>2. io[p].done + 1 \in Nat /\ io[p].left - 1 \in Nat
      BY ONLY <1>1, <1>4
    <2>3. l \in Locals /\ l.left = io[p].left - 1 /\ io' = [io EXCEPT ![p] = l]
      BY ONLY <1>3, <2>1, <2>2, p \in Procs DEF Locals
    <2>4. io[p].left - 1 <= available_read'
      BY ONLY <1>2, <1>4, <1>6
    <2>5. at' = [at EXCEPT ![p] = "read"] /\ current' = current /\ satp' = satp
      BY <1>1, <1>3, <2>1, Zenon DEF hartVars
    <2> HIDE DEF l
    <2>6. Settled(p, "read", l)
      BY <1>1, <1>2, <2>3, <2>4, <2>5 DEF Settled, Places, Inside
    <2> QED
      BY <1>1, <1>5, <2>3, <2>6, Zenon
  <1>8. CASE ~ (io[p].done + 1 < io[p].want)
    <2>1. ToUser(p) \/ TurnToWrite(p, io[p].want)
      <3>1. /\ UserBuffer(p) /\ io[p].done + 1 = io[p].want => ToUser(p)
            /\ ~ (UserBuffer(p) /\ io[p].done + 1 = io[p].want) => TurnToWrite(p, io[p].want)
        BY <1>8 DEF ReadByte
      <3> QED
        BY ONLY <3>1, Zenon
    <2>2. CASE ToUser(p)
      BY <1>1, <1>5, <2>2, ToUserSettles, IdleTyped, Zenon
    <2>3. CASE TurnToWrite(p, io[p].want)
      BY <1>1, <1>2, <1>4, <1>5, <2>3, TurnSettles, Zenon
    <2> QED
      BY <2>1, <2>2, <2>3
  <1> QED
    BY <1>7, <1>8

\* A byte is written while there is room, and the count stays the room there is.
LEMMA WriteByteStep ==
  ASSUME PInv, NEW p \in Procs, WriteByte(p)
  PROVE  /\ Put(sent) /\ sent' = (sent + 1) % Modulus /\ got' = got
         /\ \E place \in {"user", "write"}, l \in Locals : Settled(p, place, l)
  <1>1. /\ halted = "no" /\ current = p /\ at[p] = "write" /\ Inside(p)
        /\ io[p].left > 0 /\ io[p].done < io[p].want /\ write_byte(sent)
        /\ sent' = (sent + 1) % Modulus /\ got' = got
    BY DEF WriteByte, Writes, Runs, Inside, fileVars
  <1>2. /\ RInv /\ PType /\ Counted /\ io[p].left <= available_write
    BY <1>1 DEF PInv, Counted
  <1>3. /\ io[p] \in Locals /\ io \in [Procs -> Locals]
        /\ at = [at EXCEPT ![p] = at[p]]
    BY <1>2, Here, Zenon DEF PType
  <1>4. io[p].left \in Nat /\ io[p].done \in Nat /\ io[p].want \in Nat
    BY ONLY <1>3 DEF Locals
  <1>5. /\ available_read \in 0 .. N /\ available_write = N - available_read
        /\ N \in Nat /\ sent \in Byte
    BY <1>2, Available, RingAssumption, PipeAssumption DEF PInv, Numbers, N
  <1>6. Put(sent)
    <2>1. available_write > 0
      BY ONLY <1>1, <1>2, <1>4, <1>5
    <2> QED
      BY <1>1, <2>1 DEF Put
  <1>7. available_write' = available_write - 1
    <2>1. RInv' /\ available_read' = available_read + 1
      BY <1>2, <1>5, <1>6, PutStep
    <2>2. RInv' => available_write' = N - available_read'
      <3>1. RInv' => (available_write = N - available_read)'
        BY Available, PTL
      <3> QED
        BY <3>1 DEF N
    <2> QED
      BY ONLY <1>5, <2>1, <2>2
  <1>8. CASE io[p].done + 1 = io[p].want
    <2>1. WriteReturn(p)
      BY <1>8 DEF WriteByte
    <2> QED
      BY <1>1, <1>2, <1>6, <2>1, ReturnSettles, Zenon
  <1>9. CASE io[p].done + 1 # io[p].want
    <2> DEFINE l == [io[p] EXCEPT !.done = io[p].done + 1, !.left = io[p].left - 1]
    <2>1. io' = [io EXCEPT ![p].done = @ + 1, ![p].left = @ - 1] /\ UNCHANGED <<hartVars, at>>
      BY <1>9, Zenon DEF WriteByte
    <2>2. io[p].done + 1 \in Nat /\ io[p].left - 1 \in Nat
      BY ONLY <1>1, <1>4
    <2>3. l \in Locals /\ l.left = io[p].left - 1 /\ io' = [io EXCEPT ![p] = l]
      BY ONLY <1>3, <2>1, <2>2, p \in Procs DEF Locals
    <2>4. io[p].left - 1 <= available_write'
      BY ONLY <1>2, <1>4, <1>5, <1>7
    <2>5. at' = [at EXCEPT ![p] = "write"] /\ current' = current /\ satp' = satp
      BY <1>1, <1>3, <2>1, Zenon DEF hartVars
    <2> HIDE DEF l
    <2>6. Settled(p, "write", l)
      BY <1>1, <2>3, <2>4, <2>5 DEF Settled, Places, Inside
    <2> QED
      BY <1>1, <1>6, <2>3, <2>6, Zenon
  <1> QED
    BY <1>8, <1>9

-----------------------------------------------------------------------------
\* A step that moves no byte keeps the bytes in order.
LEMMA StillOrdered ==
  ASSUME RInv, Numbers, DeliveredInOrder, Still
  PROVE  RInv' /\ Numbers' /\ DeliveredInOrder'
  <1>1. arr' = arr /\ head' = head /\ tail' = tail /\ status' = status
        /\ sent' = sent /\ got' = got /\ available_read' = available_read
    BY StillOffers DEF Still, ringVars
  <1>2. RInv' /\ Numbers'
    BY <1>1 DEF RInv, RingTypeOK, StatusExact, Numbers
  <1>3. DeliveredInOrder'
    BY ONLY <1>1, DeliveredInOrder, Zenon DEF DeliveredInOrder
  <1> QED
    BY <1>2, <1>3

\* The child of a fork gets the next process id, which nobody has; it waits in
\* the ready queue and is in no call.
LEMMA ForkStep ==
  ASSUME PInv, NEW p \in Procs, Fork(p)
  PROVE  /\ Still /\ PType' /\ Counted' /\ Home'
         /\ \A q \in Procs : at[q] = "read" => at'[q] = "read"
  <1>1. /\ Still /\ halted = "no" /\ current = p /\ at[p] = "user" /\ next_pid < MaxProc
        /\ next_pid' = next_pid + 1 /\ at' = [at EXCEPT ![next_pid] = "user"]
        /\ io' = io /\ current' = current /\ satp' = satp /\ halted' = halted
    BY DEF Fork, Runs, Still, history
  <1>2. Procs' = Procs /\ Locals' = Locals /\ Places' = Places
    BY DEF Procs, Locals, Places, Files, Calls
  <1>3. /\ next_pid \in 1 .. MaxProc /\ MaxProc \in Nat \ {0}
        /\ at \in [Procs -> Places] /\ io \in [Procs -> Locals]
        /\ \A q \in Procs : q >= next_pid <=> at[q] = "unused"
    BY PipeAssumption DEF PInv, PType
  <1>4. next_pid \in Procs /\ next_pid + 1 \in 1 .. MaxProc
    BY ONLY <1>1, <1>3 DEF Procs
  <1>5. at[next_pid] = "unused"
    BY ONLY <1>3, <1>4
  <1>6. /\ at' \in [Procs -> Places] /\ at'[next_pid] = "user"
        /\ \A q \in Procs : q # next_pid => at'[q] = at[q]
    BY ONLY <1>1, <1>3, <1>4 DEF Places
  <1>7. PType'
    <2>1. \A q \in Procs : q >= next_pid + 1 <=> at'[q] = "unused"
      <3> TAKE q \in Procs
      <3>1. CASE q = next_pid
        BY ONLY <1>3, <1>6, <3>1
      <3>2. CASE q # next_pid
        <4>1. q \in Int
          BY ONLY q \in Procs DEF Procs
        <4>2. at'[q] = at[q] /\ (q >= next_pid <=> at[q] = "unused")
          BY ONLY <1>3, <1>6, <3>2, q \in Procs, Zenon
        <4> QED
          BY ONLY <1>3, <3>2, <4>1, <4>2
      <3> QED
        BY ONLY <3>1, <3>2
    <2> QED
      BY ONLY <1>1, <1>2, <1>3, <1>4, <1>6, <2>1 DEF PType
  <1>8. current # next_pid
    BY ONLY <1>1, <1>5
  <1>9. available_read' = available_read /\ available_write' = available_write
    BY <1>1, StillOffers
  <1>10. Counted'
    BY <1>1, <1>2, <1>5, <1>6, <1>9, Zenon DEF PInv, Counted
  <1>11. Home'
    BY <1>1, <1>2, <1>6, <1>8, Zenon DEF PInv, Home
  <1>12. \A q \in Procs : at[q] = "read" => at'[q] = "read"
    BY ONLY <1>5, <1>6
  <1> QED
    BY <1>1, <1>7, <1>10, <1>11, <1>12

\* the step of p leaves the place of every other process alone
Moves(p) == \E place, l : Settled(p, place, l)

\* the ways a process leaves Pipe::read
Leaves(p) ==
    \/ ReadEof(p) \/ SendEof(p)
    \/ Runs(p, "read") /\ io[p].done = io[p].want
    \/ ReadByte(p)

\* What each step does to the ring and to the process that takes it.
LEMMA StepForms ==
  ASSUME PInv, NEW p \in Procs, Kernel(p) \/ TimerTick(p) \/ User(p)
  PROVE  /\ \/ Still
            \/ ReadByte(p)
            \/ WriteByte(p)
         /\ \/ Fork(p)
            \/ Moves(p)
         /\ at[p] = "read" /\ at'[p] # "read" /\ ~Fork(p) => Leaves(p)
  <1>1. CASE ResumeUser(p) \/ ResumeRead(p) \/ ResumeWrite(p)
    <2>1. Still /\ Settled(p, at[p], io[p])
      BY <1>1, ResumeStep
    <2>2. at' = at
      BY <1>1, Zenon DEF ResumeUser, ResumeRead, ResumeWrite, Dispatch
    <2> QED
      BY <2>1, <2>2, Zenon DEF Moves
  <1>2. CASE TimerTick(p) \/ ReadSuspend(p) \/ WriteSuspend(p)
    <2>1. Still /\ Settled(p, at[p], io[p])
      BY <1>2, SuspendStep
    <2>2. at' = at
      BY <1>2, Zenon DEF TimerTick, ReadSuspend, WriteSuspend
    <2> QED
      BY <2>1, <2>2, Zenon DEF Moves
  <1>3. CASE ReadLoop(p) \/ WriteLoop(p)
    BY <1>3, LoopStep, Zenon DEF Moves
  <1>4. CASE ReadFault(p) \/ WriteFault(p) \/ WriteBorrow(p)
    BY <1>4, HaltStep, Zenon DEF Moves
  <1>5. CASE ReadEof(p) \/ ReadNothing(p) \/ SendToFile(p)
    <2>1. /\ Still /\ Inside(p) /\ ToUser(p)
          /\ at[p] = "read" => Leaves(p)
      BY <1>5 DEF ReadEof, ReadNothing, SendToFile, Runs, Still, Inside, history, fileVars, Leaves
    <2>2. Settled(p, "user", Idle)
      BY <2>1, ToUserSettles
    <2> QED
      BY <2>1, <2>2, Zenon DEF Moves
  <1>6. CASE SendEof(p)
    <2>1. Still /\ Inside(p) /\ TurnToWrite(p, io[p].done) /\ Leaves(p)
      BY <1>6 DEF SendEof, Runs, Still, Inside, history, fileVars, Leaves
    <2>2. io[p] \in Locals /\ PType /\ Counted
      BY Here, Zenon DEF PInv
    <2>3. io[p].done \in Nat
      BY ONLY <2>2 DEF Locals
    <2>4. \E l \in Locals : Settled(p, "write", l)
      BY <2>1, <2>2, <2>3, TurnSettles
    <2> QED
      BY <2>1, <2>4, Zenon DEF Moves
  <1>7. CASE WriteNothing(p)
    <2>1. Still /\ Inside(p) /\ at[p] = "write" /\ WriteReturn(p)
      BY <1>7 DEF WriteNothing, Writes, Runs, Still, Inside, history, fileVars
    <2>2. \E place \in {"user", "write"}, l \in Locals : Settled(p, place, l)
      BY <2>1, ReturnSettles DEF PInv
    <2> QED
      BY <2>1, <2>2 DEF Moves
  <1>8. CASE ReadByte(p)
    BY <1>8, ReadByteStep, Zenon DEF Moves, Leaves
  <1>9. CASE WriteByte(p)
    <2>1. at[p] = "write"
      BY <1>9 DEF WriteByte, Writes, Runs
    <2> QED
      BY <1>9, <2>1, WriteByteStep DEF Moves
  <1>10. CASE Fork(p)
    BY <1>10, ForkStep, Zenon
  <1>11. CASE SysExit(p) \/ \E table : Tables(p, table)
    <2>1. at[p] = "user"
      BY <1>11, Zenon DEF SysExit, Tables, Runs
    <2> QED
      BY <1>11, <2>1, TableStep DEF Moves
  <1>12. ASSUME NEW e \in Ends,
                \/ SysDup(p, e) \/ SysFcntl(p, e) \/ SysClose(p, e)
                \/ SysPipe(p)
                \/ \E over \in Ends : SysDup3(p, e, over)
         PROVE  \E table : Tables(p, table)
    BY <1>12, Zenon DEF SysDup, SysFcntl, SysClose, SysPipe, SysDup3
  <1>13. CASE \E e \in Ends :
                \/ \E len \in Lengths :
                    \/ SysRead(p, e, len) \/ SysWrite(p, e, len) \/ SendFromFile(p, e, len)
                    \/ \E iovcnt \in 1 .. MaxIov : SysWritev(p, e, len, iovcnt)
                \/ \E out \in Files : SendFromPipe(p, out, e)
    <2>1. PICK e \in Ends :
                \/ \E len \in Lengths :
                    \/ SysRead(p, e, len) \/ SysWrite(p, e, len) \/ SendFromFile(p, e, len)
                    \/ \E iovcnt \in 1 .. MaxIov : SysWritev(p, e, len, iovcnt)
                \/ \E out \in Files : SendFromPipe(p, out, e)
      BY <1>13, Zenon
    <2>2. /\ Still /\ at[p] = "user"
          /\ \E where \in {"read", "write"}, l \in Locals : Settled(p, where, l)
      BY <2>1, CallStep
    <2> QED
      BY <2>2 DEF Moves
  <1>14. CASE Kernel(p) \/ TimerTick(p)
    BY <1>1, <1>2, <1>3, <1>4, <1>5, <1>6, <1>7, <1>8, <1>9, <1>14, Zenon DEF Kernel
  <1>15. CASE User(p)
    <2>1. "r" \in Ends
      BY DEF Ends
    <2> QED
      BY <1>10, <1>11, <1>12, <1>13, <1>15, <2>1, Zenon DEF User
  <1> QED
    BY <1>14, <1>15

\* Every step of a process keeps the invariant.
LEMMA StepKeeps ==
  ASSUME PInv, NEW p \in Procs, Kernel(p) \/ TimerTick(p) \/ User(p)
  PROVE  PInv'
  <1>1. RInv /\ Numbers /\ DeliveredInOrder /\ PType /\ Counted
    BY DEF PInv
  <1>2. /\ Still \/ ReadByte(p) \/ WriteByte(p)
        /\ Fork(p) \/ Moves(p)
    BY StepForms, Zenon
  <1>3. RInv' /\ Numbers' /\ DeliveredInOrder'
    <2>1. CASE Still
      BY <1>1, <2>1, StillOrdered, Zenon
    <2>2. CASE ReadByte(p)
      BY <1>1, <2>2, ReadByteStep, GetOrdered, Zenon
    <2>3. CASE WriteByte(p)
      BY <1>1, <2>3, WriteByteStep, PutOrdered, Zenon
    <2> QED
      BY <1>2, <2>1, <2>2, <2>3, Zenon
  <1>4. PType' /\ Counted' /\ Home'
    <2>1. CASE Fork(p)
      BY <2>1, ForkStep, Zenon
    <2>2. CASE Moves(p)
      BY <1>1, <2>2, SettledKeeps, Zenon DEF Moves
    <2> QED
      BY <1>2, <2>1, <2>2, Zenon
  <1> QED
    BY <1>3, <1>4, Zenon DEF PInv

\* The pipe starts empty, with process 0 in user mode.
LEMMA InitKeeps == Init => PInv
  <1> SUFFICES ASSUME Init PROVE PInv
    OBVIOUS
  <1>1. RInv /\ available_read = 0
    BY RingAssumption DEF Init, RingInit, RInv, RingTypeOK, StatusExact, available_read
  <1>2. Numbers /\ sent = 0 /\ got = 0
    BY PipeAssumption, RingAssumption DEF Init, Numbers
  <1>3. DeliveredInOrder
    <2>1. Ordered
      BY ONLY <1>1, <1>2 DEF Ordered
    <2> QED
      BY <1>1, <1>2, <2>1, OrderedExact, Zenon
  <1>4. PType
    BY IdleTyped, PipeAssumption DEF Init, PType, Procs, Places
  <1>5. \A p \in Procs : io[p].left = 0
    BY IdleTyped DEF Init
  <1>6. Counted
    BY ONLY <1>5 DEF Counted
  <1>7. Home
    BY DEF Init, Home
  <1> QED
    BY <1>1, <1>2, <1>3, <1>4, <1>6, <1>7, Zenon DEF PInv

\* Nothing of it changes when nothing changes.
LEMMA StutterKeeps ==
  ASSUME PInv, UNCHANGED vars
  PROVE  PInv' /\ Still
  <1>1. Still /\ current' = current /\ satp' = satp /\ halted' = halted /\ next_pid' = next_pid
        /\ at' = at /\ io' = io
    BY DEF vars, hartVars, fileVars, history, Still
  <1>2. RInv' /\ Numbers' /\ DeliveredInOrder'
    BY <1>1, StillOrdered, Zenon DEF PInv
  <1>3. Procs' = Procs /\ Locals' = Locals /\ Places' = Places
    BY DEF Procs, Locals, Places, Files, Calls
  <1>4. PType'
    BY <1>1, <1>3, Zenon DEF PInv, PType
  <1>5. Counted'
    BY <1>1, <1>3, StillOffers, Zenon DEF PInv, Counted
  <1>6. Home'
    BY <1>1, <1>3, Zenon DEF PInv, Home
  <1> QED
    BY <1>1, <1>2, <1>4, <1>5, <1>6, Zenon DEF PInv

\* The pipe keeps its invariant.
LEMMA PipeInvariant == Spec => []PInv
  <1>1. PInv /\ [Next]_vars => PInv'
    BY StepKeeps, StutterKeeps, Zenon DEF Next, Halt
  <1> QED
    BY <1>1, InitKeeps, PTL DEF Spec

\* For every number of processes, every size of the ring and every length of a
\* call: the ring holds exactly the bytes written and not yet read, in the order
\* they were written, however the loops of Pipe::read and Pipe::write interleave.
THEOREM DeliveredInOrderAlways == Spec => []DeliveredInOrder
  <1>1. PInv => DeliveredInOrder
    BY DEF PInv
  <1> QED
    BY <1>1, PipeInvariant, PTL

\* The loops of Pipe::read and Pipe::write call read_byte only when there is a
\* byte and write_byte only when there is room, so the pipe is a bounded FIFO
\* queue to all processes together.
THEOREM PipeIsFifo == Spec => ImplementsFifo
  <1>1. Init => RingInit
    BY DEF Init
  <1>2. PInv /\ [Next]_vars => [RingNext]_ringVars
    <2> SUFFICES ASSUME PInv, [Next]_vars PROVE [RingNext]_ringVars
      OBVIOUS
    <2>1. CASE UNCHANGED vars
      BY <2>1 DEF vars
    <2>2. ASSUME NEW p \in Procs, Kernel(p) \/ TimerTick(p) \/ User(p)
          PROVE  [RingNext]_ringVars
      <3>1. Still \/ ReadByte(p) \/ WriteByte(p)
        BY <2>2, StepForms, Zenon
      <3>2. CASE Still
        BY <3>2 DEF Still
      <3>3. CASE ReadByte(p)
        BY <3>3, ReadByteStep, Zenon DEF RingNext
      <3>4. CASE WriteByte(p)
        <4>1. sent \in Byte
          BY PipeAssumption DEF PInv, Numbers
        <4> QED
          BY <3>4, <4>1, WriteByteStep, Zenon DEF RingNext
      <3> QED
        BY <3>1, <3>2, <3>3, <3>4
    <2> QED
      BY <2>1, <2>2, Zenon DEF Next, Halt
  <1>3. Spec => RingSpec
    BY <1>1, <1>2, PipeInvariant, PTL DEF Spec, RingSpec
  <1> QED
    BY <1>3, FifoRefinement, PTL

\* A byte that Pipe::read stores in a user buffer is stored in the space of the
\* reader, for every number of processes that ran while it was suspended.
THEOREM StoredAtHomeAlways == Spec => StoredAtHome
  <1>1. PInv /\ [Next]_vars => [got' # got => ~UserBuffer(current) \/ satp = current]_vars
    <2> SUFFICES ASSUME PInv, [Next]_vars, got' # got PROVE satp = current
      BY Zenon
    <2>1. ~Still /\ ~UNCHANGED vars
      BY StutterKeeps, Zenon DEF Still
    <2>2. PICK p \in Procs : Kernel(p) \/ TimerTick(p) \/ User(p)
      BY <2>1, Zenon DEF Next, Halt
    <2>3. ReadByte(p)
      BY <2>1, <2>2, StepForms, WriteByteStep, Zenon
    <2>4. current = p /\ at[p] = "read"
      BY <2>3, Zenon DEF ReadByte, Runs
    <2> QED
      BY <2>4 DEF PInv, Home
  <1> QED
    BY <1>1, PipeInvariant, PTL DEF Spec, StoredAtHome

\* Pipe::read returns fewer bytes than asked for only when the ring is empty and
\* no process can write to it any more, for every number of processes.
THEOREM ShortReadIsEofAlways == Spec => ShortReadIsEof
  <1> DEFINE Short(p) == at[p] = "read" /\ at'[p] # "read" /\ got' = got /\ io[p].done < io[p].want
  <1>1. ASSUME PInv, [Next]_vars, NEW q \in Procs, Short(q)
        PROVE  available_read = 0 /\ NoWriter
    <2>1. PICK p \in Procs : Kernel(p) \/ TimerTick(p) \/ User(p)
      BY <1>1, Zenon DEF Next, Halt, vars
    <2>2. ~Fork(p)
      BY <1>1, ForkStep, Zenon
    <2>3. Moves(p)
      BY <1>1, <2>1, <2>2, StepForms, Zenon
    <2>4. q = p
      <3>1. PICK place, l : Settled(p, place, l)
        BY <2>3, Zenon DEF Moves
      <3>2. at \in [Procs -> Places]
        BY <1>1 DEF PInv, PType
      <3> QED
        BY <1>1, <3>1, <3>2 DEF Settled
    <2>5. Leaves(p)
      BY <1>1, <2>1, <2>2, <2>4, StepForms, Zenon
    <2>6. ~ReadByte(p)
      <3>1. ReadByte(p) => got' # got
        BY <1>1, ReadByteStep, GetOrdered, Zenon DEF PInv
      <3> QED
        BY <1>1, <3>1, Zenon
    <2>7. io[p].done # io[p].want
      <3>1. io[p].done \in Nat /\ io[p].want \in Nat
        BY <1>1 DEF PInv, PType, Locals
      <3> QED
        BY ONLY <1>1, <2>4, <3>1
    <2>8. ReadEof(p) \/ SendEof(p)
      BY <2>5, <2>6, <2>7, Zenon DEF Leaves
    <2> QED
      BY <2>8, Zenon DEF ReadEof, SendEof, all_write_ends_closed, NoWriter
  <1>2. PInv /\ [Next]_vars =>
          [\A p \in Procs :
            (at[p] = "read" /\ at'[p] # "read" /\ got' = got /\ io[p].done < io[p].want)
                => /\ available_read = 0
                   /\ NoWriter]_vars
    BY <1>1, Zenon
  <1> QED
    BY <1>2, PipeInvariant, PTL DEF Spec, ShortReadIsEof
=============================================================================
