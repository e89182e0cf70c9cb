---------------------------- MODULE Block_proof -----------------------------
(***************************************************************************)
(* The block layer.  The cache, for any blocks, data, clients and size: it *)
(* is coherent and implements the disk its clients rely on.  write_offset  *)
(* of the virtio driver, for every size of the device, of its sectors and  *)
(* of the data.                                                            *)
(***************************************************************************)
EXTENDS BlockCache, VirtioBlk, SequenceTheorems, TLAPS

\* Coherent is inductive together with the types
Inv == TypeOK /\ Coherent

\* The definitions of the model for any queue and any device
Distinct(q) == \A i, j \in DOMAIN q : q[i].id = q[j].id => i = j
In(q, b) == \E i \in DOMAIN q : q[i].id = b
See(q, d, b) ==
    IF In(q, b) THEN q[CHOOSE i \in DOMAIN q : q[i].id = b].data ELSE d[b]

\* A function on 1 .. n is a sequence of length n
LEMMA FunctionSeq ==
    ASSUME NEW S, NEW n \in Nat, NEW f \in [1 .. n -> S]
    PROVE  f \in Seq(S) /\ Len(f) = n /\ DOMAIN f = 1 .. n
<1>1. f \in Seq(S)
  BY SeqDef
<1> QED BY <1>1, LenProperties

\* Taking entry i out of a queue (VecDeque::drain) keeps the others in order
LEMMA WithoutType ==
    ASSUME NEW q \in Seq(Entry), NEW i \in DOMAIN q
    PROVE  /\ Without(q, i) \in Seq(Entry)
           /\ Len(Without(q, i)) = Len(q) - 1
           /\ \A j \in 1 .. Len(q) - 1 :
                Without(q, i)[j] = IF j < i THEN q[j] ELSE q[j + 1]
<1>1. Len(q) \in Nat /\ DOMAIN q = 1 .. Len(q) /\ Len(q) - 1 \in Nat
  BY LenProperties
<1>2. ASSUME NEW j \in 1 .. Len(q) - 1
      PROVE  (IF j < i THEN q[j] ELSE q[j + 1]) \in Entry
  <2>1. j \in 1 .. Len(q) /\ j + 1 \in 1 .. Len(q)
    BY <1>1
  <2> QED BY <2>1, ElementOfSeq
<1>3. Without(q, i) \in [1 .. Len(q) - 1 -> Entry]
  BY <1>2 DEF Without
<1> QED BY <1>1, <1>3, FunctionSeq DEF Without

\* What a client sees of a cached block is the data of its only entry
LEMMA SeeEntry ==
    ASSUME NEW q, NEW d, Distinct(q), NEW i \in DOMAIN q
    PROVE  See(q, d, q[i].id) = q[i].data
<1>1. (CHOOSE k \in DOMAIN q : q[k].id = q[i].id) = i
  BY DEF Distinct
<1> QED BY <1>1, Zenon DEF See, In

\* Loading a block that is not cached (BlockCache::new and push_back) changes
\* nothing of what is seen
LEMMA LoadSame ==
    ASSUME NEW q \in Seq(Entry), NEW d, NEW e \in Entry, Distinct(q), ~In(q, e.id),
           e.data = d[e.id]
    PROVE  /\ Distinct(Append(q, e))
           /\ \A b \in Block : See(Append(q, e), d, b) = See(q, d, b)
           /\ \A b \in Block : In(Append(q, e), b) <=> (In(q, b) \/ b = e.id)
<1> DEFINE r == Append(q, e)
<1>1. /\ r \in Seq(Entry) /\ Len(r) = Len(q) + 1 /\ Len(q) \in Nat
      /\ \A i \in 1 .. Len(q) : r[i] = q[i]
      /\ r[Len(q) + 1] = e
  BY AppendProperties, LenProperties
<1>2. DOMAIN q = 1 .. Len(q) /\ DOMAIN r = 1 .. Len(q) + 1
  BY <1>1, LenProperties
<1> HIDE DEF r
<1>3. Distinct(r)
  BY <1>1, <1>2 DEF Distinct, In
<1>4. \A b \in Block : In(r, b) <=> (In(q, b) \/ b = e.id)
  BY <1>1, <1>2 DEF In
<1>5. ASSUME NEW b \in Block
      PROVE  See(r, d, b) = See(q, d, b)
  <2>1. CASE In(q, b)
    <3>1. PICK i \in DOMAIN q : q[i].id = b
      BY <2>1 DEF In
    <3>2. i \in DOMAIN r /\ r[i] = q[i]
      BY <1>1, <1>2
    <3>3. See(q, d, q[i].id) = q[i].data
      BY SeeEntry, Zenon
    <3>4. See(r, d, r[i].id) = r[i].data
      BY <1>3, <3>2, SeeEntry, Zenon
    <3> QED BY <3>1, <3>2, <3>3, <3>4
  <2>2. CASE ~In(q, b) /\ b = e.id
    <3>1. Len(q) + 1 \in DOMAIN r
      BY <1>1, <1>2
    <3>2. See(r, d, r[Len(q) + 1].id) = r[Len(q) + 1].data
      BY <1>3, <3>1, SeeEntry, Zenon
    <3> QED BY <1>1, <2>2, <3>2 DEF See
  <2>3. CASE ~In(q, b) /\ b # e.id
    BY <1>4, <2>3 DEF See
  <2> QED BY <2>1, <2>2, <2>3
<1> QED BY <1>3, <1>4, <1>5 DEF r

\* Dropping an entry (BlockCache::drop) changes nothing of what is seen, when
\* the device has its data
LEMMA DropSame ==
    ASSUME NEW q \in Seq(Entry), NEW i \in DOMAIN q, NEW d, NEW d2, Distinct(q),
           \A b \in Block : b # q[i].id => d2[b] = d[b],
           d2[q[i].id] = q[i].data
    PROVE  /\ Distinct(Without(q, i))
           /\ \A b \in Block : See(Without(q, i), d2, b) = See(q, d, b)
           /\ \A b \in Block : In(Without(q, i), b) <=> (In(q, b) /\ b # q[i].id)
<1> DEFINE r == Without(q, i)
<1>1. /\ r \in Seq(Entry) /\ Len(r) = Len(q) - 1 /\ Len(q) \in Nat
      /\ \A j \in 1 .. Len(q) - 1 : r[j] = IF j < i THEN q[j] ELSE q[j + 1]
  BY WithoutType, LenProperties
<1>2. DOMAIN q = 1 .. Len(q) /\ DOMAIN r = 1 .. Len(q) - 1 /\ i \in 1 .. Len(q)
  BY <1>1, LenProperties
<1> HIDE DEF r
<1>3. Distinct(r)
  <2> SUFFICES ASSUME NEW j \in DOMAIN r, NEW k \in DOMAIN r, r[j].id = r[k].id
               PROVE  j = k
    BY DEF Distinct
  <2> DEFINE old(x) == IF x < i THEN x ELSE x + 1
  <2>1. old(j) \in DOMAIN q /\ old(k) \in DOMAIN q /\ r[j] = q[old(j)] /\ r[k] = q[old(k)]
    BY <1>1, <1>2
  <2>2. old(j) = old(k)
    BY <2>1 DEF Distinct
  <2> QED BY <1>1, <1>2, <2>2
<1>4. \A k \in DOMAIN q : k # i => \E j \in DOMAIN r : r[j] = q[k]
  <2> TAKE k \in DOMAIN q
  <2> HAVE k # i
  <2>1. CASE k < i
    <3>1. k \in DOMAIN r /\ r[k] = q[k]
      BY <1>1, <1>2, <2>1
    <3> QED BY <3>1
  <2>2. CASE k > i
    <3>1. k - 1 \in DOMAIN r /\ r[k - 1] = q[k]
      BY <1>1, <1>2, <2>2
    <3> QED BY <3>1
  <2> QED BY <1>1, <1>2, <2>1, <2>2
<1>5. \A j \in DOMAIN r : \E k \in DOMAIN q : k # i /\ r[j] = q[k]
  <2> TAKE j \in DOMAIN r
  <2>1. CASE j < i
    <3>1. j \in DOMAIN q /\ r[j] = q[j] /\ j # i
      BY <1>1, <1>2, <2>1
    <3> QED BY <3>1
  <2>2. CASE ~(j < i)
    <3>1. j + 1 \in DOMAIN q /\ r[j] = q[j + 1] /\ j + 1 # i
      BY <1>1, <1>2, <2>2
    <3> QED BY <3>1
  <2> QED BY <2>1, <2>2
<1>6. \A b \in Block : In(r, b) <=> (In(q, b) /\ b # q[i].id)
  <2> TAKE b \in Block
  <2>1. ASSUME In(r, b) PROVE In(q, b) /\ b # q[i].id
    <3>1. PICK j \in DOMAIN r : r[j].id = b
      BY <2>1 DEF In
    <3>2. PICK k \in DOMAIN q : k # i /\ r[j] = q[k]
      BY <1>5
    <3> QED BY <3>1, <3>2 DEF In, Distinct
  <2>2. ASSUME In(q, b), b # q[i].id PROVE In(r, b)
    <3>1. PICK k \in DOMAIN q : q[k].id = b
      BY <2>2 DEF In
    <3>2. PICK j \in DOMAIN r : r[j] = q[k]
      BY <1>4, <2>2, <3>1
    <3> QED BY <3>1, <3>2 DEF In
  <2> QED BY <2>1, <2>2
<1>7. ASSUME NEW b \in Block
      PROVE  See(r, d2, b) = See(q, d, b)
  <2>1. CASE In(r, b)
    <3>1. PICK j \in DOMAIN r : r[j].id = b
      BY <2>1 DEF In
    <3>2. PICK k \in DOMAIN q : r[j] = q[k]
      BY <1>5
    <3>3. See(q, d, q[k].id) = q[k].data
      BY SeeEntry, Zenon
    <3>4. See(r, d2, r[j].id) = r[j].data
      BY <1>3, SeeEntry, Zenon
    <3> QED BY <3>1, <3>2, <3>3, <3>4
  <2>2. CASE ~In(r, b) /\ b = q[i].id
    <3>1. See(q, d, q[i].id) = q[i].data
      BY SeeEntry, Zenon
    <3> QED BY <2>2, <3>1 DEF See
  <2>3. CASE ~In(r, b) /\ b # q[i].id
    BY <1>6, <2>3 DEF See
  <2> QED BY <2>1, <2>2, <2>3
<1> QED BY <1>3, <1>6, <1>7 DEF r

\* Changing entries in place (BlockCache::modify, sync): the same blocks are
\* cached
LEMMA SameIds ==
    ASSUME NEW q \in Seq(Entry), NEW r \in Seq(Entry), Distinct(q),
           DOMAIN r = DOMAIN q, \A i \in DOMAIN q : r[i].id = q[i].id
    PROVE  Distinct(r) /\ \A b \in Block : In(r, b) <=> In(q, b)
BY DEF Distinct, In

\* Coherent and what is seen, in terms of any queue and any device
LEMMA Restated ==
    /\ Coherent <=> /\ Distinct(queue)
                    /\ \A c \in Client, b \in Block : <<c, b>> \in held => In(queue, b)
                    /\ \A i \in DOMAIN queue :
                        ~queue[i].modified => queue[i].data = disk[queue[i].id]
    /\ \A b : Cached(b) <=> In(queue, b)
    /\ \A b : Visible(b) = See(queue, disk, b)
BY DEF Coherent, Distinct, In, Cached, Visible, See

\* The same in the next state
LEMMA RestatedNext ==
    /\ Coherent' <=> /\ Distinct(queue')
                     /\ \A c \in Client, b \in Block : <<c, b>> \in held' => In(queue', b)
                     /\ \A i \in DOMAIN queue' :
                         ~queue'[i].modified => queue'[i].data = disk'[queue'[i].id]
    /\ \A b : Visible(b)' = See(queue', disk', b)
BY DEF Coherent, Distinct, In, Cached, Visible, See

\* The initial state has the types and is coherent
LEMMA InvInit == Init => Inv
<1> SUFFICES ASSUME Init PROVE Inv
  OBVIOUS
<1>1. TypeOK
  <2>1. queue \in Seq(Entry) /\ Len(queue) <= BLOCK_CACHE_SIZE
    BY CacheAssumption, EmptySeq DEF Init
  <2>2. last \in Operation /\ held \subseteq Client \X Block /\ disk \in [Block -> Data]
    BY DEF Init, Operation
  <2>3. halted \in BOOLEAN
    BY Zenon DEF Init
  <2> QED BY <2>1, <2>2, <2>3, Zenon DEF TypeOK
<1>2. Coherent
  BY DEF Init, Coherent
<1> QED BY <1>1, <1>2 DEF Inv

\* The blocks the clients see
Seen == [b \in Block |-> Visible(b)]

\* An entry loaded from the device is an entry
LEMMA LoadType ==
    ASSUME Inv, NEW b \in Block
    PROVE  Load(b) \in Entry /\ Load(b).id = b /\ Load(b).data = disk[b] /\ ~Load(b).modified
BY DEF Inv, TypeOK, Load, Entry

\* get_block_cache of a block that is not cached, with room in the queue
LEMMA MissStep ==
    ASSUME Inv, NEW c \in Client, NEW b \in Block, GetMiss(c, b)
    PROVE  Inv' /\ Seen' = Seen
<1> DEFINE e == Load(b)
<1>1. /\ queue \in Seq(Entry) /\ Len(queue) \in Nat /\ Len(queue) <= BLOCK_CACHE_SIZE
      /\ Distinct(queue) /\ ~In(queue, b)
      /\ DOMAIN queue = 1 .. Len(queue)
  BY Restated, LenProperties DEF Inv, TypeOK, GetMiss
<1>2. e \in Entry /\ e.id = b /\ e.data = disk[e.id] /\ ~e.modified
  BY LoadType
<1>3. queue' = Append(queue, e) /\ disk' = disk /\ held' = held \cup {<<c, b>>}
      /\ last' = last /\ halted' = halted /\ Len(queue) # BLOCK_CACHE_SIZE
  BY DEF GetMiss
<1> HIDE DEF e
<1>4. /\ Distinct(queue')
      /\ \A x \in Block : See(queue', disk', x) = See(queue, disk, x)
      /\ \A x \in Block : In(queue', x) <=> (In(queue, x) \/ x = b)
  BY <1>1, <1>2, <1>3, LoadSame, Zenon
<1>5. /\ queue' \in Seq(Entry) /\ Len(queue') = Len(queue) + 1
      /\ \A i \in 1 .. Len(queue) : queue'[i] = queue[i]
      /\ queue'[Len(queue) + 1] = e
      /\ DOMAIN queue' = 1 .. Len(queue) + 1
  BY <1>1, <1>2, <1>3, AppendProperties, LenProperties
<1>6. TypeOK'
  <2>1. Len(queue') <= BLOCK_CACHE_SIZE
    <3>1. Len(queue) # BLOCK_CACHE_SIZE /\ Len(queue') = Len(queue) + 1
      BY <1>3, <1>5
    <3>2. Len(queue) \in Nat /\ Len(queue) <= BLOCK_CACHE_SIZE
      BY <1>1
    <3> QED BY ONLY <3>1, <3>2, CacheAssumption
  <2>2. held' \subseteq Client \X Block
    BY <1>3 DEF Inv, TypeOK
  <2> QED BY <1>3, <1>5, <2>1, <2>2, Zenon DEF Inv, TypeOK
<1>7. \A i \in DOMAIN queue' : ~queue'[i].modified => queue'[i].data = disk'[queue'[i].id]
  BY <1>1, <1>2, <1>3, <1>5, Restated DEF Inv
<1>8. \A x \in Client, y \in Block : <<x, y>> \in held' => In(queue', y)
  BY <1>3, <1>4, Restated DEF Inv
<1>9. Coherent'
  BY <1>4, <1>7, <1>8, RestatedNext
<1>10. Seen' = Seen
  BY <1>4, Restated, RestatedNext DEF Seen
<1> QED BY <1>6, <1>9, <1>10 DEF Inv

\* What the device holds after the write-back of an entry
LEMMA SyncedIs ==
    ASSUME Inv, NEW i \in DOMAIN queue
    PROVE  /\ Synced(queue[i]) \in [Block -> Data]
           /\ \A b \in Block : b # queue[i].id => Synced(queue[i])[b] = disk[b]
           /\ Synced(queue[i])[queue[i].id] = queue[i].data
           /\ queue[i].id \in Block
<1>1. queue[i] \in Entry
  BY ElementOfSeq, LenProperties DEF Inv, TypeOK
<1>2. CASE queue[i].modified
  BY <1>1, <1>2 DEF Inv, TypeOK, Entry, Synced
<1>3. CASE ~queue[i].modified
  BY <1>1, <1>3 DEF Inv, TypeOK, Entry, Synced, Coherent
<1> QED BY <1>2, <1>3

\* get_block_cache of a block that is not cached, when the queue is full
LEMMA EvictStep ==
    ASSUME Inv, NEW c \in Client, NEW b \in Block, NEW i \in DOMAIN queue,
           GetEvict(c, b, i)
    PROVE  /\ Inv' /\ Seen' = Seen
           /\ disk' = [disk EXCEPT ![queue[i].id] = Seen[queue[i].id]]
<1> DEFINE e == Load(b)  q == Without(queue, i)
<1>1. /\ queue \in Seq(Entry) /\ Len(queue) \in Nat /\ Len(queue) = BLOCK_CACHE_SIZE
      /\ Distinct(queue) /\ ~In(queue, b) /\ Unheld(queue[i].id)
      /\ DOMAIN queue = 1 .. Len(queue)
  BY Restated, LenProperties DEF Inv, TypeOK, GetEvict
<1>2. /\ disk' \in [Block -> Data]
      /\ \A x \in Block : x # queue[i].id => disk'[x] = disk[x]
      /\ disk'[queue[i].id] = queue[i].data
      /\ queue[i].id \in Block
  BY SyncedIs DEF GetEvict
<1>3. /\ queue' = Append(q, e) /\ held' = held \cup {<<c, b>>}
      /\ last' = last /\ halted' = halted
  BY DEF GetEvict
<1>4. b # queue[i].id
  BY <1>1 DEF In
<1>5. e \in Entry /\ e.id = b /\ e.data = disk'[e.id] /\ ~e.modified
  BY <1>2, <1>4, LoadType
<1>6. /\ q \in Seq(Entry) /\ Len(q) = Len(queue) - 1 /\ DOMAIN q = 1 .. Len(queue) - 1
      /\ \A j \in 1 .. Len(queue) - 1 : q[j] = IF j < i THEN queue[j] ELSE queue[j + 1]
  BY <1>1, WithoutType, LenProperties, Zenon
<1>7. /\ Distinct(q)
      /\ \A x \in Block : See(q, disk', x) = See(queue, disk, x)
      /\ \A x \in Block : In(q, x) <=> (In(queue, x) /\ x # queue[i].id)
  <2>1. /\ queue \in Seq(Entry) /\ Distinct(queue)
        /\ \A x \in Block : x # queue[i].id => disk'[x] = disk[x]
        /\ disk'[queue[i].id] = queue[i].data
    BY <1>1, <1>2
  <2> QED BY ONLY <2>1, i \in DOMAIN queue, DropSame DEF q
<1> HIDE DEF e, q
<1>8. /\ Distinct(queue')
      /\ \A x \in Block : See(queue', disk', x) = See(q, disk', x)
      /\ \A x \in Block : In(queue', x) <=> (In(q, x) \/ x = b)
  <2>1. q \in Seq(Entry) /\ e \in Entry /\ Distinct(q) /\ ~In(q, e.id) /\ e.data = disk'[e.id]
    BY <1>1, <1>5, <1>6, <1>7
  <2>2. /\ Distinct(Append(q, e))
        /\ \A x \in Block : See(Append(q, e), disk', x) = See(q, disk', x)
        /\ \A x \in Block : In(Append(q, e), x) <=> (In(q, x) \/ x = e.id)
    BY <2>1, LoadSame
  <2> QED BY <1>3, <1>5, <2>2
<1>9. /\ queue' \in Seq(Entry) /\ Len(queue') = Len(q) + 1
      /\ \A j \in 1 .. Len(q) : queue'[j] = q[j]
      /\ queue'[Len(q) + 1] = e
      /\ DOMAIN queue' = 1 .. Len(q) + 1
  BY <1>3, <1>5, <1>6, AppendProperties, LenProperties
<1>10. TypeOK'
  <2>1. Len(queue') <= BLOCK_CACHE_SIZE
    BY <1>1, <1>6, <1>9, CacheAssumption
  <2>2. held' \subseteq Client \X Block
    BY <1>3 DEF Inv, TypeOK
  <2> QED BY <1>2, <1>3, <1>9, <2>1, <2>2, Zenon DEF Inv, TypeOK
<1>11. \A j \in DOMAIN queue' : ~queue'[j].modified => queue'[j].data = disk'[queue'[j].id]
  <2>1. ASSUME NEW k \in DOMAIN queue, k # i, ~queue[k].modified
        PROVE  queue[k].data = disk'[queue[k].id]
    <3>1. queue[k].data = disk[queue[k].id] /\ queue[k].id # queue[i].id
      BY <1>1, <2>1, Restated DEF Inv, Distinct
    <3>2. queue[k] \in Entry
      BY <1>1, ElementOfSeq
    <3> QED BY <1>2, <3>1, <3>2 DEF Entry
  <2>2. ASSUME NEW j \in 1 .. Len(q), ~q[j].modified
        PROVE  q[j].data = disk'[q[j].id]
    <3>1. CASE j < i
      <4>1. j \in DOMAIN queue /\ j # i /\ q[j] = queue[j]
        BY <1>1, <1>6, <3>1
      <4> QED BY <2>1, <2>2, <4>1
    <3>2. CASE ~(j < i)
      <4>1. j + 1 \in DOMAIN queue /\ j + 1 # i /\ q[j] = queue[j + 1]
        BY <1>1, <1>6, <3>2
      <4> QED BY <2>1, <2>2, <4>1
    <3> QED BY <3>1, <3>2
  <2>3. \A j \in DOMAIN queue' : j \in 1 .. Len(q) \/ j = Len(q) + 1
    BY <1>1, <1>6, <1>9
  <2> QED BY <1>5, <1>9, <2>2, <2>3
<1>12. \A x \in Client, y \in Block : <<x, y>> \in held' => In(queue', y)
  BY <1>1, <1>3, <1>7, <1>8, Restated DEF Inv, Unheld
<1>13. Coherent'
  BY <1>8, <1>11, <1>12, RestatedNext
<1>14. Seen' = Seen
  BY <1>7, <1>8, Restated, RestatedNext DEF Seen
<1>15. Seen[queue[i].id] = queue[i].data
  BY <1>1, <1>2, SeeEntry, Restated, Zenon DEF Seen
<1>16. disk' = [disk EXCEPT ![queue[i].id] = Seen[queue[i].id]]
  <2>1. disk \in [Block -> Data]
    BY DEF Inv, TypeOK
  <2> QED BY <1>2, <1>15, <2>1
<1> QED BY <1>10, <1>13, <1>14, <1>16 DEF Inv

\* BlockCache::modify through a reference
LEMMA ModifyStep ==
    ASSUME Inv, NEW c \in Client, NEW i \in DOMAIN queue, NEW d \in Data,
           Modify(c, i, d)
    PROVE  /\ Inv' /\ queue[i].id \in Block
           /\ Seen' = [Seen EXCEPT ![queue[i].id] = d]
<1>1. /\ queue \in Seq(Entry) /\ DOMAIN queue = 1 .. Len(queue)
      /\ Len(queue) <= BLOCK_CACHE_SIZE /\ Distinct(queue)
  BY Restated, LenProperties DEF Inv, TypeOK
<1>2. \A j \in DOMAIN queue : queue[j] \in Entry
  BY <1>1, ElementOfSeq
<1>3. queue[i].id \in Block
  BY <1>2 DEF Entry
<1> DEFINE e == [id |-> queue[i].id, data |-> d, modified |-> TRUE]
<1>4. e \in Entry /\ e.id = queue[i].id /\ e.data = d /\ e.modified
  BY <1>3 DEF Entry
<1>5. /\ queue' = [queue EXCEPT ![i] = e]
      /\ disk' = disk /\ held' = held /\ last' = <<"write", queue[i].id, d>>
      /\ halted' = halted
  BY DEF Modify
<1> HIDE DEF e
<1>6. /\ queue' \in Seq(Entry) /\ Len(queue') = Len(queue) /\ DOMAIN queue' = DOMAIN queue
      /\ queue'[i] = e
      /\ \A j \in DOMAIN queue : j # i => queue'[j] = queue[j]
  BY <1>1, <1>4, <1>5, ExceptSeq, LenProperties
<1>7. Distinct(queue') /\ \A b \in Block : In(queue', b) <=> In(queue, b)
  <2>1. \A j \in DOMAIN queue : queue'[j].id = queue[j].id
    BY <1>4, <1>6
  <2> QED BY <1>1, <1>6, <2>1, SameIds
<1>8. TypeOK'
  <2>1. last' \in Operation
    BY <1>3, <1>5 DEF Operation
  <2> QED BY <1>1, <1>5, <1>6, <2>1, Zenon DEF Inv, TypeOK
<1>9. Coherent'
  <2>1. \A j \in DOMAIN queue' : ~queue'[j].modified => queue'[j].data = disk'[queue'[j].id]
    BY <1>4, <1>5, <1>6, Restated DEF Inv
  <2>2. \A x \in Client, y \in Block : <<x, y>> \in held' => In(queue', y)
    BY <1>5, <1>7, Restated, Zenon DEF Inv
  <2> QED BY <1>7, <2>1, <2>2, RestatedNext
<1>10. ASSUME NEW b \in Block
       PROVE  See(queue', disk', b) = IF b = queue[i].id THEN d ELSE See(queue, disk, b)
  <2>1. CASE ~In(queue, b)
    BY <1>5, <1>7, <2>1 DEF See, In
  <2>2. CASE In(queue, b)
    <3>1. PICK j \in DOMAIN queue : queue[j].id = b
      BY <2>2 DEF In
    <3>2. See(queue, disk, queue[j].id) = queue[j].data
      BY <1>1, SeeEntry
    <3>3. See(queue', disk', queue'[j].id) = queue'[j].data
      BY <1>6, <1>7, SeeEntry, Zenon
    <3>4. CASE j = i
      BY <1>4, <1>6, <3>1, <3>3, <3>4
    <3>5. CASE j # i
      BY <1>1, <1>6, <3>1, <3>2, <3>3, <3>5 DEF Distinct
    <3> QED BY <3>4, <3>5
  <2> QED BY <2>1, <2>2
<1>11. Seen' = [Seen EXCEPT ![queue[i].id] = d]
  BY <1>3, <1>10, Restated, RestatedNext, Zenon DEF Seen
<1> QED BY <1>3, <1>8, <1>9, <1>11 DEF Inv

\* block_cache_sync_all
LEMMA SyncStep ==
    ASSUME Inv, SyncAll
    PROVE  Inv' /\ Seen' = Seen /\ disk' = Seen
<1>1. /\ queue \in Seq(Entry) /\ DOMAIN queue = 1 .. Len(queue) /\ Len(queue) \in Nat
      /\ Len(queue) <= BLOCK_CACHE_SIZE /\ Distinct(queue) /\ disk \in [Block -> Data]
  BY Restated, LenProperties DEF Inv, TypeOK
<1>2. \A j \in DOMAIN queue : queue[j] \in Entry
  BY <1>1, ElementOfSeq
<1>3. /\ queue' = [i \in DOMAIN queue |->
                    [id |-> queue[i].id, data |-> queue[i].data, modified |-> FALSE]]
      /\ held' = held /\ last' = last /\ halted' = halted
  BY DEF SyncAll
<1>4. /\ queue' \in Seq(Entry) /\ Len(queue') = Len(queue) /\ DOMAIN queue' = DOMAIN queue
      /\ \A j \in DOMAIN queue : queue'[j].id = queue[j].id /\ queue'[j].data = queue[j].data
  <2>1. queue' \in [1 .. Len(queue) -> Entry]
    BY <1>1, <1>2, <1>3 DEF Entry
  <2>2. queue' \in Seq(Entry) /\ Len(queue') = Len(queue) /\ DOMAIN queue' = 1 .. Len(queue)
    BY <1>1, <2>1, FunctionSeq
  <2> QED BY <1>1, <1>3, <2>2
<1>5. Distinct(queue') /\ \A b \in Block : In(queue', b) <=> In(queue, b)
  BY <1>1, <1>4, SameIds
<1>6. ASSUME NEW b \in Block
      PROVE  disk'[b] = See(queue, disk, b)
  <2>1. disk'[b] = IF \E i \in DOMAIN queue : queue[i].id = b /\ queue[i].modified
                   THEN queue[CHOOSE i \in DOMAIN queue : queue[i].id = b].data
                   ELSE disk[b]
    BY DEF SyncAll
  <2>2. CASE \E i \in DOMAIN queue : queue[i].id = b /\ queue[i].modified
    BY <2>1, <2>2 DEF See, In
  <2>3. CASE ~In(queue, b)
    BY <2>1, <2>3 DEF See, In
  <2>4. CASE In(queue, b) /\ ~\E i \in DOMAIN queue : queue[i].id = b /\ queue[i].modified
    <3>1. PICK j \in DOMAIN queue : queue[j].id = b
      BY <2>4 DEF In
    <3>2. See(queue, disk, queue[j].id) = queue[j].data
      BY <1>1, SeeEntry, Zenon
    <3>3. queue[j].data = disk[queue[j].id]
      BY <2>4, <3>1, Restated DEF Inv
    <3> QED BY <2>1, <2>4, <3>1, <3>2, <3>3
  <2> QED BY <2>2, <2>3, <2>4
<1>7. disk' = Seen
  BY <1>6, Restated DEF Seen, SyncAll
<1>8. \A j \in DOMAIN queue : queue'[j].data = disk'[queue'[j].id]
  <2> TAKE j \in DOMAIN queue
  <2>1. queue[j].id \in Block
    BY <1>2 DEF Entry
  <2>2. See(queue, disk, queue[j].id) = queue[j].data
    BY <1>1, SeeEntry, Zenon
  <2> QED BY <1>4, <1>6, <2>1, <2>2
<1>9. disk' \in [Block -> Data]
  <2>1. ASSUME NEW b \in Block PROVE See(queue, disk, b) \in Data
    <3>1. CASE ~In(queue, b)
      BY <1>1, <3>1 DEF See
    <3>2. CASE In(queue, b)
      <4>1. PICK j \in DOMAIN queue : queue[j].id = b
        BY <3>2 DEF In
      <4>2. See(queue, disk, queue[j].id) = queue[j].data
        BY <1>1, SeeEntry, Zenon
      <4> QED BY <1>2, <4>1, <4>2 DEF Entry
    <3> QED BY <3>1, <3>2
  <2> QED BY <1>6, <2>1 DEF SyncAll
<1>10. TypeOK'
  BY <1>1, <1>3, <1>4, <1>9, Zenon DEF Inv, TypeOK
<1>11. Coherent'
  <2>1. \A x \in Client, y \in Block : <<x, y>> \in held' => In(queue', y)
    BY <1>3, <1>5, Restated DEF Inv
  <2> QED BY <1>4, <1>5, <1>8, <2>1, RestatedNext
<1>12. ASSUME NEW b \in Block
       PROVE  See(queue', disk', b) = See(queue, disk, b)
  <2>1. CASE ~In(queue, b)
    BY <1>5, <1>6, <2>1 DEF See
  <2>2. CASE In(queue, b)
    <3>1. PICK j \in DOMAIN queue : queue[j].id = b
      BY <2>2 DEF In
    <3>2. See(queue, disk, queue[j].id) = queue[j].data
      BY <1>1, SeeEntry, Zenon
    <3>3. See(queue', disk', queue'[j].id) = queue'[j].data
      <4>1. queue' \in Seq(Entry) /\ j \in DOMAIN queue' /\ Distinct(queue')
        BY <1>4, <1>5
      <4> QED BY ONLY <4>1, SeeEntry, Zenon
    <3> QED BY <1>4, <3>1, <3>2, <3>3
  <2> QED BY <2>1, <2>2
<1>13. Seen' = Seen
  BY <1>12, Restated, RestatedNext DEF Seen
<1> QED BY <1>7, <1>10, <1>11, <1>13 DEF Inv

\* A step that leaves the queue and the device alone, and the references to
\* cached blocks
LEMMA QuietStep ==
    ASSUME Inv, UNCHANGED <<disk, queue>>, held' \subseteq Client \X Block,
           \A c \in Client, b \in Block : <<c, b>> \in held' => In(queue, b),
           last' \in Operation, halted' \in BOOLEAN
    PROVE  Inv' /\ Seen' = Seen
<1>1. TypeOK'
  BY Zenon DEF Inv, TypeOK
<1>2. Coherent'
  BY Restated, RestatedNext DEF Inv
<1>3. Seen' = Seen
  BY Restated, RestatedNext DEF Seen
<1> QED BY <1>1, <1>2, <1>3 DEF Inv

\* Every step keeps the invariant and is a step of the disk or changes nothing
\* the clients see
LEMMA Step ==
    ASSUME Inv, [Next]_vars
    PROVE  Inv' /\ [D!Next]_(D!vars)
<1> DEFINE Quiet == Seen' = Seen /\ disk' = disk /\ last' = last
<1>1. ASSUME Quiet PROVE [D!Next]_(D!vars)
  BY <1>1 DEF D!vars, Seen
<1>2. /\ last \in Operation /\ held \subseteq Client \X Block /\ halted \in BOOLEAN
      /\ queue \in Seq(Entry) /\ disk \in [Block -> Data]
      /\ \A c \in Client, b \in Block : <<c, b>> \in held => In(queue, b)
  BY Restated, Zenon DEF Inv, TypeOK
<1>3. ASSUME NEW c \in Client, NEW b \in Block, GetHit(c, b)
      PROVE  Inv' /\ [D!Next]_(D!vars)
  <2>1. held' = held \cup {<<c, b>>} /\ disk' = disk /\ queue' = queue
        /\ In(queue, b) /\ last' = last
    BY <1>3, Restated DEF GetHit
  <2>2. halted' \in BOOLEAN
    BY <1>2, <1>3, Zenon DEF GetHit
  <2>3. held' \subseteq Client \X Block
        /\ \A x \in Client, y \in Block : <<x, y>> \in held' => In(queue, y)
    BY <1>2, <2>1
  <2>4. Inv' /\ Seen' = Seen
    BY <1>2, <2>1, <2>2, <2>3, QuietStep
  <2> QED BY <1>1, <2>1, <2>4
<1>4. ASSUME NEW c \in Client, NEW b \in Block, GetMiss(c, b)
      PROVE  Inv' /\ [D!Next]_(D!vars)
  <2>1. Inv' /\ Seen' = Seen
    BY <1>4, MissStep
  <2> QED BY <1>1, <1>4, <2>1 DEF GetMiss
<1>5. ASSUME NEW c \in Client, NEW b \in Block, NEW i \in DOMAIN queue, GetEvict(c, b, i)
      PROVE  Inv' /\ [D!Next]_(D!vars)
  <2>1. /\ Inv' /\ Seen' = Seen
        /\ disk' = [disk EXCEPT ![queue[i].id] = Seen[queue[i].id]]
    BY <1>5, EvictStep
  <2>2. queue[i].id \in Block /\ last' = last
    BY <1>5, SyncedIs DEF GetEvict
  <2>3. D!Persist(queue[i].id)
    BY <2>1, <2>2 DEF D!Persist, Seen
  <2> QED BY <2>1, <2>2, <2>3 DEF D!Next
<1>6. ASSUME NEW c \in Client, NEW b \in Block, Release(c, b)
      PROVE  Inv' /\ [D!Next]_(D!vars)
  <2>1. held' \subseteq held /\ disk' = disk /\ queue' = queue /\ last' = last
    BY <1>6 DEF Release
  <2>2. halted' \in BOOLEAN
    BY <1>2, <1>6, Zenon DEF Release
  <2>3. Inv' /\ Seen' = Seen
    BY <1>2, <2>1, <2>2, QuietStep
  <2> QED BY <1>1, <2>1, <2>3
<1>7. ASSUME NEW b \in Block, RunOut(b)
      PROVE  Inv' /\ [D!Next]_(D!vars)
  <2>1. held' = held /\ disk' = disk /\ queue' = queue /\ last' = last
    BY <1>7 DEF RunOut
  <2>2. halted' \in BOOLEAN
    BY <1>7, Zenon DEF RunOut
  <2>3. Inv' /\ Seen' = Seen
    BY <1>2, <2>1, <2>2, QuietStep
  <2> QED BY <1>1, <2>1, <2>3
<1>8. ASSUME NEW c \in Client, NEW i \in DOMAIN queue, ReadBlock(c, i)
      PROVE  Inv' /\ [D!Next]_(D!vars)
  <2>1. /\ held' = held /\ disk' = disk /\ queue' = queue
        /\ last' = <<"read", queue[i].id, queue[i].data>>
    BY <1>8 DEF ReadBlock
  <2>2. halted' \in BOOLEAN
    BY <1>2, <1>8, Zenon DEF ReadBlock
  <2>3. queue[i] \in Entry
    BY <1>2, ElementOfSeq, LenProperties
  <2>4. last' \in Operation /\ queue[i].id \in Block
    BY <1>2, <2>1, <2>3 DEF Entry, Operation
  <2>5. Inv' /\ Seen' = Seen
    BY <1>2, <2>1, <2>2, <2>4, QuietStep
  <2>6. Seen[queue[i].id] = queue[i].data
    BY <2>4, SeeEntry, Restated, Zenon DEF Seen, Inv
  <2>7. D!Read(queue[i].id)
    BY <2>1, <2>5, <2>6 DEF D!Read, Seen
  <2> QED BY <2>4, <2>5, <2>7 DEF D!Next
<1>9. ASSUME NEW c \in Client, NEW i \in DOMAIN queue, NEW d \in Data, Modify(c, i, d)
      PROVE  Inv' /\ [D!Next]_(D!vars)
  <2>1. Inv' /\ queue[i].id \in Block /\ Seen' = [Seen EXCEPT ![queue[i].id] = d]
    BY <1>9, ModifyStep
  <2>2. disk' = disk /\ last' = <<"write", queue[i].id, d>>
    BY <1>9 DEF Modify
  <2>3. D!Write(queue[i].id, d)
    BY <2>1, <2>2 DEF D!Write, Seen
  <2> QED BY <2>1, <2>3 DEF D!Next
<1>10. ASSUME SyncAll PROVE Inv' /\ [D!Next]_(D!vars)
  <2>1. Inv' /\ Seen' = Seen /\ disk' = Seen
    BY <1>10, SyncStep
  <2>2. D!Sync
    BY <1>10, <2>1 DEF D!Sync, Seen, SyncAll
  <2> QED BY <2>1, <2>2 DEF D!Next
<1>11. ASSUME Restart PROVE Inv' /\ [D!Next]_(D!vars)
  <2>1. queue' = <<>> /\ held' = {} /\ disk' = disk /\ last' = <<>> /\ last' \in Operation
    BY <1>11 DEF Restart, Operation
  <2>2. Len(queue') <= BLOCK_CACHE_SIZE /\ queue' \in Seq(Entry) /\ DOMAIN queue' = {}
    BY <2>1, CacheAssumption, EmptySeq
  <2>3. TypeOK'
    BY <1>2, <1>11, <2>1, <2>2, Zenon DEF TypeOK, Restart
  <2>4. Coherent'
    BY <2>1, <2>2, RestatedNext DEF Distinct
  <2>5. Seen' = disk
    BY <1>2, <2>1, <2>2, RestatedNext DEF Seen, See, In
  <2>6. D!Restart
    BY <2>1, <2>5 DEF D!Restart, Seen
  <2> QED BY <2>3, <2>4, <2>6 DEF D!Next, Inv
<1>12. ASSUME UNCHANGED vars PROVE Inv' /\ [D!Next]_(D!vars)
  <2>1. held' = held /\ disk' = disk /\ queue' = queue /\ last' = last /\ halted' = halted
    BY <1>12 DEF vars
  <2>2. halted' \in BOOLEAN
    BY <1>2, <2>1, Zenon
  <2>3. Inv' /\ Seen' = Seen
    BY <1>2, <2>1, <2>2, QuietStep
  <2> QED BY <1>1, <2>1, <2>3
<1> QED
  BY <1>3, <1>4, <1>5, <1>6, <1>7, <1>8, <1>9, <1>10, <1>11, <1>12 DEF Next

\* The state of the cache keeps its type and the queue its size, for every size
THEOREM TypeCorrect == Spec => []TypeOK
<1>1. Inv => TypeOK
  BY DEF Inv
<1>2. Inv /\ [Next]_vars => Inv'
  BY Step
<1> QED BY <1>1, <1>2, InvInit, PTL DEF Spec

\* No block is cached twice, no client is left with an evicted copy and a clean
\* block is the same as on the device, for every size
THEOREM CoherentAlways == Spec => []Coherent
<1>1. Inv => Coherent
  BY DEF Inv
<1>2. Inv /\ [Next]_vars => Inv'
  BY Step
<1> QED BY <1>1, <1>2, InvInit, PTL DEF Spec

\* get_block_cache, read, modify and sync implement a disk, for every size of
\* the cache and any number of blocks and clients
THEOREM DiskRefinement == Spec => ImplementsDisk
<1>1. Init => D!Init
  <2> SUFFICES ASSUME Init PROVE D!Init
    OBVIOUS
  <2>1. disk \in [Block -> Data] /\ DOMAIN queue = {} /\ last = <<>>
    BY EmptySeq DEF Init
  <2>2. \A b \in Block : Visible(b) = disk[b]
    BY <2>1 DEF Visible, Cached
  <2>3. [b \in Block |-> Visible(b)] = disk
    BY <2>1, <2>2
  <2> QED BY <2>1, <2>3 DEF D!Init
<1>2. Inv /\ [Next]_vars => Inv' /\ [D!Next]_(D!vars)
  BY Step
<1> QED BY <1>1, <1>2, InvInit, PTL DEF Spec, D!Spec, ImplementsDisk

-----------------------------------------------------------------------------
IsFunction(d) == d = [c \in Cells |-> d[c]]

Merged ==
    [i \in 0 .. SECTOR - 1 |->
        IF i - block_offset \in 0 .. copy_size - 1
        THEN vdata[vsize + i - block_offset + 1]
        ELSE vdisk[base + i]]

\* While a call is going on exactly the first vsize cells of its data are on the
\* device, and between its two requests the buffer holds the sector with the
\* next part of the data merged in.
VInv ==
    /\ IsFunction(vdisk) /\ IsFunction(vold)
    /\ voff \in Nat /\ vdata \in Seq(Cell) /\ vsize \in 0 .. Len(vdata)
    /\ vpc # "panic" => vdisk = Overlay(vold, voff, vdata, vsize)
    /\ vpc \in {"idle", "try"} => vsize = Len(vdata)
    /\ vpc \in {"fetch", "store"} => vsize < Len(vdata)
    /\ vpc = "store" => vbuf = Merged
    /\ vpc = "panic" => \E n \in 0 .. Len(vdata) : vdisk = Overlay(vold, voff, vdata, n)

-----------------------------------------------------------------------------
\* An overlay of no cells changes nothing: the device at the start of a call.
LEMMA OverlayNone ==
    ASSUME NEW d, IsFunction(d), NEW off \in Nat, NEW data
    PROVE  d = Overlay(d, off, data, 0)
BY DEF IsFunction, Overlay, Cells

\* What Overlay returns is a function on the cells.
LEMMA OverlayFunction ==
    ASSUME NEW d, NEW off, NEW data, NEW n
    PROVE  IsFunction(Overlay(d, off, data, n))
BY DEF IsFunction, Overlay

\* The value of an overlay at a cell.
LEMMA OverlayAt ==
    ASSUME NEW d, NEW off, NEW data, NEW n, NEW x \in Cells
    PROVE  Overlay(d, off, data, n)[x]
             = IF x - off \in 0 .. n - 1 THEN data[x - off + 1] ELSE d[x]
BY DEF Overlay

\* The part copied by one round of the loop of write_offset lies in one sector
\* and is not empty.
LEMMA CopyBounds ==
    ASSUME VInv, vsize < Len(vdata)
    PROVE  /\ block_offset \in 0 .. SECTOR - 1
           /\ copy_size \in 1 .. Len(vdata) - vsize
           /\ block_offset + copy_size <= SECTOR
           /\ pos \in Nat /\ base = pos - block_offset /\ pos = voff + vsize
           /\ vsize \in Nat /\ Len(vdata) \in Nat
<1>1. vsize \in Nat /\ Len(vdata) \in Nat /\ voff \in Nat
  BY DEF VInv
<1>2. pos \in Nat /\ pos = voff + vsize
  BY <1>1 DEF pos
<1>3. block_offset \in 0 .. SECTOR - 1
  BY <1>2, VirtioAssumption DEF block_offset
<1> QED
  BY <1>1, <1>2, <1>3, VirtioAssumption DEF copy_size, base

\* Storing the merged sector extends the part of the data on the device by what
\* this round has copied.
LEMMA StoreExtends ==
    ASSUME VInv, vpc = "store"
    PROVE  Stored = Overlay(vold, voff, vdata, vsize + copy_size)
<1>1. vsize < Len(vdata) /\ vbuf = Merged /\ vdisk = Overlay(vold, voff, vdata, vsize)
  BY DEF VInv
<1>2. /\ block_offset \in 0 .. SECTOR - 1
      /\ copy_size \in 1 .. Len(vdata) - vsize
      /\ block_offset + copy_size <= SECTOR
      /\ base = voff + vsize - block_offset
      /\ vsize \in Nat /\ Len(vdata) \in Nat /\ voff \in Nat
  BY <1>1, CopyBounds DEF VInv
<1>3. SUFFICES ASSUME NEW c \in Cells
               PROVE  Stored[c] = Overlay(vold, voff, vdata, vsize + copy_size)[c]
  BY DEF Stored, Overlay
<1>4. c \in Int
  BY DEF Cells
<1>5. vdisk[c] = IF c - voff \in 0 .. vsize - 1 THEN vdata[c - voff + 1] ELSE vold[c]
  BY <1>1 DEF Overlay
<1>6. Overlay(vold, voff, vdata, vsize + copy_size)[c]
        = IF c - voff \in 0 .. (vsize + copy_size) - 1 THEN vdata[c - voff + 1] ELSE vold[c]
  BY <1>3, OverlayAt
<1>7. CASE c - base \in 0 .. SECTOR - 1
  <2>1. Stored[c] = vbuf[c - base]
    BY <1>7 DEF Stored
  <2>2. vbuf[c - base] = IF c - base - block_offset \in 0 .. copy_size - 1
                         THEN vdata[vsize + (c - base) - block_offset + 1]
                         ELSE vdisk[base + (c - base)]
    BY <1>1, <1>7 DEF Merged
  <2>3. base + (c - base) = c
    BY <1>2, <1>4
  <2>4. vsize + (c - base) - block_offset + 1 = c - voff + 1
    BY <1>2, <1>4
  <2>5. c - base - block_offset \in 0 .. copy_size - 1
          <=> c - voff \in vsize .. vsize + copy_size - 1
    BY <1>2, <1>4
  <2>6. CASE c - voff \in vsize .. vsize + copy_size - 1
    <3>1. Stored[c] = vdata[c - voff + 1]
      BY <2>1, <2>2, <2>4, <2>5, <2>6
    <3>2. c - voff \in 0 .. (vsize + copy_size) - 1
      BY <2>6, <1>2, <1>4
    <3> QED
      BY <3>1, <3>2, <1>6
  <2>7. CASE c - voff \notin vsize .. vsize + copy_size - 1
    <3>1. Stored[c] = vdisk[c]
      BY <2>1, <2>2, <2>3, <2>5, <2>7
    <3>2. c - voff \in 0 .. vsize - 1 <=> c - voff \in 0 .. (vsize + copy_size) - 1
      BY <2>7, <1>2, <1>4
    <3> QED
      BY <3>1, <3>2, <1>5, <1>6
  <2> QED
    BY <2>6, <2>7
<1>8. CASE c - base \notin 0 .. SECTOR - 1
  <2>1. Stored[c] = vdisk[c]
    BY <1>8 DEF Stored
  <2>2. c - voff \notin vsize .. vsize + copy_size - 1
    BY <1>8, <1>2, <1>4, VirtioAssumption
  <2>3. c - voff \in 0 .. vsize - 1 <=> c - voff \in 0 .. (vsize + copy_size) - 1
    BY <2>2, <1>2, <1>4
  <2> QED
    BY <2>1, <2>3, <1>5, <1>6
<1> QED
  BY <1>7, <1>8

-----------------------------------------------------------------------------
\* The invariant holds on a device that nobody has used.
LEMMA VInitInv == VInit => VInv
<1> SUFFICES ASSUME VInit PROVE VInv
  OBVIOUS
<1>1. IsFunction(vdisk) /\ vold = vdisk
  BY DEF VInit, IsFunction
<1>2. vdisk = Overlay(vold, voff, vdata, 0)
  BY <1>1, OverlayNone DEF VInit
<1>3. vpc = "idle" /\ voff = 0 /\ vsize = 0 /\ vdata = <<>> /\ <<>> \in Seq(Cell) /\ Len(<<>>) = 0
  BY DEF VInit
<1> QED
  BY <1>1, <1>2, <1>3 DEF VInv

\* The start of a call: none of its data is on the device yet.
LEMMA BeginInv ==
    ASSUME VInv, NEW off \in Nat, NEW data \in Seq(Cell), Begin(off, data)
    PROVE  /\ IsFunction(vdisk)' /\ IsFunction(vold)'
           /\ voff' \in Nat /\ vdata' \in Seq(Cell) /\ vsize' \in 0 .. Len(vdata')
           /\ vsize' = 0 /\ vdata' = data /\ Len(data) \in Nat
           /\ (vdisk = Overlay(vold, voff, vdata, 0))'
<1>1. IsFunction(vdisk) /\ vdisk' = vdisk /\ vold' = vdisk
  BY DEF VInv, Begin
<1>2. IsFunction(vdisk)' /\ IsFunction(vold)'
  BY <1>1 DEF IsFunction
<1>3. vdisk = Overlay(vdisk, off, data, 0)
  BY <1>1, OverlayNone
<1>4. voff' = off /\ vdata' = data /\ vsize' = 0
  BY DEF Begin
<1>5. (vdisk = Overlay(vold, voff, vdata, 0))'
  BY <1>1, <1>3, <1>4 DEF Overlay
<1> QED
  BY <1>2, <1>4, <1>5

\* A read leaves the device alone.
LEMMA ReadInv ==
    ASSUME VInv, NEW off \in Nat, Begin(off, <<>>), vpc' \in {"idle", "try", "panic"}
    PROVE  VInv'
<1>1. <<>> \in Seq(Cell) /\ Len(<<>>) = 0
  OBVIOUS
<1>2. /\ IsFunction(vdisk)' /\ IsFunction(vold)'
      /\ voff' \in Nat /\ vdata' \in Seq(Cell) /\ vsize' \in 0 .. Len(vdata')
      /\ vsize' = 0 /\ vdata' = <<>>
      /\ (vdisk = Overlay(vold, voff, vdata, 0))'
  BY <1>1, BeginInv, Zenon
<1>3. (\E n \in 0 .. Len(vdata) : vdisk = Overlay(vold, voff, vdata, n))'
  BY <1>1, <1>2
<1> QED
  BY <1>1, <1>2, <1>3 DEF VInv

\* The first round of write_offset.
LEMMA WriteInv ==
    ASSUME VInv, NEW off \in Nat, NEW data \in Seq(Cell), write_offset(off, data)
    PROVE  VInv'
<1>1. /\ IsFunction(vdisk)' /\ IsFunction(vold)'
      /\ voff' \in Nat /\ vdata' \in Seq(Cell) /\ vsize' \in 0 .. Len(vdata')
      /\ vsize' = 0 /\ vdata' = data /\ Len(data) \in Nat
      /\ (vdisk = Overlay(vold, voff, vdata, 0))'
  BY BeginInv DEF write_offset
<1>2. CASE data = <<>>
  BY <1>1, <1>2 DEF write_offset, VInv
<1>3. CASE data # <<>>
  <2>1. Len(data) > 0
    BY <1>3
  <2> QED
    BY <1>1, <1>3, <2>1 DEF write_offset, VInv
<1> QED
  BY <1>2, <1>3

\* Reading the sector fills the buffer.
LEMMA FetchInv == VInv /\ Fetch => VInv'
<1> SUFFICES ASSUME VInv, Fetch PROVE VInv'
  OBVIOUS
<1>1. UNCHANGED <<vdisk, voff, vdata, vsize, vold>>
  BY DEF Fetch
<1>2. vdisk = Overlay(vold, voff, vdata, vsize) /\ vsize < Len(vdata) /\ vsize \in 0 .. Len(vdata)
  BY DEF Fetch, VInv
<1>3. /\ IsFunction(vdisk)' /\ IsFunction(vold)'
      /\ voff' \in Nat /\ vdata' \in Seq(Cell) /\ vsize' \in 0 .. Len(vdata')
      /\ (vdisk = Overlay(vold, voff, vdata, vsize))' /\ vsize' < Len(vdata')
  BY <1>1, <1>2 DEF VInv, IsFunction, Overlay
<1>4. CASE vpc' = "panic"
  BY <1>3, <1>4 DEF VInv
<1>5. CASE vpc' = "store" /\ vbuf' = Merged
  <2>1. (vbuf = Merged)'
    BY <1>1, <1>5 DEF Merged, block_offset, copy_size, base, pos
  <2> QED
    BY <1>3, <1>5, <2>1 DEF VInv
<1> QED
  BY <1>4, <1>5 DEF Fetch, Merged

\* Writing the sector back, with or without an error.
LEMMA StoreInv == VInv /\ Store => VInv'
<1> SUFFICES ASSUME VInv, Store PROVE VInv'
  OBVIOUS
<1>1. UNCHANGED <<voff, vdata, vold>> /\ vpc = "store"
  BY DEF Store
<1>2. Stored = Overlay(vold, voff, vdata, vsize + copy_size)
  BY <1>1, StoreExtends
<1>3. /\ vdisk = Overlay(vold, voff, vdata, vsize) /\ IsFunction(vdisk) /\ IsFunction(vold)
      /\ vsize < Len(vdata) /\ voff \in Nat /\ vdata \in Seq(Cell)
  BY <1>1 DEF VInv
<1>4. /\ vsize \in Nat /\ Len(vdata) \in Nat
      /\ copy_size \in 1 .. Len(vdata) - vsize
  BY <1>3, CopyBounds
<1>5. vsize + copy_size \in 0 .. Len(vdata) /\ vsize \in 0 .. Len(vdata)
  BY <1>3, <1>4
<1>6. IsFunction(Stored)
  BY <1>2, OverlayFunction
<1>7. IsFunction(vold)' /\ voff' \in Nat /\ vdata' \in Seq(Cell)
  BY <1>1, <1>3 DEF IsFunction
<1>8. CASE /\ vdisk' = Stored /\ vsize' = vsize + copy_size
           /\ vpc' = IF vsize + copy_size < Len(vdata) THEN "fetch" ELSE "idle"
  <2>1. IsFunction(vdisk)'
    BY <1>6, <1>8 DEF IsFunction
  <2>2. (vdisk = Overlay(vold, voff, vdata, vsize))'
    BY <1>1, <1>2, <1>8 DEF Overlay
  <2>3. vsize' \in 0 .. Len(vdata')
    BY <1>1, <1>5, <1>8
  <2>4. vpc' = "fetch" => vsize' < Len(vdata')
    BY <1>1, <1>8
  <2>5. vpc' = "idle" => vsize' = Len(vdata')
    BY <1>1, <1>4, <1>5, <1>8
  <2>6. vpc' \in {"fetch", "idle"}
    BY <1>8
  <2> QED
    BY <1>7, <2>1, <2>2, <2>3, <2>4, <2>5, <2>6 DEF VInv
<1>9. CASE vpc' = "panic" /\ vdisk' \in {vdisk, Stored} /\ vsize' = vsize
  <2>1. IsFunction(vdisk)'
    BY <1>3, <1>6, <1>9 DEF IsFunction
  <2>2. PICK n \in 0 .. Len(vdata) : vdisk' = Overlay(vold, voff, vdata, n)
    BY <1>2, <1>3, <1>5, <1>9
  <2>3. (\E m \in 0 .. Len(vdata) : vdisk = Overlay(vold, voff, vdata, m))'
    BY <1>1, <2>2 DEF Overlay
  <2> QED
    BY <1>1, <1>5, <1>7, <1>9, <2>1, <2>3 DEF VInv
<1> QED
  BY <1>8, <1>9 DEF Store

\* write_block writes its sector at once.
LEMMA WriteBlockInv ==
    ASSUME VInv, NEW id \in Nat, NEW data \in Seq(Cell), Len(data) = SECTOR,
           write_block(id, data)
    PROVE  VInv'
<1> DEFINE off == id * SECTOR
           new == Overlay(vdisk, off, data, SECTOR)
<1>1. SECTOR \in Nat /\ off \in Nat /\ SECTOR \in 0 .. Len(data) /\ 0 \in 0 .. Len(data)
  BY VirtioAssumption
<1>2. voff' = off /\ vdata' = data /\ vold' = vdisk
  BY DEF write_block
<1>3. IsFunction(vdisk) /\ IsFunction(new)
  BY OverlayFunction DEF VInv
<1>4. vdisk = Overlay(vdisk, off, data, 0)
  BY <1>1, <1>3, OverlayNone
<1>5. IsFunction(vold)'
  BY <1>2, <1>3 DEF IsFunction
<1>6. vdisk' = vdisk \/ vdisk' = new
  BY DEF write_block
<1>7. IsFunction(vdisk)'
  BY <1>3, <1>6 DEF IsFunction
<1> HIDE DEF off
<1>8. CASE vpc' = "idle" /\ vdisk' = new /\ vsize' = SECTOR
  <2>1. (vdisk = Overlay(vold, voff, vdata, vsize))'
    BY <1>2, <1>8 DEF Overlay
  <2> QED
    BY <1>1, <1>2, <1>5, <1>7, <1>8, <2>1 DEF VInv
<1>9. CASE vpc' = "panic" /\ vsize' = 0
  <2>1. \E n \in 0 .. Len(data) : vdisk' = Overlay(vdisk, off, data, n)
    BY <1>1, <1>4, <1>6
  <2>2. (\E n \in 0 .. Len(vdata) : vdisk = Overlay(vold, voff, vdata, n))'
    BY <1>2, <2>1 DEF Overlay
  <2> QED
    BY <1>1, <1>2, <1>5, <1>7, <1>9, <2>2 DEF VInv
<1> QED
  BY <1>8, <1>9 DEF write_block, off

\* A retry of read_block changes neither the device nor the call.
LEMMA TryInv == VInv /\ Try => VInv'
<1> SUFFICES ASSUME VInv, Try PROVE VInv'
  OBVIOUS
<1>1. UNCHANGED <<vdisk, voff, vdata, vsize, vold>> /\ vpc = "try"
  BY DEF Try
<1>2. vpc' \in {"idle", "try", "panic"}
  BY DEF Try
<1>3. /\ IsFunction(vdisk)' /\ IsFunction(vold)'
      /\ voff' \in Nat /\ vdata' \in Seq(Cell) /\ vsize' \in 0 .. Len(vdata')
      /\ (vdisk = Overlay(vold, voff, vdata, vsize))' /\ vsize' = Len(vdata')
  BY <1>1 DEF VInv, IsFunction, Overlay
<1> QED
  BY <1>2, <1>3 DEF VInv

\* Every step of the driver keeps the invariant.
LEMMA VNextInv == VInv /\ [VNext]_vvars => VInv'
<1> SUFFICES ASSUME VInv, [VNext]_vvars PROVE VInv'
  OBVIOUS
<1>1. CASE Fetch
  BY <1>1, FetchInv
<1>2. CASE Store
  BY <1>2, StoreInv
<1>3. CASE Try
  BY <1>3, TryInv
<1>4. CASE UNCHANGED vvars
  <2>1. UNCHANGED <<vpc, vdisk, voff, vdata, vsize, vbuf, vold>>
    BY <1>4 DEF vvars
  <2>2. Merged' = Merged
    BY <2>1 DEF Merged, block_offset, copy_size, base, pos
  <2>3. \A n : Overlay(vold, voff, vdata, n)' = Overlay(vold, voff, vdata, n)
    BY <2>1 DEF Overlay
  <2>4. (vdisk = Overlay(vold, voff, vdata, vsize))' <=> vdisk = Overlay(vold, voff, vdata, vsize)
    BY <2>1 DEF Overlay
  <2>5. IsFunction(vdisk)' /\ IsFunction(vold)'
    BY <2>1 DEF VInv, IsFunction
  <2>6. vpc = "panic" => (\E n \in 0 .. Len(vdata) : vdisk = Overlay(vold, voff, vdata, n))'
    BY <2>1, <2>3 DEF VInv
  <2> QED
    BY <2>1, <2>2, <2>4, <2>5, <2>6 DEF VInv
<1>5. ASSUME NEW off \in Cells, read_offset(off) PROVE VInv'
  <2>1. off \in Nat /\ Begin(off, <<>>) /\ vpc' \in {"idle", "try", "panic"}
    BY <1>5 DEF Cells, read_offset
  <2> QED
    BY <2>1, ReadInv
<1>6. ASSUME NEW off \in Cells, NEW n \in 0 .. MaxData, NEW data \in [1 .. n -> Cell],
             write_offset(off, data)
      PROVE  VInv'
  <2>1. off \in Nat /\ data \in Seq(Cell)
    BY VirtioAssumption DEF Cells
  <2> QED
    BY <1>6, <2>1, WriteInv
<1>7. ASSUME NEW off \in Cells PROVE off \div SECTOR \in Nat /\ (off \div SECTOR) * SECTOR \in Nat
  BY VirtioAssumption DEF Cells
<1>8. ASSUME NEW off \in Cells, read_block(off \div SECTOR) PROVE VInv'
  <2> DEFINE id == off \div SECTOR
  <2>1. id * SECTOR \in Nat
    BY <1>7
  <2>2. Begin(id * SECTOR, <<>>) /\ vpc' \in {"idle", "try", "panic"}
    BY <1>8 DEF read_block
  <2> HIDE DEF id
  <2> QED
    BY <2>1, <2>2, ReadInv
<1>9. ASSUME NEW off \in Cells, NEW data \in [1 .. SECTOR -> Cell],
             write_block(off \div SECTOR, data)
      PROVE  VInv'
  <2>1. data \in Seq(Cell) /\ Len(data) = SECTOR
    BY VirtioAssumption
  <2> QED
    BY <1>7, <1>9, <2>1, WriteBlockInv
<1> QED
  BY <1>1, <1>2, <1>3, <1>4, <1>5, <1>6, <1>8, <1>9 DEF VNext

\* Whatever the sizes of the device, of a sector and of the data, a write_offset
\* or write_block of the virtio driver puts a first part of its data in place
\* and touches nothing else, and all of it is there when the call returns.
THEOREM WritePrefixAlways == VSpec => []WritePrefix
<1>1. VInv => WritePrefix
  <2> SUFFICES ASSUME VInv PROVE WritePrefix
    OBVIOUS
  <2>1. CASE vpc = "panic"
    BY <2>1 DEF VInv, WritePrefix
  <2>2. CASE vpc # "panic"
    BY <2>2 DEF VInv, WritePrefix
  <2> QED
    BY <2>1, <2>2
<1> QED
  BY <1>1, VInitInv, VNextInv, PTL DEF VSpec
=============================================================================
