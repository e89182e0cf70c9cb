----------------------------- MODULE BlockCache -----------------------------
(***************************************************************************)
(* The block cache: at most BLOCK_CACHE_SIZE blocks in a queue, evicted    *)
(* from the front unless a client still holds a reference, written back    *)
(* when they are evicted or on block_cache_sync_all.                       *)
(***************************************************************************)
EXTENDS Naturals, Sequences

CONSTANTS Block, Data, Client, BLOCK_CACHE_SIZE

ASSUME CacheAssumption == BLOCK_CACHE_SIZE \in Nat \ {0}

VARIABLES
    disk,   \* what the device holds
    queue,  \* the cached blocks, oldest first
    held,   \* the references (Arc<Mutex<BlockCache>>) the clients hold
    last,   \* history: the last read or write of a client, with its data
    halted

vars == <<disk, queue, held, last, halted>>

Entry == [id : Block, data : Data, modified : BOOLEAN]
Operation == {<<>>} \cup ({"read", "write"} \X Block \X Data)

Init ==
    /\ disk \in [Block -> Data]
    /\ queue = <<>>
    /\ held = {}
    /\ last = <<>>
    /\ halted = FALSE

Cached(b) == \E i \in DOMAIN queue : queue[i].id = b

\* Arc::strong_count is 1
Unheld(b) == \A c \in Client : <<c, b>> \notin held

\* BlockCache::new
Load(b) == [id |-> b, data |-> disk[b], modified |-> FALSE]

\* VecDeque::drain(i..=i)
Without(q, i) == [j \in 1 .. Len(q) - 1 |-> IF j < i THEN q[j] ELSE q[j + 1]]

\* what the device holds once the entry is synchronised
Synced(e) == IF e.modified THEN [disk EXCEPT ![e.id] = e.data] ELSE disk

-----------------------------------------------------------------------------
\* get_block_cache of a cached block
GetHit(c, b) ==
    /\ ~halted /\ Cached(b)
    /\ held' = held \cup {<<c, b>>}
    /\ UNCHANGED <<disk, queue, last, halted>>

GetMiss(c, b) ==
    /\ ~halted /\ ~Cached(b) /\ Len(queue) # BLOCK_CACHE_SIZE
    /\ queue' = Append(queue, Load(b))
    /\ held' = held \cup {<<c, b>>}
    /\ UNCHANGED <<disk, last, halted>>

\* fault: an evicted block is not written back
GetEvict_NoSync(c, b, i) ==
    /\ ~halted /\ ~Cached(b) /\ Len(queue) = BLOCK_CACHE_SIZE
    /\ Unheld(queue[i].id) /\ \A j \in 1 .. i - 1 : ~Unheld(queue[j].id)
    /\ queue' = Append(Without(queue, i), Load(b))
    /\ held' = held \cup {<<c, b>>}
    /\ UNCHANGED <<disk, last, halted>>

\* the first block nobody holds makes room; dropping it writes it back
GetEvict(c, b, i) ==
    /\ ~halted /\ ~Cached(b) /\ Len(queue) = BLOCK_CACHE_SIZE
    /\ Unheld(queue[i].id) /\ \A j \in 1 .. i - 1 : ~Unheld(queue[j].id)
    /\ disk' = Synced(queue[i])
    /\ queue' = Append(Without(queue, i), Load(b))
    /\ held' = held \cup {<<c, b>>}
    /\ UNCHANGED <<last, halted>>

\* "Run out of BlockCache!"
RunOut(b) ==
    /\ ~halted /\ ~Cached(b) /\ Len(queue) = BLOCK_CACHE_SIZE
    /\ \A i \in DOMAIN queue : ~Unheld(queue[i].id)
    /\ halted' = TRUE
    /\ UNCHANGED <<disk, queue, held, last>>

\* BlockCache::read
ReadBlock(c, i) ==
    /\ ~halted /\ <<c, queue[i].id>> \in held
    /\ last' = <<"read", queue[i].id, queue[i].data>>
    /\ UNCHANGED <<disk, queue, held, halted>>

\* fault: the block is not marked
Modify_Unmarked(c, i, d) ==
    /\ ~halted /\ <<c, queue[i].id>> \in held
    /\ queue' = [queue EXCEPT ![i] = [@ EXCEPT !.data = d]]
    /\ last' = <<"write", queue[i].id, d>>
    /\ UNCHANGED <<disk, held, halted>>

\* BlockCache::modify
Modify(c, i, d) ==
    /\ ~halted /\ <<c, queue[i].id>> \in held
    /\ queue' = [queue EXCEPT ![i] = [id |-> queue[i].id, data |-> d, modified |-> TRUE]]
    /\ last' = <<"write", queue[i].id, d>>
    /\ UNCHANGED <<disk, held, halted>>

\* the client drops its reference
Release(c, b) ==
    /\ ~halted /\ <<c, b>> \in held
    /\ held' = held \ {<<c, b>>}
    /\ UNCHANGED <<disk, queue, last, halted>>

\* block_cache_sync_all
SyncAll ==
    /\ ~halted
    /\ disk' = [b \in Block |->
                    IF \E i \in DOMAIN queue : queue[i].id = b /\ queue[i].modified
                    THEN queue[CHOOSE i \in DOMAIN queue : queue[i].id = b].data
                    ELSE disk[b]]
    /\ queue' = [i \in DOMAIN queue |->
                    [id |-> queue[i].id, data |-> queue[i].data, modified |-> FALSE]]
    /\ UNCHANGED <<held, last, halted>>

\* the machine stops and starts again: what was only cached is gone
Restart ==
    /\ queue' = <<>> /\ held' = {} /\ last' = <<>> /\ halted' = FALSE
    /\ UNCHANGED disk

Next ==
    \/ \E c \in Client, b \in Block :
        \/ GetHit(c, b) \/ GetMiss(c, b) \/ Release(c, b)
        \/ \E i \in DOMAIN queue : GetEvict(c, b, i)
    \/ \E b \in Block : RunOut(b)
    \/ \E c \in Client, i \in DOMAIN queue :
        ReadBlock(c, i) \/ \E d \in Data : Modify(c, i, d)
    \/ SyncAll
    \/ Restart

Spec == Init /\ [][Next]_vars

-----------------------------------------------------------------------------
\* Type invariant; the cache never exceeds its size
TypeOK ==
    /\ disk \in [Block -> Data]
    /\ queue \in Seq(Entry) /\ Len(queue) <= BLOCK_CACHE_SIZE
    /\ held \subseteq Client \X Block
    /\ last \in Operation
    /\ halted \in BOOLEAN

\* A block is never cached twice, a reference a client holds is to the cached
\* copy and not to one that was evicted, and a block that is not marked as
\* modified is the same as on the device
Coherent ==
    /\ \A i, j \in DOMAIN queue : queue[i].id = queue[j].id => i = j
    /\ \A c \in Client, b \in Block : <<c, b>> \in held => Cached(b)
    /\ \A i \in DOMAIN queue : ~queue[i].modified => queue[i].data = disk[queue[i].id]

\* what the clients see of a block
Visible(b) ==
    IF Cached(b) THEN queue[CHOOSE i \in DOMAIN queue : queue[i].id = b].data ELSE disk[b]

D == INSTANCE Disk WITH store <- [b \in Block |-> Visible(b)], durable <- disk

\* Through every eviction and reload the clients see one disk: a read returns
\* the last write to its block, no block changes without a write of a client, and
\* only a restart loses a write that was not yet synchronised
ImplementsDisk == D!Spec
=============================================================================
