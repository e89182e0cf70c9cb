--------------------------------- MODULE Fat ---------------------------------
(***************************************************************************)
(* The FAT32 file system: the allocation table with the cluster chains of  *)
(* the files, the slots of one directory, and the operations of an inode.  *)
(* The kernel is not preempted inside them and they never give the hart    *)
(* away, so each is one step.  Blocks are read and written through the     *)
(* block cache, which is a disk to its clients (BlockCache).               *)
(*                                                                         *)
(* A name is the sequence of its parts of 13 characters, one long slot     *)
(* each.  A file is known by its short slot, which holds its size and its  *)
(* first cluster, as it is to the inode that create returns; a slot is     *)
(* never used again.  The names begin with no dot: the short slot of one   *)
(* that does reads as empty.  No name has the 8.3 form of another, and the *)
(* directory is within its first sector.                                   *)
(***************************************************************************)
EXTENDS Naturals, FiniteSets, SequencesExt

CONSTANTS
    CLUSTER_SIZE,
    BUFFER,         \* length of the buffer of read_all
    LastCluster,    \* the last entry of the allocation table
    Names,
    ImageName,      \* the file the image comes with
    Data,
    Stale,          \* for a byte of a file that was never written
    MaxSlots,       \* bound: slots of the directory
    Offsets, Lengths

ASSUME FatAssumption ==
    /\ CLUSTER_SIZE \in Nat \ {0} /\ BUFFER \in Nat \ {0}
    /\ CLUSTER_SIZE % BUFFER = 0
    /\ LastCluster \in Nat /\ LastCluster >= 4
    /\ MaxSlots \in Nat /\ MaxSlots >= 2
    /\ Offsets \subseteq Nat /\ Lengths \subseteq Nat
    /\ \A n \in Names : Len(n) \in {1, 2}
    /\ ImageName \in Names /\ Len(ImageName) = 1
    /\ Data # {} /\ Stale \notin Data

VARIABLES
    fat,        \* per cluster: Free, Eoc or the next cluster
    dir,        \* the slots of the directory
    data,       \* per cluster: its bytes
    grow,       \* the last cluster of the file increase_size is extending, or 0
    halted,     \* a panic, or the search for a free cluster left the table
    content,    \* history: per file, what was written into it and where
    present     \* history: the names created and not unlinked

vars == <<fat, dir, data, grow, halted, content, present>>

Root == 2
Free == 0
Eoc == LastCluster + 1      \* 0x0FFFFFF8 and above
Entries == 0 .. LastCluster
Clusters == Root .. LastCluster
Slots == 1 .. MaxSlots

Empty == [kind |-> "empty", deleted |-> FALSE]
LongSlot(part, last) ==
    [kind |-> "long", deleted |-> FALSE, part |-> part, last |-> last]
ShortSlot(start, size) ==
    [kind |-> "short", deleted |-> FALSE, start |-> start, size |-> size]

\* the image has one file of two clusters; entries 0 and 1 are reserved
Init ==
    /\ fat = [c \in Entries |->
                CASE c = 3 -> 4 [] c \in {0, 1, Root, 4} -> Eoc [] OTHER -> Free]
    /\ dir = [i \in Slots |->
                CASE i = 1 -> LongSlot(ImageName[1], TRUE)
                  [] i = 2 -> ShortSlot(3, CLUSTER_SIZE + 1)
                  [] OTHER -> Empty]
    /\ \E d \in Data :
        /\ data = [c \in Clusters |-> [k \in 0 .. CLUSTER_SIZE - 1 |-> d]]
        /\ content = [i \in Slots |->
                        IF i = 2 THEN [k \in 0 .. CLUSTER_SIZE |-> d] ELSE <<>>]
    /\ grow = 0 /\ halted = FALSE
    /\ present = {ImageName}

Ready == grow = 0 /\ ~halted

-----------------------------------------------------------------------------
FreeClusters == {c \in 3 .. LastCluster : fat[c] = Free}

\* alloc_new_cluster: the first free entry from 3 on
NewCluster == CHOOSE c \in FreeClusters : \A d \in FreeClusters : c <= d

\* cluster_chain
RECURSIVE cluster_chain(_)
cluster_chain(c) == IF fat[c] = Eoc THEN <<c>> ELSE <<c>> \o cluster_chain(fat[c])

IsFile(i) == dir[i].kind = "short"
Files == {i \in Slots : IsFile(i)}
Chain(i) == cluster_chain(dir[i].start)
Room(i) == Len(Chain(i)) * CLUSTER_SIZE

\* where byte k of a file is
ByteAt(i, k) == data[Chain(i)[(k \div CLUSTER_SIZE) + 1]][k % CLUSTER_SIZE]

-----------------------------------------------------------------------------
\* fault: a deleted slot is taken for an empty one
is_empty_Deleted(i) == dir[i].kind = "empty" \/ dir[i].deleted

is_empty(i) == dir[i].kind = "empty"

\* a deleted long slot reads as the last of its name: 0xE5 has the bit 0x40
is_end(i) == dir[i].deleted \/ dir[i].last

\* the last long slot of the dentry that begins at slot i
LastLong(i) == CHOOSE j \in i .. MaxSlots : is_end(j) /\ \A k \in i .. j - 1 : ~is_end(k)

IsLong(i) == dir[i].kind = "long" /\ ~dir[i].deleted

\* get_dentry: the dentry after the one at slot i
After(i) == IF IsLong(i) THEN LastLong(i) + 2 ELSE i + 1

\* the dentries that get_dentry returns one after the other from slot i on
RECURSIVE dentries(_)
dentries(i) ==
    IF i > MaxSlots THEN {} ELSE IF is_empty(i) THEN {} ELSE {i} \cup dentries(After(i))

\* Fat32Dentry::name puts each part in front of the ones before it; a deleted
\* dentry and a short slot have no name of Names
name(i) ==
    IF IsLong(i) THEN Reverse([k \in 1 .. LastLong(i) - i + 1 |-> dir[i + k - 1].part])
    ELSE <<>>

Found(n) == {i \in dentries(1) : name(i) = n}

\* lookup: the first one
lookup(n) == CHOOSE i \in Found(n) : \A j \in Found(n) : i <= j

FirstEmpty == CHOOSE i \in Slots : is_empty(i) /\ \A j \in 1 .. i - 1 : ~is_empty(j)

\* insert_dentry: the long slots of the name, then the short one
insert_dentry(n, start) ==
    [i \in Slots |->
        CASE i \in FirstEmpty .. FirstEmpty + Len(n) - 1 ->
                LongSlot(n[i - FirstEmpty + 1], i = FirstEmpty + Len(n) - 1)
          [] i = FirstEmpty + Len(n) -> ShortSlot(start, 0)
          [] OTHER -> dir[i]]

\* MaxSlots bounds the directory
HasRoom(n) == \E i \in Slots : is_empty(i) /\ FirstEmpty + Len(n) <= MaxSlots

\* fault: the new cluster is not marked in the table
Create_NoMark(n) ==
    /\ Ready /\ Found(n) = {} /\ FreeClusters # {} /\ HasRoom(n)
    /\ dir' = insert_dentry(n, NewCluster)
    /\ present' = present \cup {n}
    /\ UNCHANGED <<fat, data, grow, halted, content>>

\* create
Create(n) ==
    /\ Ready /\ Found(n) = {} /\ FreeClusters # {} /\ HasRoom(n)
    /\ fat' = [fat EXCEPT ![NewCluster] = Eoc]
    /\ dir' = insert_dentry(n, NewCluster)
    /\ present' = present \cup {n}
    /\ UNCHANGED <<data, grow, halted, content>>

\* create when no entry is free: the search runs past the end of the table
CreatePast(n) ==
    /\ Ready /\ Found(n) = {} /\ FreeClusters = {}
    /\ halted' = TRUE
    /\ UNCHANGED <<fat, dir, data, grow, content, present>>

\* unlink and remove_dentry: the mark just written reads as the end of the name,
\* so the first long slot and the slot after it are deleted; no cluster is freed
Unlink(n) ==
    /\ Ready /\ Found(n) # {}
    /\ dir' = [dir EXCEPT ![lookup(n)].deleted = TRUE, ![lookup(n) + 1].deleted = TRUE]
    /\ present' = present \ {n}
    /\ UNCHANGED <<fat, data, grow, halted, content>>

\* clear
Clear(i) ==
    /\ Ready /\ IsFile(i)
    /\ dir' = [dir EXCEPT ![i].size = 0]
    /\ content' = [content EXCEPT ![i] = <<>>]
    /\ UNCHANGED <<fat, data, grow, halted, present>>

-----------------------------------------------------------------------------
Larger(a, b) == IF a < b THEN b ELSE a

\* increase_size: a size that is not smaller becomes the size of the file
SetSize(i, size) == [dir EXCEPT ![i].size = IF size < @ THEN @ ELSE size]

Outgrows(i, size) == size >= dir[i].size /\ size > Room(i)

\* the bytes [off, off + len) of the file become d; the bytes between the old
\* end and off are what the clusters held
Wrote(i, off, len, d) ==
    [content EXCEPT ![i] =
        [k \in 0 .. Larger(off + len, dir[i].size) - 1 |->
            IF k \in off .. off + len - 1 THEN d
            ELSE IF k < dir[i].size THEN content[i][k] ELSE Stale]]

\* fault: the offset inside the cluster is forgotten
StoreBytes_NoOffset(i, off, len, d) ==
    [c \in Clusters |-> [b \in 0 .. CLUSTER_SIZE - 1 |->
        IF \E k \in 0 .. len - 1 :
                c = Chain(i)[((off + k) \div CLUSTER_SIZE) + 1] /\ b = k % CLUSTER_SIZE
        THEN d ELSE data[c][b]]]

\* the loop of write_at over the clusters of the chain
StoreBytes(i, off, len, d) ==
    [c \in Clusters |-> [b \in 0 .. CLUSTER_SIZE - 1 |->
        IF \E k \in off .. off + len - 1 :
                c = Chain(i)[(k \div CLUSTER_SIZE) + 1] /\ b = k % CLUSTER_SIZE
        THEN d ELSE data[c][b]]]

\* write_at inside the chain of the file
WriteAt(i, off, len, d) ==
    /\ Ready /\ IsFile(i)
    /\ ~Outgrows(i, off + len)
    /\ dir' = SetSize(i, off + len)
    /\ data' = StoreBytes(i, off, len, d)
    /\ content' = Wrote(i, off, len, d)
    /\ UNCHANGED <<fat, grow, halted, present>>

\* write_at beyond the chain: increase_size enters its loop, which compares the
\* chain it read before and never ends
WriteBeyond(i, off, len) ==
    /\ Ready /\ IsFile(i)
    /\ Outgrows(i, off + len)
    /\ dir' = SetSize(i, off + len)
    /\ grow' = Chain(i)[Len(Chain(i))]
    /\ UNCHANGED <<fat, data, halted, content, present>>

\* increase_cluster, once per turn of the loop
increase_cluster ==
    /\ grow # 0 /\ ~halted /\ FreeClusters # {}
    /\ fat' = [fat EXCEPT ![NewCluster] = Eoc, ![grow] = NewCluster]
    /\ grow' = NewCluster
    /\ UNCHANGED <<dir, data, halted, content, present>>

\* no entry is free: the search runs past the end of the table
PastTheTable ==
    /\ grow # 0 /\ ~halted /\ FreeClusters = {}
    /\ halted' = TRUE
    /\ UNCHANGED <<fat, dir, data, grow, content, present>>

\* fault: the end of the file is forgotten
Wanted_NoSize(i, off, len) == len

\* read_at copies from one cluster: how many bytes it asks of it.  The size is
\* subtracted without a check, and wraps for an offset beyond the end
Wanted(i, off, len) ==
    IF off <= dir[i].size /\ dir[i].size - off < len THEN dir[i].size - off ELSE len

\* read_at out of the cluster at off panics
ReadAcross(i, off, len) ==
    /\ Ready /\ IsFile(i) /\ off < Room(i)
    /\ (off % CLUSTER_SIZE) + Wanted(i, off, len) > CLUSTER_SIZE
    /\ halted' = TRUE
    /\ UNCHANGED <<fat, dir, data, grow, content, present>>

\* what read_at returns otherwise
read_at(i, off, len) ==
    IF off >= Room(i) THEN <<>>
    ELSE [k \in 1 .. Wanted(i, off, len) |-> ByteAt(i, off + k - 1)]

\* read_all reads piece by piece until nothing comes
RECURSIVE read_from(_, _)
read_from(i, off) ==
    LET piece == read_at(i, off, BUFFER)
    IN  IF piece = <<>> THEN <<>> ELSE piece \o read_from(i, off + Len(piece))

read_all(i) == read_from(i, 0)

Stopped == halted /\ UNCHANGED vars

Next ==
    \/ \E n \in Names : Create(n) \/ CreatePast(n) \/ Unlink(n)
    \/ \E i \in Slots :
        \/ Clear(i)
        \/ \E off \in Offsets, len \in Lengths :
            \/ \E d \in Data : WriteAt(i, off, len, d)
            \/ WriteBeyond(i, off, len)
            \/ ReadAcross(i, off, len)
    \/ increase_cluster
    \/ PastTheTable
    \/ Stopped

Spec == Init /\ [][Next]_vars

-----------------------------------------------------------------------------
ChainOf(i) == {Chain(i)[k] : k \in 1 .. Len(Chain(i))}

\* Every allocated cluster belongs to the directory or to exactly one file that
\* was ever created, deleted files included, also while a file is growing
OneOwner ==
    /\ \A i, j \in Files :
        i # j => ChainOf(i) \cap ChainOf(j) = {}
    /\ {c \in Clusters : fat[c] # Free}
        = {Root} \cup UNION {ChainOf(i) : i \in Files}

\* A file holds what was last written at each position, whatever was done to
\* the other files and to the directory
ContentKept ==
    grow = 0 => \A i \in Files :
        /\ dir[i].size <= Room(i)
        /\ \A k \in 0 .. dir[i].size - 1 : content[i][k] \in {Stale, ByteAt(i, k)}

\* read_all returns the whole file and nothing else, though read_at only copies
\* from one cluster at a time
ReadAllWhole ==
    grow = 0 => \A i \in Files :
        read_all(i) = [k \in 1 .. dir[i].size |-> ByteAt(i, k - 1)]

\* A name of one part is found by lookup if and only if it was created and not
\* unlinked since, however many slots were deleted before it and although
\* remove_dentry leaves the short slot of a longer name behind
FoundIffPresent ==
    \A n \in Names : Len(n) = 1 => (Found(n) # {} <=> n \in present)
=============================================================================
