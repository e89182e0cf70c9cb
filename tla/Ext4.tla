-------------------------------- MODULE Ext4 --------------------------------
(***************************************************************************)
(* The ext4 library (os/libs/ext4_rs) and the inode the kernel puts on it  *)
(* (os/src/fs/ext4).  Every call runs to its end without giving the hart   *)
(* away, so a call is one step.  The disk is one record, and a function of *)
(* the library is an operator from disks to disks.                         *)
(*                                                                         *)
(* A path has one or two names.  A file grows at its end only, and the     *)
(* search for the extent before its end includes the block after it, so    *)
(* the blocks of an inode are one extent: start and len.  Blocks are only  *)
(* allocated in group 0.  Lengths of directory entries are in any unit;    *)
(* file sizes are in blocks, positions in cells, of which a block has      *)
(* CELLS.  Checksums, times, modes other than the file type, i_blocks and  *)
(* the directory and unused counts of a group decide nothing, and are left *)
(* out.                                                                    *)
(*                                                                         *)
(* halt says why the model is not followed further: the call never returns *)
(* (loop) or panics, a walk runs into a block that is no directory         *)
(* (corrupt), an inode in use is handed out again (aliased), the bitmap of *)
(* blocks has no clear bit left (full), or a file gets blocks that do not  *)
(* follow its last one, although its extent takes them as if they did      *)
(* (merged).                                                               *)
(***************************************************************************)
EXTENDS Integers, FiniteSets, SequencesExt

CONSTANTS
    Names,
    Paths,          \* the paths that callers use
    Longer,         \* per name: the names that begin with it
    RecLen,         \* length of an entry, whatever its name
    Slack,          \* dir_try_insert_entry asks for this much more
    DirLen,         \* length of a directory block without its tail
    IPG,            \* inodes per group
    NGroups,
    Reserved,       \* the first inodes, in use from the start
    NBlocks,        \* blocks of group 0
    FirstFree,      \* the blocks below hold the metadata of the image
    OtherFree,      \* free blocks of the other groups
    CELLS,
    ReadLengths,
    MaxFileBlocks   \* bound: blocks of a file

Root == 2
Inodes == 1 .. NGroups * IPG
Groups == 0 .. NGroups - 1
Blocks == 0 .. NBlocks - 1

ASSUME Ext4Assumption ==
    /\ IPG \in Nat /\ NGroups \in Nat /\ NGroups >= 2
    /\ Reserved \in Nat /\ Root <= Reserved /\ Reserved <= IPG
    /\ NBlocks \in Nat /\ FirstFree \in 2 .. NBlocks - 1
    /\ OtherFree \in Nat
    /\ RecLen \in Nat \ {0} /\ Slack \in Nat /\ DirLen \in Nat
    /\ DirLen >= 2 * RecLen + Slack
    /\ Paths \subseteq Seq(Names) /\ \A p \in Paths : Len(p) \in 1 .. 2
    /\ Longer \in [Names -> SUBSET Names]
    /\ \A n \in Names : n \in Longer[n] /\ n \notin {".", ".."}
    /\ CELLS \in Nat \ {0} /\ ReadLengths \subseteq Nat /\ MaxFileBlocks \in Nat

VARIABLES
    disk,
    fd,         \* the Ext4File of the caller, or NoFile
    got,        \* what the last ext4_file_read returned
    tree,       \* history: per path that should exist, its kind and inode
    written     \* history: per inode, the blocks written since it was created

vars == <<disk, fd, got, tree, written>>

NoFile == [ino |-> 0, fpos |-> 0, fsize |-> 0]
NoInode == [kind |-> "none", links |-> 0, size |-> 0, start |-> 0, len |-> 0]
Meta == [type |-> "meta"]
\* Callers put into block k of the file with inode n a value of its own.
DataBlock(n, k) == [type |-> "data", val |-> <<n, k>>]
DirBlock(es) == [type |-> "dir", entries |-> es]
Entry(name, ino, len) == [name |-> name, ino |-> ino, len |-> len]

Stop(d, why) == [d EXCEPT !.halt = why]

-----------------------------------------------------------------------------
(* Bitmaps and counters.                                                   *)

\* The first clear bit; when there is none the result keeps its initial 0.
ext4_bmap_bit_find_clr(set, from, to) ==
    IF (from .. to) \subseteq set THEN from ELSE Min((from .. to) \ set)

ext4_bmap_bits_free(set, start_bit, end_bit) == set \ (start_bit .. end_bit)

\* The first group whose count is not zero.  With none the search never ends.
\* The last group is taken to have inodes up to 2^32, and its search leaves
\* the bitmap when all its bits are set.
ext4_ialloc_alloc_inode(d) ==
    LET free == {g \in Groups : d.ifree[g] > 0}
        g == Min(free)
        bits == g * IPG + 1 .. (g + 1) * IPG
        n == ext4_bmap_bit_find_clr(d.imap, g * IPG + 1, (g + 1) * IPG)
    IN  IF free = {}
        THEN [d |-> Stop(d, "loop"), ino |-> 0]
        ELSE IF g = NGroups - 1 /\ bits \subseteq d.imap
        THEN [d |-> Stop(d, "panic"), ino |-> 0]
        ELSE [d |-> [d EXCEPT !.imap = @ \cup {n}, !.ifree[g] = @ - 1],
              ino |-> n]

\* The bit and the group of an inode are counted from 0 and the inode from 1:
\* the bit that is cleared is the one of the next inode.
ext4_ialloc_free_inode(d, n) ==
    IF n \div IPG >= NGroups
    THEN Stop(d, "corrupt")
    ELSE [d EXCEPT !.imap = @ \ {n + 1}, !.ifree[n \div IPG] = @ + 1]

\* The n first clear blocks, as n calls of balloc_alloc_block take them.
FirstClear(d, n) ==
    {b \in Blocks \ d.bmap : Cardinality({c \in Blocks \ d.bmap : c < b}) < n}

\* The counts of the superblock and of the group, with n blocks more.
set_free_blocks_count(d, n) == [d EXCEPT !.sbfree = @ + n, !.bfree = @ + n]

\* A full bitmap gives block 0; what follows is not modelled.
balloc_alloc_block(d, n) ==
    IF Cardinality(Blocks \ d.bmap) < n
    THEN Stop(d, "full")
    ELSE [set_free_blocks_count(d, -n) EXCEPT !.bmap = @ \cup FirstClear(d, n)]

\* fault: the range ends one block late.
balloc_free_blocks_Beyond(d, start, count) ==
    [set_free_blocks_count(d, count) EXCEPT !.bmap = ext4_bmap_bits_free(@, start, start + count)]

\* ext4_bmap_bits_free takes the last bit, and is given the number of bits.
balloc_free_blocks(d, start, count) ==
    [set_free_blocks_count(d, count) EXCEPT !.bmap = ext4_bmap_bits_free(@, start, count)]

-----------------------------------------------------------------------------
(* Inodes and their extent.                                                *)

write_back_inode(d, n, i) == [d EXCEPT !.inode[n] = i]

\* A new inode; its number comes from ext4_ialloc_alloc_inode.
ext4_fs_alloc_inode(kind) == [NoInode EXCEPT !.kind = kind]

\* The blocks of a file are appended in order, so those that follow what is
\* there follow its extent; the longest extent is far above MaxFileBlocks.
can_append(i) == i.len > 0

\* fault: the extent is made to begin with the new blocks.
insert_leaf_Restart(i, first, n) == [i EXCEPT !.start = first, !.len = @ + n]

\* The blocks join the extent by their place in the file alone.
insert_leaf(i, first, n) ==
    [i EXCEPT !.start = IF can_append(i) THEN @ ELSE first, !.len = @ + n]

\* The block after the last is mapped nowhere, so that it is always inserted.
get_blocks(i, first, n) == insert_leaf(i, first, n)

append_inode_dblk(i, first, n) == [get_blocks(i, first, n) EXCEPT !.size = @ + n]

\* The tree of an inode is its root, and the root holds the one extent.
find_extent(i) == [first |-> i.start, count |-> i.len]

get_blocks_new(i, iblock) == find_extent(i).first + iblock

get_inode_dblk_idx(i, iblock) == get_blocks_new(i, iblock)

\* Truncation is always to size 0: the whole extent goes, and an empty leaf is
\* filled with zeros.
ext_remove_blocks(d, i) == balloc_free_blocks(d, i.start, i.len)

ext_remove_leaf(d, n) ==
    [ext_remove_blocks(d, d.inode[n]) EXCEPT !.inode[n].len = 0]

extent_remove_space(d, n) == [ext_remove_leaf(d, n) EXCEPT !.inode[n].start = 0]

truncate_inode(d, n) == [extent_remove_space(d, n) EXCEPT !.inode[n].size = 0]

ext4_trunc_inode(d, n) == IF d.inode[n].size > 0 THEN truncate_inode(d, n) ELSE d

-----------------------------------------------------------------------------
(* Directories.                                                            *)

HasDirBlock(d, i) ==
    i.kind = "dir" /\ i.size > 0 /\ d.blk[get_inode_dblk_idx(i, 0)].type = "dir"

read_dir_entry(d, i) ==
    IF HasDirBlock(d, i) THEN d.blk[get_inode_dblk_idx(i, 0)].entries ELSE <<>>

\* fault: the last entry of the block is left out.
dir_find_in_block_Short(es, name) ==
    {k \in DOMAIN es : k < Len(es) /\ es[k].name = name}

dir_find_in_block(es, name) == {k \in DOMAIN es : es[k].name = name}

dir_find_in_block_new(es, name) ==
    {k \in DOMAIN es : es[k].name \in Names /\ es[k].name \in Longer[name]}

\* The searches over the blocks of a directory, of which there is one.
ext4_dir_find_entry(d, i, name) == dir_find_in_block(read_dir_entry(d, i), name)
dir_find_entry_new(d, i, name) == dir_find_in_block(read_dir_entry(d, i), name)
ext4_dir_find_entry_new(d, i, name) == dir_find_in_block_new(read_dir_entry(d, i), name)

inode_has_entry(es) == \E k \in DOMAIN es : es[k].name \notin {".", ".."}

has_children(d, i) == i.kind = "dir" /\ inode_has_entry(read_dir_entry(d, i))

CanSplit(es) == {k \in DOMAIN es : es[k].len - RecLen >= RecLen + Slack}

\* The first entry with room behind it is split.
dir_try_insert_entry(es, name, ino) ==
    LET k == Min(CanSplit(es))
    IN  SubSeq(es, 1, k - 1)
            \o <<[es[k] EXCEPT !.len = RecLen],
                 Entry(name, ino, es[k].len - RecLen)>>
            \o SubSeq(es, k + 1, Len(es))

\* fault: the room of the entry is lost.
ext4_dir_remove_entry_new_Lost(es, k) == SubSeq(es, 1, k - 1) \o SubSeq(es, k + 1, Len(es))

\* The entry before takes the room of the one that is removed.
ext4_dir_remove_entry_new(es, k) ==
    SubSeq(es, 1, k - 2)
        \o <<[es[k - 1] EXCEPT !.len = @ + es[k].len]>>
        \o SubSeq(es, k + 1, Len(es))

\* A full block sends the search onto the tail of the block, whose inode is 0
\* and which it never gets past.
ext4_dir_add_entry(d, parent, ino, name) ==
    LET b == get_inode_dblk_idx(parent, 0)
    IN  IF ~HasDirBlock(d, parent) THEN Stop(d, "corrupt")
        ELSE IF CanSplit(d.blk[b].entries) = {} THEN Stop(d, "loop")
        ELSE [d EXCEPT !.blk[b] =
                  DirBlock(dir_try_insert_entry(@.entries, name, ino))]

\* A new directory allocates the block of its "." and puts ".." behind it.
NewDirBlock(d, n, p) ==
    LET d1 == balloc_alloc_block(d, 1)
    IN  IF d1.halt # "no" THEN d1
        ELSE [d1 EXCEPT !.blk[Min(FirstClear(d, 1))] =
                 DirBlock(dir_try_insert_entry(<<Entry(".", n, DirLen)>>, "..", p))]

\* What becomes of the inode of the parent and of the new one, whose block, if
\* it is a directory, is b.
LinkedParent(parent, kind) ==
    IF kind = "dir" THEN [parent EXCEPT !.links = @ + 1] ELSE parent
LinkedChild(kind, b) ==
    IF kind = "dir"
    THEN [append_inode_dblk(ext4_fs_alloc_inode("dir"), b, 1) EXCEPT !.links = 2]
    ELSE [ext4_fs_alloc_inode("file") EXCEPT !.links = 1]

\* p is the number of the parent and parent its copy in memory, written back
\* before the child.
ext4_link(d, p, parent, n, kind, name) ==
    LET d1 == ext4_dir_add_entry(d, parent, n, name)
        d2 == IF kind = "dir" /\ d1.halt = "no" THEN NewDirBlock(d1, n, p) ELSE d1
        b == Min(FirstClear(d1, 1))
    IN  IF d2.halt # "no" THEN d2
        ELSE write_back_inode(write_back_inode(d2, p, LinkedParent(parent, kind)),
                              n, LinkedChild(kind, b))

\* The name is looked for again in the same block, and found there.
ext4_unlink(d, p, n, name) ==
    LET es == read_dir_entry(d, d.inode[p])
        ks == dir_find_entry_new(d, d.inode[p], name)
        b == get_inode_dblk_idx(d.inode[p], 0)
    IN  IF ks = {} \/ 1 \in ks
        THEN Stop(d, "corrupt")
        ELSE ext4_ialloc_free_inode(
                 [d EXCEPT !.blk[b] =
                     DirBlock(ext4_dir_remove_entry_new(es, Min(ks)))], n)

-----------------------------------------------------------------------------
(* Walking a path.  w.at is the inode reached, w.parent the one before it. *)
(* After it has created an inode, an open writes back a copy of the inode  *)
(* w.back that it loaded before; 0 when it writes none.                    *)

InUse(d) ==
    LET Listed(i) == {e.ino : e \in Range(read_dir_entry(d, d.inode[i]))}
    IN  {Root} \cup Listed(Root) \cup UNION {Listed(i) : i \in Listed(Root)}

CreateIn(w, name, kind) ==
    LET a == ext4_ialloc_alloc_inode(w.d)
        d1 == ext4_link(a.d, w.at, w.d.inode[w.at], a.ino, kind, name)
    IN  IF a.d.halt # "no" THEN [w EXCEPT !.d = a.d]
        ELSE IF a.ino \in InUse(w.d) \cup {fd.ino} THEN [w EXCEPT !.d = Stop(w.d, "aliased")]
        ELSE IF d1.halt # "no" THEN [w EXCEPT !.d = d1]
        ELSE [w EXCEPT
                 !.d = IF w.back = 0 THEN d1
                       ELSE write_back_inode(d1, w.back, w.copy),
                 !.parent = w.at,
                 !.at = a.ino,
                 !.made = Append(@, a.ino)]

\* moves: ext4_generic_open2 makes the directory it finds a name in the parent
\* whose copy it will write back.
WalkName(w, name, create, kind, moves) ==
    LET es == read_dir_entry(w.d, w.d.inode[w.at])
        ks == ext4_dir_find_entry(w.d, w.d.inode[w.at], name)
    IN  IF w.d.halt # "no" \/ w.err THEN w
        ELSE IF w.d.inode[w.at].size > 0 /\ ~HasDirBlock(w.d, w.d.inode[w.at])
        THEN [w EXCEPT !.d = Stop(w.d, "corrupt")]
        ELSE IF ks # {}
        THEN [w EXCEPT !.parent = w.at, !.at = es[Min(ks)].ino,
                       !.made = Append(@, es[Min(ks)].ino),
                       !.back = IF moves THEN w.at ELSE @,
                       !.copy = IF moves THEN w.d.inode[w.at] ELSE @]
        ELSE IF ~create THEN [w EXCEPT !.err = TRUE]
        ELSE CreateIn(w, name, kind)

WalkPath(from, back, path, create, kind, moves) ==
    LET w == [d |-> disk, at |-> from, parent |-> from, err |-> FALSE,
              made |-> <<>>, back |-> back,
              copy |-> IF back = 0 THEN NoInode ELSE disk.inode[back]]
    IN  IF Len(path) = 1
        THEN WalkName(w, path[1], create, kind, moves)
        ELSE WalkName(WalkName(w, path[1], create, "dir", moves),
                      path[2], create, kind, moves)

ext4_generic_open(back, path, create, kind) ==
    WalkPath(Root, back, path, create, kind, FALSE)
ext4_generic_open2(back, path, create, kind) ==
    WalkPath(Root, back, path, create, kind, TRUE)
ext4_generic_open_from(from, path, create, kind) ==
    WalkPath(from, 0, path, create, kind, FALSE)

-----------------------------------------------------------------------------
(* The calls.                                                              *)

Init ==
    /\ disk = [inode |-> [n \in Inodes |->
                   IF n = Root
                   THEN [kind |-> "dir", links |-> 2, size |-> 1,
                         start |-> FirstFree - 1, len |-> 1]
                   ELSE NoInode],
               imap |-> 1 .. Reserved,
               ifree |-> [g \in Groups |-> IF g = 0 THEN IPG - Reserved ELSE IPG],
               bmap |-> 0 .. FirstFree - 1,
               bfree |-> NBlocks - FirstFree,
               sbfree |-> NBlocks - FirstFree + OtherFree,
               blk |-> [b \in Blocks |->
                   IF b = FirstFree - 1
                   THEN DirBlock(<<Entry(".", Root, RecLen),
                                   Entry("..", Root, DirLen - RecLen)>>)
                   ELSE Meta],
               halt |-> "no"]
    /\ fd = NoFile
    /\ got = <<>>
    /\ tree = [p \in {<<>>} |-> [kind |-> "dir", ino |-> Root]]
    /\ written = [n \in Inodes |-> 0]

Up == disk.halt = "no"

DirPaths == {p \in DOMAIN tree : tree[p].kind = "dir"}

\* What should exist once the walk w along path from the directory base is over.
Grown(base, path, kind, w) ==
    LET new == {base \o SubSeq(path, 1, k) : k \in 1 .. Len(path)} \ DOMAIN tree
    IN  [p \in DOMAIN tree \cup new |->
            IF p \in DOMAIN tree THEN tree[p]
            ELSE [kind |-> IF p = base \o path THEN kind ELSE "dir",
                  ino |-> w.made[Len(p) - Len(base)]]]

Walked(base, path, kind, w) ==
    /\ disk' = w.d
    /\ got' = <<>>
    /\ IF w.err \/ w.d.halt # "no"
       THEN UNCHANGED <<tree, written>>
       ELSE /\ tree' = Grown(base, path, kind, w)
            /\ written' = [n \in Inodes |->
                   IF \E p \in DOMAIN tree' \ DOMAIN tree : tree'[p].ino = n
                   THEN 0 ELSE written[n]]

\* The caller keeps the file it has opened.  One of a directory is dropped: the
\* calls on directories take an inode and a name.
Opened(w) ==
    fd' = IF w.err \/ w.d.halt # "no" \/ w.d.inode[w.at].kind = "dir" THEN fd
          ELSE [ino |-> w.at, fpos |-> 0, fsize |-> w.d.inode[w.at].size]

\* The copy of the root that is written back is the one of before the call.
ext4_open(path, create, kind) ==
    LET w == ext4_generic_open(Root, path, create, kind)
    IN  Up /\ fd = NoFile /\ Walked(<<>>, path, kind, w) /\ Opened(w)

ext4_open_new(path, create, kind) ==
    LET w == ext4_generic_open2(Root, path, create, kind)
    IN  Up /\ fd = NoFile /\ Walked(<<>>, path, kind, w) /\ Opened(w)

ext4_open_from(base, path, create, kind) ==
    LET w == ext4_generic_open_from(tree[base].ino, path, create, kind)
    IN  Up /\ fd = NoFile /\ Walked(base, path, kind, w) /\ Opened(w)

\* The path is followed from the root, whatever the parent.
ext4_dir_mk(base, path) ==
    LET w == ext4_generic_open(tree[base].ino, path, TRUE, "dir")
    IN  Up /\ Walked(<<>>, path, "dir", w) /\ UNCHANGED fd

ext4_file_close ==
    /\ Up /\ fd # NoFile
    /\ fd' = NoFile /\ got' = <<>>
    /\ UNCHANGED <<disk, tree, written>>

\* A write appends one block per block of data, whatever the file holds, and
\* puts the data behind the first block it was given.  A rest that does not
\* fill a block is dropped.  With a position the loop appends blocks until it
\* is past the end of the data.
ext4_file_write(n) ==
    LET i == disk.inode[fd.ino]
        new == FirstClear(disk, n)
        first == Min(new)
        d == balloc_alloc_block(disk, n)
        why == IF fd.fpos > 0 THEN "panic"
               ELSE IF d.halt # "no" THEN d.halt
               ELSE IF \/ new # first .. first + n - 1
                       \/ i.len > 0 /\ first # i.start + i.len THEN "merged"
               ELSE "no"
    IN  /\ Up /\ fd # NoFile
        /\ i.kind = "file" /\ i.size + n <= MaxFileBlocks
        /\ got' = <<>>
        /\ IF why # "no"
           THEN disk' = Stop(disk, why) /\ UNCHANGED written
           ELSE /\ disk' = [d EXCEPT
                       !.inode[fd.ino] = append_inode_dblk(i, first, n),
                       !.blk = [b \in Blocks |->
                           IF b - first \in 0 .. n - 1
                           THEN DataBlock(fd.ino, i.size + b - first) ELSE @[b]]]
                /\ written' = [written EXCEPT ![fd.ino] = @ + n]
        /\ UNCHANGED <<fd, tree>>

\* fault: every block is read from its start.
ReadCell_FromStart(i, pos) ==
    LET b == disk.blk[get_inode_dblk_idx(i, pos \div CELLS)]
    IN  <<IF b.type = "data" THEN b.val ELSE b.type, 0>>

ReadCell(i, pos) ==
    LET b == disk.blk[get_inode_dblk_idx(i, pos \div CELLS)]
    IN  <<IF b.type = "data" THEN b.val ELSE b.type, pos % CELLS>>

\* The size is read again from the disk: a position behind it makes the length
\* wrap, and the first block that is not there ends the kernel.
ext4_file_read(n) ==
    LET i == disk.inode[fd.ino]
        size == i.size * CELLS
        m == Min({n, size - fd.fpos})
    IN  /\ Up /\ fd # NoFile /\ i.kind = "file"
        /\ fd.fpos <= fd.fsize * CELLS
        /\ IF fd.fpos > size
           THEN disk' = Stop(disk, "panic") /\ got' = <<>> /\ UNCHANGED fd
           ELSE /\ got' = [k \in 1 .. m |-> ReadCell(i, fd.fpos + k - 1)]
                /\ fd' = [fd EXCEPT !.fpos = @ + m, !.fsize = i.size]
                /\ UNCHANGED disk
        /\ UNCHANGED <<tree, written>>

Without(path) ==
    [p \in {q \in DOMAIN tree : ~IsPrefix(path, q)} |-> tree[p]]

\* A name that is not there leaves inode 0, and the group of inode 0 is outside
\* the table.  Only a file with one link is truncated; the inode is freed
\* whatever it is.
ext4_file_remove(path) ==
    LET w == ext4_generic_open2(Root, path, FALSE, "none")
        d == IF disk.inode[w.at].links = 1 THEN ext4_trunc_inode(disk, w.at) ELSE disk
    IN  /\ Up
        /\ got' = <<>>
        /\ IF w.err \/ w.d.halt # "no"
           THEN /\ disk' = Stop(disk, IF w.err THEN "panic" ELSE w.d.halt)
                /\ UNCHANGED <<tree, written>>
           ELSE /\ disk' = ext4_unlink(d, w.parent, w.at, Last(path))
                /\ tree' = Without(path)
                /\ written' = [written EXCEPT ![w.at] = 0]
        /\ UNCHANGED fd

\* The first entry that begins with the name is the one looked at.
ext4_dir_remove(base, name) ==
    LET p == tree[base].ino
        es == read_dir_entry(disk, disk.inode[p])
        ks == ext4_dir_find_entry_new(disk, disk.inode[p], name)
        n == es[Min(ks)].ino
    IN  /\ Up /\ ks # {}
        /\ ~has_children(disk, disk.inode[n])
        /\ disk' = ext4_unlink(ext4_trunc_inode(disk, n), p, n, name)
        /\ tree' = Without(Append(base, name))
        /\ written' = [written EXCEPT ![n] = 0]
        /\ got' = <<>>
        /\ UNCHANGED fd

Next ==
    \/ \E path \in Paths, create \in BOOLEAN :
           \/ ext4_open(path, create, "file")
           \/ ext4_open_new(path, create, "file")
    \/ \E path \in Paths :
           /\ Front(path) \in DirPaths
           /\ ext4_open_from(Front(path), <<Last(path)>>, FALSE, "none")
    \/ \E base \in DirPaths, path \in Paths : ext4_dir_mk(base, path)
    \/ ext4_file_close
    \/ \E n \in 1 .. 2 : ext4_file_write(n)
    \/ \E n \in ReadLengths : ext4_file_read(n)
    \/ \E path \in Paths : ext4_file_remove(path)
    \/ \E path \in Paths :
           Front(path) \in DirPaths /\ ext4_dir_remove(Front(path), Last(path))

Spec == Init /\ [][Next]_vars

-----------------------------------------------------------------------------
(* Properties.                                                             *)

\* The entries of a directory lie end to end up to the tail of its block, each
\* long enough for itself, through every split and every removal.
DirTiled ==
    \A b \in Blocks : disk.blk[b].type = "dir" =>
        LET es == disk.blk[b].entries
        IN  /\ \A k \in DOMAIN es : es[k].len >= RecLen
            /\ FoldLeft(LAMBDA sum, e : sum + e.len, 0, es) = DirLen

\* The names that ext4_open and its like find on the disk are the names that
\* were created and not removed, each leads to the inode it was created with,
\* and none is listed twice: also after the inode of the parent was written
\* back from a copy taken before the call.
NamesExact ==
    Up =>
        \A p \in DOMAIN tree :
            /\ disk.inode[tree[p].ino].kind = tree[p].kind
            /\ tree[p].kind = "dir" =>
                LET es == SelectSeq(read_dir_entry(disk, disk.inode[tree[p].ino]),
                                    LAMBDA e : e.name \in Names)
                    below == {q \in DOMAIN tree : q # <<>> /\ Front(q) = p}
                IN  /\ {<<e.name, e.ino>> : e \in Range(es)}
                         = {<<Last(q), tree[q].ino>> : q \in below}
                    /\ Len(es) = Cardinality(below)

\* A file holds what ext4_file_write put into it: no call on another file or on
\* a directory touches its blocks or its size.
ContentKept ==
    Up =>
        \A p \in DOMAIN tree : tree[p].kind = "file" =>
            LET i == disk.inode[tree[p].ino]
            IN  /\ i.size = written[tree[p].ino]
                /\ \A k \in 0 .. i.size - 1 :
                       disk.blk[get_inode_dblk_idx(i, k)]
                           = DataBlock(tree[p].ino, k)

\* Calls of ext4_file_read on an open file return its cells in order, across
\* blocks and from any position, and never beyond its end.
ReadInOrder ==
    Up =>
        \A k \in DOMAIN got :
            LET pos == fd.fpos - Len(got) + k - 1
            IN  /\ pos \div CELLS < written[fd.ino]
                /\ got[k] = <<<<fd.ino, pos \div CELLS>>, pos % CELLS>>

\* A block that a file or a directory in use is mapped to is marked in the
\* bitmap, so that balloc_alloc_block does not hand it out again; the superblock
\* and the groups agree on how many blocks are free, and count no fewer than are
\* clear in the bitmap.
BlocksAccounted ==
    Up => /\ \A p \in DOMAIN tree :
                 LET i == disk.inode[tree[p].ino]
                 IN  i.start .. i.start + i.size - 1 \subseteq disk.bmap
          /\ disk.sbfree = disk.bfree + OtherFree
          /\ disk.bfree >= Cardinality(Blocks \ disk.bmap)

\* An inode that a name leads to is marked in the bitmap: freeing an inode
\* clears the bit of that inode and of no other.
LiveInodeMarked == Up => \A p \in DOMAIN tree : tree[p].ino \in disk.imap

=============================================================================
