------------------------------ MODULE VirtioBlk ------------------------------
(***************************************************************************)
(* The block device of the QEMU board (drivers/block/virtio_blk.rs): reads *)
(* and writes at any offset on a device that moves whole sectors.  A cell  *)
(* stands for a byte.  Every request to the device is a step of its own    *)
(* and can fail; a failed write may have changed its sector.  The device   *)
(* and its queue (the crate virtio_drivers) are external.                  *)
(***************************************************************************)
EXTENDS Integers, Sequences

CONSTANTS
    NCells,         \* of the device
    SECTOR,         \* cells of a sector, BLOCK_SZ
    BLOCK,          \* cells of a read_offset, BLOCK_SIZE
    Cell,           \* what a cell holds
    MaxData,        \* bound: cells of a write_offset
    RETRIES         \* of a read_block

ASSUME VirtioAssumption ==
    /\ NCells \in Nat /\ SECTOR \in Nat \ {0} /\ BLOCK \in Nat
    /\ MaxData \in Nat /\ RETRIES \in Nat

Cells == 0 .. NCells - 1

VARIABLES
    vpc,
    vdisk,
    voff, vdata,    \* the arguments of the call
    vsize,          \* write_size
    vbuf,           \* the sector buffer of write_offset
    vout,           \* what the call has returned
    vtimes,         \* failed tries of read_block
    vold            \* history: the device before the call

vvars == <<vpc, vdisk, voff, vdata, vsize, vbuf, vout, vtimes, vold>>

VInit ==
    /\ vpc = "idle"
    /\ vdisk \in [Cells -> Cell]
    /\ voff = 0 /\ vdata = <<>> /\ vsize = 0 /\ vbuf = <<>> /\ vout = <<>>
    /\ vtimes = 0 /\ vold = vdisk

Overlay(d, off, data, n) ==
    [c \in Cells |-> IF c - off \in 0 .. n - 1 THEN data[c - off + 1] ELSE d[c]]

Slice(first, n) == [k \in 1 .. n |-> vdisk[first + k - 1]]

Begin(off, data) ==
    /\ vpc = "idle"
    /\ voff' = off /\ vdata' = data /\ vsize' = 0 /\ vtimes' = 0 /\ vold' = vdisk
    /\ vbuf' = <<>>
    /\ UNCHANGED vdisk

\* One request for a whole block from the start of the sector.
read_offset(off) ==
    /\ Begin(off, <<>>)
    /\ \/ vpc' = "idle" /\ vout' = Slice(off, BLOCK - (off % SECTOR))
       \/ vpc' = "panic" /\ vout' = <<>>

write_offset(off, data) ==
    /\ Begin(off, data)
    /\ vpc' = IF data = <<>> THEN "idle" ELSE "fetch"
    /\ vout' = <<>>

\* The sector and the part of it the loop of write_offset is at.
pos == voff + vsize
block_offset == pos % SECTOR
base == pos - block_offset
copy_size ==
    IF Len(vdata) - vsize < SECTOR - block_offset
    THEN Len(vdata) - vsize ELSE SECTOR - block_offset

\* fault: the rest of the sector is not read first.
Fetch_Nothing ==
    /\ vpc = "fetch"
    /\ \/ /\ vpc' = "store"
          /\ vbuf' = [i \in 0 .. SECTOR - 1 |->
                         IF i - block_offset \in 0 .. copy_size - 1
                         THEN vdata[vsize + i - block_offset + 1]
                         ELSE 0]
       \/ vpc' = "panic" /\ UNCHANGED vbuf
    /\ UNCHANGED <<vdisk, voff, vdata, vsize, vout, vtimes, vold>>

\* The sector is read and the data copied into it.
Fetch ==
    /\ vpc = "fetch"
    /\ \/ /\ vpc' = "store"
          /\ vbuf' = [i \in 0 .. SECTOR - 1 |->
                         IF i - block_offset \in 0 .. copy_size - 1
                         THEN vdata[vsize + i - block_offset + 1]
                         ELSE vdisk[base + i]]
       \/ vpc' = "panic" /\ UNCHANGED vbuf
    /\ UNCHANGED <<vdisk, voff, vdata, vsize, vout, vtimes, vold>>

Stored ==
    [c \in Cells |-> IF c - base \in 0 .. SECTOR - 1 THEN vbuf[c - base] ELSE vdisk[c]]

Store ==
    /\ vpc = "store"
    /\ \/ /\ vdisk' = Stored
          /\ vsize' = vsize + copy_size
          /\ vpc' = IF vsize + copy_size < Len(vdata) THEN "fetch" ELSE "idle"
       \/ vpc' = "panic" /\ vdisk' \in {vdisk, Stored} /\ UNCHANGED vsize
    /\ vbuf' = <<>>
    /\ UNCHANGED <<voff, vdata, vout, vtimes, vold>>

\* A whole sector, as the block cache asks for it.
read_block(id) ==
    /\ Begin(id * SECTOR, <<>>)
    /\ vpc' = "try"
    /\ vout' = <<>>

\* The panic comes before the result of the last try is looked at.
Try ==
    /\ vpc = "try"
    /\ \/ /\ vtimes <= RETRIES
          /\ vpc' = "idle" /\ vout' = Slice(voff, SECTOR) /\ UNCHANGED vtimes
       \/ /\ vtimes' = vtimes + 1
          /\ vpc' = IF vtimes > RETRIES THEN "panic" ELSE "try"
          /\ UNCHANGED vout
    /\ UNCHANGED <<vdisk, voff, vdata, vsize, vbuf, vold>>

write_block(id, data) ==
    /\ vpc = "idle"
    /\ voff' = id * SECTOR /\ vdata' = data /\ vold' = vdisk
    /\ LET new == Overlay(vdisk, id * SECTOR, data, SECTOR)
       IN  \/ vpc' = "idle" /\ vdisk' = new /\ vsize' = SECTOR
           \/ vpc' = "panic" /\ vdisk' \in {vdisk, new} /\ vsize' = 0
    /\ vout' = <<>> /\ vbuf' = <<>> /\ vtimes' = 0

VNext ==
    \/ Fetch \/ Store \/ Try
    \/ \E off \in Cells :
          \/ off - (off % SECTOR) + BLOCK <= NCells /\ read_offset(off)
          \/ \E n \in 0 .. MaxData :
                off + n <= NCells /\ \E data \in [1 .. n -> Cell] : write_offset(off, data)
          \/ off % SECTOR = 0 /\
                \/ read_block(off \div SECTOR)
                \/ \E data \in [1 .. SECTOR -> Cell] : write_block(off \div SECTOR, data)

VSpec == VInit /\ [][VNext]_vvars

-----------------------------------------------------------------------------
\* A write_offset or write_block changes the range it was given and nothing
\* else, from its start on: when a request to the device fails in the middle, a
\* first part of the data is on the device, and when the call returns all of it.
WritePrefix ==
    \E n \in 0 .. Len(vdata) :
        /\ vdisk = Overlay(vold, voff, vdata, n)
        /\ vpc = "idle" => n = Len(vdata)

=============================================================================
