# chaos: a TLA+ model of the kernel

chaos is a RISC-V kernel (`src/os/src`) that runs Linux-like user programs on one
hart. This directory holds TLA+ modules translated from its source, the TLC
configurations that check them on small instances, and TLAPS proofs of what must
hold for every size. `PROJECT.json` maps each definition to the lines it models.

## The system

A process enters the kernel through `trap_handler` and leaves through
`user_entry`. Kernel code is never preempted: a task gives the hart away only
where it calls `suspend_current_and_run_next` (yield, timer, a blocking `wait4`, a
pipe that is empty or full) or `exit_current_and_run_next`. Everything hard follows
from those points: what a task knew before them may be stale after them. One
choice of the code makes this sharper: `__switch` does not save `satp`, so a task
that is dispatched again runs in the address space of the process that ran before
until something writes `satp`.

| part | source | modules | status |
| --- | --- | --- | --- |
| scheduler, ready queue, pid table | `task/processor.rs`, `task/manager.rs`, `task/mod.rs` | `Process` | without the block queue |
| fork, execve, exit, wait4 | `task/task.rs`, `syscall/process.rs` | `Process`, `ProcessLife`, `ProcessImpl` | without threads |
| trap entry and return, `satp` | `trap/mod.rs` | `Process` | without registers |
| signals | `task/signal.rs` | `Process` | fatal signals |
| init program | `user/src/bin/initproc.rs` | `System` | modelled |
| pids and kernel stacks | `task/res.rs` | `RecycleAllocator`, `IdPool` | modelled |
| frames and address spaces | `mm/*.rs` | `Memory` | page granularity |
| pipes and the calls on them | `fs/pipe.rs`, `syscall/fs.rs` | `Ring`, `Fifo`, `Pipe` | without poll |
| block cache | `block/block_cache.rs` | `BlockCache`, `Disk` | modelled |
| FAT32 | `fs/fat32/*.rs` | `Fat` | one directory |
| ext4 | `os/libs/ext4_rs`, `fs/ext4/*.rs` | `Ext4` | one block group, paths of two names |
| block device | `drivers/block/*.rs`, `os/libs/visionfive2-sd` | `SdCard`, `VirtioBlk`, `BlockDevice` | without the virtio queue |
| the rest | | | see below and `components` in PROJECT.json |

## The modules

**Process.** The hart (`current`, `satp`), the ready queue, `PID2PCB` and the task
control blocks. `pc[p]` is where `p` goes on when it is dispatched: `entry` (first
return to user mode), `user`, `wait4` and `wait_return` (inside `sys_wait4`), `tail`
(the end of `trap_handler`). One action per system call, interrupt or fault, then
the steps of the trap return: signals are checked (`TrapSignal`), the result is
stored and user mode is entered (`TrapReturn`). `report` is a history variable.

**ProcessLife, ProcessImpl.** What the life cycle promises: a process is born with
a parent, dies once, is reported once to the parent it has then.

**System.** `Process` driven by the init program, which forks a shell and waits
until `wait4` says that no child is left.

**RecycleAllocator, IdPool.** `alloc`, `dealloc` and the places of kernel stacks;
the abstract pool of ids.

**Memory.** The frame allocator, and per process the page table and the three maps
that own frames. A PTE owns nothing, so a page table may refer to frames that were
given back: `munmap`, `exit` and `execve` all leave such references.

**Ring, Fifo, Pipe.** The ring buffer with `head`, `tail` and `status`; the bounded
FIFO it implements; and the pipe with its two ends in the descriptor tables,
passed on by fork, dup, dup3 and fcntl, and read and written one byte per step with
the suspensions in between. A descriptor table is a count per end: no property
tells descriptor numbers apart.

**BlockCache, Disk.** The queue of cached blocks, the references clients hold, and
the device; the abstract disk with a visible and a durable content. The history
variable `last` records the last read or write of a client in both, so the
refinement says that a read returns the last write and that no block changes
without a write of a client or a restart.

**Fat.** The allocation table, the slots of one directory, the clusters. Each
operation is one step, because none gives the hart away. A write beyond the chain of
a file is a loop without an end, as it compares a chain computed once before it; the
model takes it until the table is used up (`WriteBeyond`, `PastTheTable`). FAT32 is
compiled but the kernel mounts ext4.

**Ext4.** The file system the kernel mounts. The disk is one record (inodes, the two
bitmaps, the free counters, the blocks), and each function of the library is an
operator on it with the function's name; a call runs to its end without giving the
hart away, so a call is one step. A walk along a path carries what
`ext4_generic_open` carries: the inode it is at, and the copy of the inode it loaded
first and writes back after a creation, although the creation has changed it on disk
(`back`, `copy`). `tree` and `written` are history variables: the names and blocks
that should be there. `disk.halt` tells why a behaviour is not followed further:

| `halt` | what the code does |
| --- | --- |
| `loop` | searches forever: no free inode in any group, or no room in a directory block |
| `panic` | unwraps nothing or indexes out of range: removing a name that is not there, reading behind the end of a file truncated meanwhile, writing with a position |
| `corrupt` | takes a block of data for a directory: a path that goes through a regular file (no type is checked) |
| `aliased` | hands out an inode in use, whose bit the removal of its neighbour cleared (`ext4_inode_free`) |
| `full` | takes block 0 for a new block when the bitmap is full |
| `merged` | joins blocks that are not adjacent on the disk to one extent (`can_append` compares only the places in the file), so the file is lost |

The invariants of `Ext4` hold up to these points and claim nothing after them.

**SdCard.** The driver of the VisionFive 2 polls the registers of a controller that
works on its own. The steps of the driver are those of `send_cmd` (wait for the
start bit, write the command, wait for acceptance, wait for the response, move data,
clear interrupts), for the fixed sequence of commands of `init_sdcard` and for the
sectors of `read_offset` and `write_offset`. The controller and the card are external,
modelled from how the driver uses the registers: the card accepts a command only in
the states the driver assumes, the FIFO fills and empties word by word, the end of
the transfer may be raised between any two accesses of the driver, and errors may be
reported. Every wait can time out at any poll; the driver ignores that and goes on.
`late` is a history variable that says a wait ended too early, and a behaviour is not
followed past the call in which that happened. Three facts of the code show in the
model: `GoIdleState` asks for a response the card never gives, so a response time-out is
raised and ignored; `reset_fifo` writes the control word to the data register of the
FIFO, assumed lost as no transfer is on; `write_offset` ignores the offset within the
sector and panics when it is given less than eight sectors of data.

**VirtioBlk.** The loops of `read_offset`, `write_offset` and the calls on single
sectors of the virtio driver: a write reads each sector, changes part of it and
writes it back, and a request may fail at each step. The queue below is a library.

**BlockDevice.** `BLOCK_DEVICE` is one of the two drivers, fixed when the kernel is
built; the module composes them under the choice of `board`.

## The runs

| run | states | what it shows |
| --- | --- | --- |
| `process` | 310,891 | queue, pid table and family tree consistent; `wait4` faithful; user code in its own space; no starvation; life cycle implemented |
| `system` | 60,687 | the machine shuts down, and only after all processes were reaped |
| `recycle_allocator` | 415 | each id has one holder; none is lost; a pool of ids is implemented |
| `memory` | 741,388 | no user-reachable frame is shared; each frame has one tracker; the heap is backed |
| `pipe` | 426,701 | FIFO, bytes in order and in the reader's memory, short read means end, readers see the end |
| `block_cache` | 49,880 | the clients see one disk |
| `fat` | 108,572 | clusters have one owner, contents are kept, names of one part are found |
| `ext4` | 374,636 | directory blocks stay tiled, names and contents are what was created and written, reads return the file in order, mapped blocks are marked and counted |
| `block_device` | 385,048 | a call that no time-out cut short moves exactly its sectors, panics come only from faults, a failed virtio write leaves a first part of the data, every call ends |

Runs that end in a violation, each against a sentence of the repository (`findings`):

| run | what happens |
| --- | --- |
| `memory_remap` | shrinking and growing the heap, or a fixed mapping, trips the assertion in `PageTable::map` |
| `pipe_home` | a writer that waited goes on in another address space and sends bytes from it |
| `ext4_inode_free` | freeing an inode clears the bit of the next one, which may be in use |

Other disagreements have no run. `check_error` has no case for SIGKILL, so it never
kills although `task/signal.rs:34` calls it "Killed.". An exited process keeps the
frames of its page table, heap and mappings, against `docs/内存管理.md:82`. `sys_writev`
into a full pipe suspends with the task borrowed and panics (`halted = "borrow"` in
`Pipe`), which `sys_write` avoids with the comment at `syscall/fs.rs:49`. `run_tasks` does not switch `satp` although
`docs/决赛第一阶段文档.md:145` says so (`pipe_home` is one consequence). The comment of
`sys_wait4` promises -1 and -2 where the code returns `ECHILD`, 0 or blocks.

Every property of a passing run has a mutant in PROJECT.json: the definition
`X_Fault` next to `X` is `X` with a plausible slip, and the run then fails.

### Bounds

- `process`: three pids are the least that give an orphan; one execve each. Pids
  are not reused within the bound, as `report` is indexed by them.
- `system`: four pids, for two generations below init.
- `memory`: 13 frames are enough for two processes and run out under further
  mappings and execve calls; four user pages hold image, heap and mapping area.
- `pipe`: a ring of two and transfers of three, so that every transfer meets a full
  or an empty ring and both indices wrap; bytes are numbered modulo three, one more
  than fits.
- `block_cache`: three blocks in a cache of two, two clients: eviction, a held front
  block and a full cache of held blocks all occur.
- `fat`: clusters of two bytes, two free clusters, a file of two clusters in the
  image, seven slots. The data values are symmetric.
- `ext4`: two names and the paths `usr`, `bin` and `usr/bin`: a directory with a file in it, and
  a file and a directory of the same name. Two groups of three inodes, of which the first
  is used up by reserved ones, and four free blocks: both run out, and every reason
  to halt is reached. In `ext4_inode_free` one inode of the first group is free. A directory block has room for
  two names and then is full. A file has at most two blocks of two cells, and a
  read takes three cells, so that it starts and ends inside blocks and at the end.
  No name begins with another (`PrefixFree`).
- `block_device`: a FIFO of two words, less than a sector of three, so that every transfer
  fills and drains it more than once and ends with a word below the watermark; calls
  span two of three sectors. The virtio disk has three sectors of two cells and writes
  of up to four cells from any offset. Sectors, words and cells stand for 512 bytes,
  8 bytes and one byte.

### Fairness

Kernel code is run to its end, so kernel steps are weakly fair. A timer interrupt
stays pending while the kernel runs and is taken on the next return to user mode,
however many system calls a process makes: the timer is strongly fair. User programs owe
nothing in `process` and `pipe`; in `system` the init program goes on and every
other program calls `exit` sooner or later.

In `block_device` the driver keeps polling (weak fairness), the clock that a wait of a
data transfer reads goes on, so that its time is up in the end (strong fairness, as a
poll may find the FIFO ready in between), and the card powers up in the end. Nothing
is asked of the controller: `CallEnds` holds when it falls silent at any point.

## The proofs

TLAPS checks the theorems below for every value of the constants. Each
`*_proof` module extends the module it is about.

| module | theorems | inductive invariant |
| --- | --- | --- |
| `RecycleAllocator_proof` | types, `ExactlyOnce`, `NoFragmentation`, refinement of `IdPool`, disjoint kernel stacks | the number of handles equals the cardinality of the ids held |
| `Process_proof` | types, `UserRunsInOwnSpace`, `FatalSignalStopsUser`, `Wait4ResultDelivered` | `SInv`: a task in user mode, at the head of the `wait4` loop or at its end is on the hart with its own `satp`; the `satp` a trap saved is the process's own unless execve replaced it |
| `Family_proof` | `QueueIntegrity`, `PidTableExact`, `FamilyTree`, `ReportFaithful`, refinement of `ProcessLife`, `CleanShutdown` | `FInv`: `SInv`, the four properties together, and `Rooted` (a parent has a smaller pid than its child); `YInv` adds what init knows about its children |
| `Memory_proof` | types, `Isolation` | every reference to a frame, stale or not, is below `current`, and `alloc` only moves `current` up |
| `Ownership_proof` | (lemmas) the steps of one address space keep the invariant | `KInv`: see below |
| `Tracking_proof` | `TrackedOnce`, `Backed` | `KInv`, for fork and execve as well |
| `Pipe_proof` | `StatusExact`, refinement of `Fifo` by the ring and by the pipe, `DeliveredInOrder`, `StoredAtHome`, `ShortReadIsEof` | `RInv`: `status` tells `head = tail` full from empty; `PInv`: see below |
| `Block_proof` | types, `Coherent`, refinement of `Disk`, `WritePrefix` | a block is cached once, held references are to cached blocks, unmodified copies equal the device; `VInv`: the disk is the old one overlaid with the first `write_size` cells of the data, and a buffer about to be written is the sector on the disk with its part of the data |

They assume only the named `ASSUME`s of the modules: sizes are positive, the values
a variable may hold besides None are not None (`None \notin Reports` in `Process`),
bytes of the pipe are numbered modulo more than the ring holds.

**Memory.** `Isolation` rests on the fact that the allocator never hands out a
recycled frame (that branch of `StackFrameAllocator::alloc` is commented out); with
it, TLC finds a shared frame.

`TrackedOnce` speaks of page tables, kernel stacks and three maps per process. The
proof gives all these places one form, a slot, and `owner` is the frame in a slot.
`Tracks` then says that the slots and the recycled frames share out
`0 .. current - 1`. A step empties some slots and fills others with the frames
`current .. current' - 1`, one each (`Exchange`), and one lemma (`Moved`) shows that
such a step keeps `Tracks`. What is left for each system call is which slots it
empties and fills. `Tracks` alone is not inductive: a tracker that replaced another
would drop its frame, so the proof must know that the page table refuses it.
`Pinned` says that a page of a live process with a tracker has its PTE, and `HeapFull`
that the heap has no hole; the two also give `Backed`.

**Processes.** The four properties of the process tree need each other: a child is
found by `wait4` because `children` is exact, `children` stays exact through an exit
because the children go to init, which is alive as it never exits, and the report is
faithful because a zombie keeps its exit code and its parent. They are proved as one
invariant, and each step of `Process` is then a step of `ProcessLife` or changes
nothing there. For `CleanShutdown`, init has seen ECHILD, so its vector was empty. If
a process were unreported, take the one with the least pid: its parent is alive, so
unreported, and has a smaller pid, so it is init, whose vector would hold the process.

**Pipe.** `Pipe::read` and `Pipe::write` look at the ring once and then move
`loop_read` or `loop_write` bytes without looking again. `PInv` says why this is
sound (`Counted`): a count above zero exists only for the process on the hart, and it
is at most what the ring still offers, since a process has no count left when it
gives the hart away. Hence every call of `read_byte` and `write_byte` finds a byte or
room, and the pipe inherits the FIFO of the ring. `Home` says that a process in user
mode or in `Pipe::read` has its own space active; it fails for `Pipe::write`, which
is the run `pipe_home`. A process leaves the loop of `Pipe::read` only with the last
byte, with a buffer that is full, or at the end of the stream (`Leaves`).

The types and `NoFragmentation` are proved and need no run. TLC finds `KInv`, `FInv`,
`YInv` and `PInv` to hold on the instances of the runs as well.

Only model-checked:

- everything under fairness (liveness is out of the prover's reach);
- all of `Fat`: cluster chains are recursive, and what a recursive definition
  computes for every input needs an induction the prover cannot do;
- all of `Ext4`: the records of a directory block are found by a fold over the block,
  whose value for every block needs the same induction, and the other properties rest
  on it;
- `SdCard`: `ReadExact` and `WriteExact` need the exact contents of the FIFO at every
  interleaving with the controller; that invariant has not been worked out.

## Not modelled

- Threads: `task/process.rs` is commented out as a whole and `syscall/thread.rs` holds
  stubs; `clone2` makes tasks that share memory and descriptors, which `Process` and
  `Memory` do not represent.
- The block queue, mutex, semaphore, condition variable and sleeping tasks: the system
  calls that would reach them are commented out, so no live code calls
  `block_current_and_run_next` or has a timer to wake.
- poll and select: `sys_ppoll` counts its first pass as an event, so it returns after
  one look at the descriptors and never waits; `pselect` is not called.
- Paths and open above the file systems, the console, clocks, the kernel heap (a
  library), boot, ELF loading, the virtio queue (a library).
- In `Fat`: subdirectories, a directory of more than one sector, names of three or
  more parts, and names that begin with a dot, whose short slot reads as empty and
  is written over by the next create. Names of two parts are modelled: `name()` puts
  the parts in reverse order, so such a file is found only under the reversed name.
- In `Ext4`: data that decides nothing in the code, namely checksums, times, `i_blocks`
  and the counters of directories and unused inodes of a group. Extents that need an
  index node, which a file that only grows at its end never gets within the bound.
  Allocation of blocks outside group 0, which the code does not do. Crashes: the
  library has no journal and nothing recovers a half-done call, so there is no
  promise to check. The kernel's own `write_at` on an ext4 inode, which panics as it
  never sets the inode of its file.
- In `SdCard`: the driver after a call in which a wait ended early.
- A property for an extent with gaps, and for names that begin with one another
  (`compare_name` compares as many bytes as the name asked for has, so `rmdir` may meet a
  longer name): the repository states nothing the code could be held to.
