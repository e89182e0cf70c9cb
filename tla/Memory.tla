------------------------------- MODULE Memory -------------------------------
(***************************************************************************)
(* Physical frames and the address spaces built from them: the frame       *)
(* allocator, the page table of each process, and the three places where   *)
(* a MemorySet keeps the FrameTrackers that own its frames (`areas',       *)
(* `heap_area', `mmap_area').  A PTE does not own its frame: munmap, exit  *)
(* and execve drop trackers and leave PTEs, or the page table satp points  *)
(* to, behind.                                                             *)
(*                                                                         *)
(* The program image and the user stack are one page (page 0); a page      *)
(* table is one frame (its root stands for the inner tables, which live    *)
(* and die with it); a kernel stack is one frame.                          *)
(***************************************************************************)
EXTENDS Integers, FiniteSets

CONSTANTS
    PAGE_SIZE,  \* in units of address
    Top,        \* bound: user pages 0 .. Top-1
    HEAP_BASE,  \* first page of the heap, where the ELF image ends
    MMAP_BASE,  \* first page sys_mmap hands out
    MaxLen,     \* bound: the longest range, in pages, passed to a call
    MaxFrame,   \* StackFrameAllocator.end
    MaxProc,    \* bound: processes ever created
    None

ASSUME MemoryAssumption ==
    /\ PAGE_SIZE \in Nat \ {0} /\ Top \in Nat \ {0} /\ MaxProc \in Nat \ {0}
    /\ HEAP_BASE \in 1 .. Top /\ MMAP_BASE \in HEAP_BASE .. Top
    /\ MaxLen \in Nat
    /\ MaxFrame \in Nat /\ MaxFrame >= 5
    /\ None \notin Int

VARIABLES
    current, recycled,                  \* the frame allocator
    device,                             \* frames the virtio device uses
    root, page_table,                   \* per process: page table and its PTEs
    areas, heap_area, mmap_area,        \* per process: vpn -> owned frame
    heap_end, mmap_end,                 \* per process
    kstack,                             \* per process: owned by KERNEL_SPACE
    status, next_pid,                   \* "unused", "live", "gone"
    satp, halted

frameVars == <<current, recycled, device>>
spaceVars == <<root, page_table, areas, heap_area, mmap_area, heap_end, mmap_end>>
procVars == <<kstack, status, next_pid>>
vars == <<frameVars, spaceVars, procVars, satp, halted>>

Procs == 0 .. MaxProc - 1
Frames == 0 .. MaxFrame - 1
User == 0 .. Top - 1
TrapPage(p) == Top + p          \* trap_cx_bottom_from_tid: one page per pid
VPN == 0 .. Top + MaxProc - 1

Floor(addr) == addr \div PAGE_SIZE
Ceil(addr) == (addr + PAGE_SIZE - 1) \div PAGE_SIZE

Dom(m) == {v \in VPN : m[v] # None}
FramesOf(m) == {m[v] : v \in Dom(m)}
NoPages == [v \in VPN |-> None]

\* the trackers that die with the MemorySet of p
Space(p) == {root[p]} \cup FramesOf(areas[p]) \cup FramesOf(heap_area[p])
                      \cup FramesOf(mmap_area[p])

-----------------------------------------------------------------------------
\* fault: the commented-out branch of alloc: recycled frames are used first
Handed_Recycled(i) ==
    IF i < Cardinality(recycled)
      THEN CHOOSE f \in recycled : Cardinality({g \in recycled : g > f}) = i
      ELSE current + i - Cardinality(recycled)

\* the (i+1)-th frame that StackFrameAllocator::alloc hands out in a step
Handed(i) == current + i

Take(n) == current' = current + n

\* StackFrameAllocator::dealloc of a set of frames, each dropped once
Recyclable(S) == S \cap recycled = {} /\ \A f \in S : f < current

Rank(S, v) == Cardinality({u \in S : u < v})

\* a frame for each page of S, in page order, `skip' frames into the step
Filled(m, S, skip) == [v \in VPN |-> IF v \in S THEN Handed(skip + Rank(S, v)) ELSE m[v]]

\* frame_alloc().unwrap() and PageTable::map for each page of S in turn: alloc
\* runs dry, map finds a page mapped before mapping, or all goes well
Outcome(table, S, skip) ==
    LET bad  == {v \in S : table[v] # None}
        done == {v \in S : \A b \in bad : v <= b}
    IN  IF current + skip + Cardinality(done) > MaxFrame THEN "oom"
        ELSE IF bad # {} THEN "mapped" ELSE "no"

-----------------------------------------------------------------------------
\* after boot: frame 0 serves the block device (dma_alloc has dropped its
\* tracker at once), frames 1 .. 4 belong to init
Init ==
    /\ current = 5 /\ recycled = {0} /\ device = {0}
    /\ root = [p \in Procs |-> IF p = 0 THEN 1 ELSE None]
    /\ kstack = [p \in Procs |-> IF p = 0 THEN 2 ELSE None]
    /\ areas = [p \in Procs |-> [v \in VPN |->
                   IF p = 0 /\ v = 0 THEN 3
                   ELSE IF p = 0 /\ v = TrapPage(0) THEN 4 ELSE None]]
    /\ page_table = areas
    /\ heap_area = [p \in Procs |-> NoPages]
    /\ mmap_area = [p \in Procs |-> NoPages]
    /\ heap_end = [p \in Procs |-> HEAP_BASE * PAGE_SIZE]
    /\ mmap_end = [p \in Procs |-> MMAP_BASE * PAGE_SIZE]
    /\ status = [p \in Procs |-> IF p = 0 THEN "live" ELSE "unused"]
    /\ next_pid = 1
    /\ satp = 1
    /\ halted = "no"

Runs(p) == halted = "no" /\ status[p] = "live" /\ satp = root[p]

\* user_entry of another live process
Switch(p) ==
    /\ halted = "no" /\ status[p] = "live" /\ satp # root[p]
    /\ satp' = root[p]
    /\ UNCHANGED <<frameVars, spaceVars, procVars, halted>>

\* fault: the page the new end lies in is taken for the last page
BrkWithin_Floor(p, addr) ==
    /\ Runs(p)
    /\ addr >= HEAP_BASE * PAGE_SIZE
    /\ Ceil(heap_end[p]) >= Floor(addr)
    /\ heap_end' = [heap_end EXCEPT ![p] = addr]
    /\ UNCHANGED <<frameVars, root, page_table, areas, heap_area, mmap_area,
                   mmap_end, procVars, satp, halted>>

\* sys_brk within the last page: only the end moves, down as well as up
BrkWithin(p, addr) ==
    /\ Runs(p)
    /\ addr >= HEAP_BASE * PAGE_SIZE
    /\ Ceil(heap_end[p]) * PAGE_SIZE >= addr
    /\ heap_end' = [heap_end EXCEPT ![p] = addr]
    /\ UNCHANGED <<frameVars, root, page_table, areas, heap_area, mmap_area,
                   mmap_end, procVars, satp, halted>>

\* sys_brk beyond it: map_heap from the page heap_end lies in
BrkGrow(p, addr) ==
    LET S == {v \in VPN : Floor(heap_end[p]) <= v /\ v < Ceil(addr)} IN
    /\ Runs(p)
    /\ Ceil(heap_end[p]) * PAGE_SIZE < addr
    /\ halted' = Outcome(page_table[p], S, 0)
    /\ IF halted' # "no" THEN UNCHANGED <<frameVars, spaceVars>>
       ELSE /\ Take(Cardinality(S))
            /\ page_table' = [page_table EXCEPT ![p] = Filled(@, S, 0)]
            /\ heap_area' = [heap_area EXCEPT ![p] = Filled(@, S, 0)]
            /\ heap_end' = [heap_end EXCEPT ![p] = Ceil(addr) * PAGE_SIZE]
            /\ UNCHANGED <<recycled, device, root, areas, mmap_area, mmap_end>>
    /\ UNCHANGED <<procVars, satp>>

\* MemorySet::mmap; start = 0 stands for a call without MAP_FIXED
SysMmap(p, start, len) ==
    LET from == IF start # 0 THEN start ELSE mmap_end[p]
        range == {v \in VPN : Ceil(from) <= v /\ v < Ceil(from + len)}
        S == IF start # 0 THEN range \ Dom(mmap_area[p]) ELSE range
    IN
    /\ Runs(p)
    /\ Ceil(from + len) <= Top
    /\ halted' = Outcome(page_table[p], S, 0)
    /\ IF halted' # "no" THEN UNCHANGED <<frameVars, spaceVars>>
       ELSE /\ Take(Cardinality(S))
            /\ page_table' = [page_table EXCEPT ![p] = Filled(@, S, 0)]
            /\ mmap_area' = [mmap_area EXCEPT ![p] = Filled(@, S, 0)]
            /\ mmap_end' = [mmap_end EXCEPT ![p] = (Ceil(from + len) + 1) * PAGE_SIZE]
            /\ UNCHANGED <<recycled, device, root, areas, heap_area, heap_end>>
    /\ UNCHANGED <<procVars, satp>>

\* TaskControlBlockInner::mmap looks fd up even for an anonymous mapping: a
\* number out of range or closed, or not an inode, is a panic
MmapNoFile(p) ==
    /\ Runs(p)
    /\ halted' = "fd"
    /\ UNCHANGED <<frameVars, spaceVars, procVars, satp>>

\* fault: munmap frees the frames of the range and keeps their trackers
SysMunmap_Keeps(p, start, len) ==
    LET S == {v \in VPN : Ceil(start) <= v /\ v < Ceil(start + len)}
        dropped == {mmap_area[p][v] : v \in S \cap Dom(mmap_area[p])}
    IN
    /\ Runs(p) /\ dropped # {}
    /\ halted' = IF Recyclable(dropped) THEN "no" ELSE "dealloc"
    /\ recycled' = recycled \cup dropped
    /\ UNCHANGED <<current, device, spaceVars, procVars, satp>>

\* MemorySet::munmap: the trackers go, the PTEs stay
SysMunmap(p, start, len) ==
    LET S == {v \in VPN : Ceil(start) <= v /\ v < Ceil(start + len)}
        dropped == {mmap_area[p][v] : v \in S \cap Dom(mmap_area[p])}
    IN
    /\ Runs(p)
    /\ dropped # {}
    /\ mmap_area' = [mmap_area EXCEPT ![p] = [v \in VPN |-> IF v \in S THEN None ELSE @[v]]]
    /\ halted' = IF Recyclable(dropped) THEN "no" ELSE "dealloc"
    /\ recycled' = recycled \cup dropped
    /\ UNCHANGED <<current, device, root, page_table, areas, heap_area, heap_end,
                   mmap_end, procVars, satp>>

\* TaskControlBlock::fork: kernel stack, page table, copies of the areas, of the
\* heap and of the mappings, and the child's trap context, whose PTE also goes
\* into the parent's page table
Fork(p) ==
    LET c  == next_pid
        A  == Dom(areas[p])     H == Dom(heap_area[p])    M == Dom(mmap_area[p])
        a  == 2                 h == a + Cardinality(A)   m == h + Cardinality(H)
        t  == m + Cardinality(M)
        own == Filled(Filled(NoPages, A, a), {TrapPage(c)}, t)
    IN
    /\ Runs(p)
    /\ c < MaxProc
    /\ halted' = IF (A \cap H) \cup (A \cap M) \cup (H \cap M) # {} THEN "mapped"
                 ELSE Outcome(page_table[p], {TrapPage(c)}, t)
    /\ IF halted' # "no" THEN UNCHANGED <<frameVars, spaceVars, procVars>>
       ELSE /\ Take(t + 1)
            /\ kstack' = [kstack EXCEPT ![c] = Handed(0)]
            /\ root' = [root EXCEPT ![c] = Handed(1)]
            /\ areas' = [areas EXCEPT ![c] = own]
            /\ heap_area' = [heap_area EXCEPT ![c] = Filled(NoPages, H, h)]
            /\ mmap_area' = [mmap_area EXCEPT ![c] = Filled(NoPages, M, m)]
            /\ page_table' = [page_table EXCEPT
                  ![p][TrapPage(c)] = Handed(t),
                  ![c] = Filled(Filled(own, H, h), M, m)]
            /\ heap_end' = [heap_end EXCEPT ![c] = heap_end[p]]
            /\ mmap_end' = [mmap_end EXCEPT ![c] = mmap_end[p]]
            /\ status' = [status EXCEPT ![c] = "live"]
            /\ next_pid' = next_pid + 1
            /\ UNCHANGED <<recycled, device>>
    /\ UNCHANGED satp

\* TaskControlBlock::exec: the new MemorySet is built, the old one dropped while
\* satp still points to its page table, then the trap context is allocated
SysExecve(p) ==
    LET image == Filled(NoPages, {0}, 1)
        own == Filled(image, {TrapPage(p)}, 2)
    IN
    /\ Runs(p)
    /\ halted' = IF current + 3 > MaxFrame THEN "oom"
                 ELSE IF Recyclable(Space(p)) THEN "no" ELSE "dealloc"
    /\ IF halted' # "no" THEN UNCHANGED <<frameVars, spaceVars>>
       ELSE /\ Take(3)
            /\ recycled' = recycled \cup Space(p)
            /\ root' = [root EXCEPT ![p] = Handed(0)]
            /\ areas' = [areas EXCEPT ![p] = own]
            /\ page_table' = [page_table EXCEPT ![p] = own]
            /\ heap_area' = [heap_area EXCEPT ![p] = NoPages]
            /\ mmap_area' = [mmap_area EXCEPT ![p] = NoPages]
            /\ heap_end' = [heap_end EXCEPT ![p] = HEAP_BASE * PAGE_SIZE]
            /\ mmap_end' = [mmap_end EXCEPT ![p] = MMAP_BASE * PAGE_SIZE]
            /\ UNCHANGED device
    /\ UNCHANGED <<procVars, satp>>

\* exit_current_and_run_next: recycle_data_pages drops the areas, nothing else
SysExit(p) ==
    /\ Runs(p)
    /\ p # 0
    /\ status' = [status EXCEPT ![p] = "gone"]
    /\ areas' = [areas EXCEPT ![p] = NoPages]
    /\ halted' = IF Recyclable(FramesOf(areas[p])) THEN "no" ELSE "dealloc"
    /\ recycled' = recycled \cup FramesOf(areas[p])
    /\ UNCHANGED <<current, device, root, page_table, heap_area, mmap_area,
                   heap_end, mmap_end, kstack, next_pid, satp>>

Halted == halted # "no" /\ UNCHANGED vars

\* bound: a real heap is out of memory long before it reaches MMAP_BASE
HeapEnds == 0 .. MMAP_BASE * PAGE_SIZE
Addresses == 0 .. Top * PAGE_SIZE
Lengths == 1 .. MaxLen * PAGE_SIZE

Next ==
    \/ \E p \in Procs :
         \/ Switch(p) \/ Fork(p) \/ MmapNoFile(p) \/ SysExecve(p) \/ SysExit(p)
         \/ \E addr \in HeapEnds : BrkWithin(p, addr) \/ BrkGrow(p, addr)
         \/ \E start \in Addresses, len \in Lengths :
              SysMmap(p, start, len) \/ SysMunmap(p, start, len)
    \/ Halted

Spec == Init /\ [][Next]_vars

-----------------------------------------------------------------------------
FrameOrNone == Frames \cup {None}

TypeOK ==
    /\ current \in 0 .. MaxFrame
    /\ recycled \subseteq Frames /\ device \subseteq Frames
    /\ root \in [Procs -> FrameOrNone] /\ kstack \in [Procs -> FrameOrNone]
    /\ page_table \in [Procs -> [VPN -> FrameOrNone]]
    /\ areas \in [Procs -> [VPN -> FrameOrNone]]
    /\ heap_area \in [Procs -> [VPN -> FrameOrNone]]
    /\ mmap_area \in [Procs -> [VPN -> FrameOrNone]]
    /\ heap_end \in [Procs -> Int] /\ mmap_end \in [Procs -> Int]
    /\ status \in [Procs -> {"unused", "live", "gone"}]
    /\ next_pid \in 1 .. MaxProc
    /\ satp \in Frames
    /\ halted \in {"no", "oom", "mapped", "dealloc", "fd"}

Created == 0 .. next_pid - 1

\* the three tracker maps of p
Maps(p) == <<areas[p], heap_area[p], mmap_area[p]>>

\* frames user code of p can touch through its page table
Touches(p) == {page_table[p][v] : v \in Dom(page_table[p]) \cap User}

\* A frame that user code of a live process can reach belongs to no other
\* process, is no page table (not even the one satp still names after execve has
\* freed it), no kernel stack and no DMA buffer, although munmap leaves PTEs of
\* freed frames behind: the allocator must never hand a freed frame out again.
Isolation ==
    \A p \in Created : status[p] = "live" =>
        /\ Touches(p) \cap (device \cup {satp}) = {}
        /\ \A q \in Created :
             /\ root[q] \notin Touches(p) /\ kstack[q] \notin Touches(p)
             /\ q # p => Touches(p) \cap (Space(q) \cup Touches(q)) = {}

\* Every frame handed out so far has exactly one tracker or was recycled exactly
\* once, through every order of munmap, fork, execve and exit, so that dealloc
\* never panics with "has not been allocated".
TrackedOnce ==
    /\ halted # "dealloc"
    /\ \A p, q \in Created : \A i, j \in 1 .. 3 :
         \A v \in Dom(Maps(p)[i]), w \in Dom(Maps(q)[j]) :
           Maps(p)[i][v] = Maps(q)[j][w] => p = q /\ i = j /\ v = w
    /\ LET kernel == {root[p] : p \in Created} \cup {kstack[p] : p \in Created}
           user == UNION {Space(p) \ {root[p]} : p \in Created}
       IN  /\ kernel \cap user = {} /\ (kernel \cup user) \cap recycled = {}
           /\ Cardinality(kernel) = 2 * next_pid
           /\ kernel \cup user \cup recycled = 0 .. current - 1

\* Between heap_base and heap_end, and wherever a tracker is kept, a live process
\* has a PTE to exactly the frame it owns there.
Backed ==
    \A p \in Created : status[p] = "live" /\ halted = "no" =>
        /\ \A v \in VPN : HEAP_BASE <= v /\ v < Ceil(heap_end[p]) => heap_area[p][v] # None
        /\ \A i \in 1 .. 3 : \A v \in Dom(Maps(p)[i]) :
             page_table[p][v] = Maps(p)[i][v]

-----------------------------------------------------------------------------
\* PageTable::map asserts "vpn is mapped before mapping" never happens.
NeverRemapped == halted # "mapped"

=============================================================================
