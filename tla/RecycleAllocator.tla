-------------------------- MODULE RecycleAllocator --------------------------
(***************************************************************************)
(* task/res.rs: the allocator behind pids and kernel stacks.  An id is     *)
(* owned by a PidHandle or a KernelStack, whose Drop gives it back once.   *)
(***************************************************************************)
EXTENDS Integers, Sequences

CONSTANTS MaxId,            \* bound: at most MaxId ids are ever created
          KERNEL_STACK_SIZE, PAGE_SIZE, MEMORY_END

ASSUME AllocatorAssumption ==
    /\ MaxId \in Nat
    /\ KERNEL_STACK_SIZE \in Nat \ {0} /\ PAGE_SIZE \in Nat \ {0}
    /\ MEMORY_END \in Nat

VARIABLES current, recycled,
          held,     \* the ids of the handles that exist
          handles,  \* how many handles exist
          peak,     \* history: the most handles that ever existed at once
          halted    \* "panic" once an assert! of dealloc has failed

vars == <<current, recycled, held, handles, peak, halted>>

Elems(s) == {s[i] : i \in DOMAIN s}
Larger(m, n) == IF m >= n THEN m ELSE n

Init ==
    /\ current = 0 /\ recycled = <<>>
    /\ held = {} /\ handles = 0 /\ peak = 0 /\ halted = "no"

Give(id) ==
    /\ held' = held \cup {id}
    /\ handles' = handles + 1
    /\ peak' = Larger(peak, handles + 1)
    /\ UNCHANGED halted

\* fault: Vec::first without removal
AllocRecycled_Keep ==
    /\ recycled # <<>>
    /\ Give(recycled[Len(recycled)])
    /\ UNCHANGED <<current, recycled>>

\* alloc: the id recycled last ...
AllocRecycled ==
    /\ recycled # <<>>
    /\ Give(recycled[Len(recycled)])
    /\ recycled' = SubSeq(recycled, 1, Len(recycled) - 1)
    /\ UNCHANGED current

\* ... or else a new one
AllocFresh ==
    /\ recycled = <<>>
    /\ current < MaxId
    /\ Give(current)
    /\ current' = current + 1
    /\ UNCHANGED recycled

\* fault: the id is given back although the handle lives on
Dealloc_Kept(id) ==
    /\ id \in held
    /\ halted' = IF id < current /\ id \notin Elems(recycled) THEN halted ELSE "panic"
    /\ recycled' = Append(recycled, id)
    /\ UNCHANGED <<current, held, handles, peak>>

\* dealloc, called by the Drop of the handle
Dealloc(id) ==
    /\ id \in held
    /\ held' = held \ {id}
    /\ handles' = handles - 1
    /\ halted' = IF id < current /\ id \notin Elems(recycled) THEN halted ELSE "panic"
    /\ recycled' = Append(recycled, id)
    /\ UNCHANGED <<current, peak>>

Next == AllocRecycled \/ AllocFresh \/ \E id \in 0 .. MaxId - 1 : Dealloc(id)

Spec == Init /\ [][Next]_vars

kernel_stack_bottom(id) == MEMORY_END + id * (KERNEL_STACK_SIZE + PAGE_SIZE)
kernel_stack_top(id) == kernel_stack_bottom(id) + KERNEL_STACK_SIZE

-----------------------------------------------------------------------------
TypeOK ==
    /\ current \in 0 .. MaxId
    /\ recycled \in Seq(0 .. MaxId - 1)
    /\ held \subseteq 0 .. MaxId - 1
    /\ handles \in 0 .. MaxId /\ peak \in 0 .. MaxId
    /\ halted \in {"no", "panic"}

\* Every id below `current' is held by exactly one handle or lies on the recycle
\* stack exactly once, so that neither assert! of dealloc can fail.
ExactlyOnce ==
    /\ halted = "no"
    /\ \A i, j \in DOMAIN recycled : recycled[i] = recycled[j] => i = j
    /\ held \cap Elems(recycled) = {}
    /\ held \cup Elems(recycled) = 0 .. current - 1

\* Ids are reused before new ones are made: the allocator has never created more
\* ids (and kstack_alloc never more stacks) than there were handles at one time.
NoFragmentation == current = peak

Pool == INSTANCE IdPool

\* Every alloc and dealloc is a step of IdPool: no id is held twice.
ImplementsPool == Pool!Spec
=============================================================================
