----------------------- MODULE RecycleAllocator_proof -----------------------
(* Proofs about RecycleAllocator, for every bound on the number of ids. *)
EXTENDS RecycleAllocator, SequenceTheorems, FiniteSetTheorems, TLAPS

\* The inductive invariant: the handles are counted right and, with ExactlyOnce,
\* cannot be more than the ids made so far.
IInv ==
    /\ TypeOK
    /\ ExactlyOnce
    /\ IsFiniteSet(held) /\ handles = Cardinality(held)
    /\ NoFragmentation

\* RecycleAllocator::new
LEMMA InitInv == Init => IInv
  <1> SUFFICES ASSUME Init PROVE IInv
    OBVIOUS
  <1>1. Elems(<<>>) = {} /\ DOMAIN <<>> = {}
    BY DEF Elems
  <1>2. ExactlyOnce
    BY <1>1 DEF Init, ExactlyOnce
  <1>3. TypeOK
    BY AllocatorAssumption DEF Init, TypeOK
  <1> QED
    BY <1>2, <1>3, FS_EmptySet DEF Init, IInv, NoFragmentation

\* A set of ids below `current' has at most `current' elements.
LEMMA HeldBound ==
  ASSUME NEW n \in Nat, NEW S \in SUBSET (0 .. n - 1)
  PROVE  IsFiniteSet(S) /\ Cardinality(S) \in 0 .. n
  <1>1. IsFiniteSet(0 .. n - 1) /\ Cardinality(0 .. n - 1) = n
    BY FS_Interval
  <1>2. IsFiniteSet(S) /\ Cardinality(S) <= Cardinality(0 .. n - 1)
    BY <1>1, FS_Subset, Zenon
  <1> QED
    BY <1>1, <1>2, FS_CardinalityType

\* alloc pops the recycle stack: the id leaves it and gets exactly one holder.
LEMMA RecycledInv == IInv /\ AllocRecycled => IInv'
  <1> SUFFICES ASSUME IInv, AllocRecycled PROVE IInv'
    OBVIOUS
  <1> DEFINE n == Len(recycled)
             id == recycled[n]
  <1>1. n \in Nat \ {0} /\ DOMAIN recycled = 1 .. n /\ current \in Nat
    BY AllocatorAssumption DEF IInv, TypeOK, AllocRecycled
  <1>2. /\ recycled' \in Seq(0 .. MaxId - 1)
        /\ DOMAIN recycled' = 1 .. n - 1
        /\ \A i \in 1 .. n - 1 : recycled'[i] = recycled[i]
    <2>1. \A i \in 1 .. n - 1 : recycled[i] \in 0 .. MaxId - 1
      <3>1. recycled \in Seq(0 .. MaxId - 1)
        BY DEF IInv, TypeOK
      <3>2. \A i \in 1 .. Len(recycled) : recycled[i] \in 0 .. MaxId - 1
        BY <3>1, ElementOfSeq, Zenon
      <3> QED BY <1>1, <3>2
    <2>2. recycled' = SubSeq(recycled, 1, n - 1)
      BY DEF AllocRecycled
    <2>3. /\ SubSeq(recycled, 1, n - 1) \in Seq(0 .. MaxId - 1)
          /\ Len(SubSeq(recycled, 1, n - 1)) = IF 1 <= n - 1 THEN n - 1 - 1 + 1 ELSE 0
          /\ \A i \in 1 .. n - 1 - 1 + 1 : SubSeq(recycled, 1, n - 1)[i] = recycled[1 + i - 1]
      BY ONLY <1>1, <2>1, SubSeqProperties
    <2>4. Len(recycled') = n - 1 /\ \A i \in 1 .. n - 1 : recycled'[i] = recycled[i]
      BY <1>1, <2>2, <2>3
    <2> QED BY <2>2, <2>3, <2>4, LenProperties
  <1>3. Elems(recycled') = Elems(recycled) \ {id}
    BY <1>1, <1>2 DEF IInv, ExactlyOnce, Elems
  <1>4. id \in Elems(recycled) /\ id \notin held
    BY <1>1 DEF IInv, ExactlyOnce, Elems
  <1>5. id \in 0 .. current - 1 /\ held' = held \cup {id}
    BY <1>4 DEF IInv, ExactlyOnce, AllocRecycled, Give
  <1>6. /\ halted' = "no"
        /\ \A i, j \in DOMAIN recycled' : recycled'[i] = recycled'[j] => i = j
    BY <1>1, <1>2 DEF IInv, ExactlyOnce, AllocRecycled, Give
  <1>7. held' \cap Elems(recycled') = {} /\ held' \cup Elems(recycled') = 0 .. current' - 1
    BY <1>3, <1>4, <1>5 DEF IInv, ExactlyOnce, AllocRecycled
  <1>8. IsFiniteSet(held') /\ handles' = Cardinality(held')
    BY <1>4, <1>5, FS_AddElement, Zenon DEF IInv, AllocRecycled, Give
  <1>9. handles' \in 0 .. current
    <2>1. held' \in SUBSET (0 .. current - 1)
      BY <1>5 DEF IInv, ExactlyOnce
    <2> QED BY <1>1, <1>8, <2>1, HeldBound
  <1>10. peak' = peak /\ current' = current
    BY <1>1, <1>9 DEF IInv, TypeOK, NoFragmentation, AllocRecycled, Give, Larger
  <1>11. TypeOK'
    <2>1. handles' \in 0 .. MaxId /\ held' \subseteq 0 .. MaxId - 1
      BY <1>1, <1>4, <1>5, <1>9, AllocatorAssumption DEF IInv, TypeOK, ExactlyOnce
    <2> QED BY <1>2, <1>6, <1>10, <2>1 DEF IInv, TypeOK
  <1> QED
    BY <1>6, <1>7, <1>8, <1>10, <1>11 DEF IInv, ExactlyOnce, NoFragmentation

\* alloc makes a new id only when the stack is empty.
LEMMA FreshInv == IInv /\ AllocFresh => IInv'
  <1> SUFFICES ASSUME IInv, AllocFresh PROVE IInv'
    OBVIOUS
  <1>1. Elems(recycled) = {} /\ DOMAIN recycled = {} /\ current \in Nat
    BY AllocatorAssumption DEF IInv, TypeOK, AllocFresh, Elems
  <1>2. held = 0 .. current - 1
    BY <1>1 DEF IInv, ExactlyOnce
  <1>3. handles = current
    BY <1>1, <1>2, FS_Interval DEF IInv
  <1>4. held' = 0 .. current' - 1 /\ current' = current + 1
    BY <1>1, <1>2 DEF AllocFresh, Give
  <1>5. IsFiniteSet(held') /\ handles' = Cardinality(held')
    <2>1. current \notin held /\ held' = held \cup {current}
      BY <1>1, <1>2 DEF AllocFresh, Give
    <2> QED BY <2>1, FS_AddElement DEF IInv, AllocFresh, Give
  <1>6. peak' = current' /\ current' \in 0 .. MaxId /\ handles' = current'
    BY <1>1, <1>3, AllocatorAssumption
    DEF IInv, TypeOK, NoFragmentation, AllocFresh, Give, Larger
  <1>7. ExactlyOnce'
    BY <1>1, <1>4 DEF IInv, ExactlyOnce, AllocFresh, Give, Elems
  <1>8. TypeOK'
    BY <1>1, <1>4, <1>6, AllocatorAssumption DEF IInv, TypeOK, AllocFresh, Give
  <1> QED
    BY <1>5, <1>6, <1>7, <1>8 DEF IInv, NoFragmentation

\* dealloc moves an id from its holder to the stack; both assertions hold.
LEMMA DeallocInv ==
  ASSUME NEW id \in 0 .. MaxId - 1, IInv, Dealloc(id)
  PROVE  IInv'
  <1>1. /\ recycled' \in Seq(0 .. MaxId - 1)
        /\ \A i \in 1 .. Len(recycled) : recycled'[i] = recycled[i]
        /\ recycled'[Len(recycled) + 1] = id
        /\ Len(recycled) \in Nat
        /\ DOMAIN recycled = 1 .. Len(recycled)
        /\ DOMAIN recycled' = 1 .. Len(recycled) + 1
    BY DEF IInv, TypeOK, Dealloc
  <1>2. Elems(recycled') = Elems(recycled) \cup {id}
    BY <1>1 DEF Elems
  <1>3. id \in held /\ id \notin Elems(recycled) /\ id < current
    BY AllocatorAssumption DEF IInv, TypeOK, ExactlyOnce, Dealloc
  <1>4. /\ halted' = "no"
        /\ \A i, j \in DOMAIN recycled' : recycled'[i] = recycled'[j] => i = j
    BY <1>1, <1>3 DEF IInv, ExactlyOnce, Elems, Dealloc
  <1>5. held' \cap Elems(recycled') = {} /\ held' \cup Elems(recycled') = 0 .. current' - 1
    BY <1>2, <1>3 DEF IInv, ExactlyOnce, Dealloc
  <1>6. IsFiniteSet(held') /\ handles' = Cardinality(held')
    BY <1>3, FS_RemoveElement, Zenon DEF IInv, Dealloc
  <1>7. handles' \in 0 .. MaxId
    <2>1. held' \in SUBSET (0 .. MaxId - 1)
      BY DEF IInv, TypeOK, Dealloc
    <2> QED BY <1>6, <2>1, HeldBound, AllocatorAssumption
  <1>8. TypeOK'
    BY <1>1, <1>4, <1>7 DEF IInv, TypeOK, Dealloc
  <1> QED
    BY <1>4, <1>5, <1>6, <1>8 DEF IInv, ExactlyOnce, NoFragmentation, Dealloc

\* Every step keeps the invariant.
LEMMA StepInv == IInv /\ [Next]_vars => IInv'
  <1> SUFFICES ASSUME IInv, [Next]_vars PROVE IInv'
    OBVIOUS
  <1>1. CASE AllocRecycled
    BY <1>1, RecycledInv
  <1>2. CASE AllocFresh
    BY <1>2, FreshInv
  <1>3. ASSUME NEW id \in 0 .. MaxId - 1, Dealloc(id) PROVE IInv'
    BY <1>3, DeallocInv
  <1>4. CASE UNCHANGED vars
    BY <1>4 DEF vars, IInv, TypeOK, ExactlyOnce, NoFragmentation, Elems
  <1> QED
    BY <1>1, <1>2, <1>3, <1>4 DEF Next

\* The invariant holds in every reachable state.
LEMMA Invariance == Spec => []IInv
  BY InitInv, StepInv, PTL DEF Spec

\* The state of the allocator always has its type.
THEOREM TypeCorrect == Spec => []TypeOK
  <1>1. IInv => TypeOK
    BY DEF IInv
  <1> QED
    BY <1>1, Invariance, PTL

\* Every id is held by one handle or recycled once: dealloc's assertions hold.
THEOREM ExactlyOnceAlways == Spec => []ExactlyOnce
  <1>1. IInv => ExactlyOnce
    BY DEF IInv
  <1> QED
    BY <1>1, Invariance, PTL

\* No more ids are made than handles ever existed at one time.
THEOREM NoFragmentationAlways == Spec => []NoFragmentation
  <1>1. IInv => NoFragmentation
    BY DEF IInv
  <1> QED
    BY <1>1, Invariance, PTL

\* The allocator implements the pool of ids that no two handles share.
THEOREM PoolRefinement == Spec => ImplementsPool
  <1>1. Init => Pool!Init
    BY DEF Init, Pool!Init
  <1>2. IInv /\ [Next]_vars => [Pool!Acquire \/ Pool!Release]_<<held, handles>>
    <2> SUFFICES ASSUME IInv, [Next]_vars
                 PROVE  \/ Pool!Acquire \/ Pool!Release
                        \/ UNCHANGED <<held, handles>>
      OBVIOUS
    <2>1. CASE AllocRecycled
      <3>1. recycled[Len(recycled)] \in Elems(recycled)
        BY <2>1 DEF IInv, TypeOK, AllocRecycled, Elems
      <3>2. recycled[Len(recycled)] \notin held
        BY <3>1 DEF IInv, ExactlyOnce
      <3> QED
        BY <2>1, <3>2 DEF AllocRecycled, Give, Pool!Acquire
    <2>2. CASE AllocFresh
      <3>1. current \notin held
        BY AllocatorAssumption DEF IInv, TypeOK, ExactlyOnce
      <3> QED
        BY <2>2, <3>1 DEF AllocFresh, Give, Pool!Acquire
    <2>3. CASE \E id \in 0 .. MaxId - 1 : Dealloc(id)
      BY <2>3 DEF Dealloc, Pool!Release
    <2>4. CASE UNCHANGED vars
      BY <2>4 DEF vars
    <2> QED
      BY <2>1, <2>2, <2>3, <2>4 DEF Next
  <1> QED
    BY <1>1, <1>2, Invariance, PTL DEF Spec, ImplementsPool, Pool!Spec

\* kernel_stack_position: the stacks of two tasks are disjoint, with at least
\* the unmapped guard page between them.
THEOREM KernelStacksDisjoint ==
  ASSUME NEW i \in Nat, NEW j \in Nat, i < j
  PROVE  kernel_stack_top(i) + PAGE_SIZE <= kernel_stack_bottom(j)
  <1> DEFINE size == KERNEL_STACK_SIZE + PAGE_SIZE
  <1>1. size \in Nat /\ MEMORY_END \in Nat
    BY AllocatorAssumption
  <1>2. (i + 1) * size <= j * size
    BY <1>1
  <1>3. (i + 1) * size = i * size + size
    BY <1>1
  <1> QED
    BY <1>1, <1>2, <1>3, AllocatorAssumption
    DEF kernel_stack_top, kernel_stack_bottom
=============================================================================
