---------------------------- MODULE Memory_proof ----------------------------
(***************************************************************************)
(* Isolation of address spaces, for any number of processes, pages and     *)
(* frames.  The argument: alloc only moves `current' up, so a frame it     *)
(* hands out is above everything any page table, tracker, satp or device   *)
(* refers to; stale references are harmless because they stay below.       *)
(***************************************************************************)
EXTENDS Memory, FiniteSetTheorems, TLAPS

Allocated == 0 .. current - 1
Map == [VPN -> Allocated \cup {None}]

\* every reference to a frame is below `current'
Bounded ==
    /\ recycled \subseteq Allocated /\ device \subseteq Allocated /\ satp \in Allocated
    /\ root \in [Procs -> Allocated \cup {None}]
    /\ kstack \in [Procs -> Allocated \cup {None}]
    /\ page_table \in [Procs -> Map] /\ areas \in [Procs -> Map]
    /\ heap_area \in [Procs -> Map] /\ mmap_area \in [Procs -> Map]

Shape ==
    /\ current \in 0 .. MaxFrame
    /\ heap_end \in [Procs -> Int] /\ mmap_end \in [Procs -> Int]
    /\ status \in [Procs -> {"unused", "live", "gone"}]
    /\ next_pid \in 1 .. MaxProc
    /\ halted \in {"no", "oom", "mapped", "dealloc", "fd"}
    /\ \A p \in Procs : status[p] = "live" => p \in Created /\ root[p] # None

IInv == Shape /\ Bounded /\ Isolation

-----------------------------------------------------------------------------
\* There are finitely many pages.
LEMMA VPNFinite == IsFiniteSet(VPN)
  BY FS_Interval, MemoryAssumption DEF VPN

\* The rank of a page in a set is smaller than the size of the set.
LEMMA RankBound ==
  ASSUME NEW S \in SUBSET VPN, NEW v \in S
  PROVE  Rank(S, v) \in Nat /\ Cardinality(S) \in Nat /\ Rank(S, v) < Cardinality(S)
  <1> DEFINE L == {u \in S : u < v}
  <1>1. IsFiniteSet(S)
    BY VPNFinite, FS_Subset
  <1>2. L \subseteq S /\ L # S
    BY DEF VPN
  <1> HIDE DEF L
  <1>3. IsFiniteSet(L) /\ Cardinality(L) <= Cardinality(S)
    BY <1>1, <1>2, FS_Subset
  <1>4. Cardinality(L) # Cardinality(S)
    BY <1>1, <1>2, FS_Subset
  <1>5. Cardinality(L) \in Nat /\ Cardinality(S) \in Nat
    BY <1>1, <1>3, FS_CardinalityType
  <1>6. Rank(S, v) = Cardinality(L)
    BY DEF Rank, L
  <1> QED
    BY <1>3, <1>4, <1>5, <1>6

\* The size of a set of pages is a natural number.
LEMMA CardNat ==
  ASSUME NEW S \in SUBSET VPN
  PROVE  Cardinality(S) \in Nat
  BY VPNFinite, FS_Subset, FS_CardinalityType

\* Filled gives the pages of S new frames from a window and leaves the others.
LEMMA FilledFrames ==
  ASSUME NEW m, NEW S \in SUBSET VPN, NEW skip \in Nat, current \in Nat
  PROVE  /\ DOMAIN Filled(m, S, skip) = VPN
         /\ Filled(m, S, skip) = [v \in VPN |-> Filled(m, S, skip)[v]]
         /\ \A v \in S : /\ Filled(m, S, skip)[v] \in Int
                         /\ current + skip <= Filled(m, S, skip)[v]
                         /\ Filled(m, S, skip)[v] < current + skip + Cardinality(S)
         /\ \A v \in VPN \ S : Filled(m, S, skip)[v] = m[v]
  <1>1. \A v \in S : Rank(S, v) \in Nat /\ Rank(S, v) < Cardinality(S)
    BY RankBound
  <1>2. Cardinality(S) \in Nat
    BY CardNat
  <1> QED
    BY <1>1, <1>2 DEF Filled, Handed

\* A step that does not panic finds enough frames.
LEMMA OutcomeNo ==
  ASSUME NEW table, NEW S \in SUBSET VPN, NEW skip \in Nat, current \in Nat,
         Outcome(table, S, skip) = "no"
  PROVE  current + skip + Cardinality(S) <= MaxFrame
  <1> DEFINE bad == {v \in S : table[v] # None}
             done == {v \in S : \A b \in bad : v <= b}
  <1>1. bad = {}
    BY DEF Outcome
  <1>2. done = S
    BY <1>1
  <1>3. ~(current + skip + Cardinality(done) > MaxFrame)
    BY DEF Outcome
  <1>4. Cardinality(S) \in Nat
    BY CardNat
  <1> QED
    BY <1>2, <1>3, <1>4, MemoryAssumption

\* VirtAddr::ceil gives a page number.
LEMMA CeilInt ==
  ASSUME NEW a \in Int
  PROVE  Ceil(a) \in Int /\ Ceil(a) * PAGE_SIZE \in Int /\ (Ceil(a) + 1) * PAGE_SIZE \in Int
  BY MemoryAssumption DEF Ceil

-----------------------------------------------------------------------------
\* What a process touches and owns is allocated.
LEMMA References ==
  ASSUME IInv, NEW q \in Procs
  PROVE  /\ Touches(q) \subseteq Allocated
         /\ Space(q) \subseteq Allocated \cup {None}
         /\ {root[q], kstack[q]} \subseteq Allocated \cup {None}
  <1>1. page_table[q] \in Map /\ areas[q] \in Map /\ heap_area[q] \in Map /\ mmap_area[q] \in Map
    BY DEF IInv, Bounded
  <1>2. \A m \in Map : FramesOf(m) \subseteq Allocated
    BY DEF Map, FramesOf, Dom
  <1>3. root[q] \in Allocated \cup {None} /\ kstack[q] \in Allocated \cup {None}
    BY DEF IInv, Bounded
  <1>4. Touches(q) \subseteq Allocated
    BY <1>1, Zenon DEF Touches, Map, Dom, User, VPN
  <1>5. Space(q) \subseteq Allocated \cup {None}
    BY <1>1, <1>2, <1>3 DEF Space
  <1> QED
    BY <1>3, <1>4, <1>5

CreatedProcs == \A q \in Created : q \in Procs

\* The processes created so far are processes.
LEMMA CreatedAreProcs == IInv => CreatedProcs
  BY MemoryAssumption DEF IInv, Shape, CreatedProcs, Created, Procs

\* A step in which one process p, new or old, gets pages from a set N and kernel
\* frames from a set R of frames nobody has seen keeps processes isolated.
LEMMA FreshFrames ==
  ASSUME IInv, NEW p, NEW N, NEW R,
         N \cap (Allocated \cup {None}) = {}, R \cap (Allocated \cup {None}) = {},
         N \cap R = {},
         device' = device, satp' = satp,
         \A q \in Created' : q # p =>
            /\ q \in Created /\ Touches(q)' \subseteq Touches(q) /\ Space(q)' \subseteq Space(q)
            /\ root'[q] = root[q] /\ kstack'[q] = kstack[q]
            /\ status'[q] = "live" => status[q] = "live",
         p \in Created' =>
            \/ /\ p \in Created
               /\ Touches(p)' \subseteq Touches(p) \cup N
               /\ Space(p)' \subseteq Space(p) \cup N \cup R
               /\ root'[p] \in R \cup {root[p]} /\ kstack'[p] = kstack[p]
               /\ status'[p] = "live" => status[p] = "live"
            \/ /\ Touches(p)' \subseteq N /\ Space(p)' \subseteq N \cup R
               /\ root'[p] \in R /\ kstack'[p] \in R
  PROVE  Isolation'
  <1> DEFINE A == Allocated \cup {None}
  <1>1. \A q \in Created : /\ Touches(q) \subseteq A /\ Space(q) \subseteq A
                           /\ root[q] \in A /\ kstack[q] \in A
    BY References, CreatedAreProcs DEF CreatedProcs
  <1>2. device \subseteq A /\ satp \in A
    BY DEF IInv, Bounded
  <1>3. \A r \in Created : status[r] = "live" =>
          /\ Touches(r) \cap (device \cup {satp}) = {}
          /\ \A q \in Created :
               /\ root[q] \notin Touches(r) /\ kstack[q] \notin Touches(r)
               /\ q # r => Touches(r) \cap (Space(q) \cup Touches(q)) = {}
    BY DEF IInv, Isolation
  <1> HIDE DEF A
  <1>4. N \cap A = {} /\ R \cap A = {}
    BY DEF A
  <1> SUFFICES ASSUME NEW r \in Created', status'[r] = "live"
               PROVE  /\ Touches(r)' \cap (device \cup {satp}) = {}
                      /\ \A q \in Created' :
                           /\ root'[q] \notin Touches(r)' /\ kstack'[q] \notin Touches(r)'
                           /\ q # r => Touches(r)' \cap (Space(q)' \cup Touches(q)') = {}
    BY DEF Isolation
  <1>5. Touches(r)' \cap (device \cup {satp}) = {}
    BY <1>1, <1>2, <1>3, <1>4
  <1>6. ASSUME NEW q \in Created'
        PROVE  root'[q] \notin Touches(r)' /\ kstack'[q] \notin Touches(r)'
    BY <1>1, <1>3, <1>4
  <1>7. ASSUME NEW q \in Created', q # r
        PROVE  Touches(r)' \cap (Space(q)' \cup Touches(q)') = {}
    BY <1>1, <1>3, <1>4, <1>7
  <1> QED
    BY <1>5, <1>6, <1>7
\* Filled keeps a map within the frames allocated so far.
LEMMA FilledMap ==
  ASSUME IInv, NEW m \in Map, NEW S \in SUBSET VPN, NEW skip \in Nat,
         current' \in Int, current + skip + Cardinality(S) <= current'
  PROVE  Filled(m, S, skip) \in Map'
  <1>1. current \in Nat /\ Cardinality(S) \in Nat
    BY CardNat DEF IInv, Shape
  <1> DEFINE F == Filled(m, S, skip)
  <1>2. /\ DOMAIN F = VPN
        /\ F = [v \in VPN |-> F[v]]
        /\ \A v \in S : F[v] \in Int /\ current + skip <= F[v] /\ F[v] < current + skip + Cardinality(S)
        /\ \A v \in VPN \ S : F[v] = m[v]
    BY ONLY <1>1, S \in SUBSET VPN, skip \in Nat, FilledFrames, Zenon DEF F
  <1> HIDE DEF F
  <1>3. ASSUME NEW v \in VPN PROVE F[v] \in Allocated' \cup {None}
    <2>1. CASE v \in S
      BY <1>1, <1>2, <2>1 DEF Allocated
    <2>2. CASE v \notin S
      BY <1>1, <1>2, <2>2 DEF Map, Allocated
    <2> QED
      BY <2>1, <2>2
  <1>4. F \in [VPN -> Allocated' \cup {None}]
    BY <1>2, <1>3
  <1> QED
    BY <1>4 DEF F, Map, VPN

\* What was allocated stays allocated when `current' grows.
LEMMA Monotone ==
  ASSUME IInv, current' \in Int, current <= current'
  PROVE  /\ Allocated \subseteq Allocated' /\ Map \subseteq Map'
         /\ [Procs -> Map] \subseteq [Procs -> Map']
         /\ [Procs -> Allocated \cup {None}] \subseteq [Procs -> Allocated' \cup {None}]
  <1>1. current \in Int
    BY DEF IInv, Shape
  <1>2. Allocated \subseteq Allocated'
    <2>1. \A a, b \in Int : a <= b => 0 .. a - 1 \subseteq 0 .. b - 1
      OBVIOUS
    <2>2. 0 .. current - 1 \subseteq 0 .. current' - 1
      BY <1>1, <2>1, Zenon
    <2> QED
      BY <2>2 DEF Allocated
  <1>3. Map \subseteq Map'
    BY <1>2 DEF Map, VPN
  <1> QED
    BY <1>2, <1>3

\* map_heap and mmap: p gets frames for the pages of S in one of its maps.
LEMMA Grow ==
  ASSUME IInv, NEW p \in Procs, status[p] = "live", NEW S \in SUBSET VPN,
         current + Cardinality(S) <= MaxFrame, Take(Cardinality(S)),
         page_table' = [page_table EXCEPT ![p] = Filled(page_table[p], S, 0)],
         UNCHANGED <<recycled, device, root, areas, procVars, satp>>,
         \/ heap_area' = [heap_area EXCEPT ![p] = Filled(heap_area[p], S, 0)] /\ mmap_area' = mmap_area
         \/ mmap_area' = [mmap_area EXCEPT ![p] = Filled(mmap_area[p], S, 0)] /\ heap_area' = heap_area
  PROVE  Bounded' /\ Isolation' /\ current' \in 0 .. MaxFrame
  <1> DEFINE N == current .. current + Cardinality(S) - 1
  <1>1. current \in Nat /\ Cardinality(S) \in Nat /\ current' = current + Cardinality(S)
    BY CardNat DEF IInv, Shape, Take
  <1>2. current' \in 0 .. MaxFrame
    BY <1>1, MemoryAssumption
  <1>3. /\ page_table[p] \in Map /\ heap_area[p] \in Map /\ mmap_area[p] \in Map
        /\ DOMAIN page_table = Procs /\ DOMAIN heap_area = Procs /\ DOMAIN mmap_area = Procs
    BY DEF IInv, Bounded
  <1>4. /\ Filled(page_table[p], S, 0) \in Map' /\ Filled(heap_area[p], S, 0) \in Map'
        /\ Filled(mmap_area[p], S, 0) \in Map'
    BY <1>1, <1>3, FilledMap
  <1>5. Bounded'
    <2>1. /\ Allocated \subseteq Allocated' /\ Map \subseteq Map'
          /\ [Procs -> Map] \subseteq [Procs -> Map']
          /\ [Procs -> Allocated \cup {None}] \subseteq [Procs -> Allocated' \cup {None}]
      BY <1>1, Monotone
    <2>2. page_table' \in [Procs -> Map']
      BY <1>4, <2>1 DEF IInv, Bounded
    <2>3. heap_area' \in [Procs -> Map'] /\ mmap_area' \in [Procs -> Map']
      BY <1>4, <2>1 DEF IInv, Bounded
    <2>4. Procs' = Procs
      BY DEF Procs
    <2> QED
      BY <2>1, <2>2, <2>3, <2>4 DEF IInv, Bounded, procVars
  <1>6. ASSUME NEW m \in Map
        PROVE  \A v \in VPN : \/ Filled(m, S, 0)[v] = m[v]
                              \/ Filled(m, S, 0)[v] \in N
    <2>1. PICK skip \in Nat : skip = 0
      OBVIOUS
    <2>2. /\ \A v \in S : /\ Filled(m, S, skip)[v] \in Int
                          /\ current + skip <= Filled(m, S, skip)[v]
                          /\ Filled(m, S, skip)[v] < current + skip + Cardinality(S)
          /\ \A v \in VPN \ S : Filled(m, S, skip)[v] = m[v]
      BY ONLY <1>1, FilledFrames, S \in SUBSET VPN, skip \in Nat, Zenon
    <2> QED
      BY <1>1, <2>1, <2>2
  <1>7. FramesOf(Filled(heap_area[p], S, 0)) \subseteq FramesOf(heap_area[p]) \cup N
    BY <1>3, <1>6 DEF FramesOf, Dom
  <1>8. FramesOf(Filled(mmap_area[p], S, 0)) \subseteq FramesOf(mmap_area[p]) \cup N
    BY <1>3, <1>6 DEF FramesOf, Dom
  <1>9. Touches(p)' \subseteq Touches(p) \cup N
    BY <1>3, <1>6 DEF Touches, Dom, User, VPN
  <1>10. Space(p)' \subseteq Space(p) \cup N
    <2>1. FramesOf(heap_area[p])' \subseteq FramesOf(heap_area[p]) \cup N
      BY <1>3, <1>7 DEF FramesOf, Dom, VPN
    <2>2. FramesOf(mmap_area[p])' \subseteq FramesOf(mmap_area[p]) \cup N
      BY <1>3, <1>8 DEF FramesOf, Dom, VPN
    <2>3. FramesOf(areas[p])' = FramesOf(areas[p]) /\ root'[p] = root[p]
      BY DEF FramesOf, Dom, VPN
    <2> QED
      BY <2>1, <2>2, <2>3 DEF Space
  <1>11. ASSUME NEW q \in Procs, q # p
         PROVE  Touches(q)' = Touches(q) /\ Space(q)' = Space(q)
    BY <1>3, <1>11 DEF Touches, Space, FramesOf, Dom, VPN, User
  <1>12. Created' = Created /\ p \in Created /\ \A q \in Created : q \in Procs
    BY CreatedAreProcs DEF procVars, Created, CreatedProcs, IInv, Shape
  <1>13. N \cap (Allocated \cup {None}) = {}
    BY <1>1, MemoryAssumption DEF Allocated
  <1>14. Isolation'
    <2> HIDE DEF N
    <2>1. /\ root' = root /\ kstack' = kstack /\ status' = status /\ device' = device /\ satp' = satp
      BY DEF procVars
    <2> DEFINE R == {}
    <2>2. /\ R \cap (Allocated \cup {None}) = {} /\ N \cap R = {}
          /\ Space(p)' \subseteq Space(p) \cup N \cup R
          /\ root'[p] \in R \cup {root[p]}
      BY <1>10, <2>1
    <2>3. \A q \in Created' : q # p =>
            /\ q \in Created /\ Touches(q)' \subseteq Touches(q) /\ Space(q)' \subseteq Space(q)
            /\ root'[q] = root[q] /\ kstack'[q] = kstack[q]
            /\ status'[q] = "live" => status[q] = "live"
      BY <1>11, <1>12, <2>1
    <2> HIDE DEF R
    <2> QED
      BY <1>9, <1>12, <1>13, <2>1, <2>2, <2>3, FreshFrames
  <1> QED
    BY <1>2, <1>5, <1>14
\* munmap and exit: frames leave a process, nothing is handed out.
LEMMA Shrink ==
  ASSUME IInv, NEW p \in Procs,
         UNCHANGED <<current, device, root, page_table, heap_area, kstack, next_pid, satp>>,
         areas' \in [Procs -> Map], mmap_area' \in [Procs -> Map],
         \A q \in Procs : /\ FramesOf(areas[q])' \subseteq FramesOf(areas[q])
                          /\ FramesOf(mmap_area[q])' \subseteq FramesOf(mmap_area[q]),
         \A q \in Procs : status'[q] = "live" => status[q] = "live",
         recycled' \subseteq Allocated
  PROVE  Bounded' /\ Isolation'
  <1>1. Allocated' = Allocated /\ Map' = Map /\ Procs' = Procs /\ Created' = Created
    BY DEF Allocated, Map, Procs, Created, VPN
  <1>2. Bounded'
    BY <1>1 DEF IInv, Bounded
  <1>3. \A q \in Procs : Touches(q)' = Touches(q) /\ Space(q)' \subseteq Space(q)
    <2> TAKE q \in Procs
    <2>1. Touches(q)' = Touches(q)
      BY DEF Touches, Dom, User, VPN
    <2>2. FramesOf(heap_area[q])' = FramesOf(heap_area[q]) /\ root'[q] = root[q]
      BY DEF FramesOf, Dom, VPN
    <2> QED
      BY <2>1, <2>2 DEF Space
  <1>4. \A q \in Created : q \in Procs
    BY CreatedAreProcs DEF CreatedProcs
  <1>5. Isolation'
    <2> SUFFICES ASSUME NEW r \in Created, status'[r] = "live"
                 PROVE  /\ Touches(r)' \cap (device \cup {satp}) = {}
                        /\ \A q \in Created :
                             /\ root[q] \notin Touches(r)' /\ kstack[q] \notin Touches(r)'
                             /\ q # r => Touches(r)' \cap (Space(q)' \cup Touches(q)') = {}
      BY <1>1 DEF Isolation
    <2>1. /\ status[r] = "live" /\ Touches(r)' = Touches(r)
      BY <1>3, <1>4
    <2>2. /\ Touches(r) \cap (device \cup {satp}) = {}
          /\ \A q \in Created :
               /\ root[q] \notin Touches(r) /\ kstack[q] \notin Touches(r)
               /\ q # r => Touches(r) \cap (Space(q) \cup Touches(q)) = {}
      BY <2>1 DEF IInv, Isolation
    <2> QED
      BY <1>3, <1>4, <2>1, <2>2
  <1> QED
    BY <1>2, <1>5

\* munmap empties a part of mmap_area and leaves the page table as it is.
LEMMA MunmapInv ==
  ASSUME IInv, NEW p \in Procs, NEW start \in Int, NEW len \in Int, SysMunmap(p, start, len)
  PROVE  IInv'
  <1> DEFINE S == {v \in VPN : Ceil(start) <= v /\ v < Ceil(start + len)}
             dropped == {mmap_area[p][v] : v \in S \cap Dom(mmap_area[p])}
  <1>1. /\ UNCHANGED <<current, device, root, page_table, areas, heap_area, heap_end, mmap_end,
                       kstack, status, next_pid, satp>>
        /\ mmap_area' = [mmap_area EXCEPT ![p] = [v \in VPN |-> IF v \in S THEN None ELSE mmap_area[p][v]]]
        /\ recycled' = recycled \cup dropped
        /\ halted' \in {"no", "dealloc"}
    BY DEF SysMunmap, procVars
  <1>2. mmap_area \in [Procs -> Map] /\ areas \in [Procs -> Map] /\ recycled \subseteq Allocated
    BY DEF IInv, Bounded
  <1> HIDE DEF S
  <1>3. mmap_area' \in [Procs -> Map]
    BY <1>1, <1>2 DEF Map
  <1>4. \A q \in Procs : /\ FramesOf(areas[q])' \subseteq FramesOf(areas[q])
                         /\ FramesOf(mmap_area[q])' \subseteq FramesOf(mmap_area[q])
    BY <1>1, <1>2 DEF FramesOf, Dom, VPN, Map
  <1>5. recycled' \subseteq Allocated
    BY <1>1, <1>2 DEF Map, Dom
  <1>6. Bounded' /\ Isolation'
    BY <1>1, <1>2, <1>3, <1>4, <1>5, Shrink
  <1>7. Shape'
    BY <1>1 DEF IInv, Shape, Procs, Created
  <1> QED
    BY <1>6, <1>7 DEF IInv

\* exit empties areas; the page table and the other maps keep their frames.
LEMMA ExitInv ==
  ASSUME IInv, NEW p \in Procs, SysExit(p)
  PROVE  IInv'
  <1>1. /\ UNCHANGED <<current, device, root, page_table, heap_area, mmap_area, heap_end, mmap_end,
                       kstack, next_pid, satp>>
        /\ areas' = [areas EXCEPT ![p] = NoPages]
        /\ status' = [status EXCEPT ![p] = "gone"]
        /\ recycled' = recycled \cup FramesOf(areas[p])
        /\ halted' \in {"no", "dealloc"}
    BY DEF SysExit
  <1>2. mmap_area \in [Procs -> Map] /\ areas \in [Procs -> Map] /\ recycled \subseteq Allocated
    BY DEF IInv, Bounded
  <1>3. NoPages \in Map /\ FramesOf(NoPages) = {}
    BY DEF NoPages, Map, FramesOf, Dom
  <1>4. areas' \in [Procs -> Map]
    BY <1>1, <1>2, <1>3
  <1>5. \A q \in Procs : /\ FramesOf(areas[q])' \subseteq FramesOf(areas[q])
                         /\ FramesOf(mmap_area[q])' \subseteq FramesOf(mmap_area[q])
    BY <1>1, <1>2 DEF FramesOf, Dom, VPN, NoPages
  <1>6. recycled' \subseteq Allocated
    BY <1>1, <1>2 DEF Map, FramesOf, Dom
  <1>7. \A q \in Procs : status'[q] = "live" => status[q] = "live"
    BY <1>1 DEF IInv, Shape
  <1>8. Bounded' /\ Isolation'
    BY <1>1, <1>2, <1>4, <1>5, <1>6, <1>7, Shrink
  <1>9. Shape'
    BY <1>1, <1>7 DEF IInv, Shape, Procs, Created
  <1> QED
    BY <1>8, <1>9 DEF IInv

\* Steps that leave every reference to a frame alone.
LEMMA SameReferences ==
  ASSUME IInv, UNCHANGED <<frameVars, root, page_table, areas, heap_area, mmap_area, procVars, satp>>
  PROVE  Bounded' /\ Isolation'
  <1>1. UNCHANGED <<current, recycled, device, root, page_table, areas, heap_area, mmap_area, kstack,
                    status, next_pid, satp>>
    BY DEF frameVars, procVars
  <1>2. mmap_area \in [Procs -> Map] /\ areas \in [Procs -> Map] /\ recycled \subseteq Allocated
    BY DEF IInv, Bounded
  <1>3. 0 \in Procs
    BY MemoryAssumption DEF Procs
  <1>4. \A q \in Procs : FramesOf(areas[q])' = FramesOf(areas[q])
    BY <1>1 DEF FramesOf, Dom, VPN
  <1>5. \A q \in Procs : FramesOf(mmap_area[q])' = FramesOf(mmap_area[q])
    BY <1>1 DEF FramesOf, Dom, VPN
  <1> QED
    BY <1>1, <1>2, <1>3, <1>4, <1>5, Shrink

\* A brk that stays within the pages of the heap changes heap_end only.
LEMMA BrkWithinInv ==
  ASSUME IInv, NEW p \in Procs, NEW addr \in Int, BrkWithin(p, addr)
  PROVE  IInv'
  <1>1. Bounded' /\ Isolation'
    BY SameReferences DEF BrkWithin
  <1>2. Shape'
    BY DEF BrkWithin, frameVars, procVars, IInv, Shape, Procs, Created
  <1> QED
    BY <1>1, <1>2 DEF IInv

\* A panic stops the machine as it is.
LEMMA PanicInv ==
  ASSUME IInv, UNCHANGED <<frameVars, spaceVars, procVars, satp>>,
         halted' \in {"no", "oom", "mapped", "dealloc", "fd"}
  PROVE  IInv'
  <1>1. Bounded' /\ Isolation'
    BY SameReferences DEF spaceVars
  <1>2. Shape'
    BY DEF frameVars, spaceVars, procVars, IInv, Shape, Procs, Created
  <1> QED
    BY <1>1, <1>2 DEF IInv

\* A brk that grows the heap maps new frames only.
LEMMA BrkGrowInv ==
  ASSUME IInv, NEW p \in Procs, NEW addr \in Int, BrkGrow(p, addr)
  PROVE  IInv'
  <1> DEFINE S == {v \in VPN : Floor(heap_end[p]) <= v /\ v < Ceil(addr)}
  <1>1. halted' = Outcome(page_table[p], S, 0) /\ status[p] = "live" /\ S \in SUBSET VPN
    BY DEF BrkGrow, Runs
  <1>2. CASE halted' # "no"
    <2>1. halted' \in {"no", "oom", "mapped", "dealloc", "fd"}
      BY <1>1 DEF Outcome
    <2> QED
      BY <1>2, <2>1, PanicInv DEF BrkGrow
  <1>3. CASE halted' = "no"
    <2>1. /\ Take(Cardinality(S))
          /\ page_table' = [page_table EXCEPT ![p] = Filled(page_table[p], S, 0)]
          /\ heap_area' = [heap_area EXCEPT ![p] = Filled(heap_area[p], S, 0)]
          /\ heap_end' = [heap_end EXCEPT ![p] = Ceil(addr) * PAGE_SIZE]
          /\ UNCHANGED <<recycled, device, root, areas, mmap_area, mmap_end, procVars, satp>>
      BY <1>3 DEF BrkGrow
    <2> HIDE DEF S
    <2>2. current \in Nat /\ Cardinality(S) \in Nat
      BY <1>1, CardNat DEF IInv, Shape
    <2>3. PICK skip \in Nat : skip = 0
      OBVIOUS
    <2>4. current + Cardinality(S) <= MaxFrame
      BY <1>1, <1>3, <2>2, <2>3, OutcomeNo
    <2>5. Bounded' /\ Isolation' /\ current' \in 0 .. MaxFrame
      BY <1>1, <2>1, <2>4, Grow, Zenon
    <2>6. Shape'
      BY <1>3, <2>1, <2>5, CeilInt, Zenon DEF IInv, Shape, Procs, Created, procVars
    <2> QED
      BY <2>5, <2>6 DEF IInv
  <1> QED
    BY <1>2, <1>3
\* mmap maps new frames only.
LEMMA MmapInv ==
  ASSUME IInv, NEW p \in Procs, NEW start \in Int, NEW len \in Int, SysMmap(p, start, len)
  PROVE  IInv'
  <1> DEFINE from == IF start # 0 THEN start ELSE mmap_end[p]
             range == {v \in VPN : Ceil(from) <= v /\ v < Ceil(from + len)}
             S == IF start # 0 THEN range \ Dom(mmap_area[p]) ELSE range
  <1>1. halted' = Outcome(page_table[p], S, 0) /\ status[p] = "live" /\ S \in SUBSET VPN
    BY DEF SysMmap, Runs
  <1>2. CASE halted' # "no"
    <2>1. halted' \in {"no", "oom", "mapped", "dealloc", "fd"}
      BY <1>1 DEF Outcome
    <2> QED
      BY <1>2, <2>1, PanicInv DEF SysMmap
  <1>3. CASE halted' = "no"
    <2>1. /\ Take(Cardinality(S))
          /\ page_table' = [page_table EXCEPT ![p] = Filled(page_table[p], S, 0)]
          /\ mmap_area' = [mmap_area EXCEPT ![p] = Filled(mmap_area[p], S, 0)]
          /\ mmap_end' = [mmap_end EXCEPT ![p] = (Ceil(from + len) + 1) * PAGE_SIZE]
          /\ UNCHANGED <<recycled, device, root, areas, heap_area, heap_end, procVars, satp>>
      BY <1>3 DEF SysMmap
    <2>2. from + len \in Int
      BY DEF IInv, Shape
    <2> HIDE DEF S, from
    <2>3. current \in Nat /\ Cardinality(S) \in Nat
      BY <1>1, CardNat DEF IInv, Shape
    <2>4. PICK skip \in Nat : skip = 0
      OBVIOUS
    <2>5. current + Cardinality(S) <= MaxFrame
      BY <1>1, <1>3, <2>3, <2>4, OutcomeNo
    <2>6. Bounded' /\ Isolation' /\ current' \in 0 .. MaxFrame
      BY <1>1, <2>1, <2>5, Grow, Zenon
    <2>7. Shape'
      BY <1>3, <2>1, <2>2, <2>6, CeilInt, Zenon DEF IInv, Shape, Procs, Created, procVars
    <2> QED
      BY <2>6, <2>7 DEF IInv
  <1> QED
    BY <1>2, <1>3

\* user_entry: satp moves to a page table no process can touch.
LEMMA SwitchInv ==
  ASSUME IInv, NEW p \in Procs, Switch(p)
  PROVE  IInv'
  <1>1. /\ UNCHANGED <<current, recycled, device, root, page_table, areas, heap_area, mmap_area,
                       heap_end, mmap_end, kstack, status, next_pid, halted>>
        /\ satp' = root[p] /\ status[p] = "live"
    BY DEF Switch, frameVars, spaceVars, procVars
  <1>2. p \in Created /\ root[p] \in Allocated
    BY <1>1 DEF IInv, Shape, Bounded
  <1>3. Allocated' = Allocated /\ Map' = Map /\ Procs' = Procs /\ Created' = Created
    BY <1>1 DEF Allocated, Map, Procs, Created, VPN
  <1>4. Bounded'
    BY <1>1, <1>2, <1>3 DEF IInv, Bounded
  <1>5. Shape'
    BY <1>1, <1>3 DEF IInv, Shape
  <1>6. ASSUME NEW q PROVE Touches(q)' = Touches(q) /\ Space(q)' = Space(q)
    BY <1>1 DEF Touches, Space, FramesOf, Dom, User, VPN
  <1>7. Isolation'
    BY <1>1, <1>2, <1>3, <1>6 DEF IInv, Isolation
  <1> QED
    BY <1>4, <1>5, <1>7 DEF IInv
\* Filling one page takes one frame.
LEMMA FilledOne ==
  ASSUME NEW m, NEW x \in VPN, NEW skip \in Nat, current \in Nat
  PROVE  Filled(m, {x}, skip) = [v \in VPN |-> IF v = x THEN current + skip ELSE m[v]]
  <1>1. {u \in {x} : u < x} = {}
    BY DEF VPN
  <1>2. Rank({x}, x) = 0
    BY <1>1, FS_EmptySet DEF Rank
  <1> QED
    BY <1>2 DEF Filled, Handed

\* The image and the trap contexts have pages apart.
LEMMA Pages ==
  /\ 0 \in VPN
  /\ \A p \in Procs : TrapPage(p) \in VPN /\ TrapPage(p) \notin User /\ TrapPage(p) # 0
  BY MemoryAssumption DEF VPN, User, Procs, TrapPage

\* execve: the new page table, image and trap context are fresh; the old page
\* table, still in satp, is in no user's reach.
LEMMA ExecveInv ==
  ASSUME IInv, NEW p \in Procs, SysExecve(p)
  PROVE  IInv'
  <1> DEFINE image == Filled(NoPages, {0}, 1)
             own == Filled(image, {TrapPage(p)}, 2)
             N == {current + 1, current + 2}
             R == {current}
  <1>1. status[p] = "live" /\ halted' \in {"no", "oom", "dealloc"}
    BY DEF SysExecve, Runs
  <1>2. CASE halted' # "no"
    BY <1>1, <1>2, PanicInv DEF SysExecve
  <1>3. CASE halted' = "no"
    <2>1. /\ current' = current + 3 /\ ~(current + 3 > MaxFrame)
          /\ recycled' = recycled \cup Space(p)
          /\ root' = [root EXCEPT ![p] = current + 0]
          /\ areas' = [areas EXCEPT ![p] = own]
          /\ page_table' = [page_table EXCEPT ![p] = own]
          /\ heap_area' = [heap_area EXCEPT ![p] = NoPages]
          /\ mmap_area' = [mmap_area EXCEPT ![p] = NoPages]
          /\ heap_end' = [heap_end EXCEPT ![p] = HEAP_BASE * PAGE_SIZE]
          /\ mmap_end' = [mmap_end EXCEPT ![p] = MMAP_BASE * PAGE_SIZE]
          /\ UNCHANGED <<device, kstack, status, next_pid, satp>>
      BY <1>3 DEF SysExecve, Take, Handed, procVars
    <2>2. current \in Nat /\ current' \in 0 .. MaxFrame /\ root' = [root EXCEPT ![p] = current]
      BY <2>1, MemoryAssumption DEF IInv, Shape
    <2>3. own = [v \in VPN |-> IF v = TrapPage(p) THEN current + 2
                               ELSE IF v = 0 THEN current + 1 ELSE None]
      <3>1. image = [v \in VPN |-> IF v = 0 THEN current + 1 ELSE NoPages[v]]
        BY <2>2, FilledOne, Pages
      <3> HIDE DEF image
      <3>2. own = [v \in VPN |-> IF v = TrapPage(p) THEN current + 2 ELSE image[v]]
        BY <2>2, FilledOne, Pages
      <3> QED
        BY <3>1, <3>2 DEF NoPages
    <2> HIDE DEF own, image
    <2>4. /\ root \in [Procs -> Allocated \cup {None}] /\ kstack \in [Procs -> Allocated \cup {None}]
          /\ page_table \in [Procs -> Map] /\ areas \in [Procs -> Map]
          /\ heap_area \in [Procs -> Map] /\ mmap_area \in [Procs -> Map]
          /\ recycled \subseteq Allocated /\ device \subseteq Allocated /\ satp \in Allocated
      BY DEF IInv, Bounded
    <2>5. Bounded'
      <3>1. /\ Allocated \subseteq Allocated' /\ Map \subseteq Map'
            /\ [Procs -> Map] \subseteq [Procs -> Map']
            /\ [Procs -> Allocated \cup {None}] \subseteq [Procs -> Allocated' \cup {None}]
        BY <2>1, <2>2, Monotone
      <3>2. current \in Allocated' /\ current + 1 \in Allocated' /\ current + 2 \in Allocated'
        BY <2>1, <2>2 DEF Allocated
      <3>3. own \in Map' /\ NoPages \in Map'
        BY <2>3, <3>2 DEF Map, NoPages, VPN
      <3>4. None \notin Space(p)
        BY <1>1, <2>4 DEF Space, FramesOf, Dom, IInv, Shape
      <3>5. Space(p) \subseteq Allocated
        BY <3>4, References
      <3>6. /\ page_table' \in [Procs -> Map'] /\ areas' \in [Procs -> Map']
            /\ heap_area' \in [Procs -> Map'] /\ mmap_area' \in [Procs -> Map']
        BY <2>1, <2>4, <3>1, <3>3
      <3>7. root' \in [Procs -> Allocated' \cup {None}] /\ kstack' \in [Procs -> Allocated' \cup {None}]
        BY <2>1, <2>2, <2>4, <3>1, <3>2
      <3>8. Procs' = Procs
        BY DEF Procs
      <3> QED
        BY <2>1, <2>4, <3>1, <3>5, <3>6, <3>7, <3>8 DEF Bounded
    <2>6. Shape'
      <3>1. HEAP_BASE * PAGE_SIZE \in Int /\ MMAP_BASE * PAGE_SIZE \in Int
        BY MemoryAssumption
      <3>2. heap_end' \in [Procs -> Int] /\ mmap_end' \in [Procs -> Int]
        BY <2>1, <3>1 DEF IInv, Shape
      <3>3. \A q \in Procs : status'[q] = "live" => q \in Created' /\ root'[q] # None
        BY <2>1, <2>2, <2>4, MemoryAssumption DEF IInv, Shape, Created
      <3> QED
        BY <1>3, <2>1, <2>2, <3>2, <3>3 DEF IInv, Shape, Procs
    <2>7. Touches(p)' \subseteq N
      <3>1. page_table'[p] = own
        BY <2>1, <2>4
      <3> QED
        BY <2>3, <3>1 DEF Touches, Dom, User, VPN
    <2>8. Space(p)' \subseteq N \cup R
      <3>1. /\ areas'[p] = own /\ heap_area'[p] = NoPages /\ mmap_area'[p] = NoPages /\ root'[p] = current
        BY <2>1, <2>2, <2>4
      <3>2. FramesOf(own) \subseteq N
        BY <2>3 DEF FramesOf, Dom
      <3>3. FramesOf(NoPages) = {}
        BY DEF NoPages, FramesOf, Dom
      <3>4. FramesOf(areas[p])' = FramesOf(own) /\ FramesOf(heap_area[p])' = FramesOf(NoPages)
            /\ FramesOf(mmap_area[p])' = FramesOf(NoPages)
        BY <3>1 DEF FramesOf, Dom, VPN
      <3> QED
        BY <3>1, <3>2, <3>3, <3>4 DEF Space
    <2>9. ASSUME NEW q \in Procs, q # p
          PROVE  Touches(q)' = Touches(q) /\ Space(q)' = Space(q) /\ root'[q] = root[q]
      BY <2>1, <2>2, <2>4, <2>9 DEF Touches, Space, FramesOf, Dom, VPN, User
    <2>10. Created' = Created /\ p \in Created /\ \A q \in Created : q \in Procs
      BY <1>1, <2>1, CreatedAreProcs DEF Created, CreatedProcs, IInv, Shape
    <2>11. /\ N \cap (Allocated \cup {None}) = {} /\ R \cap (Allocated \cup {None}) = {} /\ N \cap R = {}
      BY <2>2, MemoryAssumption DEF Allocated
    <2>12. root'[p] \in R
      BY <2>2, <2>4
    <2>13. \A q \in Created' : q # p =>
            /\ q \in Created /\ Touches(q)' \subseteq Touches(q) /\ Space(q)' \subseteq Space(q)
            /\ root'[q] = root[q] /\ kstack'[q] = kstack[q]
            /\ status'[q] = "live" => status[q] = "live"
      BY <2>1, <2>9, <2>10
    <2>14. Isolation'
      <3> HIDE DEF N, R
      <3>1. /\ Touches(p)' \subseteq Touches(p) \cup N
            /\ Space(p)' \subseteq Space(p) \cup N \cup R
            /\ root'[p] \in R \cup {root[p]}
        BY <2>7, <2>8, <2>12
      <3>2. p \in Created /\ kstack'[p] = kstack[p] /\ (status'[p] = "live" => status[p] = "live")
        BY <1>1, <2>1, <2>10
      <3>3. device' = device /\ satp' = satp
        BY <2>1
      <3> QED
        BY ONLY IInv, <2>11, <2>13, <3>1, <3>2, <3>3, FreshFrames
    <2> QED
      BY <2>5, <2>6, <2>14 DEF IInv
  <1> QED
    BY <1>2, <1>3
\* Filled stays inside a set of frames that holds the map and the window.
LEMMA FilledWithin ==
  ASSUME NEW W, NEW m \in [VPN -> W \cup {None}], NEW S \in SUBSET VPN, NEW skip \in Nat,
         current \in Nat,
         current + skip .. current + skip + Cardinality(S) - 1 \subseteq W
  PROVE  Filled(m, S, skip) \in [VPN -> W \cup {None}]
  <1> DEFINE F == Filled(m, S, skip)
  <1>1. /\ F = [v \in VPN |-> F[v]]
        /\ \A v \in S : F[v] \in Int /\ current + skip <= F[v] /\ F[v] < current + skip + Cardinality(S)
        /\ \A v \in VPN \ S : F[v] = m[v]
    BY FilledFrames
  <1>2. Cardinality(S) \in Nat
    BY CardNat
  <1> HIDE DEF F
  <1>3. \A v \in S : F[v] \in current + skip .. current + skip + Cardinality(S) - 1
    BY <1>1, <1>2
  <1>4. \A v \in VPN : F[v] \in W \cup {None}
    BY <1>1, <1>3
  <1>5. F \in [VPN -> W \cup {None}]
    BY <1>1, <1>4
  <1> QED
    BY <1>5 DEF F

\* fork: everything the child has is fresh; the parent only gains the PTE of the
\* child's trap context, which user code cannot reach.
LEMMA ForkInv ==
  ASSUME IInv, NEW p \in Procs, Fork(p)
  PROVE  IInv'
  <1>0. PICK c : c = next_pid
    OBVIOUS
  <1> DEFINE A == Dom(areas[p])
             H == Dom(heap_area[p])
             M == Dom(mmap_area[p])
             h == 2 + Cardinality(A)
             m == h + Cardinality(H)
             t == m + Cardinality(M)
             base == Filled(NoPages, A, 2)
             own == Filled(base, {TrapPage(c)}, t)
             heap == Filled(NoPages, H, h)
             mapped == Filled(NoPages, M, m)
             table == Filled(Filled(own, H, h), M, m)
             N == current + 2 .. current + t
             R == {current, current + 1}
  <1>1. /\ status[p] = "live" /\ c < MaxProc
        /\ halted' = IF (A \cap H) \cup (A \cap M) \cup (H \cap M) # {} THEN "mapped"
                     ELSE Outcome(page_table[p], {TrapPage(c)}, t)
    BY <1>0 DEF Fork, Runs
  <1>2. CASE halted' # "no"
    <2>1. halted' \in {"no", "oom", "mapped", "dealloc", "fd"}
      BY <1>1 DEF Outcome
    <2> QED
      BY <1>2, <2>1, PanicInv DEF Fork
  <1>3. CASE halted' = "no"
    <2>1. /\ Take(t + 1)
          /\ kstack' = [kstack EXCEPT ![c] = Handed(0)]
          /\ root' = [root EXCEPT ![c] = Handed(1)]
          /\ areas' = [areas EXCEPT ![c] = own]
          /\ heap_area' = [heap_area EXCEPT ![c] = heap]
          /\ mmap_area' = [mmap_area EXCEPT ![c] = mapped]
          /\ page_table' = [page_table EXCEPT ![p][TrapPage(c)] = Handed(t), ![c] = table]
          /\ heap_end' = [heap_end EXCEPT ![c] = heap_end[p]]
          /\ mmap_end' = [mmap_end EXCEPT ![c] = mmap_end[p]]
          /\ status' = [status EXCEPT ![c] = "live"]
          /\ next_pid' = next_pid + 1
          /\ UNCHANGED <<recycled, device, satp>>
      BY <1>0, <1>3 DEF Fork
    <2>2. A \in SUBSET VPN /\ H \in SUBSET VPN /\ M \in SUBSET VPN
      BY DEF Dom
    <2>3. Cardinality(A) \in Nat /\ Cardinality(H) \in Nat /\ Cardinality(M) \in Nat
      BY <2>2, CardNat
    <2>4. current \in Nat /\ h \in Nat /\ m \in Nat /\ t \in Nat /\ 2 <= h /\ h <= m /\ m <= t
      <3>1. current \in Nat
        BY DEF IInv, Shape
      <3>2. h \in Nat /\ m \in Nat /\ t \in Nat /\ 2 <= h /\ h <= m /\ m <= t
        BY ONLY <2>3
      <3> QED
        BY ONLY <3>1, <3>2
    <2>5. c \in Procs /\ c # p /\ c \notin Created /\ p \in Created
      <3>1. p \in Created /\ next_pid \in 1 .. MaxProc
        BY <1>1 DEF IInv, Shape
      <3>2. c = next_pid /\ c < MaxProc
        BY <1>0, <1>1
      <3> QED
        BY ONLY <3>1, <3>2, MemoryAssumption DEF Procs, Created
    <2>6. TrapPage(c) \in VPN /\ TrapPage(c) \notin User
      BY <2>5, Pages
    <2>7. current + t + 1 <= MaxFrame
      <3>1. Outcome(page_table[p], {TrapPage(c)}, t) = "no"
        BY <1>1, <1>3
      <3>2. Cardinality({TrapPage(c)}) = 1
        BY FS_Singleton
      <3> HIDE DEF t
      <3>3. {TrapPage(c)} \in SUBSET VPN
        BY <2>6
      <3> QED
        BY <2>4, <3>1, <3>2, <3>3, OutcomeNo
    <2>8. current' = current + t + 1 /\ current' \in 0 .. MaxFrame
      BY <2>1, <2>4, <2>7, MemoryAssumption DEF Take
    <2>9. /\ kstack' = [kstack EXCEPT ![c] = current] /\ root' = [root EXCEPT ![c] = current + 1]
          /\ page_table' = [page_table EXCEPT ![p][TrapPage(c)] = current + t, ![c] = table]
      <3>1. Handed(0) = current /\ Handed(1) = current + 1 /\ Handed(t) = current + t
        BY <2>4 DEF Handed
      <3> HIDE DEF t, table
      <3> QED
        BY <2>1, <3>1, Zenon
    <2>10. /\ current + 2 .. current + 2 + Cardinality(A) - 1 \subseteq N
           /\ current + h .. current + h + Cardinality(H) - 1 \subseteq N
           /\ current + m .. current + m + Cardinality(M) - 1 \subseteq N
           /\ current + t \in N
      <3>1. \A a, b, n, k \in Nat : 2 <= a /\ a + n <= b + 1 =>
                k + a .. k + a + n - 1 \subseteq k + 2 .. k + b
        OBVIOUS
      <3>2. 2 + Cardinality(A) <= t + 1 /\ h + Cardinality(H) <= t + 1 /\ m + Cardinality(M) <= t + 1
        BY <2>3, <2>4
      <3>3. 2 \in Nat /\ 2 <= m
        BY <2>4
      <3>4. current + t \in N
        BY <2>4
      <3> HIDE DEF h, m, t
      <3> QED
        BY <2>3, <2>4, <3>1, <3>2, <3>3, <3>4
    <2> DEFINE Child == [VPN -> N \cup {None}]
    <2>11. own \in Child /\ heap \in Child /\ mapped \in Child /\ table \in Child
      <3> HIDE DEF N, A, H, M, h, m, t
      <3>1. NoPages \in Child
        BY DEF NoPages
      <3>2. 2 \in Nat
        OBVIOUS
      <3>3. base \in Child
        BY <2>2, <2>4, <2>10, <3>1, <3>2, FilledWithin
      <3>4. own = [v \in VPN |-> IF v = TrapPage(c) THEN current + t ELSE base[v]]
        BY <2>4, <2>6, FilledOne
      <3>5. own \in Child
        BY <2>10, <3>3, <3>4, Zenon
      <3>6. heap \in Child /\ mapped \in Child
        BY <2>2, <2>4, <2>10, <3>1, FilledWithin, Zenon
      <3> HIDE DEF own
      <3>7. Filled(own, H, h) \in Child
        BY <2>2, <2>4, <2>10, <3>5, FilledWithin, Zenon
      <3>8. table \in Child
        BY <2>2, <2>4, <2>10, <3>7, FilledWithin
      <3> QED
        BY <3>5, <3>6, <3>8
    <2>12. /\ N \cap (Allocated \cup {None}) = {} /\ R \cap (Allocated \cup {None}) = {} /\ N \cap R = {}
      BY <2>4, MemoryAssumption DEF Allocated
    <2>13. N \subseteq Allocated' /\ R \subseteq Allocated'
      BY <2>4, <2>8 DEF Allocated
    <2>14. /\ root \in [Procs -> Allocated \cup {None}] /\ kstack \in [Procs -> Allocated \cup {None}]
           /\ page_table \in [Procs -> Map] /\ areas \in [Procs -> Map]
           /\ heap_area \in [Procs -> Map] /\ mmap_area \in [Procs -> Map]
           /\ recycled \subseteq Allocated /\ device \subseteq Allocated /\ satp \in Allocated
      BY DEF IInv, Bounded
    <2> HIDE DEF N, R, A, H, M, h, m, t, base, own, heap, mapped, table
    <2>15. Bounded'
      <3>1. /\ Allocated \subseteq Allocated' /\ Map \subseteq Map'
            /\ [Procs -> Map] \subseteq [Procs -> Map']
            /\ [Procs -> Allocated \cup {None}] \subseteq [Procs -> Allocated' \cup {None}]
        BY <2>4, <2>8, Monotone
      <3>2. Map' = [VPN -> Allocated' \cup {None}]
        BY DEF Map, VPN
      <3>3. Child \subseteq Map'
        BY <2>13, <3>2
      <3> HIDE DEF Child
      <3>4. areas' \in [Procs -> Map'] /\ heap_area' \in [Procs -> Map'] /\ mmap_area' \in [Procs -> Map']
        BY <2>1, <2>11, <2>14, <3>1, <3>3, Zenon
      <3>5. [page_table[p] EXCEPT ![TrapPage(c)] = current + t] \in Map'
        BY <2>10, <2>13, <2>14, <3>1, <3>2, Zenon DEF Map
      <3>6. page_table' \in [Procs -> Map']
        BY <2>5, <2>9, <2>11, <2>14, <3>1, <3>3, <3>5, Zenon
      <3>7. root' \in [Procs -> Allocated' \cup {None}] /\ kstack' \in [Procs -> Allocated' \cup {None}]
        BY <2>9, <2>13, <2>14, <3>1, Zenon DEF R
      <3>8. Procs' = Procs
        BY DEF Procs
      <3> QED
        BY <2>1, <2>14, <3>1, <3>4, <3>6, <3>7, <3>8, Zenon DEF Bounded
    <2>16. Shape'
      <3>1. \A q \in Procs : status'[q] = "live" => q \in Created' /\ root'[q] # None
        BY <1>0, <2>1, <2>4, <2>5, <2>9, <2>14, MemoryAssumption DEF IInv, Shape, Created
      <3>2. next_pid' \in 1 .. MaxProc
        BY <1>0, <1>1, <2>1, MemoryAssumption DEF IInv, Shape
      <3> QED
        BY <1>3, <2>1, <2>5, <2>8, <3>1, <3>2 DEF IInv, Shape, Procs
    <2>17. Touches(c)' \subseteq N
      <3>1. page_table'[c] = table
        BY <2>5, <2>9, <2>14
      <3> QED
        BY <2>11, <3>1 DEF Touches, Dom, User, VPN
    <2>18. Space(c)' \subseteq N \cup R
      <3>1. areas'[c] = own /\ heap_area'[c] = heap /\ mmap_area'[c] = mapped /\ root'[c] \in R
        BY <2>1, <2>5, <2>9, <2>14 DEF R
      <3>2. \A f \in Child : FramesOf(f) \subseteq N
        BY DEF FramesOf, Dom
      <3>3. /\ FramesOf(areas'[c]) \subseteq N /\ FramesOf(heap_area'[c]) \subseteq N
            /\ FramesOf(mmap_area'[c]) \subseteq N
        BY <2>11, <3>1, <3>2
      <3>4. Space(c)' = {root'[c]} \cup FramesOf(areas'[c]) \cup FramesOf(heap_area'[c])
                                  \cup FramesOf(mmap_area'[c])
        BY <2>1 DEF Space, FramesOf, Dom, VPN
      <3> QED
        BY <3>1, <3>3, <3>4
    <2>19. ASSUME NEW q \in Procs, q # c
           PROVE  Touches(q)' = Touches(q) /\ Space(q)' = Space(q)
      <3>1. \A v \in User : page_table'[q][v] = page_table[q][v]
        <4>1. page_table[p] \in Map /\ \A v \in User : v # TrapPage(c)
          BY <2>6, <2>14
        <4>2. CASE q = p
          <5>1. page_table'[q] = [page_table[p] EXCEPT ![TrapPage(c)] = current + t]
            BY <2>5, <2>9, <2>14, <4>2, Zenon
          <5> QED
            BY <4>1, <4>2, <5>1 DEF Map
        <4>3. CASE q # p
          BY <2>5, <2>9, <2>14, <2>19, <4>3
        <4> QED
          BY <4>2, <4>3
      <3>2. User \subseteq VPN
        BY MemoryAssumption DEF User, VPN
      <3>3. Touches(q)' = Touches(q)
        BY <3>1, <3>2 DEF Touches, Dom, User, VPN
      <3>4. areas'[q] = areas[q] /\ heap_area'[q] = heap_area[q] /\ mmap_area'[q] = mmap_area[q]
            /\ root'[q] = root[q]
        BY <2>1, <2>9, <2>14, <2>19
      <3>5. Space(q)' = Space(q)
        BY <3>4 DEF Space, FramesOf, Dom, VPN
      <3> QED
        BY <3>3, <3>5
    <2>20. \A q \in Created' : q # c =>
            /\ q \in Created /\ Touches(q)' \subseteq Touches(q) /\ Space(q)' \subseteq Space(q)
            /\ root'[q] = root[q] /\ kstack'[q] = kstack[q]
            /\ status'[q] = "live" => status[q] = "live"
      <3> TAKE q \in Created'
      <3> HAVE q # c
      <3>1. q \in Created
        BY <1>0, <2>1 DEF Created, IInv, Shape
      <3>2. q \in Procs
        BY <3>1, CreatedAreProcs DEF CreatedProcs
      <3>3. root'[q] = root[q] /\ kstack'[q] = kstack[q] /\ status'[q] = status[q]
        BY <2>1, <2>9, <2>14, <3>2 DEF IInv, Shape
      <3> QED
        BY <2>19, <3>1, <3>2, <3>3
    <2>21. root'[c] \in R /\ kstack'[c] \in R
      BY <2>5, <2>9, <2>14 DEF R
    <2>22. device' = device /\ satp' = satp
      BY <2>1
    <2>23. Isolation'
      BY ONLY IInv, <2>12, <2>17, <2>18, <2>20, <2>21, <2>22, FreshFrames
    <2> QED
      BY <2>15, <2>16, <2>23 DEF IInv
  <1> QED
    BY <1>2, <1>3
-----------------------------------------------------------------------------
\* The first process has frames of its own.
LEMMA InitInv == Init => IInv
  <1> SUFFICES ASSUME Init PROVE IInv
    OBVIOUS
  <1>1. 0 \in Procs /\ Created = {0}
    BY MemoryAssumption DEF Procs, Created, Init
  <1>2. Allocated = 0 .. 4
    BY DEF Allocated, Init
  <1>3. Shape
    <2>1. HEAP_BASE * PAGE_SIZE \in Int /\ MMAP_BASE * PAGE_SIZE \in Int
      BY MemoryAssumption
    <2> QED
      BY <1>1, <2>1, MemoryAssumption DEF Init, Shape, Procs
  <1>4. Bounded
    <2>1. NoPages \in Map
      BY DEF NoPages, Map
    <2>2. areas \in [Procs -> Map]
      BY <1>2 DEF Init, Map
    <2> QED
      BY <1>2, <2>1, <2>2 DEF Init, Bounded
  <1>5. Isolation
    <2>1. Touches(0) \subseteq {3}
      <3>1. \A v \in User : v # TrapPage(0)
        BY MemoryAssumption DEF User, TrapPage
      <3> QED
        BY <1>1, <3>1, Zenon DEF Touches, Dom, Init
    <2>2. root[0] = 1 /\ kstack[0] = 2 /\ device = {0} /\ satp = 1
      BY <1>1 DEF Init
    <2> QED
      BY <1>1, <2>1, <2>2 DEF Isolation
  <1> QED
    BY <1>3, <1>4, <1>5 DEF IInv

\* Every step keeps the invariant.
LEMMA StepInv == IInv /\ [Next]_vars => IInv'
  <1> SUFFICES ASSUME IInv, [Next]_vars PROVE IInv'
    OBVIOUS
  <1>1. HeapEnds \subseteq Int /\ Addresses \subseteq Int /\ Lengths \subseteq Int
    BY DEF HeapEnds, Addresses, Lengths
  <1>2. CASE UNCHANGED vars
    BY <1>2, PanicInv DEF vars, IInv, Shape
  <1>3. CASE Halted
    BY <1>3, PanicInv DEF Halted, vars, IInv, Shape
  <1>4. ASSUME NEW p \in Procs, Switch(p) \/ Fork(p) \/ SysExecve(p) \/ SysExit(p)
        PROVE  IInv'
    BY <1>4, SwitchInv, ForkInv, ExecveInv, ExitInv
  <1>5. ASSUME NEW p \in Procs, MmapNoFile(p)
        PROVE  IInv'
    BY <1>5, PanicInv DEF MmapNoFile
  <1>6. ASSUME NEW p \in Procs, NEW addr \in HeapEnds, BrkWithin(p, addr) \/ BrkGrow(p, addr)
        PROVE  IInv'
    BY <1>1, <1>6, BrkWithinInv, BrkGrowInv
  <1>7. ASSUME NEW p \in Procs, NEW start \in Addresses, NEW len \in Lengths,
               SysMmap(p, start, len) \/ SysMunmap(p, start, len)
        PROVE  IInv'
    BY <1>1, <1>7, MmapInv, MunmapInv
  <1> QED
    BY <1>2, <1>3, <1>4, <1>5, <1>6, <1>7 DEF Next

\* The invariant holds in every reachable state.
LEMMA Invariance == Spec => []IInv
  BY InitInv, StepInv, PTL DEF Spec

\* Every variable of the memory model keeps its type; in particular alloc never
\* hands out a frame beyond the end of memory.
THEOREM TypeCorrect == Spec => []TypeOK
  <1>1. IInv => TypeOK
    <2> SUFFICES ASSUME IInv PROVE TypeOK
      OBVIOUS
    <2>1. Allocated \subseteq Frames
      <3>1. \A a, b \in Int : a <= b => 0 .. a - 1 \subseteq 0 .. b - 1
        OBVIOUS
      <3> QED
        BY <3>1, MemoryAssumption DEF Allocated, Frames, IInv, Shape
    <2>2. Map \subseteq [VPN -> FrameOrNone]
      BY <2>1 DEF Map, FrameOrNone
    <2> QED
      BY <2>1, <2>2 DEF IInv, Shape, Bounded, TypeOK, FrameOrNone
  <1> QED
    BY <1>1, Invariance, PTL

\* For any number of processes, pages and frames: user code of a live process
\* reaches no frame of another process, no page table, no kernel stack and no
\* DMA buffer, whatever PTEs munmap, exit and execve leave behind.
THEOREM IsolationAlways == Spec => []Isolation
  <1>1. IInv => Isolation
    BY DEF IInv
  <1> QED
    BY <1>1, Invariance, PTL
=============================================================================
