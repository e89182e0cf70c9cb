--------------------------- MODULE Tracking_proof ---------------------------
(***************************************************************************)
(* TrackedOnce and Backed hold for any number of processes, pages and      *)
(* frames: the calls that build a new MemorySet, and the conclusion.       *)
(***************************************************************************)
EXTENDS Ownership_proof

\* execve: every tracker of the old MemorySet is dropped, and the new page table,
\* image and trap context take three frames.
LEMMA ExecveTracked ==
  ASSUME KInv, NEW p \in Procs, SysExecve(p)
  PROVE  KInv'
  <1> DEFINE image == Filled(NoPages, {0}, 1)
             own == Filled(image, {TrapPage(p)}, 2)
             D == {s \in Slots : Proc(s) = p /\ Kind(s) # "kstack"}
             N == {Slot("root", p, 0), Slot("areas", p, 0), Slot("areas", p, TrapPage(p))}
  <1>1. IInv'
    BY ExecveInv DEF KInv
  <1>2. /\ status[p] = "live" /\ halted = "no"
        /\ halted' = IF current + 3 > MaxFrame THEN "oom"
                     ELSE IF Recyclable(Space(p)) THEN "no" ELSE "dealloc"
    BY DEF SysExecve, Runs
  <1>3. current \in Nat /\ p \in Created
        /\ \A s \in Slots : owner[s] \in (0 .. current - 1) \cup {None}
    BY <1>2, Held DEF KInv, IInv, Shape, Allocated
  <1>4. OwnerIs /\ OwnerNext
    BY OwnerAt, OwnerAfter
  <1>5. Space(p) = {owner[s] : s \in D} \ {None}
    <2>1. root[p] # None
      BY <1>2 DEF KInv, IInv, Shape
    <2>2. ASSUME NEW f, f \in Space(p)
          PROVE  \E s \in D : f = owner[s] /\ f # None
      <3>1. /\ Slot("root", p, 0) \in D /\ owner[Slot("root", p, 0)] = root[p]
            /\ \A v \in VPN :
                 /\ Slot("areas", p, v) \in D /\ owner[Slot("areas", p, v)] = areas[p][v]
                 /\ Slot("heap", p, v) \in D /\ owner[Slot("heap", p, v)] = heap_area[p][v]
                 /\ Slot("mmap", p, v) \in D /\ owner[Slot("mmap", p, v)] = mmap_area[p][v]
        BY <1>4, SlotKinds DEF OwnerIs
      <3>2. \/ f = root[p]
            \/ \E v \in VPN : f # None /\ (f = areas[p][v] \/ f = heap_area[p][v] \/ f = mmap_area[p][v])
        BY <2>2 DEF Space, FramesOf, Dom
      <3> HIDE DEF D
      <3> QED
        BY <2>1, <3>1, <3>2
    <2>3. ASSUME NEW s \in D, owner[s] # None
          PROVE  owner[s] \in Space(p)
      <3>1. /\ Kind(s) = "root" \/ (Kind(s) \in {"areas", "heap", "mmap"} /\ Page(s) \in VPN)
            /\ Proc(s) = p /\ s \in Slots
        BY SlotKinds
      <3> HIDE DEF D
      <3> QED
        BY <1>4, <2>3, <3>1 DEF OwnerIs, Space, FramesOf, Dom
    <2> HIDE DEF D
    <2> QED
      BY <2>2, <2>3
  <1>6. D \in SUBSET Slots /\ Recyclable(Space(p))
    BY <1>5, GivenBack, Zenon
  <1>7. CASE halted' # "no"
    <2>1. halted' \in {"oom", "mapped", "fd"}
      BY <1>2, <1>6, <1>7
    <2> QED
      BY <1>7, <2>1, PanicTracked DEF SysExecve
  <1>8. CASE halted' = "no"
    <2>1. /\ current' = current + 3
          /\ recycled' = recycled \cup Space(p)
          /\ root' = [root EXCEPT ![p] = current + 0]
          /\ areas' = [areas EXCEPT ![p] = own]
          /\ page_table' = [page_table EXCEPT ![p] = own]
          /\ heap_area' = [heap_area EXCEPT ![p] = NoPages]
          /\ mmap_area' = [mmap_area EXCEPT ![p] = NoPages]
          /\ heap_end' = [heap_end EXCEPT ![p] = HEAP_BASE * PAGE_SIZE]
          /\ UNCHANGED <<kstack, status, next_pid>>
      BY <1>8 DEF SysExecve, Take, Handed, procVars
    <2>2. own = [v \in VPN |-> IF v = TrapPage(p) THEN current + 2
                               ELSE IF v = 0 THEN current + 1 ELSE None]
      <3>1. image = [v \in VPN |-> IF v = 0 THEN current + 1 ELSE NoPages[v]]
        BY <1>3, FilledOne, Pages
      <3> HIDE DEF image
      <3>2. own = [v \in VPN |-> IF v = TrapPage(p) THEN current + 2 ELSE image[v]]
        BY <1>3, FilledOne, Pages
      <3> QED
        BY <3>1, <3>2 DEF NoPages
    <2> HIDE DEF own, image
    <2>3. /\ root \in [Procs -> Allocated \cup {None}] /\ page_table \in [Procs -> Map]
          /\ areas \in [Procs -> Map] /\ heap_area \in [Procs -> Map] /\ mmap_area \in [Procs -> Map]
          /\ heap_end \in [Procs -> Int]
      BY DEF KInv, IInv, Bounded, Shape
    <2>4. /\ root'[p] = current /\ areas'[p] = own /\ page_table'[p] = own
          /\ heap_area'[p] = NoPages /\ mmap_area'[p] = NoPages
          /\ heap_end'[p] = HEAP_BASE * PAGE_SIZE
      BY <1>3, <2>1, <2>3
    <2>5. \A q \in Procs : q # p =>
            /\ root'[q] = root[q] /\ areas'[q] = areas[q] /\ page_table'[q] = page_table[q]
            /\ heap_area'[q] = heap_area[q] /\ mmap_area'[q] = mmap_area[q]
            /\ heap_end'[q] = heap_end[q]
      BY <2>1, <2>3
    <2>6. /\ 0 \in VPN /\ TrapPage(p) \in VPN /\ TrapPage(p) # 0
      BY Pages
    <2>7. N \in SUBSET Slots /\ N \subseteq D
      BY <2>6, SlotKinds
    <2>8. /\ owner'[Slot("root", p, 0)] = current
          /\ owner'[Slot("areas", p, 0)] = current + 1
          /\ owner'[Slot("areas", p, TrapPage(p))] = current + 2
      BY <1>4, <2>2, <2>4, <2>6, <2>7, SlotKinds DEF OwnerNext
    <2>9. \A s \in Slots : s \notin D => owner'[s] = owner[s]
      <3> TAKE s \in Slots
      <3> HAVE s \notin D
      <3>1. Proc(s) \in Procs /\ (Proc(s) # p \/ Kind(s) = "kstack")
            /\ Kind(s) \in {"root", "kstack", "areas", "heap", "mmap"}
        BY SlotKinds
      <3> QED
        BY <1>4, <2>1, <2>5, <3>1 DEF OwnerIs, OwnerNext
    <2>10. \A s \in D : s \notin N => owner'[s] = None
      <3> TAKE s \in D
      <3> HAVE s \notin N
      <3>1. /\ s \in Slots /\ Proc(s) = p /\ Kind(s) # "kstack" /\ s = Slot(Kind(s), Proc(s), Page(s))
            /\ \/ Kind(s) = "root" /\ Page(s) = 0
               \/ Kind(s) \in {"areas", "heap", "mmap"} /\ Page(s) \in VPN
        BY SlotKinds
      <3>2. Kind(s) # "root" /\ Page(s) \in VPN
        BY <3>1
      <3>3. Kind(s) = "areas" => Page(s) # 0 /\ Page(s) # TrapPage(p)
        BY <3>1
      <3> HIDE DEF D, N
      <3> QED
        BY <1>4, <2>2, <2>4, <3>1, <3>2, <3>3 DEF OwnerNext, NoPages
    <2>11. Exchange(owner, owner', current, current', D, N)
      <3>1. \A s \in N : owner'[s] \in current .. current' - 1
        BY <1>3, <2>1, <2>8
      <3>2. \A s, t \in N : owner'[s] = owner'[t] => s = t
        BY <1>3, <2>8
      <3>3. \A f \in current .. current' - 1 : \E s \in N : owner'[s] = f
        <4>1. \A f \in current .. current' - 1 : f = current \/ f = current + 1 \/ f = current + 2
          BY <1>3, <2>1
        <4> QED
          BY <2>8, <4>1
      <3> HIDE DEF N, D
      <3> QED
        BY <1>3, <2>7, <2>9, <2>10, <3>1, <3>2, <3>3 DEF Exchange
    <2>12. Tracks(owner, current, recycled)'
      <3>1. current' \in Nat /\ current <= current'
        BY <1>3, <2>1
      <3>2. recycled' = recycled \cup ({owner[s] : s \in D} \ {None})
        BY <1>5, <2>1
      <3> HIDE DEF N, D
      <3> QED
        BY <1>6, <2>7, <2>11, <3>1, <3>2, Moved
    <2>13. Occupied'
      <3>1. Slots' = Slots /\ Created' = Created /\ \A s : Proc(s)' = Proc(s)
        BY <2>1 DEF Slots, Procs, VPN, Created, Proc
      <3>2. \A s \in D : Proc(s) \in Created
        BY <1>3
      <3>3. \A s \in Slots : Proc(s) \notin Created => owner'[s] = None
        BY <2>9, <3>2 DEF KInv, Occupied
      <3>4. None # current
        BY <1>3, MemoryAssumption
      <3>5. \A q \in Created : root'[q] # None /\ kstack'[q] # None
        BY <2>1, <2>4, <2>5, <3>4, CreatedAreProcs DEF KInv, Occupied, CreatedProcs
      <3> QED
        BY <3>1, <3>3, <3>5 DEF Occupied
    <2>14. Mapped'
      <3> SUFFICES ASSUME NEW q \in Procs, status[q] = "live"
                   PROVE  HeapFull(q)' /\ Pinned(q)'
        BY <2>1 DEF Mapped, Procs
      <3>1. VPN' = VPN /\ Ceil(heap_end[q])' = Ceil(heap_end'[q]) /\ VPN \subseteq Int
        BY DEF VPN, Ceil
      <3>2. HeapFull(q) /\ Pinned(q)
        BY <1>2 DEF KInv, Mapped
      <3>3. CASE q # p
        BY <2>5, <3>1, <3>2, <3>3 DEF HeapFull, Pinned
      <3>4. CASE q = p
        <4>0. PICK k \in Int : k = HEAP_BASE
          BY MemoryAssumption
        <4>1. Ceil(heap_end'[p]) = HEAP_BASE /\ HEAP_BASE \in Int
          BY <2>4, <4>0, CeilFacts
        <4>2. HeapFull(q)'
          BY <3>1, <3>4, <4>1 DEF HeapFull
        <4>3. Pinned(q)'
          BY <2>4, <3>1, <3>4, Zenon DEF Pinned, NoPages
        <4> QED
          BY <4>2, <4>3
      <3> QED
        BY <3>3, <3>4
    <2> QED
      BY <1>1, <1>8, <2>12, <2>13, <2>14 DEF KInv
  <1> QED
    BY <1>7, <1>8

\* fork: all the child gets comes from one window of frames: kernel stack, page
\* table, the copies of the three maps in turn, and the trap context.
LEMMA ForkTracked ==
  ASSUME KInv, NEW p \in Procs, Fork(p)
  PROVE  KInv'
  <1>0. PICK c : c = next_pid
    OBVIOUS
  <1> DEFINE A == Dom(areas[p])
             H == Dom(heap_area[p])
             M == Dom(mmap_area[p])
             h == 2 + Cardinality(A)
             m == h + Cardinality(H)
             t == m + Cardinality(M)
             T == TrapPage(c)
             base == Filled(NoPages, A, 2)
             own == Filled(base, {T}, t)
             heap == Filled(NoPages, H, h)
             mapped == Filled(NoPages, M, m)
             table == Filled(Filled(own, H, h), M, m)
  <1>1. /\ status[p] = "live" /\ halted = "no" /\ c < MaxProc
        /\ halted' = IF (A \cap H) \cup (A \cap M) \cup (H \cap M) # {} THEN "mapped"
                     ELSE Outcome(page_table[p], {T}, t)
    BY <1>0 DEF Fork, Runs
  <1>2. CASE halted' # "no"
    <2>1. halted' \in {"oom", "mapped", "fd"}
      BY <1>1, <1>2 DEF Outcome
    <2> QED
      BY <1>2, <2>1, PanicTracked DEF Fork
  <1>3. CASE halted' = "no"
    <2>1. /\ Take(t + 1)
          /\ kstack' = [kstack EXCEPT ![c] = Handed(0)]
          /\ root' = [root EXCEPT ![c] = Handed(1)]
          /\ areas' = [areas EXCEPT ![c] = own]
          /\ heap_area' = [heap_area EXCEPT ![c] = heap]
          /\ mmap_area' = [mmap_area EXCEPT ![c] = mapped]
          /\ page_table' = [page_table EXCEPT ![p][T] = Handed(t), ![c] = table]
          /\ heap_end' = [heap_end EXCEPT ![c] = heap_end[p]]
          /\ status' = [status EXCEPT ![c] = "live"]
          /\ next_pid' = next_pid + 1
          /\ recycled' = recycled
      BY <1>0, <1>3, Zenon DEF Fork
    <2>2. A \in SUBSET VPN /\ H \in SUBSET VPN /\ M \in SUBSET VPN
          /\ A \cap H = {} /\ A \cap M = {} /\ H \cap M = {}
      BY <1>1, <1>3, Zenon DEF Dom
    <2>3. Cardinality(A) \in Nat /\ Cardinality(H) \in Nat /\ Cardinality(M) \in Nat
      BY <2>2, CardNat
    <2>4. /\ current \in Nat /\ h \in Nat /\ m \in Nat /\ t \in Nat
          /\ 2 <= h /\ h <= m /\ m <= t /\ 2 \in Nat
      <3>1. current \in Nat
        BY Held DEF KInv
      <3>2. h \in Nat /\ m \in Nat /\ t \in Nat /\ 2 <= h /\ h <= m /\ m <= t
        BY ONLY <2>3
      <3> QED
        BY ONLY <3>1, <3>2
    <2>5. c \in Procs /\ c # p /\ c \notin Created /\ p \in Created
      <3>1. p \in Created /\ next_pid \in 1 .. MaxProc
        BY <1>1, Zenon DEF KInv, IInv, Shape
      <3>2. c = next_pid /\ c < MaxProc
        BY <1>0, <1>1
      <3> QED
        BY ONLY <3>1, <3>2, MemoryAssumption DEF Procs, Created
    <2>6. T \in VPN /\ page_table[p][T] = None
      <3>1. T \in VPN
        BY <2>5, Pages
      <3>2. Outcome(page_table[p], {T}, t) = "no"
        BY <1>1, <1>3
      <3> QED
        BY <3>1, <3>2 DEF Outcome
    <2>7. T \notin A /\ T \notin H /\ T \notin M
      BY <1>1, <2>6, NoPte DEF Dom
    <2>8. /\ current' = current + t + 1 /\ current' \in Nat /\ current <= current'
          /\ Handed(0) = current /\ Handed(1) = current + 1 /\ Handed(t) = current + t
      BY <2>1, <2>4 DEF Take, Handed
    <2> DEFINE a(v) == Handed(2 + Rank(A, v))
               b(v) == Handed(h + Rank(H, v))
               d(v) == Handed(m + Rank(M, v))
    <2>9. /\ \A v \in A : a(v) \in current + 2 .. current + h - 1
          /\ \A v, u \in A : a(v) = a(u) => v = u
          /\ \A f \in current + 2 .. current + h - 1 : \E v \in A : f = a(v)
      <3> HIDE DEF A
      <3>1. current + 2 .. current + 2 + Cardinality(A) - 1 = current + 2 .. current + h - 1
        BY <2>3, <2>4
      <3> HIDE DEF h
      <3>2. /\ \A v \in A : a(v) \in current + 2 .. current + 2 + Cardinality(A) - 1
            /\ \A v, u \in A : a(v) = a(u) => v = u
            /\ \A f \in current + 2 .. current + 2 + Cardinality(A) - 1 : \E v \in A : f = a(v)
        BY ONLY HandedExact, <2>2, <2>4, Zenon
      <3> QED
        BY <3>1, <3>2, Zenon
    <2>10. /\ \A v \in H : b(v) \in current + h .. current + m - 1
           /\ \A v, u \in H : b(v) = b(u) => v = u
           /\ \A f \in current + h .. current + m - 1 : \E v \in H : f = b(v)
      <3> HIDE DEF H, h
      <3>1. current + h .. current + h + Cardinality(H) - 1 = current + h .. current + m - 1
        BY <2>3, <2>4
      <3> HIDE DEF m
      <3>2. /\ \A v \in H : b(v) \in current + h .. current + h + Cardinality(H) - 1
            /\ \A v, u \in H : b(v) = b(u) => v = u
            /\ \A f \in current + h .. current + h + Cardinality(H) - 1 : \E v \in H : f = b(v)
        BY ONLY HandedExact, <2>2, <2>4
      <3> QED
        BY <3>1, <3>2, Zenon
    <2>11. /\ \A v \in M : d(v) \in current + m .. current + t - 1
           /\ \A v, u \in M : d(v) = d(u) => v = u
           /\ \A f \in current + m .. current + t - 1 : \E v \in M : f = d(v)
      <3> HIDE DEF M, m
      <3>1. current + m .. current + m + Cardinality(M) - 1 = current + m .. current + t - 1
        BY <2>3, <2>4
      <3> HIDE DEF t
      <3>2. /\ \A v \in M : d(v) \in current + m .. current + m + Cardinality(M) - 1
            /\ \A v, u \in M : d(v) = d(u) => v = u
            /\ \A f \in current + m .. current + m + Cardinality(M) - 1 : \E v \in M : f = d(v)
        BY ONLY HandedExact, <2>2, <2>4, Zenon
      <3> QED
        BY <3>1, <3>2, Zenon
    <2>12. /\ \A v \in VPN : own[v] = IF v = T THEN current + t ELSE IF v \in A THEN a(v) ELSE None
           /\ \A v \in VPN : heap[v] = IF v \in H THEN b(v) ELSE None
           /\ \A v \in VPN : mapped[v] = IF v \in M THEN d(v) ELSE None
           /\ \A v \in VPN : table[v] = IF v \in M THEN d(v) ELSE IF v \in H THEN b(v) ELSE own[v]
      <3> HIDE DEF A, H, M, h, m, t
      <3>1. \A v \in VPN : base[v] = IF v \in A THEN a(v) ELSE None
        BY FilledAt DEF NoPages
      <3> HIDE DEF base
      <3>2. own = [v \in VPN |-> IF v = T THEN current + t ELSE base[v]]
        BY <2>4, <2>6, FilledOne
      <3>3. \A v \in VPN : own[v] = IF v = T THEN current + t ELSE IF v \in A THEN a(v) ELSE None
        BY <3>1, <3>2
      <3>4. /\ \A v \in VPN : heap[v] = IF v \in H THEN b(v) ELSE None
            /\ \A v \in VPN : mapped[v] = IF v \in M THEN d(v) ELSE None
        BY FilledAt DEF NoPages
      <3> HIDE DEF own
      <3>5. \A v \in VPN : table[v] = IF v \in M THEN d(v) ELSE IF v \in H THEN b(v) ELSE own[v]
        BY FilledAt
      <3> QED
        BY <3>3, <3>4, <3>5
    <2> HIDE DEF A, H, M, h, m, t, base, own, heap, mapped, table, a, b, d, T
    <2>13. /\ root \in [Procs -> Allocated \cup {None}] /\ kstack \in [Procs -> Allocated \cup {None}]
           /\ page_table \in [Procs -> Map] /\ areas \in [Procs -> Map]
           /\ heap_area \in [Procs -> Map] /\ mmap_area \in [Procs -> Map]
           /\ heap_end \in [Procs -> Int] /\ status \in [Procs -> {"unused", "live", "gone"}]
      BY DEF KInv, IInv, Bounded, Shape
    <2>14. /\ kstack'[c] = current /\ root'[c] = current + 1 /\ areas'[c] = own
           /\ heap_area'[c] = heap /\ mmap_area'[c] = mapped /\ page_table'[c] = table
           /\ heap_end'[c] = heap_end[p]
      BY <2>1, <2>5, <2>8, <2>13
    <2>15. \A q \in Procs : q # c =>
            /\ kstack'[q] = kstack[q] /\ root'[q] = root[q] /\ areas'[q] = areas[q]
            /\ heap_area'[q] = heap_area[q] /\ mmap_area'[q] = mmap_area[q]
            /\ heap_end'[q] = heap_end[q] /\ status'[q] = status[q]
      BY <2>1, <2>13
    <2>16. \A q \in Procs, v \in VPN : q # c /\ (q # p \/ v # T) => page_table'[q][v] = page_table[q][v]
      <3>1. page_table[p] \in Map
        BY <2>13
      <3>2. page_table' = [page_table EXCEPT ![p] = [page_table[p] EXCEPT ![T] = Handed(t)], ![c] = table]
        BY <2>1, <2>5, <2>13
      <3>3. \A q \in Procs : q # c /\ q # p => page_table'[q] = page_table[q]
        BY <2>13, <3>2
      <3>4. page_table'[p] = [page_table[p] EXCEPT ![T] = Handed(t)]
        BY <2>5, <2>13, <3>2, Zenon
      <3>5. \A v \in VPN : v # T => page_table'[p][v] = page_table[p][v]
        BY <3>1, <3>4 DEF Map
      <3> QED
        BY <3>3, <3>5
    <2> DEFINE N == {s \in Slots : Proc(s) = c /\
                       \/ Kind(s) \in {"root", "kstack"}
                       \/ Kind(s) = "areas" /\ Page(s) \in A \cup {T}
                       \/ Kind(s) = "heap" /\ Page(s) \in H
                       \/ Kind(s) = "mmap" /\ Page(s) \in M}
               D == {}
    <2>17. OwnerIs /\ OwnerNext
      BY OwnerAt, OwnerAfter
    <2>18. \A s \in Slots : Proc(s) = c =>
             /\ Kind(s) = "kstack" => owner'[s] = current
             /\ Kind(s) = "root" => owner'[s] = current + 1
             /\ Kind(s) = "areas" => owner'[s] = own[Page(s)]
             /\ Kind(s) = "heap" => owner'[s] = heap[Page(s)]
             /\ Kind(s) = "mmap" => owner'[s] = mapped[Page(s)]
      BY <2>14, <2>17 DEF OwnerNext
    <2>19. \A s \in Slots : Proc(s) # c => owner'[s] = owner[s]
      BY <2>15, <2>17, SlotKinds DEF OwnerIs, OwnerNext
    <2>20. \A s \in Slots : Proc(s) = c => owner[s] = None
      BY <2>5 DEF KInv, Occupied
    <2>21. ASSUME NEW s \in Slots, Proc(s) = c, s \notin N
           PROVE  owner'[s] = None
      <3>1. \/ Kind(s) = "areas" /\ Page(s) \in VPN /\ Page(s) # T /\ Page(s) \notin A
            \/ Kind(s) = "heap" /\ Page(s) \in VPN /\ Page(s) \notin H
            \/ Kind(s) = "mmap" /\ Page(s) \in VPN /\ Page(s) \notin M
        BY <2>21, SlotKinds
      <3> HIDE DEF N
      <3> QED
        BY <2>12, <2>18, <2>21, <3>1, Zenon
    <2> DEFINE In(s) ==
          \/ Kind(s) = "kstack" /\ Page(s) = 0 /\ owner'[s] = current
          \/ Kind(s) = "root" /\ Page(s) = 0 /\ owner'[s] = current + 1
          \/ Kind(s) = "areas" /\ Page(s) \in A /\ owner'[s] = a(Page(s))
          \/ Kind(s) = "areas" /\ Page(s) = T /\ owner'[s] = current + t
          \/ Kind(s) = "heap" /\ Page(s) \in H /\ owner'[s] = b(Page(s))
          \/ Kind(s) = "mmap" /\ Page(s) \in M /\ owner'[s] = d(Page(s))
    <2>22. ASSUME NEW s \in N
           PROVE  In(s) /\ s \in Slots /\ Proc(s) = c
      <3>1. /\ s \in Slots /\ Proc(s) = c
            /\ \/ Kind(s) \in {"root", "kstack"} /\ Page(s) = 0
               \/ Kind(s) = "areas" /\ Page(s) \in A \cup {T} /\ Page(s) \in VPN
               \/ Kind(s) = "heap" /\ Page(s) \in H /\ Page(s) \in VPN
               \/ Kind(s) = "mmap" /\ Page(s) \in M /\ Page(s) \in VPN
        BY SlotKinds
      <3> HIDE DEF N
      <3> QED
        BY <2>7, <2>12, <2>18, <3>1, Zenon
    <2>23. Exchange(owner, owner', current, current', D, N)
      <3>1. \A s \in Slots : owner[s] \in (0 .. current - 1) \cup {None}
        BY Held DEF KInv, Allocated
      <3>2. ASSUME NEW s \in N
            PROVE  owner'[s] \in current .. current' - 1
        <4>1. In(s)
          BY <2>22
        <4> HIDE DEF N
        <4> QED
          BY <2>4, <2>8, <2>9, <2>10, <2>11, <4>1
      <3>3. ASSUME NEW s \in N, NEW r \in N, owner'[s] = owner'[r]
            PROVE  s = r
        <4>1. In(s) /\ In(r) /\ s \in Slots /\ r \in Slots /\ Proc(s) = Proc(r)
          BY <2>22
        <4> HIDE DEF N
        <4>2. Kind(s) = Kind(r) /\ Page(s) = Page(r)
          BY <2>4, <2>7, <2>9, <2>10, <2>11, <3>3, <4>1
        <4> QED
          BY <4>1, <4>2, SameSlot
      <3>4. ASSUME NEW f \in current .. current' - 1
            PROVE  \E s \in N : owner'[s] = f
        <4>0. /\ Slot("root", c, 0) \in N /\ Slot("kstack", c, 0) \in N
              /\ \A v \in A \cup {T} : Slot("areas", c, v) \in N
              /\ \A v \in H : Slot("heap", c, v) \in N
              /\ \A v \in M : Slot("mmap", c, v) \in N
          <5>1. \A k, v : Kind(Slot(k, c, v)) = k /\ Proc(Slot(k, c, v)) = c /\ Page(Slot(k, c, v)) = v
            BY ONLY SlotKinds, Zenon
          <5>2. /\ Slot("root", c, 0) \in Slots /\ Slot("kstack", c, 0) \in Slots
                /\ \A v \in VPN : /\ Slot("areas", c, v) \in Slots /\ Slot("heap", c, v) \in Slots
                                 /\ Slot("mmap", c, v) \in Slots
            BY ONLY <2>5, SlotKinds, Zenon
          <5>3. \A v \in A \cup {T} : v \in VPN
            BY ONLY <2>2, <2>6
          <5> QED
            BY ONLY <2>2, <5>1, <5>2, <5>3 DEF N
        <4>1. /\ owner'[Slot("kstack", c, 0)] = current /\ owner'[Slot("root", c, 0)] = current + 1
              /\ owner'[Slot("areas", c, T)] = current + t
          BY <2>6, <2>12, <2>18, <2>22, <4>0, SlotKinds
        <4>2. /\ \A v \in A : owner'[Slot("areas", c, v)] = a(v)
              /\ \A v \in H : owner'[Slot("heap", c, v)] = b(v)
              /\ \A v \in M : owner'[Slot("mmap", c, v)] = d(v)
          BY <2>2, <2>7, <2>12, <2>18, <2>22, <4>0, SlotKinds
        <4> HIDE DEF N
        <4>3. \/ f = current \/ f = current + 1 \/ f = current + t
              \/ f \in current + 2 .. current + h - 1
              \/ f \in current + h .. current + m - 1
              \/ f \in current + m .. current + t - 1
          BY <2>4, <2>8
        <4>4. CASE f = current \/ f = current + 1 \/ f = current + t
          BY <4>0, <4>1, <4>4
        <4>5. CASE f \in current + 2 .. current + h - 1
          BY <2>9, <4>0, <4>2, <4>5
        <4>6. CASE f \in current + h .. current + m - 1
          BY <2>10, <4>0, <4>2, <4>6
        <4>7. CASE f \in current + m .. current + t - 1
          BY <2>11, <4>0, <4>2, <4>7
        <4> QED
          BY <4>3, <4>4, <4>5, <4>6, <4>7
      <3>5. \A s \in N : owner[s] = None /\ s \in Slots
        BY <2>20
      <3>6. \A s \in Slots : s \notin N => owner'[s] = owner[s]
        BY <2>19, <2>20, <2>21
      <3> HIDE DEF N
      <3> QED
        BY <3>1, <3>2, <3>3, <3>4, <3>5, <3>6 DEF Exchange
    <2>24. Tracks(owner, current, recycled)'
      <3>1. recycled' = recycled \cup ({owner[s] : s \in D} \ {None})
        BY <2>1
      <3>2. N \in SUBSET Slots /\ D \in SUBSET Slots
        OBVIOUS
      <3> HIDE DEF N, D
      <3> QED
        BY <2>8, <2>23, <3>1, <3>2, Moved
    <2>25. Occupied'
      <3>1. Slots' = Slots /\ Created' = Created \cup {c} /\ \A s : Proc(s)' = Proc(s)
        BY <1>0, <2>1, <2>5 DEF Slots, Procs, VPN, Created, Proc
      <3>2. \A s \in Slots : Proc(s) \notin Created \cup {c} => owner'[s] = None
        BY <2>19 DEF KInv, Occupied
      <3>3. None # current /\ None # current + 1
        BY <2>4, MemoryAssumption
      <3>4. \A q \in Created \cup {c} : root'[q] # None /\ kstack'[q] # None
        BY <2>14, <2>15, <3>3, CreatedAreProcs, Zenon DEF KInv, Occupied, CreatedProcs
      <3> QED
        BY <3>1, <3>2, <3>4 DEF Occupied
    <2>26. Mapped'
      <3> SUFFICES ASSUME NEW q \in Procs, status'[q] = "live"
                   PROVE  HeapFull(q)' /\ Pinned(q)'
        BY DEF Mapped, Procs
      <3>1. VPN' = VPN /\ Ceil(heap_end[q])' = Ceil(heap_end'[q])
        BY DEF VPN, Ceil
      <3>2. HeapFull(p) /\ Pinned(p)
        BY <1>1 DEF KInv, Mapped
      <3>3. CASE q = c
        <4>1. \A v \in H : b(v) # None
          BY <2>10, <2>4, MemoryAssumption
        <4>2. \A v \in VPN : v \in H <=> heap_area[p][v] # None
          BY DEF H, Dom
        <4>3. HeapFull(q)'
          BY <2>12, <2>14, <3>1, <3>2, <3>3, <4>1, <4>2 DEF HeapFull
        <4>4. Pinned(q)'
          BY <2>2, <2>7, <2>12, <2>14, <3>1, <3>3 DEF Pinned
        <4> QED
          BY <4>3, <4>4
      <3>4. CASE q # c
        <4>1. HeapFull(q) /\ Pinned(q)
          BY <1>1, <2>15, <3>4 DEF KInv, Mapped
        <4>2. HeapFull(q)'
          BY <2>15, <3>1, <3>4, <4>1 DEF HeapFull
        <4>3. areas[p][T] = None /\ heap_area[p][T] = None /\ mmap_area[p][T] = None
          BY <1>1, <2>6, NoPte
        <4>4. Pinned(q)'
          BY <2>15, <2>16, <3>1, <3>4, <4>1, <4>3 DEF Pinned
        <4> QED
          BY <4>2, <4>4
      <3> QED
        BY <3>3, <3>4
    <2>27. IInv'
      BY ForkInv DEF KInv
    <2> QED
      BY <1>3, <2>24, <2>25, <2>26, <2>27 DEF KInv
  <1> QED
    BY <1>2, <1>3

-----------------------------------------------------------------------------
\* The first process is tracked: its root, kernel stack, image and trap context.
LEMMA InitTracked == Init => KInv
  <1> SUFFICES ASSUME Init PROVE KInv
    OBVIOUS
  <1>1. IInv
    BY InitInv
  <1>2. 0 \in Procs /\ Created = {0} /\ 0 \in VPN /\ TrapPage(0) \in VPN /\ TrapPage(0) # 0
    BY Pages, MemoryAssumption DEF Procs, Created, Init
  <1>3. /\ root = [p \in Procs |-> IF p = 0 THEN 1 ELSE None]
        /\ kstack = [p \in Procs |-> IF p = 0 THEN 2 ELSE None]
        /\ areas = [p \in Procs |-> [v \in VPN |->
                   IF p = 0 /\ v = 0 THEN 3
                   ELSE IF p = 0 /\ v = TrapPage(0) THEN 4 ELSE None]]
        /\ heap_area = [p \in Procs |-> [v \in VPN |-> None]]
        /\ mmap_area = [p \in Procs |-> [v \in VPN |-> None]]
        /\ current = 5 /\ recycled = {0} /\ None \notin Int
    BY MemoryAssumption DEF Init, NoPages
  <1>4. OwnerIs
    BY OwnerAt
  <1> HIDE DEF Slots, Procs, VPN, TrapPage
  <1>5. \A s \in Slots : owner[s] # None =>
          /\ Proc(s) = 0
          /\ \/ Kind(s) = "root" /\ Page(s) = 0 /\ owner[s] = 1
             \/ Kind(s) = "kstack" /\ Page(s) = 0 /\ owner[s] = 2
             \/ Kind(s) = "areas" /\ Page(s) = 0 /\ owner[s] = 3
             \/ Kind(s) = "areas" /\ Page(s) = TrapPage(0) /\ owner[s] = 4
    BY <1>3, <1>4, SlotKinds, Zenon DEF OwnerIs
  <1>6. Tracks(owner, current, recycled)
    <2>1. \A s, t \in Slots : owner[s] # None /\ owner[s] = owner[t] => s = t
      <3> TAKE s, t \in Slots
      <3> HAVE owner[s] # None /\ owner[s] = owner[t]
      <3>1. Kind(s) = Kind(t) /\ Page(s) = Page(t) /\ Proc(s) = Proc(t)
        BY <1>5
      <3> QED
        BY <3>1, SameSlot
    <2>2. \A s \in Slots : owner[s] \notin recycled
      BY <1>3, <1>5
    <2>3. \A f \in 0 .. current - 1 : f \in recycled \/ \E s \in Slots : owner[s] = f
      <3>0. root[0] = 1 /\ kstack[0] = 2 /\ areas[0][0] = 3 /\ areas[0][TrapPage(0)] = 4
        BY <1>2, <1>3
      <3>1. /\ Slot("root", 0, 0) \in Slots /\ owner[Slot("root", 0, 0)] = 1
            /\ Slot("kstack", 0, 0) \in Slots /\ owner[Slot("kstack", 0, 0)] = 2
        BY <1>2, <1>4, <3>0, SlotKinds DEF OwnerIs
      <3>2. /\ Slot("areas", 0, 0) \in Slots /\ owner[Slot("areas", 0, 0)] = 3
            /\ Slot("areas", 0, TrapPage(0)) \in Slots /\ owner[Slot("areas", 0, TrapPage(0))] = 4
        BY <1>2, <1>4, <3>0, SlotKinds DEF OwnerIs
      <3>3. \A f \in 0 .. current - 1 : f = 0 \/ f = 1 \/ f = 2 \/ f = 3 \/ f = 4
        BY <1>3
      <3> QED
        BY <1>3, <3>1, <3>2, <3>3
    <2> QED
      BY <2>1, <2>2, <2>3 DEF Tracks
  <1>7. Occupied
    BY <1>2, <1>3, <1>5 DEF Occupied
  <1>8. Mapped
    <2> SUFFICES ASSUME NEW p \in Procs PROVE HeapFull(p) /\ Pinned(p)
      BY DEF Mapped
    <2>1. heap_end[p] = HEAP_BASE * PAGE_SIZE /\ page_table = areas
      BY DEF Init
    <2>2. PICK k \in Int : k = HEAP_BASE
      BY MemoryAssumption
    <2>3. Ceil(heap_end[p]) = HEAP_BASE /\ HEAP_BASE \in Int
      <3>1. Ceil(k * PAGE_SIZE) = k
        BY CeilFacts
      <3> QED
        BY <2>1, <2>2, <3>1
    <2>4. VPN \subseteq Int
      BY DEF VPN
    <2>5. HeapFull(p)
      <3>1. \A v \in VPN : ~(HEAP_BASE <= v /\ v < HEAP_BASE)
        BY <2>3, <2>4
      <3> QED
        BY <2>3, <3>1, Zenon DEF HeapFull
    <2>6. Pinned(p)
      BY <1>3, <2>1 DEF Pinned
    <2> QED
      BY <2>5, <2>6
  <1>9. halted # "dealloc"
    BY DEF Init
  <1> QED
    BY <1>1, <1>6, <1>7, <1>8, <1>9 DEF KInv

\* Every call, and every panic in one, keeps the ownership of frames.
LEMMA StepTracked == KInv /\ [Next]_vars => KInv'
  <1> SUFFICES ASSUME KInv, [Next]_vars PROVE KInv'
    OBVIOUS
  <1>1. HeapEnds \subseteq Int /\ Addresses \subseteq Int /\ Lengths \subseteq Int
    BY DEF HeapEnds, Addresses, Lengths
  <1>2. CASE UNCHANGED vars \/ Halted
    BY <1>2, StutterTracked DEF Halted
  <1>3. ASSUME NEW p \in Procs, Switch(p) \/ Fork(p) \/ SysExecve(p) \/ SysExit(p)
        PROVE  KInv'
    BY <1>3, SwitchTracked, ForkTracked, ExecveTracked, ExitTracked
  <1>4. ASSUME NEW p \in Procs, MmapNoFile(p)
        PROVE  KInv'
    BY <1>4, PanicTracked DEF MmapNoFile
  <1>5. ASSUME NEW p \in Procs, NEW addr \in HeapEnds, BrkWithin(p, addr) \/ BrkGrow(p, addr)
        PROVE  KInv'
    BY <1>1, <1>5, BrkWithinTracked, BrkGrowTracked
  <1>6. ASSUME NEW p \in Procs, NEW start \in Addresses, NEW len \in Lengths,
               SysMmap(p, start, len) \/ SysMunmap(p, start, len)
        PROVE  KInv'
    BY <1>1, <1>6, MmapTracked, MunmapTracked
  <1> QED
    BY <1>2, <1>3, <1>4, <1>5, <1>6 DEF Next

\* The ownership of frames holds in every reachable state.
LEMMA Tracking == Spec => []KInv
  BY InitTracked, StepTracked, PTL DEF Spec

\* Created processes have two kernel frames each, all different.
LEMMA KernelFrames ==
  ASSUME KInv
  PROVE  Cardinality({root[p] : p \in Created} \cup {kstack[p] : p \in Created}) = 2 * next_pid
  <1> DEFINE X == {root[p] : p \in Created}
             Y == {kstack[p] : p \in Created}
             f == [p \in Created |-> root[p]]
             g == [p \in Created |-> kstack[p]]
  <1>1. next_pid \in Nat /\ next_pid > 0
    BY MemoryAssumption DEF KInv, IInv, Shape
  <1>2. IsFiniteSet(Created) /\ Cardinality(Created) = next_pid
    <2>1. 0 \in Int /\ next_pid - 1 \in Int
      BY <1>1
    <2> QED
      BY <1>1, <2>1, FS_Interval DEF Created
  <1>3. \A p \in Created : p \in Procs /\ root[p] # None /\ kstack[p] # None
    BY CreatedAreProcs DEF KInv, CreatedProcs, Occupied
  <1>4. \A p \in Procs : /\ Slot("root", p, 0) \in Slots /\ owner[Slot("root", p, 0)] = root[p]
                         /\ Slot("kstack", p, 0) \in Slots /\ owner[Slot("kstack", p, 0)] = kstack[p]
    BY OwnerAt, SlotKinds DEF OwnerIs
  <1>5. \A s, t \in Slots : owner[s] # None /\ owner[s] = owner[t] => s = t
    BY DEF KInv, Tracks
  <1>6. \A p, q \in Created : /\ root[p] = root[q] => p = q
                              /\ kstack[p] = kstack[q] => p = q
                              /\ root[p] # kstack[q]
    BY <1>3, <1>4, <1>5, SlotKinds
  <1>7. f \in Bijection(Created, X) /\ g \in Bijection(Created, Y)
    <2>1. f \in [Created -> X] /\ g \in [Created -> Y]
      OBVIOUS
    <2>2. \A p, q \in Created : (f[p] = f[q] => p = q) /\ (g[p] = g[q] => p = q)
      BY <1>6
    <2>3. (\A x \in X : \E p \in Created : f[p] = x) /\ (\A y \in Y : \E p \in Created : g[p] = y)
      OBVIOUS
    <2> HIDE DEF f, g, X, Y
    <2> QED
      BY <2>1, <2>2, <2>3 DEF Bijection, Injection, Surjection, IsInjective
  <1>8. X \cap Y = {}
    BY <1>6
  <1> HIDE DEF X, Y, f, g
  <1>9. /\ IsFiniteSet(X) /\ Cardinality(X) = next_pid
        /\ IsFiniteSet(Y) /\ Cardinality(Y) = next_pid
    BY <1>2, <1>7, FS_Bijection DEF ExistsBijection
  <1>10. Cardinality(X \cup Y) = next_pid + next_pid - 0
    BY <1>8, <1>9, FS_Union, FS_EmptySet
  <1> QED
    BY <1>1, <1>10 DEF X, Y

\* For any number of processes, pages and frames: alloc and dealloc never lose or
\* double a frame. Each frame handed out is in exactly one FrameTracker or was
\* recycled exactly once, so that the panic of StackFrameAllocator::dealloc,
\* "has not been allocated", cannot happen, whatever fork, execve, exit, brk,
\* mmap and munmap do.
THEOREM TrackedOnceAlways == Spec => []TrackedOnce
  <1>1. KInv => TrackedOnce
    <2> SUFFICES ASSUME KInv PROVE TrackedOnce
      OBVIOUS
    <2> DEFINE kernel == {root[p] : p \in Created} \cup {kstack[p] : p \in Created}
               user == UNION {Space(p) \ {root[p]} : p \in Created}
    <2>1. \A p \in Created : p \in Procs
      BY CreatedAreProcs DEF KInv, CreatedProcs
    <2>2. /\ \A s, t \in Slots : owner[s] # None /\ owner[s] = owner[t] => s = t
          /\ \A s \in Slots : owner[s] \notin recycled
          /\ \A f \in 0 .. current - 1 : f \in recycled \/ \E s \in Slots : owner[s] = f
          /\ \A s \in Slots : owner[s] \in (0 .. current - 1) \cup {None}
          /\ \A s \in Slots : Proc(s) \notin Created => owner[s] = None
          /\ recycled \subseteq 0 .. current - 1
          /\ None \notin 0 .. current - 1
      BY Held, MemoryAssumption DEF KInv, Tracks, Occupied, Allocated
    <2>3. OwnerIs
      BY OwnerAt
    <2>4. \A p \in Procs :
            /\ Slot("root", p, 0) \in Slots /\ owner[Slot("root", p, 0)] = root[p]
            /\ Slot("kstack", p, 0) \in Slots /\ owner[Slot("kstack", p, 0)] = kstack[p]
            /\ \A v \in VPN :
                 /\ Slot("areas", p, v) \in Slots /\ owner[Slot("areas", p, v)] = areas[p][v]
                 /\ Slot("heap", p, v) \in Slots /\ owner[Slot("heap", p, v)] = heap_area[p][v]
                 /\ Slot("mmap", p, v) \in Slots /\ owner[Slot("mmap", p, v)] = mmap_area[p][v]
      <3>1. \A k, p, v : Kind(Slot(k, p, v)) = k /\ Proc(Slot(k, p, v)) = p /\ Page(Slot(k, p, v)) = v
        BY ONLY SlotKinds, Zenon
      <3>2. \A p \in Procs : Slot("root", p, 0) \in Slots /\ Slot("kstack", p, 0) \in Slots
        BY ONLY SlotKinds, Zenon
      <3>3. \A p \in Procs, v \in VPN :
              Slot("areas", p, v) \in Slots /\ Slot("heap", p, v) \in Slots /\ Slot("mmap", p, v) \in Slots
        BY ONLY SlotKinds, Zenon
      <3>4. ASSUME NEW p \in Procs
            PROVE  owner[Slot("root", p, 0)] = root[p] /\ owner[Slot("kstack", p, 0)] = kstack[p]
        BY ONLY <2>3, <3>1, <3>2, p \in Procs DEF OwnerIs
      <3>5. ASSUME NEW p \in Procs, NEW v \in VPN
            PROVE  /\ owner[Slot("areas", p, v)] = areas[p][v]
                   /\ owner[Slot("heap", p, v)] = heap_area[p][v]
                   /\ owner[Slot("mmap", p, v)] = mmap_area[p][v]
        BY ONLY <2>3, <3>1, <3>3, p \in Procs, v \in VPN DEF OwnerIs
      <3> QED
        BY ONLY <3>2, <3>3, <3>4, <3>5, Zenon
    <2> DEFINE kind(i) == IF i = 1 THEN "areas" ELSE IF i = 2 THEN "heap" ELSE "mmap"
    <2>5. ASSUME NEW p \in Created, NEW i \in 1 .. 3, NEW v \in Dom(Maps(p)[i])
          PROVE  /\ v \in VPN /\ Slot(kind(i), p, v) \in Slots
                 /\ owner[Slot(kind(i), p, v)] = Maps(p)[i][v] /\ Maps(p)[i][v] # None
      <3>1. v \in VPN /\ Maps(p)[i][v] # None
        BY DEF Dom
      <3>2. /\ Maps(p)[1] = areas[p] /\ Maps(p)[2] = heap_area[p] /\ Maps(p)[3] = mmap_area[p]
            /\ i = 1 \/ i = 2 \/ i = 3
        BY DEF Maps
      <3> QED
        BY <2>1, <2>4, <3>1, <3>2
    <2>6. ASSUME NEW p \in Created, NEW q \in Created, NEW i \in 1 .. 3, NEW j \in 1 .. 3,
                 NEW v \in Dom(Maps(p)[i]), NEW w \in Dom(Maps(q)[j]), Maps(p)[i][v] = Maps(q)[j][w]
          PROVE  p = q /\ i = j /\ v = w
      <3>1. Slot(kind(i), p, v) = Slot(kind(j), q, w)
        BY <2>2, <2>5, <2>6
      <3>2. kind(i) = kind(j) /\ p = q /\ v = w
        BY <3>1, SlotKinds
      <3> QED
        BY <3>2
    <2>7. ASSUME NEW f, f \in user
          PROVE  \E s \in Slots : f = owner[s] /\ f # None /\ Kind(s) \in {"areas", "heap", "mmap"}
      <3>1. PICK p \in Created : f \in Space(p) \ {root[p]}
        BY <2>7
      <3>2. PICK v \in VPN : f # None /\ (f = areas[p][v] \/ f = heap_area[p][v] \/ f = mmap_area[p][v])
        BY <3>1 DEF Space, FramesOf, Dom
      <3> QED
        BY <2>1, <2>4, <3>2, SlotKinds
    <2>8. ASSUME NEW f, f \in kernel
          PROVE  \E s \in Slots : f = owner[s] /\ f # None /\ Kind(s) \in {"root", "kstack"}
      <3>1. PICK p \in Created : f = root[p] \/ f = kstack[p]
        BY <2>8
      <3>2. f # None
        BY <3>1 DEF KInv, Occupied
      <3> QED
        BY <2>1, <2>4, <3>1, <3>2, SlotKinds
    <2>9. ASSUME NEW s \in Slots, owner[s] # None
          PROVE  owner[s] \in kernel \cup user
      <3>1. Proc(s) \in Created /\ Proc(s) \in Procs
        BY <2>1, <2>2, <2>9
      <3>2. /\ \/ Kind(s) \in {"root", "kstack"}
               \/ Kind(s) \in {"areas", "heap", "mmap"} /\ Page(s) \in VPN
        BY SlotKinds
      <3>3. CASE Kind(s) \in {"root", "kstack"}
        BY <2>3, <3>1, <3>3 DEF OwnerIs
      <3>4. CASE Kind(s) \in {"areas", "heap", "mmap"} /\ Page(s) \in VPN
        <4>1. owner[s] \in Space(Proc(s))
          BY <2>3, <2>9, <3>4 DEF OwnerIs, Space, FramesOf, Dom
        <4> QED
          BY <3>1, <4>1
      <3> QED
        BY <3>2, <3>3, <3>4
    <2> HIDE DEF kernel, user
    <2>10. kernel \cap user = {}
      <3> SUFFICES ASSUME NEW f, f \in kernel, f \in user PROVE FALSE
        OBVIOUS
      <3>1. PICK s \in Slots : f = owner[s] /\ f # None /\ Kind(s) \in {"root", "kstack"}
        BY <2>8
      <3>2. PICK t \in Slots : f = owner[t] /\ f # None /\ Kind(t) \in {"areas", "heap", "mmap"}
        BY <2>7
      <3> QED
        BY <2>2, <3>1, <3>2, Zenon
    <2>11. (kernel \cup user) \cap recycled = {}
      BY <2>2, <2>7, <2>8
    <2>12. kernel \cup user \cup recycled = 0 .. current - 1
      <3>1. ASSUME NEW f \in kernel \cup user \cup recycled PROVE f \in 0 .. current - 1
        <4>1. CASE f \in recycled
          BY <2>2, <4>1
        <4>2. CASE f \in kernel \cup user
          <5>1. PICK s \in Slots : f = owner[s] /\ f # None
            BY <2>7, <2>8, <4>2
          <5> QED
            BY <2>2, <5>1
        <4> QED
          BY <4>1, <4>2
      <3>2. ASSUME NEW f \in 0 .. current - 1 PROVE f \in kernel \cup user \cup recycled
        BY <2>2, <2>9
      <3> QED
        BY <3>1, <3>2
    <2>13. Cardinality(kernel) = 2 * next_pid
      BY KernelFrames DEF kernel
    <2>14. halted # "dealloc"
      BY DEF KInv
    <2> QED
      BY <2>6, <2>10, <2>11, <2>12, <2>13, <2>14 DEF TrackedOnce, kernel, user
  <1> QED
    BY <1>1, Tracking, PTL

\* For any page size and any layout of the address space: every page of a live
\* process between heap_base and heap_end has a frame, and wherever one of its
\* maps holds a FrameTracker the PTE leads to that frame.
THEOREM BackedAlways == Spec => []Backed
  <1>1. KInv => Backed
    <2> SUFFICES ASSUME KInv, NEW p \in Created, status[p] = "live", halted = "no"
                 PROVE  /\ \A v \in VPN : HEAP_BASE <= v /\ v < Ceil(heap_end[p]) => heap_area[p][v] # None
                        /\ \A i \in 1 .. 3 : \A v \in Dom(Maps(p)[i]) : page_table[p][v] = Maps(p)[i][v]
      BY DEF Backed
    <2>1. p \in Procs
      BY CreatedAreProcs DEF KInv, CreatedProcs
    <2>2. HeapFull(p) /\ Pinned(p)
      BY <2>1 DEF KInv, Mapped
    <2>3. ASSUME NEW i \in 1 .. 3, NEW v \in Dom(Maps(p)[i])
          PROVE  page_table[p][v] = Maps(p)[i][v]
      <3>1. /\ Maps(p)[1] = areas[p] /\ Maps(p)[2] = heap_area[p] /\ Maps(p)[3] = mmap_area[p]
            /\ i = 1 \/ i = 2 \/ i = 3
        BY DEF Maps
      <3>2. v \in VPN /\ Maps(p)[i][v] # None
        BY DEF Dom
      <3> QED
        BY <2>2, <3>1, <3>2 DEF Pinned
    <2> QED
      BY <2>2, <2>3 DEF HeapFull
  <1> QED
    BY <1>1, Tracking, PTL
=============================================================================
