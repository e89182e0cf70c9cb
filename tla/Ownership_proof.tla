-------------------------- MODULE Ownership_proof ---------------------------
(***************************************************************************)
(* Ownership of frames, for any number of processes, pages and frames: the *)
(* places that can hold a FrameTracker are numbered, `owner' is the frame  *)
(* at each place, and every call exchanges frames between the allocator    *)
(* and some places.                                                        *)
(***************************************************************************)
EXTENDS Memory_proof

\* the root of a page table, a kernel stack, and the pages of the three maps
Slots == ({"root", "kstack"} \X Procs \X {0}) \cup ({"areas", "heap", "mmap"} \X Procs \X VPN)

Slot(k, p, v) == <<k, p, v>>
Kind(s) == s[1]
Proc(s) == s[2]
Page(s) == s[3]

owner == [s \in Slots |->
            CASE Kind(s) = "root" -> root[Proc(s)]
              [] Kind(s) = "kstack" -> kstack[Proc(s)]
              [] Kind(s) = "areas" -> areas[Proc(s)][Page(s)]
              [] Kind(s) = "heap" -> heap_area[Proc(s)][Page(s)]
              [] Kind(s) = "mmap" -> mmap_area[Proc(s)][Page(s)]]

\* frames 0 .. n-1 are each held in one place or recycled, never both
Tracks(o, n, rec) ==
    /\ \A s, t \in Slots : o[s] # None /\ o[s] = o[t] => s = t
    /\ \A s \in Slots : o[s] \notin rec
    /\ \A f \in 0 .. n - 1 : f \in rec \/ \E s \in Slots : o[s] = f

\* o becomes w when places D give their frames back and places N get the frames
\* n .. k-1, one each
Exchange(o, w, n, k, D, N) ==
    /\ \A s \in Slots : o[s] \in (0 .. n - 1) \cup {None}
    /\ \A s \in Slots : s \notin D /\ s \notin N => w[s] = o[s]
    /\ \A s \in D : s \notin N => w[s] = None
    /\ \A s \in N : s \notin D => o[s] = None
    /\ \A s \in N : w[s] \in n .. k - 1
    /\ \A s, t \in N : w[s] = w[t] => s = t
    /\ \A f \in n .. k - 1 : \E s \in N : w[s] = f

\* a process that was not created holds nothing, a created one has both frames
\* of its own
Occupied ==
    /\ \A s \in Slots : Proc(s) \notin Created => owner[s] = None
    /\ \A p \in Created : root[p] # None /\ kstack[p] # None

\* Backed, map by map
HeapFull(p) ==
    \A v \in VPN : HEAP_BASE <= v /\ v < Ceil(heap_end[p]) => heap_area[p][v] # None
Pinned(p) ==
    \A v \in VPN :
        /\ areas[p][v] # None => page_table[p][v] = areas[p][v]
        /\ heap_area[p][v] # None => page_table[p][v] = heap_area[p][v]
        /\ mmap_area[p][v] # None => page_table[p][v] = mmap_area[p][v]
Mapped ==
    \A p \in Procs : status[p] = "live" /\ halted = "no" => HeapFull(p) /\ Pinned(p)

\* Tracking needs Mapped: map_heap and mmap would overwrite a tracker if the page
\* had one and no PTE.
KInv ==
    /\ IInv
    /\ Tracks(owner, current, recycled) /\ Occupied
    /\ halted # "dealloc"
    /\ Mapped

OwnerIs ==
    \A s \in Slots :
        /\ Kind(s) = "root" => owner[s] = root[Proc(s)]
        /\ Kind(s) = "kstack" => owner[s] = kstack[Proc(s)]
        /\ Kind(s) = "areas" => owner[s] = areas[Proc(s)][Page(s)]
        /\ Kind(s) = "heap" => owner[s] = heap_area[Proc(s)][Page(s)]
        /\ Kind(s) = "mmap" => owner[s] = mmap_area[Proc(s)][Page(s)]

\* A place is told by its kind, its process and its page.
LEMMA SlotKinds ==
  /\ \A k, p, v : Kind(Slot(k, p, v)) = k /\ Proc(Slot(k, p, v)) = p /\ Page(Slot(k, p, v)) = v
  /\ \A s \in Slots :
       /\ s = Slot(Kind(s), Proc(s), Page(s)) /\ Proc(s) \in Procs
       /\ \/ Kind(s) \in {"root", "kstack"} /\ Page(s) = 0
          \/ Kind(s) \in {"areas", "heap", "mmap"} /\ Page(s) \in VPN
  /\ \A p \in Procs : Slot("root", p, 0) \in Slots /\ Slot("kstack", p, 0) \in Slots
  /\ \A p \in Procs, v \in VPN :
       Slot("areas", p, v) \in Slots /\ Slot("heap", p, v) \in Slots /\ Slot("mmap", p, v) \in Slots
  <1>1. \A s \in {"root", "kstack"} \X Procs \X {0} :
          /\ s = Slot(Kind(s), Proc(s), Page(s)) /\ Proc(s) \in Procs
          /\ Kind(s) \in {"root", "kstack"} /\ Page(s) = 0
    BY DEF Slot, Kind, Proc, Page
  <1>2. \A s \in {"areas", "heap", "mmap"} \X Procs \X VPN :
          /\ s = Slot(Kind(s), Proc(s), Page(s)) /\ Proc(s) \in Procs
          /\ Kind(s) \in {"areas", "heap", "mmap"} /\ Page(s) \in VPN
    BY DEF Slot, Kind, Proc, Page
  <1>3. \A k, p, v : Kind(Slot(k, p, v)) = k /\ Proc(Slot(k, p, v)) = p /\ Page(Slot(k, p, v)) = v
    BY DEF Slot, Kind, Proc, Page
  <1> QED
    BY <1>1, <1>2, <1>3 DEF Slots, Slot

\* Two places are the same when they agree in kind, process and page.
LEMMA SameSlot ==
  ASSUME NEW s \in Slots, NEW t \in Slots,
         Kind(s) = Kind(t), Proc(s) = Proc(t), Page(s) = Page(t)
  PROVE  s = t
  BY SlotKinds

\* `owner' reads the five maps, before a step and after it.
LEMMA OwnerAt == OwnerIs /\ OwnerIs'
  <1>1. OwnerIs
    BY DEF OwnerIs, owner
  <1>2. OwnerIs'
    BY DEF OwnerIs, owner, Procs, VPN, Slots, Kind, Proc, Page
  <1> QED
    BY <1>1, <1>2

\* where `owner' is read after a step
OwnerNext ==
    \A s \in Slots :
        /\ Kind(s) = "root" => owner'[s] = root'[Proc(s)]
        /\ Kind(s) = "kstack" => owner'[s] = kstack'[Proc(s)]
        /\ Kind(s) = "areas" => owner'[s] = areas'[Proc(s)][Page(s)]
        /\ Kind(s) = "heap" => owner'[s] = heap_area'[Proc(s)][Page(s)]
        /\ Kind(s) = "mmap" => owner'[s] = mmap_area'[Proc(s)][Page(s)]

\* owner reads the maps after a step as it did before.
LEMMA OwnerAfter == OwnerNext
  BY OwnerAt DEF OwnerIs, OwnerNext, Slots, Procs, VPN, Kind, Proc, Page

\* the places of one kind of map, for the pages S of one process
Row(k, p, S) == {Slot(k, p, v) : v \in S}

\* What a place is told by.
LEMMA SlotTyped ==
  ASSUME NEW s \in Slots
  PROVE  /\ Proc(s) \in Procs
         /\ \/ Kind(s) \in {"root", "kstack"}
            \/ Kind(s) \in {"areas", "heap", "mmap"} /\ Page(s) \in VPN
  BY SlotKinds

\* The place of a page of S is in the row.
LEMMA RowAt ==
  ASSUME NEW k, NEW p, NEW S, NEW v \in S
  PROVE  /\ Slot(k, p, v) \in Row(k, p, S) /\ Kind(Slot(k, p, v)) = k
         /\ Proc(Slot(k, p, v)) = p /\ Page(Slot(k, p, v)) = v
  BY SlotKinds DEF Row

\* A row holds the places of its kind, process and pages and no others.
LEMMA RowSlots ==
  ASSUME NEW k \in {"areas", "heap", "mmap"}, NEW p \in Procs, NEW S \in SUBSET VPN
  PROVE  /\ Row(k, p, S) \in SUBSET Slots
         /\ \A s \in Slots : s \in Row(k, p, S) <=> Kind(s) = k /\ Proc(s) = p /\ Page(s) \in S
  <1>1. Row(k, p, S) \in SUBSET Slots
    BY SlotKinds DEF Row
  <1>2. \A s \in Slots : s \in Row(k, p, S) <=> Kind(s) = k /\ Proc(s) = p /\ Page(s) \in S
    BY SlotKinds DEF Row
  <1> QED
    BY <1>1, <1>2

\* Every frame is still in one place or recycled after an exchange.
LEMMA Recount ==
  ASSUME NEW o, NEW w, NEW n \in Nat, NEW k \in Nat, n <= k, NEW rec,
         NEW D \in SUBSET Slots, NEW N \in SUBSET Slots,
         rec \subseteq 0 .. n - 1, Tracks(o, n, rec), Exchange(o, w, n, k, D, N)
  PROVE  Tracks(w, k, rec \cup ({o[s] : s \in D} \ {None}))
  <1> USE DEF Exchange
  <1> DEFINE rec2 == rec \cup ({o[s] : s \in D} \ {None})
  <1>0. None \notin Int
    BY MemoryAssumption
  <1>1. ASSUME NEW s \in Slots, NEW t \in Slots, w[s] # None, w[s] = w[t]
        PROVE  s = t
    <2>1. \A x \in Slots : x \notin N /\ w[x] # None => w[x] = o[x] /\ w[x] \in 0 .. n - 1
      OBVIOUS
    <2>2. \A x \in N : w[x] \notin 0 .. n - 1
      OBVIOUS
    <2> QED
      BY <1>1, <2>1, <2>2 DEF Tracks
  <1>2. ASSUME NEW s \in Slots
        PROVE  w[s] \notin rec2
    <2>1. CASE s \in N
      <3>1. w[s] \notin 0 .. n - 1 /\ w[s] # None
        BY <1>0, <2>1
      <3> QED
        BY <3>1
    <2>2. CASE s \notin N /\ s \in D
      <3>1. w[s] = None /\ \A x \in rec : x \in Int
        BY <2>2
      <3> QED
        BY <1>0, <3>1, Zenon
    <2>3. CASE s \notin N /\ s \notin D
      BY <1>0, <2>3 DEF Tracks
    <2> QED
      BY <2>1, <2>2, <2>3
  <1>3. ASSUME NEW f \in 0 .. k - 1
        PROVE  f \in rec2 \/ \E s \in Slots : w[s] = f
    <2>1. CASE f \in n .. k - 1
      BY <2>1
    <2>2. CASE f \in 0 .. n - 1
      <3>1. f \in rec \/ \E s \in Slots : o[s] = f
        BY <2>2 DEF Tracks
      <3>2. ASSUME NEW s \in Slots, o[s] = f
            PROVE  f \in rec2 \/ w[s] = f
        BY <1>0, <3>2
      <3> QED
        BY <3>1, <3>2
    <2> QED
      BY <2>1, <2>2
  <1> QED
    BY <1>1, <1>2, <1>3 DEF Tracks

\* The pages of a set are ranked 0, 1, 2, ... without a gap or a tie.
LEMMA RankExact ==
  ASSUME NEW S \in SUBSET VPN
  PROVE  /\ \A v, u \in S : Rank(S, v) = Rank(S, u) => v = u
         /\ \A i \in 0 .. Cardinality(S) - 1 : \E v \in S : Rank(S, v) = i
  <1>1. IsFiniteSet(S) /\ Cardinality(S) \in Nat
    BY VPNFinite, FS_Subset, CardNat
  <1>2. ASSUME NEW v \in S, NEW u \in S, v < u
        PROVE  Rank(S, v) < Rank(S, u)
    <2> DEFINE L == {x \in S : x < v}
               U == {x \in S : x < u}
    <2>1. L \in SUBSET U /\ L # U /\ U \in SUBSET S
      <3>1. v \in Int /\ u \in Int /\ S \subseteq Int
        BY DEF VPN
      <3>2. v \in U /\ v \notin L
        BY <1>2, <3>1
      <3>3. ASSUME NEW x \in L PROVE x \in U
        BY <1>2, <3>1
      <3> QED
        BY <3>2, <3>3
    <2> HIDE DEF L, U
    <2>2. IsFiniteSet(U)
      BY <1>1, <2>1, FS_Subset
    <2>3. IsFiniteSet(L) /\ Cardinality(L) <= Cardinality(U) /\ Cardinality(L) # Cardinality(U)
      BY <2>1, <2>2, FS_Subset
    <2>4. Cardinality(L) \in Nat /\ Cardinality(U) \in Nat
      BY <2>2, <2>3, FS_CardinalityType
    <2>5. Rank(S, v) = Cardinality(L) /\ Rank(S, u) = Cardinality(U)
      BY DEF Rank, L, U
    <2> QED
      BY <2>3, <2>4, <2>5
  <1>3. \A v \in S : Rank(S, v) \in Nat /\ Rank(S, v) < Cardinality(S)
    BY RankBound
  <1>4. ASSUME NEW v \in S, NEW u \in S, Rank(S, v) = Rank(S, u)
        PROVE  v = u
    <2>1. v \in Int /\ u \in Int
      BY DEF VPN
    <2>2. ~(v < u) /\ ~(u < v)
      BY <1>2, <1>3, <1>4
    <2> QED
      BY <2>1, <2>2
  <1> DEFINE T == 0 .. Cardinality(S) - 1
             r == [v \in S |-> Rank(S, v)]
  <1>5. IsFiniteSet(T) /\ Cardinality(T) = Cardinality(S)
    <2>1. 0 \in Int /\ Cardinality(S) - 1 \in Int
      BY <1>1
    <2> QED
      BY <1>1, <2>1, FS_Interval
  <1>6. r \in [S -> T]
    BY <1>1, <1>3
  <1>7. r \in Injection(S, T)
    BY <1>4, <1>6 DEF Injection, IsInjective
  <1>8. r \in Surjection(S, T)
    BY <1>5, <1>7, FS_Injection
  <1>9. \A i \in T : \E v \in S : r[v] = i
    BY <1>8, Zenon DEF Surjection
  <1> QED
    BY <1>4, <1>9

\* Filled gives out exactly the frames of its window, each once.
LEMMA HandedExact ==
  ASSUME NEW S \in SUBSET VPN, NEW skip \in Nat, current \in Nat
  PROVE  /\ \A v \in S : Handed(skip + Rank(S, v))
                           \in current + skip .. current + skip + Cardinality(S) - 1
         /\ \A v, u \in S : Handed(skip + Rank(S, v)) = Handed(skip + Rank(S, u)) => v = u
         /\ \A f \in current + skip .. current + skip + Cardinality(S) - 1 :
              \E v \in S : f = Handed(skip + Rank(S, v))
  <1>1. \A v \in S : Rank(S, v) \in Nat /\ Rank(S, v) < Cardinality(S)
    BY RankBound
  <1>2. Cardinality(S) \in Nat
    BY CardNat
  <1>3. \A v, u \in S : Rank(S, v) = Rank(S, u) => v = u
    BY RankExact
  <1>4. ASSUME NEW f \in current + skip .. current + skip + Cardinality(S) - 1
        PROVE  \E v \in S : f = Handed(skip + Rank(S, v))
    <2>1. f - current - skip \in 0 .. Cardinality(S) - 1
      BY <1>2
    <2>2. PICK v \in S : Rank(S, v) = f - current - skip
      BY <2>1, RankExact
    <2>3. f = current + (skip + Rank(S, v))
      BY <2>2
    <2> QED
      BY <2>3 DEF Handed
  <1>5. \A v \in S : Handed(skip + Rank(S, v))
                       \in current + skip .. current + skip + Cardinality(S) - 1
    BY <1>1, <1>2 DEF Handed
  <1>6. \A v, u \in S : Handed(skip + Rank(S, v)) = Handed(skip + Rank(S, u)) => v = u
    BY <1>1, <1>3 DEF Handed
  <1> QED
    BY <1>4, <1>5, <1>6

\* What Filled maps a page to.
LEMMA FilledAt ==
  ASSUME NEW m, NEW S, NEW skip, NEW v \in VPN
  PROVE  Filled(m, S, skip)[v] = IF v \in S THEN Handed(skip + Rank(S, v)) ELSE m[v]
  BY DEF Filled

\* VirtAddr::floor and ceil: the arithmetic of page boundaries.
LEMMA CeilFacts ==
  ASSUME NEW a \in Int, NEW k \in Int
  PROVE  /\ Floor(a) \in Int /\ Floor(a) <= Ceil(a)
         /\ a <= k * PAGE_SIZE => Ceil(a) <= k
         /\ Ceil(k * PAGE_SIZE) = k
  <1> DEFINE P == PAGE_SIZE
  <1>1. P \in Int /\ P > 0
    BY MemoryAssumption
  <1> HIDE DEF P
  <1>2. ASSUME NEW x \in Int
        PROVE  /\ x \div P \in Int /\ P * (x \div P) \in Int
               /\ P * (x \div P) <= x /\ x < P * (x \div P) + P
    BY <1>1
  <1>3. ASSUME NEW q \in Int, NEW r \in Int, P * q < P * r + P
        PROVE  q <= r
    <2> SUFFICES ASSUME q >= r + 1 PROVE FALSE
      OBVIOUS
    <2>1. P * (q - r - 1) >= 0
      BY <1>1
    <2>2. P * (q - r - 1) = P * q - P * r - P
      BY <1>1
    <2> QED
      BY <1>1, <1>3, <2>1, <2>2
  <1>4. k * P = P * k /\ P * k \in Int
    BY <1>1
  <1>5. Floor(a) = a \div P /\ \A x : Ceil(x) = (x + P - 1) \div P
    BY DEF Floor, Ceil, P
  <1>6. Floor(a) \in Int /\ Floor(a) <= Ceil(a)
    <2>1. P * (a \div P) < P * ((a + P - 1) \div P) + P
      BY <1>1, <1>2
    <2> QED
      BY <1>1, <1>2, <1>3, <1>5, <2>1
  <1>7. ASSUME NEW x \in Int, x <= P * k
        PROVE  Ceil(x) <= k
    <2>1. P * ((x + P - 1) \div P) < P * k + P
      BY <1>1, <1>2, <1>4, <1>7
    <2> QED
      BY <1>1, <1>2, <1>3, <1>5, <2>1
  <1>8. k <= Ceil(P * k)
    <2>1. P * k < P * ((P * k + P - 1) \div P) + P
      BY <1>1, <1>2, <1>4
    <2> QED
      BY <1>1, <1>2, <1>3, <1>4, <1>5, <2>1
  <1>9. Ceil(P * k) \in Int
    BY <1>1, <1>2, <1>4, <1>5
  <1> QED
    BY <1>4, <1>6, <1>7, <1>8, <1>9 DEF P

\* A place holds an allocated frame or none.
LEMMA Held ==
  ASSUME IInv
  PROVE  /\ \A s \in Slots : owner[s] \in Allocated \cup {None}
         /\ current \in Nat /\ recycled \subseteq Allocated
  <1>1. OwnerIs
    BY OwnerAt
  <1>2. /\ root \in [Procs -> Allocated \cup {None}] /\ kstack \in [Procs -> Allocated \cup {None}]
        /\ areas \in [Procs -> Map] /\ heap_area \in [Procs -> Map] /\ mmap_area \in [Procs -> Map]
        /\ recycled \subseteq Allocated /\ current \in Nat
    BY DEF IInv, Bounded, Shape
  <1>3. \A p \in Procs, v \in VPN : /\ areas[p][v] \in Allocated \cup {None}
                                   /\ heap_area[p][v] \in Allocated \cup {None}
                                   /\ mmap_area[p][v] \in Allocated \cup {None}
    BY <1>2 DEF Map
  <1>4. \A s \in Slots : owner[s] \in Allocated \cup {None}
    BY <1>1, <1>2, <1>3, SlotKinds DEF OwnerIs
  <1> QED
    BY <1>2, <1>4

\* Recount, for a step of the allocator.
LEMMA Moved ==
  ASSUME KInv, NEW D \in SUBSET Slots, NEW N \in SUBSET Slots,
         current' \in Nat, current <= current',
         recycled' = recycled \cup ({owner[s] : s \in D} \ {None}),
         Exchange(owner, owner', current, current', D, N)
  PROVE  Tracks(owner, current, recycled)'
  <1>1. PICK o, w, n, k, rec :
          o = owner /\ w = owner' /\ n = current /\ k = current' /\ rec = recycled
    OBVIOUS
  <1>2. n \in Nat /\ k \in Nat /\ n <= k /\ rec \subseteq 0 .. n - 1
    BY <1>1, Held DEF KInv, Allocated
  <1>3. Tracks(o, n, rec) /\ Exchange(o, w, n, k, D, N)
    BY <1>1 DEF KInv
  <1>4. Tracks(w, k, rec \cup ({o[s] : s \in D} \ {None}))
    BY ONLY <1>2, <1>3, D \in SUBSET Slots, N \in SUBSET Slots, Recount, Zenon
  <1>5. Tracks(w, k, recycled')
    BY <1>1, <1>4
  <1>6. Slots' = Slots
    BY DEF Slots, Procs, VPN
  <1> QED
    BY <1>1, <1>5, <1>6 DEF Tracks

\* Steps that move no tracker.
LEMMA SameOwners ==
  ASSUME KInv, UNCHANGED <<current, recycled, root, kstack, areas, heap_area, mmap_area, next_pid>>
  PROVE  Tracks(owner, current, recycled)' /\ Occupied'
  <1>1. owner' = owner /\ Slots' = Slots
    BY DEF owner, Slots, Procs, VPN, Kind, Proc, Page
  <1>2. Created' = Created /\ \A s : Proc(s)' = Proc(s)
    BY DEF Created, Proc
  <1> QED
    BY <1>1, <1>2 DEF KInv, Tracks, Occupied

\* A panic in the middle of a call changes no map.
LEMMA PanicTracked ==
  ASSUME KInv, UNCHANGED <<frameVars, spaceVars, procVars, satp>>,
         halted' \in {"oom", "mapped", "fd"}
  PROVE  KInv'
  <1>1. IInv'
    BY PanicInv DEF KInv
  <1>2. Tracks(owner, current, recycled)' /\ Occupied'
    BY SameOwners DEF frameVars, spaceVars, procVars
  <1> QED
    BY <1>1, <1>2 DEF KInv, Mapped

\* A task switch moves no frame.
LEMMA SwitchTracked ==
  ASSUME KInv, NEW p \in Procs, Switch(p)
  PROVE  KInv'
  <1>1. IInv'
    BY SwitchInv DEF KInv
  <1>2. Tracks(owner, current, recycled)' /\ Occupied'
    BY SameOwners DEF Switch, frameVars, spaceVars, procVars
  <1>3. Mapped' /\ halted' # "dealloc"
    BY DEF KInv, Switch, frameVars, spaceVars, procVars, Mapped, HeapFull, Pinned, VPN, Procs, Ceil
  <1> QED
    BY <1>1, <1>2, <1>3 DEF KInv

\* A step that changes nothing.
LEMMA StutterTracked == KInv /\ UNCHANGED vars => KInv'
  <1> SUFFICES ASSUME KInv, UNCHANGED vars PROVE KInv'
    OBVIOUS
  <1>1. IInv'
    BY PanicInv DEF KInv, IInv, Shape, vars
  <1>2. Tracks(owner, current, recycled)' /\ Occupied'
    BY SameOwners DEF vars, frameVars, spaceVars, procVars
  <1>3. Mapped' /\ halted' # "dealloc"
    BY DEF KInv, vars, frameVars, spaceVars, procVars, Mapped, HeapFull, Pinned, VPN, Procs, Ceil
  <1> QED
    BY <1>1, <1>2, <1>3 DEF KInv

\* sys_brk within the last page: the pages below the new end are among those
\* below the old one.
LEMMA BrkWithinTracked ==
  ASSUME KInv, NEW p \in Procs, NEW addr \in Int, BrkWithin(p, addr)
  PROVE  KInv'
  <1>1. IInv'
    BY BrkWithinInv DEF KInv
  <1>2. Tracks(owner, current, recycled)' /\ Occupied'
    BY SameOwners DEF BrkWithin, frameVars, procVars
  <1>3. /\ UNCHANGED <<page_table, areas, heap_area, mmap_area, status, halted>>
        /\ heap_end' = [heap_end EXCEPT ![p] = addr]
        /\ Ceil(heap_end[p]) * PAGE_SIZE >= addr
    BY DEF BrkWithin, frameVars, procVars
  <1>4. heap_end \in [Procs -> Int]
    BY DEF KInv, IInv, Shape
  <1>5. Ceil(addr) \in Int /\ Ceil(heap_end[p]) \in Int
    BY <1>4, CeilInt
  <1>6. Ceil(addr) <= Ceil(heap_end[p])
    <2>1. PICK k \in Int : k = Ceil(heap_end[p])
      BY <1>5
    <2>2. addr <= k * PAGE_SIZE
      BY <1>3, <2>1, MemoryAssumption
    <2> QED
      BY <2>1, <2>2, CeilFacts
  <1>7. ASSUME NEW q \in Procs, status'[q] = "live", halted' = "no"
        PROVE  HeapFull(q)' /\ Pinned(q)'
    <2>1. HeapFull(q) /\ Pinned(q)
      BY <1>3, <1>7 DEF KInv, Mapped
    <2>2. Pinned(q)'
      BY <1>3, <2>1 DEF Pinned, VPN
    <2>3. Ceil(heap_end'[q]) <= Ceil(heap_end[q]) /\ Ceil(heap_end'[q]) \in Int /\ Ceil(heap_end[q]) \in Int
      <3>1. CASE q = p
        BY <1>3, <1>4, <1>5, <1>6, <3>1
      <3>2. CASE q # p
        <4>1. heap_end'[q] = heap_end[q] /\ Ceil(heap_end[q]) \in Int
          BY <1>3, <1>4, <3>2, CeilInt
        <4> QED
          BY <4>1
      <3> QED
        BY <3>1, <3>2
    <2>4. Ceil(heap_end[q])' = Ceil(heap_end'[q]) /\ VPN' = VPN /\ VPN \subseteq Int
      BY DEF Ceil, VPN
    <2> QED
      BY <1>3, <2>1, <2>2, <2>3, <2>4, MemoryAssumption DEF HeapFull
  <1>8. Mapped'
    BY <1>7 DEF Mapped, Procs
  <1> QED
    BY <1>1, <1>2, <1>3, <1>8 DEF KInv

\* A page without PTE has no tracker in a live process.
LEMMA NoPte ==
  ASSUME KInv, NEW p \in Procs, status[p] = "live", halted = "no",
         NEW v \in VPN, page_table[p][v] = None
  PROVE  areas[p][v] = None /\ heap_area[p][v] = None /\ mmap_area[p][v] = None
  BY DEF KInv, Mapped, Pinned

\* Mapped, for one process.
LEMMA MappedAt ==
  ASSUME KInv, NEW q \in Procs, status[q] = "live", halted = "no"
  PROVE  HeapFull(q) /\ Pinned(q)
  BY DEF KInv, Mapped

\* A live process was created, and its maps are functions on the processes.
LEMMA LiveCreated ==
  ASSUME KInv
  PROVE  /\ \A p \in Procs : status[p] = "live" => p \in Created
         /\ DOMAIN page_table = Procs /\ DOMAIN heap_area = Procs /\ DOMAIN mmap_area = Procs
  BY DEF KInv, IInv, Shape, Bounded

\* Created processes keep the frames of their own where root and kstack stay.
LEMMA StillOccupied ==
  ASSUME KInv, UNCHANGED <<root, kstack, next_pid>>,
         \A s \in Slots : Proc(s) \notin Created => owner'[s] = None
  PROVE  Occupied'
  <1>1. Slots' = Slots /\ Created' = Created /\ \A s : Proc(s)' = Proc(s)
    BY DEF Slots, Procs, VPN, Created, Proc
  <1> QED
    BY <1>1 DEF KInv, Occupied

\* map_heap and mmap: the pages of S, none of which has a tracker, get one each.
LEMMA GrowTracked ==
  ASSUME KInv, NEW p \in Procs, status[p] = "live", halted = "no", NEW S \in SUBSET VPN,
         Outcome(page_table[p], S, 0) = "no", Take(Cardinality(S)),
         page_table' = [page_table EXCEPT ![p] = Filled(page_table[p], S, 0)],
         UNCHANGED <<recycled, root, areas, kstack, next_pid>>,
         NEW k \in {"heap", "mmap"},
         k = "heap" => /\ heap_area' = [heap_area EXCEPT ![p] = Filled(heap_area[p], S, 0)]
                       /\ mmap_area' = mmap_area,
         k = "mmap" => /\ mmap_area' = [mmap_area EXCEPT ![p] = Filled(mmap_area[p], S, 0)]
                       /\ heap_area' = heap_area
  PROVE  /\ Tracks(owner, current, recycled)' /\ Occupied'
         /\ \A q \in Procs : status[q] = "live" => Pinned(q)'
         /\ k = "heap" => \A v \in VPN : v \in S \/ heap_area[p][v] # None => heap_area'[p][v] # None
         /\ k = "heap" => \A q \in Procs : q # p => heap_area'[q] = heap_area[q]
  <1> DEFINE g(v) == Handed(0 + Rank(S, v))
             N == Row(k, p, S)
             D == {}
  <1>1. /\ current \in Nat /\ Cardinality(S) \in Nat /\ current' = current + Cardinality(S)
        /\ current' \in Nat /\ current <= current'
    BY Held, CardNat DEF KInv, Take
  <1>2. /\ \A v \in S : g(v) \in current .. current' - 1
        /\ \A v, u \in S : g(v) = g(u) => v = u
        /\ \A f \in current .. current' - 1 : \E v \in S : f = g(v)
    <2>1. PICK skip \in Nat : skip = 0
      OBVIOUS
    <2>2. /\ \A v \in S : Handed(skip + Rank(S, v))
                           \in current + skip .. current + skip + Cardinality(S) - 1
          /\ \A v, u \in S : Handed(skip + Rank(S, v)) = Handed(skip + Rank(S, u)) => v = u
          /\ \A f \in current + skip .. current + skip + Cardinality(S) - 1 :
              \E v \in S : f = Handed(skip + Rank(S, v))
      BY ONLY HandedExact, <1>1, S \in SUBSET VPN, skip \in Nat
    <2>3. current + skip .. current + skip + Cardinality(S) - 1 = current .. current' - 1
      BY <1>1, <2>1
    <2> QED
      BY <2>1, <2>2, <2>3, Zenon
  <1>3. \A m : \A v \in VPN : Filled(m, S, 0)[v] = IF v \in S THEN g(v) ELSE m[v]
    BY FilledAt
  <1>4. None \notin Int /\ \A v \in S : g(v) # None
    <2>1. None \notin Int
      BY MemoryAssumption
    <2> HIDE DEF g
    <2> QED
      BY <1>2, <2>1
  <1> HIDE DEF g
  <1>5. \A v \in S : page_table[p][v] = None
    BY ONLY Outcome(page_table[p], S, 0) = "no" DEF Outcome
  <1>6. \A v \in S : areas[p][v] = None /\ heap_area[p][v] = None /\ mmap_area[p][v] = None
    BY <1>5, NoPte
  <1>7. /\ DOMAIN page_table = Procs /\ DOMAIN heap_area = Procs /\ DOMAIN mmap_area = Procs
    BY ONLY KInv, LiveCreated
  <1>8. \A v \in VPN : /\ page_table'[p][v] = IF v \in S THEN g(v) ELSE page_table[p][v]
                       /\ k = "heap" => heap_area'[p][v] = IF v \in S THEN g(v) ELSE heap_area[p][v]
                       /\ k = "mmap" => mmap_area'[p][v] = IF v \in S THEN g(v) ELSE mmap_area[p][v]
    BY <1>3, <1>7
  <1>9. \A q \in Procs : q # p => /\ page_table'[q] = page_table[q] /\ heap_area'[q] = heap_area[q]
                                  /\ mmap_area'[q] = mmap_area[q]
    BY <1>7
  <1>10. N \in SUBSET Slots /\ D \in SUBSET Slots
    <2>1. k \in {"areas", "heap", "mmap"}
      OBVIOUS
    <2> QED
      BY ONLY RowSlots, <2>1, p \in Procs, S \in SUBSET VPN, Zenon
  <1>11. OwnerIs /\ OwnerNext
    BY ONLY OwnerAt, OwnerAfter
  <1>12. /\ \A s \in Slots : s \in N <=> Kind(s) = k /\ Proc(s) = p /\ Page(s) \in S
         /\ \A v \in S : Slot(k, p, v) \in N /\ Page(Slot(k, p, v)) = v
    <2>1. k \in {"areas", "heap", "mmap"}
      OBVIOUS
    <2>2. \A s \in Slots : s \in Row(k, p, S) <=> Kind(s) = k /\ Proc(s) = p /\ Page(s) \in S
      BY ONLY RowSlots, <2>1, p \in Procs, S \in SUBSET VPN, Zenon
    <2>3. \A v \in S : Slot(k, p, v) \in Row(k, p, S) /\ Page(Slot(k, p, v)) = v
      BY ONLY RowAt, Zenon
    <2> QED
      BY ONLY <2>2, <2>3, Zenon
  <1> HIDE DEF N
  <1>13. \A s \in N : Page(s) \in S /\ owner'[s] = g(Page(s)) /\ owner[s] = None
    BY ONLY <1>6, <1>8, <1>10, <1>11, <1>12, k \in {"heap", "mmap"}, S \in SUBSET VPN
       DEF OwnerIs, OwnerNext
  <1>14. \A s \in Slots : s \notin N => owner'[s] = owner[s]
    <2> TAKE s \in Slots
    <2> HAVE s \notin N
    <2>1. /\ Proc(s) \in Procs
          /\ \/ Kind(s) \in {"root", "kstack"}
             \/ Kind(s) \in {"areas", "heap", "mmap"} /\ Page(s) \in VPN
      BY ONLY SlotTyped, s \in Slots
    <2>2. CASE Kind(s) = k /\ Proc(s) = p
      BY ONLY <1>8, <1>11, <1>12, <2>1, <2>2, s \in Slots, s \notin N, k \in {"heap", "mmap"}
         DEF OwnerIs, OwnerNext
    <2>3. CASE Kind(s) # k \/ Proc(s) # p
      <3>1. /\ root' = root /\ kstack' = kstack /\ areas' = areas
            /\ k = "heap" => mmap_area' = mmap_area
            /\ k = "mmap" => heap_area' = heap_area
        OBVIOUS
      <3> QED
        BY ONLY <1>9, <1>11, <2>1, <2>3, <3>1, s \in Slots, k \in {"heap", "mmap"}
           DEF OwnerIs, OwnerNext
    <2> QED
      BY <2>2, <2>3
  <1>15. Exchange(owner, owner', current, current', D, N)
    <2>1. \A s \in Slots : owner[s] \in (0 .. current - 1) \cup {None}
      BY Held DEF KInv, Allocated
    <2>2. \A s, t \in N : owner'[s] = owner'[t] => s = t
      <3> TAKE s, t \in N
      <3> HAVE owner'[s] = owner'[t]
      <3>1. s \in Slots /\ t \in Slots
        BY ONLY <1>10, s \in N, t \in N
      <3>2. Kind(s) = Kind(t) /\ Proc(s) = Proc(t) /\ Page(s) = Page(t)
        BY ONLY <1>2, <1>12, <1>13, <3>1, s \in N, t \in N, owner'[s] = owner'[t]
      <3> QED
        BY ONLY <3>1, <3>2, SameSlot
    <2>3. \A f \in current .. current' - 1 : \E s \in N : owner'[s] = f
      <3> TAKE f \in current .. current' - 1
      <3>1. PICK v \in S : f = g(v)
        BY ONLY <1>2, f \in current .. current' - 1
      <3>2. Slot(k, p, v) \in N /\ Page(Slot(k, p, v)) = v
        BY ONLY <1>12, v \in S
      <3> QED
        BY ONLY <1>13, <3>1, <3>2
    <2>4. \A s \in N : owner'[s] \in current .. current' - 1
      BY ONLY <1>2, <1>13
    <2> QED
      BY ONLY <1>13, <1>14, <2>1, <2>2, <2>3, <2>4 DEF Exchange, D
  <1>16. Tracks(owner, current, recycled)'
    <2>1. recycled' = recycled \cup ({owner[s] : s \in D} \ {None})
      BY ONLY UNCHANGED <<recycled, root, areas, kstack, next_pid>>
    <2> HIDE DEF D
    <2> QED
      BY ONLY KInv, <1>1, <1>10, <1>15, <2>1, Moved, Zenon
  <1>17. Occupied'
    <2>1. \A s \in N : Proc(s) \in Created
      BY ONLY KInv, <1>10, <1>12, status[p] = "live", p \in Procs, LiveCreated
    <2>2. \A s \in Slots : Proc(s) \notin Created => owner'[s] = None
      BY ONLY KInv, <1>14, <2>1 DEF KInv, Occupied
    <2> QED
      BY ONLY KInv, <2>2, StillOccupied, UNCHANGED <<recycled, root, areas, kstack, next_pid>>
  <1>18. ASSUME NEW q \in Procs, status[q] = "live"
         PROVE  Pinned(q)'
    <2>1. Pinned(q) /\ VPN' = VPN
      BY ONLY KInv, <1>18, halted = "no", MappedAt DEF VPN
    <2>2. areas' = areas /\ (heap_area' = heap_area \/ mmap_area' = mmap_area)
      OBVIOUS
    <2>3. CASE q # p
      BY ONLY <1>9, <2>1, <2>2, <2>3, q \in Procs DEF Pinned
    <2>4. CASE q = p
      <3>1. CASE k = "heap"
        <4>1. mmap_area' = mmap_area
          BY <3>1
        <4>2. \A v \in VPN : heap_area'[p][v] = IF v \in S THEN g(v) ELSE heap_area[p][v]
          BY ONLY <1>8, <3>1
        <4> QED
          BY ONLY <1>6, <1>8, <2>1, <2>2, <2>4, <4>1, <4>2 DEF Pinned
      <3>2. CASE k = "mmap"
        <4>1. heap_area' = heap_area
          BY <3>2
        <4>2. \A v \in VPN : mmap_area'[p][v] = IF v \in S THEN g(v) ELSE mmap_area[p][v]
          BY ONLY <1>8, <3>2
        <4> QED
          BY ONLY <1>6, <1>8, <2>1, <2>2, <2>4, <4>1, <4>2 DEF Pinned
      <3> QED
        BY ONLY <3>1, <3>2, k \in {"heap", "mmap"}
    <2> QED
      BY ONLY <2>3, <2>4
  <1> QED
    BY <1>4, <1>8, <1>9, <1>16, <1>17, <1>18

\* brk that grows the heap: map_heap gives every new page below the new end a frame.
LEMMA BrkGrowTracked ==
  ASSUME KInv, NEW p \in Procs, NEW addr \in Int, BrkGrow(p, addr)
  PROVE  KInv'
  <1> DEFINE S == {v \in VPN : Floor(heap_end[p]) <= v /\ v < Ceil(addr)}
  <1>1. IInv'
    BY BrkGrowInv DEF KInv
  <1>2. /\ halted' = Outcome(page_table[p], S, 0) /\ status[p] = "live" /\ halted = "no"
        /\ S \in SUBSET VPN
    BY DEF BrkGrow, Runs
  <1>3. CASE halted' # "no"
    <2>1. halted' \in {"oom", "mapped", "fd"}
      BY <1>2, <1>3 DEF Outcome
    <2> QED
      BY <1>3, <2>1, PanicTracked DEF BrkGrow
  <1>4. CASE halted' = "no"
    <2>1. /\ Take(Cardinality(S))
          /\ page_table' = [page_table EXCEPT ![p] = Filled(page_table[p], S, 0)]
          /\ heap_area' = [heap_area EXCEPT ![p] = Filled(heap_area[p], S, 0)]
          /\ heap_end' = [heap_end EXCEPT ![p] = Ceil(addr) * PAGE_SIZE]
          /\ UNCHANGED <<recycled, root, areas, mmap_area, kstack, status, next_pid>>
      BY <1>4 DEF BrkGrow, procVars
    <2>2. \A v \in VPN : Floor(heap_end[p]) <= v /\ v < Ceil(addr) => v \in S
      OBVIOUS
    <2> HIDE DEF S
    <2>3. /\ Tracks(owner, current, recycled)' /\ Occupied'
          /\ \A q \in Procs : status[q] = "live" => Pinned(q)'
          /\ \A v \in VPN : v \in S \/ heap_area[p][v] # None => heap_area'[p][v] # None
          /\ \A q \in Procs : q # p => heap_area'[q] = heap_area[q]
      <3>1. Outcome(page_table[p], S, 0) = "no"
        BY <1>2, <1>4
      <3>2. PICK k \in {"heap", "mmap"} : k = "heap"
        OBVIOUS
      <3> QED
        BY ONLY <1>2, <2>1, <3>1, <3>2, KInv, p \in Procs, GrowTracked, Zenon
    <2>4. heap_end \in [Procs -> Int]
      BY DEF KInv, IInv, Shape
    <2>5. ASSUME NEW q \in Procs, status[q] = "live"
          PROVE  HeapFull(q)'
      <3>1. HeapFull(q)
        BY <1>2, <2>5 DEF KInv, Mapped
      <3>2. Ceil(heap_end[q])' = Ceil(heap_end'[q]) /\ VPN' = VPN /\ VPN \subseteq Int
        BY DEF Ceil, VPN
      <3>3. CASE q # p
        BY <2>1, <2>3, <2>4, <3>1, <3>2, <3>3 DEF HeapFull
      <3>4. CASE q = p
        <4>1. Ceil(addr) \in Int /\ Floor(heap_end[p]) \in Int /\ Ceil(heap_end[p]) \in Int
              /\ Floor(heap_end[p]) <= Ceil(heap_end[p])
          BY <2>4, CeilInt, CeilFacts
        <4>2. heap_end'[p] = Ceil(addr) * PAGE_SIZE
          BY <2>1, <2>4
        <4>3. Ceil(heap_end'[p]) = Ceil(addr)
          BY <4>1, <4>2, CeilFacts
        <4>4. ASSUME NEW v \in VPN, HEAP_BASE <= v, v < Ceil(addr)
              PROVE  heap_area'[p][v] # None
          <5>1. CASE Floor(heap_end[p]) <= v
            BY <2>2, <2>3, <4>4, <5>1
          <5>2. CASE v < Floor(heap_end[p])
            <6>1. v < Ceil(heap_end[p])
              BY <3>2, <4>1, <5>2
            <6> QED
              BY <2>3, <3>1, <3>4, <4>4, <6>1 DEF HeapFull
          <5> QED
            BY <3>2, <4>1, <5>1, <5>2
        <4> QED
          BY <3>2, <3>4, <4>3, <4>4 DEF HeapFull
      <3> QED
        BY <3>3, <3>4
    <2>6. Mapped'
      BY <2>1, <2>3, <2>5 DEF Mapped, Procs
    <2> QED
      BY <1>1, <1>4, <2>3, <2>6 DEF KInv
  <1> QED
    BY <1>3, <1>4

\* mmap: every page it maps gets one frame.
LEMMA MmapTracked ==
  ASSUME KInv, NEW p \in Procs, NEW start \in Int, NEW len \in Int, SysMmap(p, start, len)
  PROVE  KInv'
  <1> DEFINE from == IF start # 0 THEN start ELSE mmap_end[p]
             range == {v \in VPN : Ceil(from) <= v /\ v < Ceil(from + len)}
             S == IF start # 0 THEN range \ Dom(mmap_area[p]) ELSE range
  <1>1. IInv'
    BY MmapInv DEF KInv
  <1>2. /\ halted' = Outcome(page_table[p], S, 0) /\ status[p] = "live" /\ halted = "no"
        /\ S \in SUBSET VPN
    BY DEF SysMmap, Runs
  <1>3. CASE halted' # "no"
    <2>1. halted' \in {"oom", "mapped", "fd"}
      BY <1>2, <1>3 DEF Outcome
    <2> QED
      BY <1>3, <2>1, PanicTracked DEF SysMmap
  <1>4. CASE halted' = "no"
    <2>1. /\ Take(Cardinality(S))
          /\ page_table' = [page_table EXCEPT ![p] = Filled(page_table[p], S, 0)]
          /\ mmap_area' = [mmap_area EXCEPT ![p] = Filled(mmap_area[p], S, 0)]
          /\ UNCHANGED <<recycled, root, areas, heap_area, heap_end, kstack, status, next_pid>>
      BY <1>4 DEF SysMmap, procVars
    <2> HIDE DEF S
    <2>2. /\ Tracks(owner, current, recycled)' /\ Occupied'
          /\ \A q \in Procs : status[q] = "live" => Pinned(q)'
      <3>1. Outcome(page_table[p], S, 0) = "no"
        BY <1>2, <1>4
      <3>2. PICK k \in {"heap", "mmap"} : k = "mmap"
        OBVIOUS
      <3> QED
        BY ONLY <1>2, <2>1, <3>1, <3>2, KInv, p \in Procs, GrowTracked, Zenon
    <2>3. \A q \in Procs : status[q] = "live" => HeapFull(q)'
      BY <1>2, <2>1, Zenon DEF KInv, Mapped, HeapFull, VPN, Ceil
    <2>4. Mapped'
      BY <2>1, <2>2, <2>3 DEF Mapped, Procs
    <2> QED
      BY <1>1, <1>4, <2>2, <2>4 DEF KInv
  <1> QED
    BY <1>3, <1>4

\* Frames taken from places that hold them can be given back: dealloc finds them
\* allocated and not yet recycled.
LEMMA GivenBack ==
  ASSUME KInv, NEW D \in SUBSET Slots
  PROVE  Recyclable({owner[s] : s \in D} \ {None})
  <1>1. \A s \in Slots : owner[s] \in (0 .. current - 1) \cup {None} /\ owner[s] \notin recycled
    BY Held DEF KInv, Tracks, Allocated
  <1>2. current \in Nat
    BY Held DEF KInv
  <1> HIDE DEF Slots
  <1> QED
    BY <1>1, <1>2 DEF Recyclable

\* munmap and exit: the places D are emptied.
LEMMA DropTracked ==
  ASSUME KInv, NEW D \in SUBSET Slots, UNCHANGED <<current, root, kstack, next_pid>>,
         recycled' = recycled \cup ({owner[s] : s \in D} \ {None}),
         \A s \in Slots : s \notin D => owner'[s] = owner[s],
         \A s \in D : owner'[s] = None
  PROVE  Tracks(owner, current, recycled)' /\ Occupied'
  <1>1. current' = current /\ current \in Nat
        /\ \A s \in Slots : owner[s] \in (0 .. current - 1) \cup {None}
    BY Held DEF KInv, Allocated
  <1> DEFINE N == {}
  <1>2. N \in SUBSET Slots /\ current' \in Nat /\ current <= current'
    BY <1>1
  <1>3. Exchange(owner, owner', current, current', D, N)
    <2>1. current .. current' - 1 = {}
      BY <1>1
    <2> QED
      BY <1>1, <2>1 DEF Exchange
  <1> HIDE DEF N
  <1>4. Tracks(owner, current, recycled)'
    BY <1>2, <1>3, Moved
  <1>5. Occupied'
    <2>1. \A s \in Slots : Proc(s) \notin Created => owner'[s] = None
      BY DEF KInv, Occupied
    <2> QED
      BY <2>1, StillOccupied
  <1> QED
    BY <1>4, <1>5

\* the pages S of the map of p become empty, and the other pages of no process
\* change; lost: the frames they held
Emptied(p, S, map, next, lost) ==
    /\ \A v \in S : next[p][v] = None
    /\ \A q \in Procs, v \in VPN : q # p \/ v \notin S => next[q][v] = map[q][v]
    /\ lost = {map[p][v] : v \in S} \ {None}

\* munmap and exit: a row of the mmap or the image map is emptied, and its frames
\* go back to the allocator.
LEMMA RowDropped ==
  ASSUME KInv, NEW p \in Procs, NEW S \in SUBSET VPN, NEW k \in {"areas", "mmap"},
         UNCHANGED <<current, root, heap_area, kstack, next_pid>>,
         NEW map, NEW next, NEW lost, Emptied(p, S, map, next, lost),
         k = "areas" => map = areas /\ next = areas' /\ mmap_area' = mmap_area,
         k = "mmap" => map = mmap_area /\ next = mmap_area' /\ areas' = areas,
         recycled' = recycled \cup lost
  PROVE  Tracks(owner, current, recycled)' /\ Occupied' /\ Recyclable(lost)
  <1> DEFINE D == Row(k, p, S)
  <1>1. k \in {"areas", "heap", "mmap"}
    OBVIOUS
  <1>2. /\ D \in SUBSET Slots
        /\ \A s \in Slots : s \in D <=> Kind(s) = k /\ Proc(s) = p /\ Page(s) \in S
    BY ONLY <1>1, RowSlots, p \in Procs, S \in SUBSET VPN
  <1>3. \A v \in S : /\ Slot(k, p, v) \in D /\ Kind(Slot(k, p, v)) = k
                    /\ Proc(Slot(k, p, v)) = p /\ Page(Slot(k, p, v)) = v
    BY ONLY RowAt
  <1> HIDE DEF D
  <1>4. \A s \in Slots : IF Kind(s) = k THEN /\ owner[s] = map[Proc(s)][Page(s)]
                                            /\ owner'[s] = next[Proc(s)][Page(s)]
                                       ELSE owner'[s] = owner[s]
    <2> TAKE s \in Slots
    <2>1. Kind(s) \in {"root", "kstack", "areas", "heap", "mmap"}
      BY ONLY SlotTyped, s \in Slots
    <2>2. /\ Kind(s) = "root" => owner'[s] = owner[s]
          /\ Kind(s) = "kstack" => owner'[s] = owner[s]
          /\ Kind(s) = "heap" => owner'[s] = owner[s]
      BY ONLY OwnerAt, OwnerAfter, s \in Slots,
              UNCHANGED <<current, root, heap_area, kstack, next_pid>> DEF OwnerIs, OwnerNext
    <2>3. CASE k = "areas"
      BY ONLY <2>1, <2>2, <2>3, OwnerAt, OwnerAfter, s \in Slots,
              k = "areas" => map = areas /\ next = areas' /\ mmap_area' = mmap_area
         DEF OwnerIs, OwnerNext
    <2>4. CASE k = "mmap"
      BY ONLY <2>1, <2>2, <2>4, OwnerAt, OwnerAfter, s \in Slots,
              k = "mmap" => map = mmap_area /\ next = mmap_area' /\ areas' = areas
         DEF OwnerIs, OwnerNext
    <2> QED
      BY ONLY <2>3, <2>4, k \in {"areas", "mmap"}
  <1>5. lost = {owner[s] : s \in D} \ {None}
    <2>1. \A v \in S : owner[Slot(k, p, v)] = map[p][v]
      BY ONLY <1>2, <1>3, <1>4
    <2>2. \A s \in D : Page(s) \in S /\ owner[s] = map[p][Page(s)]
      BY ONLY <1>2, <1>4
    <2> QED
      BY ONLY <1>3, <2>1, <2>2, Emptied(p, S, map, next, lost) DEF Emptied
  <1>6. \A s \in D : owner'[s] = None
    BY ONLY <1>2, <1>4, Emptied(p, S, map, next, lost) DEF Emptied
  <1>7. \A s \in Slots : s \notin D => owner'[s] = owner[s]
    <2> TAKE s \in Slots
    <2> HAVE s \notin D
    <2>1. Proc(s) \in Procs /\ (Kind(s) = k => Page(s) \in VPN)
      BY ONLY SlotTyped, s \in Slots, k \in {"areas", "mmap"}
    <2> QED
      BY ONLY <1>2, <1>4, <2>1, s \in Slots, s \notin D, Emptied(p, S, map, next, lost) DEF Emptied
  <1>8. Tracks(owner, current, recycled)' /\ Occupied'
    <2>1. recycled' = recycled \cup ({owner[s] : s \in D} \ {None})
      BY ONLY <1>5, recycled' = recycled \cup lost
    <2> QED
      BY ONLY KInv, <1>2, <1>6, <1>7, <2>1, DropTracked,
              UNCHANGED <<current, root, heap_area, kstack, next_pid>>
  <1>9. Recyclable(lost)
    BY ONLY KInv, <1>2, <1>5, GivenBack
  <1> QED
    BY ONLY <1>8, <1>9

\* munmap keeps the ownership of frames; the PTEs it leaves behind belong to no map.
LEMMA MunmapTracked ==
  ASSUME KInv, NEW p \in Procs, NEW start \in Int, NEW len \in Int, SysMunmap(p, start, len)
  PROVE  KInv'
  <1> DEFINE S == {v \in VPN : Ceil(start) <= v /\ v < Ceil(start + len)}
             dropped == {mmap_area[p][v] : v \in S \cap Dom(mmap_area[p])}
  <1>1. IInv'
    BY MunmapInv DEF KInv
  <1>2. /\ UNCHANGED <<current, root, page_table, areas, heap_area, heap_end, kstack, status, next_pid>>
        /\ mmap_area' = [mmap_area EXCEPT ![p] = [v \in VPN |-> IF v \in S THEN None ELSE mmap_area[p][v]]]
        /\ recycled' = recycled \cup dropped
        /\ halted' = IF Recyclable(dropped) THEN "no" ELSE "dealloc"
        /\ S \in SUBSET VPN /\ halted = "no"
    BY DEF SysMunmap, procVars, Runs
  <1> HIDE DEF S
  <1>3. mmap_area \in [Procs -> Map]
    BY DEF KInv, IInv, Bounded
  <1>4. /\ \A v \in S : mmap_area'[p][v] = None
        /\ \A q \in Procs, v \in VPN : q # p \/ v \notin S => mmap_area'[q][v] = mmap_area[q][v]
    BY <1>2, <1>3
  <1>5. Emptied(p, S, mmap_area, mmap_area', dropped)
    <2>1. dropped = {mmap_area[p][v] : v \in S} \ {None}
      BY <1>2 DEF Dom
    <2> QED
      BY <1>4, <2>1 DEF Emptied
  <1> HIDE DEF dropped
  <1>6. Tracks(owner, current, recycled)' /\ Occupied' /\ Recyclable(dropped)
    <2>1. PICK k \in {"areas", "mmap"} : k = "mmap"
      OBVIOUS
    <2>2. UNCHANGED <<current, root, heap_area, kstack, next_pid>> /\ areas' = areas
      BY <1>2
    <2> QED
      BY ONLY KInv, <1>2, <1>5, <2>1, <2>2, p \in Procs, RowDropped, Zenon
  <1>7. Mapped'
    <2> SUFFICES ASSUME NEW q \in Procs, status[q] = "live"
                 PROVE  HeapFull(q)' /\ Pinned(q)'
      BY <1>2, Zenon DEF Mapped, Procs
    <2>1. HeapFull(q) /\ Pinned(q) /\ VPN' = VPN
      BY <1>2, MappedAt DEF VPN
    <2>2. HeapFull(q)'
      BY <1>2, <2>1 DEF HeapFull, Ceil
    <2>3. \A v \in VPN : mmap_area'[q][v] = None \/ mmap_area'[q][v] = mmap_area[q][v]
      BY <1>4
    <2> QED
      BY <1>2, <2>1, <2>2, <2>3 DEF Pinned
  <1> QED
    BY <1>1, <1>2, <1>6, <1>7 DEF KInv

\* exit gives back the frames of the image map and keeps the others.
LEMMA ExitTracked ==
  ASSUME KInv, NEW p \in Procs, SysExit(p)
  PROVE  KInv'
  <1>1. IInv'
    BY ExitInv DEF KInv
  <1>2. /\ UNCHANGED <<current, root, page_table, heap_area, mmap_area, heap_end, kstack, next_pid>>
        /\ areas' = [areas EXCEPT ![p] = NoPages]
        /\ status' = [status EXCEPT ![p] = "gone"]
        /\ recycled' = recycled \cup FramesOf(areas[p])
        /\ halted' = IF Recyclable(FramesOf(areas[p])) THEN "no" ELSE "dealloc"
        /\ halted = "no"
    BY DEF SysExit, Runs
  <1>3. areas \in [Procs -> Map] /\ status \in [Procs -> {"unused", "live", "gone"}]
    BY DEF KInv, IInv, Bounded, Shape
  <1>4. /\ \A v \in VPN : areas'[p][v] = None
        /\ \A q \in Procs : q # p => areas'[q] = areas[q]
    BY <1>2, <1>3 DEF NoPages
  <1>5. Emptied(p, VPN, areas, areas', FramesOf(areas[p]))
    BY <1>4 DEF Emptied, FramesOf, Dom
  <1>6. Tracks(owner, current, recycled)' /\ Occupied' /\ Recyclable(FramesOf(areas[p]))
    <2>1. PICK k \in {"areas", "mmap"} : k = "areas"
      OBVIOUS
    <2>2. UNCHANGED <<current, root, heap_area, kstack, next_pid>> /\ mmap_area' = mmap_area
      BY <1>2
    <2> QED
      BY ONLY KInv, <1>2, <1>5, <2>1, <2>2, p \in Procs, RowDropped, Zenon
  <1>7. Mapped'
    <2> SUFFICES ASSUME NEW q \in Procs, status'[q] = "live"
                 PROVE  HeapFull(q)' /\ Pinned(q)'
      BY <1>2 DEF Mapped, Procs
    <2>0. q # p /\ status[q] = "live"
      BY <1>2, <1>3
    <2>1. HeapFull(q) /\ Pinned(q) /\ VPN' = VPN
      BY <1>2, <2>0, MappedAt DEF VPN
    <2>2. HeapFull(q)'
      BY <1>2, <2>1 DEF HeapFull, Ceil
    <2> QED
      BY <1>2, <1>4, <2>0, <2>1, <2>2 DEF Pinned
  <1> QED
    BY <1>1, <1>2, <1>6, <1>7 DEF KInv
=============================================================================
