----------------------------- MODULE BootProofs -----------------------------
(* The kernel gets the firmware's last memory map, and the pages it frees are *)
(* the ones nobody uses, for every map and every order of events.             *)
EXTENDS Boot, NatFacts, SequenceTheorems, FiniteSetTheorems

-----------------------------------------------------------------------------
(* The descriptors of a map. *)

\* In a finite set of numbers there is one with i smaller ones, for every i
\* below the size of the set.
LEMMA RankExists ==
    ASSUME NEW S \in SUBSET Nat, IsFiniteSet(S), NEW i \in Nat, i < Cardinality(S)
    PROVE  \E p \in S : Cardinality({q \in S : q < p}) = i
<1> DEFINE Below(p) == {q \in S : q < p}
           T == {n \in Nat : n < Cardinality(S) => \E p \in S : Cardinality(Below(p)) = n}
<1>0. Cardinality(S) \in Nat
  BY FS_CardinalityType
<1>1. ASSUME NEW p \in S PROVE IsFiniteSet(Below(p)) /\ Cardinality(Below(p)) \in Nat
  <2>1. Below(p) \in SUBSET S
    OBVIOUS
  <2> HIDE DEF Below
  <2>2. IsFiniteSet(Below(p))
    BY <2>1, FS_Subset
  <2> QED BY <2>2, FS_CardinalityType
<1>2. 0 \in T
  <2> SUFFICES ASSUME 0 < Cardinality(S) PROVE \E p \in S : Cardinality(Below(p)) = 0
    OBVIOUS
  <2>1. S # {}
    BY FS_EmptySet
  <2>2. PICK m \in S : \A k \in S : m <= k
    BY <2>1, LeastNat, Zenon
  <2>3. Below(m) = {}
    <3>1. ASSUME NEW q \in S PROVE ~(q < m)
      <4>1. m <= q /\ q \in Nat /\ m \in Nat
        BY <2>2
      <4> QED BY <4>1
    <3> QED BY <3>1
  <2> QED BY <2>3, FS_EmptySet
<1>3. ASSUME NEW n \in Nat, n \in T PROVE n + 1 \in T
  <2> SUFFICES ASSUME n + 1 < Cardinality(S) PROVE \E p \in S : Cardinality(Below(p)) = n + 1
    OBVIOUS
  <2>1. n < Cardinality(S)
    BY <1>0
  <2>2. PICK p \in S : Cardinality(Below(p)) = n
    BY <1>3, <2>1
  <2> DEFINE A == Below(p) \cup {p}
  <2>3. p \notin Below(p) /\ A \subseteq S
    OBVIOUS
  <2>4. Cardinality(A) = n + 1
    <3>1. IsFiniteSet(Below(p)) /\ p \notin Below(p)
      BY <1>1, <2>3
    <3> DEFINE B == Below(p)
    <3>2. IsFiniteSet(B) /\ p \notin B /\ Cardinality(B) = n
      BY <2>2, <3>1
    <3> HIDE DEF B
    <3>3. Cardinality(B \cup {p}) = n + 1
      BY <3>2, FS_AddElement
    <3> QED BY <3>3 DEF B
  <2>5. S \ A # {}
    <3>1. Cardinality(A) # Cardinality(S)
      BY <1>0, <2>4
    <3> HIDE DEF A
    <3>2. A # S
      BY <3>1
    <3> QED BY <2>3, <3>2
  <2>6. PICK m \in S \ A : \A k \in S \ A : m <= k
    <3>1. S \ A \in SUBSET Nat
      OBVIOUS
    <3> HIDE DEF A
    <3> QED BY <2>5, <3>1, LeastNat
  <2>7. p < m
    BY <2>6
  <2>8. ASSUME NEW q \in S PROVE q < m <=> q \in A
    <3>1. q \in Nat /\ p \in Nat /\ m \in Nat
      BY <2>6
    <3>2. q \in A => q < m
      BY <2>7, <3>1
    <3>3. q \notin A => ~(q < m)
      <4>1. ASSUME q \in S \ A PROVE ~(q < m)
        <5>1. m <= q
          BY <2>6, <4>1
        <5> QED BY <3>1, <5>1
      <4> QED BY <4>1
    <3> QED BY <3>2, <3>3
  <2>9. Below(m) = A
    <3> HIDE DEF A
    <3> QED BY <2>3, <2>8
  <2> QED BY <2>4, <2>6, <2>9
<1>4. T = Nat
  <2> HIDE DEF T
  <2>1. T \in SUBSET Nat
    BY DEF T
  <2> QED BY <1>2, <1>3, <2>1, NatSetInduction
<1> QED BY <1>4

\* Where a run of pages of one use begins.
Starts(u) == {p \in Pages : p = 0 \/ u[p] # u[p - 1]}

\* What a descriptor says: its pages are in memory and of its type.
Describes(b, u) ==
    /\ b.start \in Pages /\ b.pages \in Nat /\ b.start + b.pages <= NPhys
    /\ \A p \in b.start .. b.start + b.pages - 1 : p \in Pages /\ u[p] = b.type

\* From the start of a run to the next start, the use is the same.
LEMMA RunIsUniform ==
    ASSUME NEW u, NEW a \in Pages, NEW e \in Nat, e <= NPhys,
           \A q \in Starts(u) : q > a => e <= q
    PROVE  \A p \in a .. e - 1 : p \in Pages /\ u[p] = u[a]
<1> DEFINE T == {n \in Nat : a + n < e => u[a + n] = u[a]}
<1>0. a \in Nat /\ NPhys \in Nat
  BY BootMemAssumption DEF Pages
<1>1. 0 \in T
  BY <1>0
<1>2. ASSUME NEW n \in Nat, n \in T PROVE n + 1 \in T
  <2> SUFFICES ASSUME a + (n + 1) < e PROVE u[a + (n + 1)] = u[a]
    OBVIOUS
  <2>1. a + n < e /\ a + (n + 1) \in Pages /\ a + (n + 1) > a /\ ~(e <= a + (n + 1))
        /\ a + (n + 1) # 0 /\ (a + (n + 1)) - 1 = a + n
    BY <1>0 DEF Pages
  <2>2. u[a + n] = u[a]
    BY <1>2, <2>1
  <2>3. a + (n + 1) \notin Starts(u)
    BY <2>1
  <2>4. u[a + (n + 1)] = u[(a + (n + 1)) - 1]
    BY <2>1, <2>3 DEF Starts
  <2> QED BY <2>1, <2>2, <2>4
<1>3. T = Nat
  <2> HIDE DEF T
  <2>1. T \in SUBSET Nat
    BY DEF T
  <2> QED BY <1>1, <1>2, <2>1, NatSetInduction
<1>4. ASSUME NEW p \in a .. e - 1 PROVE p \in Pages /\ u[p] = u[a]
  <2>1. p - a \in Nat /\ a + (p - a) = p /\ p < e /\ p \in Pages
    BY <1>0 DEF Pages
  <2>2. p - a \in T
    BY <1>3, <2>1
  <2> QED BY <2>1, <2>2
<1> QED BY <1>4

\* GetMemoryMap's descriptors: each tells the use of its pages.
LEMMA DescriptorsDescribe ==
    ASSUME NEW u
    PROVE  \E n \in Nat :
             /\ DOMAIN Descriptors(u) = 1 .. n
             /\ \A i \in 1 .. n : Describes(Descriptors(u)[i], u)
<1> DEFINE starts == Starts(u)
           n == Cardinality(starts)
           At(i) == CHOOSE p \in starts : Cardinality({q \in starts : q < p}) = i - 1
           After(p) == {q \in starts \cup {NPhys} : q > p}
           End(p) == CHOOSE q \in After(p) : \A r \in After(p) : q <= r
<1>1. starts \in SUBSET Nat /\ IsFiniteSet(starts) /\ n \in Nat /\ starts \subseteq Pages
  <2>1. starts \in SUBSET Nat /\ starts \subseteq Pages
    BY DEF Starts, Pages
  <2>2. \A s \in starts : s <= NPhys
    BY BootMemAssumption DEF Starts, Pages
  <2>3. IsFiniteSet(starts)
    <3> HIDE DEF starts
    <3>1. NPhys \in Nat
      BY BootMemAssumption
    <3> QED BY <2>1, <2>2, <3>1, FS_BoundedSetOfNaturals
  <2> QED BY <2>1, <2>3, FS_CardinalityType
<1>2. Descriptors(u) = [i \in 1 .. n |-> [start |-> At(i), pages |-> End(At(i)) - At(i), type |-> u[At(i)]]]
  BY DEF Descriptors, Starts
<1>3. ASSUME NEW i \in 1 .. n PROVE Describes(Descriptors(u)[i], u)
  <2>1. At(i) \in starts
    <3>1. i - 1 \in Nat /\ i - 1 < n
      BY <1>1
    <3>2. \E p \in starts : Cardinality({q \in starts : q < p}) = i - 1
      <4> HIDE DEF starts
      <4> QED BY <1>1, <3>1, RankExists
    <3> QED BY <3>2
  <2> DEFINE a == At(i)
             e == End(a)
  <2>2. a \in Pages /\ a \in Nat /\ a < NPhys /\ NPhys \in Nat
    BY <1>1, <2>1, BootMemAssumption DEF Pages
  <2>3. After(a) \in SUBSET Nat /\ NPhys \in After(a)
    <3> HIDE DEF starts, a
    <3> QED BY <1>1, <2>2
  <2>4. \E q \in After(a) : \A r \in After(a) : q <= r
    <3> DEFINE B == After(a)
    <3>1. B \in SUBSET Nat /\ B # {}
      BY <2>3
    <3> HIDE DEF B
    <3>2. \E q \in B : \A r \in B : q <= r
      BY <3>1, LeastNat
    <3> QED BY <3>2 DEF B
  <2>5. e \in After(a) /\ \A r \in After(a) : e <= r
    <3> HIDE DEF a
    <3> QED BY <2>4
  <2>6. e \in Nat /\ e > a /\ e <= NPhys
    <3> HIDE DEF a, e
    <3> QED BY <2>3, <2>5
  <2>7. \A q \in Starts(u) : q > a => e <= q
    <3> HIDE DEF a, e
    <3> QED BY <2>5
  <2>8. \A p \in a .. e - 1 : p \in Pages /\ u[p] = u[a]
    <3> HIDE DEF a, e, starts
    <3> QED BY <2>2, <2>6, <2>7, RunIsUniform
  <2>9. Descriptors(u)[i] = [start |-> a, pages |-> e - a, type |-> u[a]]
    <3> HIDE DEF At, End, n
    <3> QED BY <1>2
  <2> HIDE DEF a, e
  <2>10. a + (e - a) = e /\ e - a \in Nat
    BY <2>2, <2>6
  <2> QED BY <2>2, <2>6, <2>8, <2>9, <2>10 DEF Describes
<1>4. DOMAIN Descriptors(u) = 1 .. n
  BY <1>2
<1> HIDE DEF n
<1> QED BY <1>1, <1>3, <1>4

-----------------------------------------------------------------------------
(* The map on its way to the kernel. *)

Region == {r \in [base : Nat, len : Nat, usable : BOOLEAN] : r.base + r.len <= NPhys}

\* What xlate_type tells the kernel about each descriptor.
LEMMA BuildMapIs ==
    ASSUME NEW u
    PROVE  /\ BuildMap(u) \in Seq(Region)
           /\ Len(BuildMap(u)) \in Nat /\ DOMAIN BuildMap(u) = 1 .. Len(BuildMap(u))
           /\ DOMAIN Descriptors(u) = 1 .. Len(BuildMap(u))
           /\ \A i \in 1 .. Len(BuildMap(u)) :
                /\ Describes(Descriptors(u)[i], u)
                /\ BuildMap(u)[i].base = Descriptors(u)[i].start
                /\ BuildMap(u)[i].len = Descriptors(u)[i].pages
                /\ BuildMap(u)[i].usable =
                     (Descriptors(u)[i].type \in {"conventional", "services"} /\ Descriptors(u)[i].start >= LOW)
<1>1. PICK n \in Nat : /\ DOMAIN Descriptors(u) = 1 .. n
                       /\ \A i \in 1 .. n : Describes(Descriptors(u)[i], u)
  BY DescriptorsDescribe
<1> DEFINE d == Descriptors(u)
           E(i) == [base |-> d[i].start, len |-> d[i].pages,
                    usable |-> xlate_type(d[i].type) /\ d[i].start >= LOW]
<1>2. BuildMap(u) = [i \in 1 .. n |-> E(i)]
  BY <1>1 DEF BuildMap
<1>3. ASSUME NEW i \in 1 .. n PROVE E(i) \in Region
  <2>1. Describes(d[i], u)
    BY <1>1
  <2> HIDE DEF d
  <2>2. d[i].start \in Nat /\ d[i].pages \in Nat /\ d[i].start + d[i].pages <= NPhys
    BY <2>1 DEF Describes, Pages
  <2> QED BY <2>2 DEF Region, xlate_type
<1>4. BuildMap(u) \in [1 .. n -> Region]
  <2> HIDE DEF E
  <2> QED BY <1>2, <1>3
<1>5. BuildMap(u) \in Seq(Region) /\ Len(BuildMap(u)) = n /\ DOMAIN BuildMap(u) = 1 .. n
  BY <1>4
<1>6. ASSUME NEW i \in 1 .. n
      PROVE  /\ BuildMap(u)[i].base = d[i].start
             /\ BuildMap(u)[i].len = d[i].pages
             /\ BuildMap(u)[i].usable = (d[i].type \in {"conventional", "services"} /\ d[i].start >= LOW)
  <2>1. BuildMap(u)[i] = E(i)
    BY <1>2
  <2> HIDE DEF d
  <2> QED BY <2>1 DEF xlate_type
<1> HIDE DEF d, E
<1> QED BY <1>1, <1>5, <1>6 DEF d

\* boot_info_relocate keeps the first BI_MMAP_MAX entries.
Kept(m) == SubSeq(m, 1, IF Len(m) < BI_MMAP_MAX THEN Len(m) ELSE BI_MMAP_MAX)
\* Which entries those are.
LEMMA KeptIs ==
    ASSUME NEW m \in Seq(Region)
    PROVE  /\ Kept(m) \in Seq(Region)
           /\ DOMAIN Kept(m) = {i \in 1 .. Len(m) : i <= BI_MMAP_MAX}
           /\ \A i \in DOMAIN Kept(m) : Kept(m)[i] = m[i]
<1> DEFINE L == Len(m)
<1>0. PICK n : n = IF L < BI_MMAP_MAX THEN L ELSE BI_MMAP_MAX
  OBVIOUS
<1>1. Len(m) \in Nat /\ BI_MMAP_MAX \in Nat /\ m \in [1 .. Len(m) -> Region]
  BY LenProperties, BootMemAssumption
<1>2. L \in Nat /\ n \in Nat /\ n <= L /\ n <= BI_MMAP_MAX /\ (n = L \/ n = BI_MMAP_MAX)
  BY <1>0, <1>1
<1>3. Kept(m) = SubSeq(m, 1, n)
  BY <1>0 DEF Kept
<1> HIDE DEF L
<1>4. ASSUME NEW i \in 1 .. n PROVE m[i] \in Region
  <2>1. i \in 1 .. L
    BY <1>2
  <2> QED BY <2>1, ElementOfSeq DEF L
<1>5. /\ SubSeq(m, 1, n) \in Seq(Region)
      /\ Len(SubSeq(m, 1, n)) = n
      /\ \A i \in 1 .. n : SubSeq(m, 1, n)[i] = m[i]
  BY <1>2, <1>4, SubSeqProperties
<1>6. DOMAIN SubSeq(m, 1, n) = 1 .. n
  BY <1>5, LenProperties
<1>7. 1 .. n = {i \in 1 .. L : i <= BI_MMAP_MAX}
  BY <1>1, <1>2
<1> QED BY <1>3, <1>5, <1>6, <1>7, Zenon DEF L

\* The inductive invariant.  Before the kernel runs boot services are there; the
\* key guards the map; later the use of the pages does not change any more.
BootTypes ==
    /\ use \in [Pages -> Use]
    /\ events \in Nat /\ key \in Int
    /\ mmap \in Seq(Region)
    /\ kernel \in Nat
    /\ early \in [base : Nat, end : Nat, current : Nat]
    /\ exited \in BOOLEAN /\ noMap \in BOOLEAN
MapGuarded ==
    /\ step \in {"load", "map", "exit", "kernel", "early", "buddy", "up", "dead"}
    /\ step \in {"load", "map", "exit"} => ~exited /\ ~noMap
    /\ step = "exit" => key <= events /\ (key = events => mmap = BuildMap(use))
    /\ step = "kernel" /\ ~noMap => exited /\ mmap = BuildMap(use)
    /\ step \in {"early", "buddy", "up"} /\ ~noMap => exited /\ mmap = Kept(BuildMap(use))
    /\ exited => ~noMap
KernelPlaced == step # "load" =>
    \A p \in kernel .. kernel + KernelSpan - 1 : p \in Pages /\ use[p] = "loader"
UsablePages == UNION {mmap[i].base .. mmap[i].base + mmap[i].len - 1 : i \in Usable}
EarlyPlaced ==
    /\ step \in {"buddy", "up"} => \E b \in Nat : early.base = b * PAGE_BYTES
    /\ step = "buddy" => early.current = early.base
    /\ step = "up" => free_pages = UsablePages \ ((kernel .. kernel + KernelSpan - 1) \cup EarlyPages(early))
BootInv == BootTypes /\ MapGuarded /\ KernelPlaced /\ EarlyPlaced

\* Rounding up stays within one alignment.
LEMMA UpBounds ==
    ASSUME NEW n \in Nat, NEW a \in Nat \ {0}
    PROVE  /\ Up(n, a) \in Nat /\ n <= Up(n, a) /\ Up(n, a) < n + a
           /\ Up(n, a) = a * ((n + a - 1) \div a) /\ Up(n, a) \div a = (n + a - 1) \div a
           /\ (n + a - 1) \div a \in Nat
<1> DEFINE m == n + a - 1
           q == m \div a
           r == m % a
<1>1. m \in Nat
  OBVIOUS
<1>2. q \in Int /\ r \in 0 .. a - 1 /\ m = a * q + r
  <2> HIDE DEF m
  <2>1. m \in Int
    BY <1>1
  <2> QED BY <2>1, DivMod, Zenon
<1>3. q \in Nat
  <2> SUFFICES ASSUME q < 0 PROVE FALSE
    BY <1>2
  <2> HIDE DEF m, q, r
  <2>1. a * q + a <= a * 0
    <3>1. 0 \in Int /\ q \in Int
      BY <1>2
    <3> QED BY <3>1, ProductGap, Zenon
  <2> QED BY <1>1, <1>2, <2>1
<1>4. a * q \in Nat /\ Up(n, a) = a * q
  <2>1. Up(n, a) = q * a
    BY DEF Up
  <2> HIDE DEF q
  <2> QED BY <1>3, <2>1
<1>5. (a * q) \div a = q
  <2>1. a * q \in Int /\ a * q = a * q + 0 /\ 0 \in 0 .. a - 1 /\ q \in Int
    BY <1>2, <1>4
  <2> HIDE DEF q
  <2> QED BY <2>1, DivModUnique
<1> HIDE DEF q, r
<1>6. n <= a * q /\ a * q < n + a
  BY <1>1, <1>2, <1>4
<1> QED BY <1>3, <1>4, <1>5, <1>6 DEF q

\* The loader and the firmware keep the invariant.
LEMMA LoaderKeeps ==
    ASSUME BootInv, load_kernel \/ (\E p \in Pages : FirmwareEvent(p)) \/ GetMemoryMap \/ ExitBootServices
    PROVE  BootInv'
<1>0. BootTypes /\ MapGuarded /\ KernelPlaced /\ EarlyPlaced
  BY DEF BootInv
<1>1. CASE load_kernel
  <2>1. PICK raw \in Runs(KernelSpan + KALIGN), info \in Pages, scratch \in Pages :
           LET u1 == Taken(use, raw, KernelSpan + KALIGN)
           IN  /\ u1[info] = "conventional" /\ u1[scratch] = "conventional"
               /\ use' = Taken(Taken(u1, info, 1), scratch, 1)
               /\ kernel' = Up(raw, KALIGN)
    BY <1>1 DEF load_kernel
  <2>2. /\ step = "load" /\ step' = "map"
        /\ UNCHANGED <<events, exited, attempt, key, mmap, early, free_pages, noMap>>
    BY <1>1 DEF load_kernel
  <2>3. raw \in Nat /\ raw \in Pages /\ \A q \in raw .. raw + (KernelSpan + KALIGN) - 1 : q \in Pages
    BY <2>1 DEF Runs, Pages
  <2>4. kernel' \in Nat /\ raw <= kernel' /\ kernel' < raw + KALIGN
    BY <2>1, <2>3, UpBounds, BootMemAssumption
  <2>5. use' \in [Pages -> Use] /\ \A q \in Pages : q \in raw .. raw + (KernelSpan + KALIGN) - 1 => use'[q] = "loader"
    <3>1. \A v : v \in [Pages -> Use] => \A p, n : Taken(v, p, n) \in [Pages -> Use]
      BY DEF Taken, Use
    <3>2. use' \in [Pages -> Use]
      BY <1>0, <2>1, <3>1 DEF BootTypes
    <3>3. ASSUME NEW q \in Pages, q \in raw .. raw + (KernelSpan + KALIGN) - 1 PROVE use'[q] = "loader"
      BY <2>1, <3>3 DEF Taken
    <3> QED BY <3>2, <3>3
  <2>6. KernelPlaced'
    <3>1. ASSUME NEW p \in kernel' .. kernel' + KernelSpan - 1 PROVE p \in Pages /\ use'[p] = "loader"
      <4>1. p \in raw .. raw + (KernelSpan + KALIGN) - 1
        BY <2>3, <2>4, BootMemAssumption
      <4> QED BY <2>3, <2>5, <4>1
    <3> QED BY <3>1 DEF KernelPlaced
  <2>7. BootTypes'
    BY <1>0, <2>2, <2>4, <2>5 DEF BootTypes
  <2>8. MapGuarded' /\ EarlyPlaced'
    BY <1>0, <2>2 DEF MapGuarded, EarlyPlaced
  <2> QED BY <2>6, <2>7, <2>8 DEF BootInv
<1>2. ASSUME NEW p \in Pages, FirmwareEvent(p) PROVE BootInv'
  <2>1. /\ ~exited /\ step \in {"map", "exit"} /\ use[p] \in {"conventional", "reserved"}
        /\ use' = [use EXCEPT ![p] = IF @ = "reserved" THEN "conventional" ELSE "reserved"]
        /\ events' = events + 1
        /\ UNCHANGED <<step, exited, attempt, key, mmap, kernel, early, free_pages, noMap>>
    BY <1>2 DEF FirmwareEvent
  <2>2. use' \in [Pages -> Use] /\ \A q \in Pages : use[q] = "loader" => use'[q] = "loader"
    BY <1>0, <2>1 DEF BootTypes, Use
  <2>3. BootTypes'
    BY <1>0, <2>1, <2>2 DEF BootTypes
  <2>4. KernelPlaced'
    BY <1>0, <2>1, <2>2 DEF KernelPlaced
  <2>5. MapGuarded'
    <3>1. step = "exit" => key <= events' /\ key # events'
      BY <1>0, <2>1 DEF MapGuarded, BootTypes
    <3> QED BY <1>0, <2>1, <3>1 DEF MapGuarded
  <2>6. EarlyPlaced'
    BY <2>1 DEF EarlyPlaced
  <2> QED BY <2>3, <2>4, <2>5, <2>6 DEF BootInv
<1>3. CASE GetMemoryMap
  <2>1. step = "map" /\ UNCHANGED <<use, events, exited, kernel, early, free_pages>>
    BY <1>3 DEF GetMemoryMap
  <2>2. KernelPlaced' /\ EarlyPlaced'
    <3>1. step' \in {"exit", "kernel", "map"}
      BY <1>3 DEF GetMemoryMap
    <3> QED BY <1>0, <2>1, <3>1 DEF KernelPlaced, EarlyPlaced
  <2>3. CASE mmap' = BuildMap(use) /\ key' = events /\ step' = "exit" /\ UNCHANGED <<attempt, noMap>>
    <3>1. BootTypes'
      BY <1>0, <2>1, <2>3, BuildMapIs DEF BootTypes
    <3>2. MapGuarded'
      BY <1>0, <2>1, <2>3 DEF MapGuarded, BootTypes
    <3> QED BY <2>2, <3>1, <3>2 DEF BootInv
  <2>4. CASE /\ noMap' = (attempt' = ATTEMPTS)
             /\ step' = (IF attempt' = ATTEMPTS THEN "kernel" ELSE "map")
             /\ UNCHANGED <<mmap, key>>
    <3>1. BootTypes'
      BY <1>0, <2>1, <2>4 DEF BootTypes
    <3>2. MapGuarded'
      BY <1>0, <2>1, <2>4 DEF MapGuarded
    <3> QED BY <2>2, <3>1, <3>2 DEF BootInv
  <2> QED BY <1>3, <2>3, <2>4 DEF GetMemoryMap
<1>4. CASE ExitBootServices
  <2>1. step = "exit" /\ UNCHANGED <<use, events, key, mmap, kernel, early, free_pages, noMap>>
    BY <1>4 DEF ExitBootServices
  <2>2. KernelPlaced' /\ EarlyPlaced'
    <3>1. step' \in {"dead", "kernel", "map"}
      BY <1>4 DEF ExitBootServices
    <3> QED BY <1>0, <2>1, <3>1 DEF KernelPlaced, EarlyPlaced
  <2>3. BootTypes'
    BY <1>0, <1>4, <2>1 DEF BootTypes, ExitBootServices
  <2>4. MapGuarded'
    BY <1>0, <1>4, <2>1 DEF MapGuarded, ExitBootServices
  <2> QED BY <2>2, <2>3, <2>4 DEF BootInv
<1> QED BY <1>1, <1>2, <1>3, <1>4

\* Regions of the map, as numbers.
LEMMA RegionsInMemory ==
    ASSUME BootTypes, NEW i \in DOMAIN mmap
    PROVE  /\ mmap[i].base \in Nat /\ mmap[i].len \in Nat /\ mmap[i].base + mmap[i].len <= NPhys
           /\ i \in Nat
<1>1. mmap[i] \in Region /\ i \in 1 .. Len(mmap)
  BY LenProperties DEF BootTypes
<1>2. i \in Nat
  BY <1>1
<1>3. mmap[i].base \in Nat /\ mmap[i].len \in Nat /\ mmap[i].base + mmap[i].len <= NPhys
  BY <1>1 DEF Region
<1> QED BY <1>2, <1>3

\* detect_page_count is a number.
LEMMA PageCountNat == ASSUME BootTypes PROVE detect_page_count \in Nat
<1> DEFINE ends == {mmap[i].base + mmap[i].len : i \in Usable} \cup {0}
<1>1. ends \subseteq Nat /\ \A e \in ends : e <= NPhys
  BY RegionsInMemory, BootMemAssumption DEF Usable
<1>2. \E e \in ends : \A x \in ends : x <= e
  <2>1. ends \in SUBSET Int /\ ends # {} /\ NPhys \in Int
    BY <1>1, BootMemAssumption
  <2> HIDE DEF ends
  <2> QED BY <1>1, <2>1, GreatestUpTo
<1>3. detect_page_count \in ends
  BY <1>2 DEF detect_page_count
<1> QED BY <1>1, <1>3

\* early_alloc_init finds the first of the largest usable regions.
LEMMA LargestExists ==
    ASSUME BootTypes, Usable # {}
    PROVE  LET largest == {i \in Usable : \A j \in Usable : mmap[j].len <= mmap[i].len}
           IN  \E x \in largest : \A y \in largest : x <= y
<1> DEFINE largest == {i \in Usable : \A j \in Usable : mmap[j].len <= mmap[i].len}
           lens == {mmap[i].len : i \in Usable}
<1>1. lens \subseteq Nat /\ \A n \in lens : n <= NPhys
  <2>1. \A i \in Usable : mmap[i].len \in Nat /\ mmap[i].len <= NPhys
    BY RegionsInMemory, BootMemAssumption DEF Usable
  <2> QED BY <2>1
<1>2. \E m \in lens : \A k \in lens : k <= m
  <2>1. lens \in SUBSET Int /\ lens # {} /\ NPhys \in Int
    BY <1>1, BootMemAssumption
  <2> HIDE DEF lens
  <2> QED BY <1>1, <2>1, GreatestUpTo
<1>3. PICK i \in Usable : \A j \in Usable : mmap[j].len <= mmap[i].len
  BY <1>2
<1>4. largest # {} /\ largest \in SUBSET Nat
  BY <1>3, RegionsInMemory DEF Usable
<1>5. \E x \in largest : \A y \in largest : x <= y
  <2> HIDE DEF largest
  <2> QED BY <1>4, LeastNat, Zenon
<1> QED BY <1>5

\* The kernel's steps keep the invariant.
LEMMA KernelKeeps ==
    ASSUME BootInv, boot_info_relocate \/ early_alloc_init \/ buddy_init_marks
    PROVE  BootInv'
<1>0. BootTypes /\ MapGuarded /\ KernelPlaced /\ EarlyPlaced
  BY DEF BootInv
<1>1. CASE boot_info_relocate
  <2>1. step = "kernel" /\ step' = "early" /\ mmap' = Kept(mmap)
        /\ UNCHANGED <<use, events, exited, attempt, key, kernel, early, free_pages, noMap>>
    BY <1>1 DEF boot_info_relocate, Kept
  <2>2. BootTypes'
    BY <1>0, <2>1, KeptIs DEF BootTypes
  <2>3. MapGuarded' /\ KernelPlaced' /\ EarlyPlaced'
    BY <1>0, <2>1 DEF MapGuarded, KernelPlaced, EarlyPlaced
  <2> QED BY <2>2, <2>3 DEF BootInv
<1>2. CASE early_alloc_init
  <2>1. step = "early" /\ UNCHANGED <<use, events, exited, attempt, key, mmap, kernel, free_pages, noMap>>
    BY <1>2 DEF early_alloc_init
  <2>2. \/ step' = "dead" /\ early' = early
        \/ /\ step' = "buddy"
           /\ \E b \in Nat, e \in Nat : early' = [base |-> b * PAGE_BYTES, end |-> e, current |-> b * PAGE_BYTES]
    <3>1. CASE Len(mmap) = 0
      BY <1>2, <3>1 DEF early_alloc_init
    <3>2. CASE Len(mmap) # 0 /\ Usable = {}
      <4>1. 0 = 0 * PAGE_BYTES
        BY BootMemAssumption
      <4>2. early' = [base |-> 0, end |-> 0, current |-> 0] /\ step' = "buddy"
        BY <1>2, <3>2 DEF early_alloc_init
      <4> QED BY <4>1, <4>2
    <3>3. CASE Len(mmap) # 0 /\ Usable # {}
      <4> DEFINE largest == {i \in Usable : \A j \in Usable : mmap[j].len <= mmap[i].len}
                 i == CHOOSE x \in largest : \A y \in largest : x <= y
      <4>1. \E x \in largest : \A y \in largest : x <= y
        BY <1>0, <3>3, LargestExists, Zenon
      <4>2. i \in DOMAIN mmap
        <5>1. i \in largest
          <6> HIDE DEF largest
          <6> QED BY <4>1
        <5> QED BY <5>1 DEF Usable
      <4>3. /\ step' = "buddy"
            /\ early' = [base |-> mmap[i].base * PAGE_BYTES,
                         end |-> (mmap[i].base + mmap[i].len) * PAGE_BYTES,
                         current |-> mmap[i].base * PAGE_BYTES]
        BY <1>2, <3>3 DEF early_alloc_init
      <4> HIDE DEF i
      <4>4. mmap[i].base \in Nat /\ mmap[i].len \in Nat
        BY <1>0, <4>2, RegionsInMemory
      <4>5. PICK x \in Nat, y \in Nat : x = mmap[i].base /\ y = mmap[i].len
        BY <4>4, Zenon
      <4>6. (x + y) * PAGE_BYTES \in Nat
        <5>1. PAGE_BYTES \in Nat
          BY BootMemAssumption
        <5>2. x + y \in Nat
          OBVIOUS
        <5> QED BY <5>1, <5>2
      <4> QED BY <4>3, <4>5, <4>6
    <3> QED BY <3>1, <3>2, <3>3
  <2>3. BootTypes'
    <3>1. early' \in [base : Nat, end : Nat, current : Nat]
      <4>1. PAGE_BYTES \in Nat
        BY BootMemAssumption
      <4>2. \A b \in Nat : b * PAGE_BYTES \in Nat
        BY <4>1
      <4>3. CASE early' = early
        BY <1>0, <4>3 DEF BootTypes
      <4>4. ASSUME NEW b \in Nat, NEW e \in Nat,
                   early' = [base |-> b * PAGE_BYTES, end |-> e, current |-> b * PAGE_BYTES]
            PROVE  early' \in [base : Nat, end : Nat, current : Nat]
        <5>1. PICK x \in Nat : x = b * PAGE_BYTES
          BY <4>2
        <5> QED BY <4>4, <5>1
      <4> QED BY <2>2, <4>3, <4>4
    <3> QED BY <1>0, <2>1, <3>1 DEF BootTypes
  <2>4. MapGuarded' /\ KernelPlaced'
    BY <1>0, <2>1, <2>2 DEF MapGuarded, KernelPlaced
  <2>5. EarlyPlaced'
    BY <2>2 DEF EarlyPlaced
  <2> QED BY <2>3, <2>4, <2>5 DEF BootInv
<1>3. CASE buddy_init_marks
  <2> DEFINE next == early.current + detect_page_count * PAGE_STRUCT
             e == [early EXCEPT !.current = next]
  <2>1. step = "buddy" /\ UNCHANGED <<use, events, exited, attempt, key, mmap, kernel, noMap>>
    BY <1>3 DEF buddy_init_marks
  <2>2. \/ step' = "dead" /\ UNCHANGED <<early, free_pages>>
        \/ /\ step' = "up" /\ early' = e
           /\ free_pages' = UsablePages \ ((kernel .. kernel + KernelSpan - 1) \cup EarlyPages(e))
    BY <1>3 DEF buddy_init_marks, UsablePages
  <2>3. next \in Nat
    <3>1. early.current \in Nat /\ detect_page_count \in Nat /\ PAGE_STRUCT \in Nat
      BY <1>0, PageCountNat, BootMemAssumption DEF BootTypes
    <3> QED BY <3>1
  <2> HIDE DEF next
  <2>4. e \in [base : Nat, end : Nat, current : Nat] /\ e.base = early.base
    BY <1>0, <2>3 DEF BootTypes
  <2> HIDE DEF e
  <2>5. BootTypes'
    BY <1>0, <2>1, <2>2, <2>4 DEF BootTypes
  <2>6. MapGuarded' /\ KernelPlaced'
    BY <1>0, <2>1, <2>2 DEF MapGuarded, KernelPlaced
  <2>7. EarlyPlaced'
    <3>1. UsablePages' = UsablePages
      BY <2>1 DEF UsablePages, Usable
    <3> QED BY <1>0, <2>1, <2>2, <2>4, <3>1 DEF EarlyPlaced, EarlyPages
  <2> QED BY <2>5, <2>6, <2>7 DEF BootInv
<1> QED BY <1>1, <1>2, <1>3

\* BootInv is an inductive invariant of the boot.
THEOREM BootInductive == BootMemSpec => []BootInv
<1>1. BootMemInit => BootInv
  <2> SUFFICES ASSUME BootMemInit PROVE BootInv
    OBVIOUS
  <2>1. use \in [Pages -> Use]
    BY BootMemAssumption DEF BootMemInit, Pages
  <2>2. BootTypes
    <3>1. mmap \in Seq(Region)
      BY EmptySeq DEF BootMemInit
    <3>2. events \in Nat /\ key \in Int /\ kernel \in Nat
      BY DEF BootMemInit
    <3>3. exited \in BOOLEAN /\ noMap \in BOOLEAN
      BY DEF BootMemInit
    <3>4. early \in [base : Nat, end : Nat, current : Nat]
      BY DEF BootMemInit
    <3> QED BY <2>1, <3>1, <3>2, <3>3, <3>4 DEF BootTypes
  <2>3. MapGuarded /\ KernelPlaced /\ EarlyPlaced
    BY DEF BootMemInit, MapGuarded, KernelPlaced, EarlyPlaced
  <2> QED BY <2>2, <2>3 DEF BootInv
<1>2. BootInv /\ [BootMemNext]_bootVars => BootInv'
  <2> SUFFICES ASSUME BootInv, [BootMemNext]_bootVars PROVE BootInv'
    OBVIOUS
  <2>1. CASE UNCHANGED bootVars
    BY <2>1 DEF BootInv, BootTypes, MapGuarded, KernelPlaced, EarlyPlaced, UsablePages, Usable, bootVars
  <2> QED BY <2>1, LoaderKeeps, KernelKeeps DEF BootMemNext
<1> QED BY <1>1, <1>2, PTL DEF BootMemSpec

\* The kernel never works with an outdated memory map: ExitBootServices accepts
\* only the key of the last one, for every map and every order of the firmware's
\* changes.
THEOREM MapStaysCurrent == BootMemSpec => []MapIsCurrent
<1>1. ASSUME BootInv PROVE MapIsCurrent
  <2> SUFFICES ASSUME step \in {"kernel", "early", "buddy", "up"}, ~noMap
               PROVE  exited /\ \A i \in DOMAIN mmap : mmap[i] = BuildMap(use)[i]
    BY DEF MapIsCurrent
  <2>1. exited /\ (mmap = BuildMap(use) \/ mmap = Kept(BuildMap(use)))
    BY <1>1 DEF BootInv, MapGuarded
  <2> QED BY <2>1, BuildMapIs, KeptIs
<1> QED BY <1>1, BootInductive, PTL

\* The early heap in bytes and in pages: EarlyPages are the pages InEarly means.
LEMMA EarlyPagesExact ==
    ASSUME NEW b \in Nat, NEW c \in Nat, NEW p \in Nat, early.base = b * PAGE_BYTES, early.current = c
    PROVE  p \in EarlyPages(early) <=> InEarly(p)
<1> DEFINE B == PAGE_BYTES
           k == (c + B - 1) \div B
<1>0. B \in Nat \ {0}
  BY BootMemAssumption
<1>1. k \in Nat /\ c <= B * k /\ B * k < c + B /\ Up(c, B) \div B = k
  <2> HIDE DEF B
  <2> QED BY <1>0, UpBounds
<1> HIDE DEF k
<1>2. (b * B) \div B = b
  <2> HIDE DEF B
  <2>1. b * B \in Int /\ b * B = B * b + 0 /\ 0 \in 0 .. B - 1 /\ b \in Int
    BY <1>0
  <2> QED BY <1>0, <2>1, DivModUnique
<1>3. EarlyPages(early) = b .. k - 1
  BY <1>1, <1>2 DEF EarlyPages
<1> HIDE DEF B
<1>4. b <= p <=> b * B < (p + 1) * B
  <2>1. CASE b <= p
    <3>1. B * b + B <= B * (p + 1)
      <4>1. b < p + 1 /\ b \in Int /\ p + 1 \in Int
        BY <2>1
      <4> QED BY <1>0, <4>1, ProductGap
    <3> QED BY <1>0, <2>1, <3>1
  <2>2. CASE ~(b <= p)
    <3>1. CASE p + 1 = b
      BY <1>0, <2>2, <3>1
    <3>2. CASE p + 1 < b
      <4>1. B * (p + 1) + B <= B * b
        <5>1. b \in Int /\ p + 1 \in Int
          OBVIOUS
        <5> QED BY <1>0, <3>2, <5>1, ProductGap
      <4> QED BY <1>0, <2>2, <4>1
    <3> QED BY <2>2, <3>1, <3>2
  <2> QED BY <2>1, <2>2
<1>5. p <= k - 1 <=> p * B < c
  <2>1. CASE p <= k - 1
    <3>1. B * p + B <= B * k
      <4>1. p < k /\ p \in Int /\ k \in Int
        BY <1>1, <2>1
      <4> QED BY <1>0, <4>1, ProductGap
    <3> QED BY <1>0, <1>1, <2>1, <3>1
  <2>2. CASE ~(p <= k - 1)
    <3>1. CASE p = k
      BY <1>0, <1>1, <2>2, <3>1
    <3>2. CASE k < p
      <4>1. B * k + B <= B * p
        <5>1. p \in Int /\ k \in Int
          BY <1>1
        <5> QED BY <1>0, <3>2, <5>1, ProductGap
      <4> QED BY <1>0, <1>1, <2>2, <4>1
    <3> QED BY <1>1, <2>2, <3>1, <3>2
  <2> QED BY <2>1, <2>2
<1>6. InEarly(p) <=> p * B < c /\ b * B < (p + 1) * B
  BY DEF InEarly, B
<1>7. p \in b .. k - 1 <=> b <= p /\ p <= k - 1
  BY <1>1
<1> QED BY <1>3, <1>4, <1>5, <1>6, <1>7

\* What the frame allocator starts with is what nobody uses: no page of the
\* kernel, the loader's hand-over, the early heap, the firmware or low memory is
\* free, and no page that could be is missing.
THEOREM FreeStaysUnused == BootMemSpec => []FreeIsUnused
<1>1. ASSUME BootInv PROVE FreeIsUnused
  <2> SUFFICES ASSUME step = "up", exited
               PROVE  /\ \A p \in kernel .. kernel + KernelSpan - 1 : use[p] = "loader"
                      /\ \A p \in free_pages : use[p] \in {"conventional", "services"} /\ p >= LOW /\ ~InEarly(p)
                      /\ LET d == Descriptors(use)
                             told == {i \in DOMAIN d : i <= BI_MMAP_MAX /\ d[i].start >= LOW
                                                       /\ d[i].type \in {"conventional", "services"}}
                         IN  \A i \in told : \A p \in d[i].start .. d[i].start + d[i].pages - 1 :
                                p \in free_pages \/ InEarly(p)
    BY DEF FreeIsUnused
  <2> DEFINE m == BuildMap(use)
             d == Descriptors(use)
             kernelPages == kernel .. kernel + KernelSpan - 1
  <2>1. BootTypes /\ mmap = Kept(m)
    BY <1>1 DEF BootInv, MapGuarded
  <2>2. \A p \in kernelPages : use[p] = "loader"
    BY <1>1 DEF BootInv, KernelPlaced
  <2>3. PICK b \in Nat : early.base = b * PAGE_BYTES
    BY <1>1 DEF BootInv, EarlyPlaced
  <2>4. early.current \in Nat
    BY <2>1 DEF BootTypes
  <2>5. \A p \in Nat : p \in EarlyPages(early) <=> InEarly(p)
    BY <2>3, <2>4, EarlyPagesExact
  <2>6. free_pages = UsablePages \ (kernelPages \cup EarlyPages(early))
    BY <1>1 DEF BootInv, EarlyPlaced
  \* The pages of a usable region.
  <2>7. ASSUME NEW i \in DOMAIN mmap
        PROVE  /\ i \in 1 .. Len(m) /\ i <= BI_MMAP_MAX /\ mmap[i] = m[i]
               /\ Describes(d[i], use)
               /\ mmap[i].base = d[i].start /\ mmap[i].len = d[i].pages
               /\ mmap[i].usable = (d[i].type \in {"conventional", "services"} /\ d[i].start >= LOW)
    <3>1. i \in 1 .. Len(m) /\ i <= BI_MMAP_MAX /\ mmap[i] = m[i]
      BY <2>1, BuildMapIs, KeptIs
    <3> QED BY <3>1, BuildMapIs
  <2>8. ASSUME NEW p \in free_pages
        PROVE  use[p] \in {"conventional", "services"} /\ p >= LOW /\ ~InEarly(p)
    <3>1. PICK i \in Usable : p \in mmap[i].base .. mmap[i].base + mmap[i].len - 1
      BY <2>6 DEF UsablePages
    <3>2. i \in DOMAIN mmap /\ mmap[i].usable
      BY DEF Usable
    <3> HIDE DEF d, m
    <3>3. Describes(d[i], use) /\ d[i].type \in {"conventional", "services"} /\ d[i].start >= LOW
          /\ p \in d[i].start .. d[i].start + d[i].pages - 1
      BY <2>7, <3>1, <3>2
    <3>4. p \in Pages /\ use[p] = d[i].type
      BY <3>3 DEF Describes
    <3>5. d[i].start \in Nat /\ d[i].pages \in Nat /\ p \in Nat /\ LOW \in Nat
      BY <3>3, <3>4, BootMemAssumption DEF Describes, Pages
    <3>6. p >= LOW
      BY <3>3, <3>5
    <3> QED BY <2>5, <2>6, <3>3, <3>4, <3>5, <3>6
  <2>9. ASSUME NEW i \in DOMAIN d, i <= BI_MMAP_MAX, d[i].start >= LOW, d[i].type \in {"conventional", "services"},
               NEW p \in d[i].start .. d[i].start + d[i].pages - 1
        PROVE  p \in free_pages \/ InEarly(p)
    <3>1. i \in 1 .. Len(m) /\ m \in Seq(Region)
      BY BuildMapIs
    <3>2. i \in DOMAIN mmap
      <4> HIDE DEF m, d
      <4> QED BY <2>1, <2>9, <3>1, KeptIs
    <3> HIDE DEF d, m
    <3>3. i \in Usable /\ p \in mmap[i].base .. mmap[i].base + mmap[i].len - 1
      BY <2>7, <2>9, <3>2 DEF Usable
    <3>4. p \in UsablePages
      BY <3>3 DEF UsablePages
    <3>5. p \in Nat /\ use[p] = d[i].type
      BY <2>7, <3>2 DEF Describes, Pages
    <3>6. p \notin kernelPages
      BY <2>2, <2>9, <3>5
    <3> QED BY <2>5, <2>6, <3>4, <3>5, <3>6
  <2> HIDE DEF d, m
  <2> QED BY <2>2, <2>8, <2>9 DEF d
<1> QED BY <1>1, BootInductive, PTL
=============================================================================
