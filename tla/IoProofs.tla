------------------------------ MODULE IoProofs ------------------------------
(* Proofs about the parts of module MCIo: sleeps, the block cache, and the   *)
(* allocator and the sort of the user library.                               *)
EXTENDS BlkCache, Sleep, UserLib, NatFacts, SequenceTheorems, FiniteSetTheorems

-----------------------------------------------------------------------------
(* Sleep *)

\* A sum that passed the range of a u32 is stored as less than where it began.
LEMMA WrapsBelow ==
    ASSUME NEW a \in Nat, NEW m \in Nat, NEW d \in Nat \ {0}, m < d
    PROVE  /\ a + m < d => (a + m) % d = a + m
           /\ a + m >= d => (a + m) % d < a
<1> DEFINE s == a + m
           q == s \div d
           r == s % d
<1>1. s \in Int /\ s = a + m
  OBVIOUS
<1>2. ASSUME s < d PROVE s % d = s
  <2>1. s \in 0 .. d - 1
    BY <1>2
  <2> HIDE DEF s
  <2> QED
    BY <2>1, ModSmall
<1> HIDE DEF s
<1>3. q \in Int /\ r \in 0 .. d - 1 /\ s = d * q + r
  BY <1>1, DivMod
<1> HIDE DEF q
<1>4. ASSUME s >= d PROVE r < a
  <2>1. q > 0
    <3> SUFFICES ASSUME q < 1 PROVE FALSE
      BY <1>3
    <3>1. d * q + d <= d * 1
      BY <1>3, ProductGap
    <3> QED
      BY <3>1, <1>3, <1>4
  <2>2. d * 0 + d <= d * q
    BY <2>1, <1>3, ProductGap
  <2> QED
    BY <2>2, <1>1, <1>3
<1> QED
  BY <1>1, <1>2, <1>4

\* A sleeper has its end in sleep_until, reduced to 32 bits, and is either not yet
\* past the tick it began at, or its end is within the range and still to come.
SleepInv ==
    /\ uptime \in Nat /\ waiting \subseteq Sleeper
    /\ sleep_until \in [Sleeper -> Nat]
    /\ asked \in [Sleeper -> [at : Nat, ms : 0 .. U32 - 1]]
    /\ \A t \in waiting :
          /\ sleep_until[t] = EndsAt(t) % U32
          /\ asked[t].at <= uptime
          /\ uptime = asked[t].at \/ (EndsAt(t) < U32 /\ uptime < EndsAt(t))

\* A tick: who is over wakes, and only who is over.
LEMMA TickKeeps ==
    ASSUME SleepInv, task_tick
    PROVE  /\ SleepInv'
           /\ \A t \in waiting' : uptime' < EndsAt(t)' \/ uptime' = asked'[t].at
           /\ \A t \in waiting \ waiting' :
                 IF EndsAt(t) < U32 THEN uptime' >= EndsAt(t) ELSE uptime' = asked[t].at + 1
<1>1. /\ uptime' = uptime + 1 /\ asked' = asked /\ sleep_until' = sleep_until
      /\ waiting' = {t \in waiting : ~ (uptime' >= sleep_until[t])}
  BY DEF task_tick, Over
<1>2. ASSUME NEW t \in waiting
      PROVE  /\ EndsAt(t) \in Nat /\ EndsAt(t)' = EndsAt(t) /\ asked[t].at \in Nat
             /\ EndsAt(t) < U32 => sleep_until[t] = EndsAt(t)
             /\ EndsAt(t) >= U32 => sleep_until[t] < asked[t].at
             /\ sleep_until[t] \in Nat
  <2>1. asked[t].at \in Nat /\ asked[t].ms \in Nat /\ asked[t].ms < U32 /\ U32 \in Nat \ {0}
    BY SleepAssumption DEF SleepInv
  <2>2. EndsAt(t) = asked[t].at + asked[t].ms /\ EndsAt(t)' = EndsAt(t)
    BY <1>1 DEF EndsAt
  <2>3. sleep_until[t] = (asked[t].at + asked[t].ms) % U32 /\ sleep_until[t] \in Nat
    BY <2>2 DEF SleepInv
  <2> DEFINE a == asked[t].at
             m == asked[t].ms
  <2> HIDE DEF a, m
  <2>4. /\ a + m < U32 => (a + m) % U32 = a + m
        /\ a + m >= U32 => (a + m) % U32 < a
    BY <2>1, WrapsBelow DEF a, m
  <2> QED
    BY <2>1, <2>2, <2>3, <2>4 DEF a, m
<1>3. U32 \in Nat
  BY SleepAssumption
<1>4. ASSUME NEW t \in waiting'
      PROVE  /\ t \in waiting /\ sleep_until[t] = EndsAt(t) % U32 /\ asked[t].at <= uptime'
             /\ EndsAt(t) < U32 /\ uptime' < EndsAt(t)
  <2>1. t \in waiting /\ ~ (uptime' >= sleep_until[t])
    BY <1>1
  <2>2. EndsAt(t) < U32
    BY <1>1, <1>2, <1>3, <2>1 DEF SleepInv
  <2> QED
    BY <1>1, <1>2, <1>3, <2>1, <2>2 DEF SleepInv
<1>5. ASSUME NEW t \in waiting \ waiting'
      PROVE  IF EndsAt(t) < U32 THEN uptime' >= EndsAt(t) ELSE uptime' = asked[t].at + 1
  BY <1>1, <1>2, <1>3 DEF SleepInv
<1>6. SleepInv'
  <2>1. \A t \in waiting' : EndsAt(t)' = EndsAt(t)
    BY <1>2, <1>4
  <2> QED
    BY <1>1, <1>3, <1>4, <2>1 DEF SleepInv
<1> QED
  BY <1>2, <1>4, <1>5, <1>6

\* sys_sleep.
LEMMA SleepKeeps ==
    ASSUME SleepInv, NEW t \in Sleeper, NEW ms \in Ms, task_sleep(t, ms)
    PROVE  /\ SleepInv' /\ waiting \subseteq waiting'
           /\ \A x \in waiting' : uptime' < EndsAt(x)' \/ uptime' = asked'[x].at
<1>1. /\ uptime' = uptime /\ waiting' = waiting \cup {t} /\ t \notin waiting
      /\ asked' = [asked EXCEPT ![t] = [at |-> uptime, ms |-> ms]]
      /\ sleep_until' = [sleep_until EXCEPT ![t] = (uptime + ms) % U32]
      /\ ms \in 0 .. U32 - 1 /\ U32 \in Nat \ {0}
  BY SleepAssumption DEF task_sleep
<1>2. (uptime + ms) % U32 \in Nat
  <2> DEFINE s == uptime + ms
  <2>1. s \in Int
    BY <1>1 DEF SleepInv
  <2> HIDE DEF s
  <2>2. s % U32 \in Nat
    BY <1>1, <2>1, DivMod
  <2> QED
    BY <2>2 DEF s
<1>3. ASSUME NEW x \in waiting PROVE asked'[x] = asked[x] /\ sleep_until'[x] = sleep_until[x]
  BY <1>1 DEF SleepInv
<1>4. asked'[t] = [at |-> uptime, ms |-> ms] /\ sleep_until'[t] = (uptime + ms) % U32
  BY <1>1 DEF SleepInv
<1>5. \A x \in waiting' :
          /\ sleep_until'[x] = EndsAt(x)' % U32
          /\ asked'[x].at <= uptime'
          /\ uptime' = asked'[x].at \/ (EndsAt(x)' < U32 /\ uptime' < EndsAt(x)')
  <2>1. ASSUME NEW x \in waiting
        PROVE  /\ sleep_until'[x] = EndsAt(x)' % U32 /\ asked'[x].at <= uptime'
               /\ uptime' = asked'[x].at \/ (EndsAt(x)' < U32 /\ uptime' < EndsAt(x)')
    <3>1. EndsAt(x)' = EndsAt(x)
      BY <1>3 DEF EndsAt
    <3> QED
      BY <1>1, <1>3, <3>1 DEF SleepInv
  <2>2. sleep_until'[t] = EndsAt(t)' % U32 /\ asked'[t].at = uptime'
    BY <1>1, <1>4 DEF EndsAt
  <2> QED
    BY <1>1, <2>1, <2>2 DEF SleepInv
<1>6. asked' \in [Sleeper -> [at : Nat, ms : 0 .. U32 - 1]] /\ sleep_until' \in [Sleeper -> Nat]
  BY <1>1, <1>2 DEF SleepInv
<1>7. SleepInv'
  BY <1>1, <1>5, <1>6 DEF SleepInv
<1> QED
  BY <1>1, <1>5, <1>7

\* For every width of sleep_until, every uptime and every length: a sleeper wakes at
\* the tick it asked for, or, once the sum of task_sleep passed the width, at the
\* next one; and nobody sleeps on (task.c task_sleep, task_tick).
THEOREM SleepsEndAsAsked == SleepSpec => SleepsAsAsked
<1>1. SleepInit => SleepInv
  BY SleepAssumption DEF SleepInit, SleepInv
<1> DEFINE Good == /\ \A t \in waiting' : uptime' < EndsAt(t)' \/ uptime' = asked'[t].at
                   /\ \A t \in waiting \ waiting' :
                         IF EndsAt(t) < U32 THEN uptime' >= EndsAt(t) ELSE uptime' = asked[t].at + 1
<1>2. SleepInv /\ [SleepNext]_sleepVars => SleepInv' /\ [Good]_sleepVars
  <2> SUFFICES ASSUME SleepInv, [SleepNext]_sleepVars PROVE SleepInv' /\ [Good]_sleepVars
    OBVIOUS
  <2>1. CASE task_tick
    BY <2>1, TickKeeps
  <2>2. ASSUME NEW t \in Sleeper, NEW ms \in Ms, task_sleep(t, ms) PROVE SleepInv' /\ Good
    BY <2>2, SleepKeeps
  <2>3. CASE UNCHANGED sleepVars
    BY <2>3 DEF sleepVars, SleepInv, EndsAt
  <2> QED
    BY <2>1, <2>2, <2>3 DEF SleepNext
<1> QED
  BY <1>1, <1>2, PTL DEF SleepSpec, SleepsAsAsked

-----------------------------------------------------------------------------
(* The block cache *)

Device == [name : Nat, start : Nat, count : Nat]
\* The devices of a disk of that many sectors: a partition lies inside it.
DeviceIn(total) == {d \in Device : d.start + d.count <= total}
CacheLine == [dev : Nat, sector : Nat, lru : Nat, valid : BOOLEAN, data : Datum]

\* What CacheCoherent needs: every device lies on the disk, a valid line is for a
\* sector of a device, and before the disk is there nothing is cached.
BlkInv ==
    /\ bcache \in [Line -> CacheLine]
    /\ \E total \in Nat :
          /\ medium \in [0 .. total - 1 -> Datum]
          /\ blk_devs \in Seq(DeviceIn(total))
    /\ \A i \in Line : bcache[i].valid =>
          /\ bcache[i].dev \in Dev
          /\ bcache[i].sector \in DOMAIN medium
          /\ bcache[i].sector < blk_devs[bcache[i].dev].count
    /\ blk_devs = <<>> => stale = {}
    /\ CacheCoherent

\* Registering: mbr_scan keeps to the disk.
LEMMA ScanInside ==
    ASSUME NEW mbr \in Mbr, NEW total \in Nat
    PROVE  mbr_scan(mbr, total) \in Seq(DeviceIn(total))
<1> DEFINE n == Len(mbr.parts)
           gpt == {i \in 1 .. n : mbr_partition_is_used(mbr.parts[i]) /\ mbr.parts[i].type = "gpt"}
           stop == IF gpt = {} THEN n ELSE (CHOOSE i \in gpt : \A j \in gpt : i <= j) - 1
           Fits(i) == mbr_partition_is_used(mbr.parts[i]) /\ mbr.parts[i].start + mbr.parts[i].count <= total
           part(i) == [name |-> i, start |-> mbr.parts[i].start, count |-> mbr.parts[i].count]
           next(i, s) == IF Fits(i) THEN Append(s, part(i)) ELSE s
           R(g) == [i \in 0 .. stop |-> IF i = 0 THEN <<>> ELSE next(i, g[i - 1])]
           scan == CHOOSE g : g = R(g)
           X == Seq(DeviceIn(total))
           step == [i \in 1 .. stop |-> [s \in X |-> next(i, s)]]
<1>1. mbr.parts \in Seq([type : STRING, start : Nat, count : Nat]) /\ n \in Nat
  BY BlkAssumption
<1>2. stop \in Nat /\ stop <= n
  <2>1. CASE gpt = {}
    BY <1>1, <2>1
  <2>2. CASE gpt # {}
    <3>1. gpt \in SUBSET Nat /\ gpt \subseteq 1 .. n
      BY <1>1
    <3> HIDE DEF gpt
    <3>2. \E i \in gpt : \A j \in gpt : i <= j
      BY <2>2, <3>1, LeastNat
    <3> DEFINE first == CHOOSE i \in gpt : \A j \in gpt : i <= j
    <3>3. first \in gpt
      BY <3>2
    <3>4. stop = first - 1
      BY <2>2
    <3> HIDE DEF first, stop, n
    <3> QED
      BY <1>1, <3>1, <3>3, <3>4
  <2> QED
    BY <2>1, <2>2
<1> HIDE DEF stop
<1>3. \A i \in 1 .. stop : Fits(i) => part(i) \in DeviceIn(total)
  <2> SUFFICES ASSUME NEW i \in 1 .. stop, Fits(i) PROVE part(i) \in DeviceIn(total)
    OBVIOUS
  <2>1. mbr.parts[i] \in [type : STRING, start : Nat, count : Nat]
    <3>1. i \in 1 .. n
      BY <1>1, <1>2
    <3> DEFINE E == [type : STRING, start : Nat, count : Nat]
    <3> HIDE DEF E
    <3>2. mbr.parts[i] \in E
      BY <1>1, <3>1, ElementOfSeq DEF E
    <3> QED
      BY <3>2 DEF E
  <2> QED
    BY <2>1, <1>2 DEF DeviceIn, Device
<1> HIDE DEF Fits, part
<1>4. \A i \in 1 .. stop, s \in X : next(i, s) \in X
  BY <1>3, AppendProperties
<1>5. <<>> \in X
  OBVIOUS
<1> HIDE DEF X, next
<1>6. step \in [1 .. stop -> [X -> X]]
  BY <1>4
<1>7. \A i \in 1 .. stop, s \in X : step[i][s] = next(i, s)
  OBVIOUS
<1> HIDE DEF step
<1>8. PICK f : IsRecursion(f, stop, X, <<>>, step)
  BY <1>2, <1>5, <1>6, RecursionExists, Zenon
<1>9. f \in [0 .. stop -> X] /\ f[0] = <<>> /\ \A i \in 1 .. stop : f[i] = step[i][f[i - 1]]
  BY <1>8 DEF IsRecursion
<1>10. f = R(f)
  <2>1. \A i \in 1 .. stop : f[i] = next(i, f[i - 1])
    BY <1>2, <1>7, <1>9
  <2> QED
    BY <1>2, <1>9, <2>1
<1> HIDE DEF R
<1>11. scan = R(scan)
  BY <1>10, Zenon
<1>12. mbr_scan(mbr, total) = IF mbr.valid THEN scan[stop] ELSE <<>>
  BY Zenon DEF mbr_scan, R, stop, Fits, part, next
<1> HIDE DEF scan
<1>13. scan[0] = <<>> /\ \A i \in 1 .. stop : scan[i] = next(i, scan[i - 1])
  BY <1>2, <1>11 DEF R
<1> DEFINE T == {i \in 0 .. stop : scan[i] \in X}
<1>14. 0 \in T
  BY <1>2, <1>5, <1>13
<1>15. \A i \in 1 .. stop : i - 1 \in T => i \in T
  BY <1>2, <1>4, <1>13
<1> HIDE DEF T
<1>16. 0 .. stop \subseteq T
  BY <1>2, <1>14, <1>15, IntervalInduction
<1>17. scan[stop] \in X
  BY <1>2, <1>16 DEF T
<1> QED
  BY <1>5, <1>12, <1>17 DEF X

\* Making line i the most recent one changes the stamps, and line i to what is given.
LEMMA TouchedLines ==
    ASSUME bcache \in [Line -> CacheLine], NEW i, NEW line \in CacheLine
    PROVE  /\ Touched(i, line) \in [Line -> CacheLine]
           /\ \A j \in Line :
                 LET b == IF j = i THEN line ELSE bcache[j]
                 IN  /\ Touched(i, line)[j].dev = b.dev
                     /\ Touched(i, line)[j].sector = b.sector
                     /\ Touched(i, line)[j].valid = b.valid
                     /\ Touched(i, line)[j].data = b.data
<1> DEFINE lru(j) == IF j = i THEN BCACHE_LINES + 1 ELSE bcache[j].lru
           older(j) == {x \in Line : lru(x) < lru(j)}
           rank(j) == Cardinality({lru(k) : k \in older(j)})
           base(j) == IF j = i THEN line ELSE bcache[j]
<1>1. Touched(i, line) = [j \in Line |-> [base(j) EXCEPT !.lru = rank(j)]]
  BY DEF Touched
<1>2. ASSUME NEW j \in Line PROVE rank(j) \in Nat
  <2>1. IsFiniteSet(Line)
    <3>1. 0 \in Int /\ BCACHE_LINES - 1 \in Int
      BY BlkAssumption
    <3> QED
      BY <3>1, FS_Interval DEF Line
  <2>2. IsFiniteSet(older(j))
    <3>1. older(j) \in SUBSET Line
      OBVIOUS
    <3> HIDE DEF older
    <3> QED
      BY <2>1, <3>1, FS_Subset
  <2> DEFINE f == [k \in older(j) |-> lru(k)]
             S == {lru(k) : k \in older(j)}
  <2>3. f \in Surjection(older(j), S)
    BY DEF Surjection
  <2> HIDE DEF older, lru, f, S
  <2>4. IsFiniteSet(S)
    BY <2>2, <2>3, FS_Surjection
  <2> QED
    BY <2>4, FS_CardinalityType DEF S
<1>3. \A j \in Line : base(j) \in CacheLine
  OBVIOUS
<1> HIDE DEF base, rank
<1>4. \A j \in Line :
         /\ [base(j) EXCEPT !.lru = rank(j)] \in CacheLine
         /\ [base(j) EXCEPT !.lru = rank(j)].dev = base(j).dev
         /\ [base(j) EXCEPT !.lru = rank(j)].sector = base(j).sector
         /\ [base(j) EXCEPT !.lru = rank(j)].valid = base(j).valid
         /\ [base(j) EXCEPT !.lru = rank(j)].data = base(j).data
  BY <1>2, <1>3 DEF CacheLine
<1>5. Touched(i, line) \in [Line -> CacheLine]
  BY <1>1, <1>4
<1>6. \A j \in Line : Touched(i, line)[j] = [base(j) EXCEPT !.lru = rank(j)]
  BY <1>1
<1> QED
  BY <1>4, <1>5, <1>6 DEF base

\* Line j of new holds what it held.
SameLine(new, j) ==
    /\ new[j].dev = bcache[j].dev /\ new[j].sector = bcache[j].sector
    /\ new[j].valid = bcache[j].valid /\ new[j].data = bcache[j].data

\* Line i of new is for that sector, and no other line is.
IsStore(new, i, dev, sector, data) ==
    \A j \in Line :
        IF j = i
        THEN new[j].dev = dev /\ new[j].sector = sector /\ new[j].valid = TRUE /\ new[j].data = data
        ELSE /\ SameLine(new, j)
             /\ ~ (bcache[j].valid /\ bcache[j].dev = dev /\ bcache[j].sector = sector)

\* A store changes one line, and leaves no other line with its key.
LEMMA StoreLines ==
    ASSUME BlkInv, NEW dev \in Nat, NEW sector \in Nat, NEW data \in Datum
    PROVE  /\ bcache_store(dev, sector, data) \in [Line -> CacheLine]
           /\ \E i : IsStore(bcache_store(dev, sector, data), i, dev, sector, data)
<1> DEFINE hit == bcache_find(dev, sector)
           i == IF hit = {} THEN bcache_victim ELSE CHOOSE x \in hit : TRUE
           line == [dev |-> dev, sector |-> sector, lru |-> 0, valid |-> TRUE, data |-> data]
           new == bcache_store(dev, sector, data)
<1>1. new = Touched(i, line) /\ line \in CacheLine
  BY DEF bcache_store, CacheLine
<1>2. ASSUME NEW j \in Line, bcache[j].valid, bcache[j].dev = dev, bcache[j].sector = sector
      PROVE  j = i
  <2>1. j \in hit
    BY <1>2 DEF bcache_find
  <2>2. i \in hit
    BY <2>1
  <2>3. /\ i \in Line /\ bcache[i].valid
        /\ bcache[i].dev = bcache[j].dev /\ bcache[i].sector = bcache[j].sector
    BY <1>2, <2>2 DEF bcache_find
  <2> HIDE DEF i
  <2> QED
    BY <1>2, <2>3 DEF BlkInv, CacheCoherent
<1>3. line.dev = dev /\ line.sector = sector /\ line.valid = TRUE /\ line.data = data
  OBVIOUS
<1> HIDE DEF i, line, new
<1>4. /\ new \in [Line -> CacheLine]
      /\ \A j \in Line : LET b == IF j = i THEN line ELSE bcache[j]
                         IN  /\ new[j].dev = b.dev /\ new[j].sector = b.sector
                             /\ new[j].valid = b.valid /\ new[j].data = b.data
  BY <1>1, TouchedLines DEF BlkInv
<1>5. IsStore(new, i, dev, sector, data)
  BY <1>2, <1>3, <1>4 DEF IsStore, SameLine
<1> QED
  BY <1>4, <1>5 DEF new

\* The address registers never lead off the disk.
LEMMA PhysInside ==
    ASSUME BlkInv, NEW d \in Dev, NEW s \in Nat, s < blk_devs[d].count
    PROVE  Phys(d, s) \in DOMAIN medium
<1>1. PICK total \in Nat : medium \in [0 .. total - 1 -> Datum] /\ blk_devs \in Seq(DeviceIn(total))
  BY DEF BlkInv
<1>2. blk_devs[d] \in DeviceIn(total)
  BY <1>1, ElementOfSeq, LenProperties DEF Dev
<1> DEFINE a == blk_devs[d].start + s
<1>3. a \in Nat /\ a < total /\ LBA_LIMIT \in Nat \ {0}
  BY <1>2, BlkAssumption DEF DeviceIn, Device
<1>4. Phys(d, s) = a % LBA_LIMIT
  BY DEF Phys, ata_setup_lba
<1> HIDE DEF a
<1>5. a % LBA_LIMIT \in 0 .. total - 1
  <2>1. a % LBA_LIMIT \in 0 .. LBA_LIMIT - 1
    BY <1>3, DivMod
  <2>2. a < LBA_LIMIT => a % LBA_LIMIT = a
    BY <1>3, ModSmall
  <2> QED
    BY <1>3, <2>1, <2>2
<1> QED
  BY <1>1, <1>4, <1>5

\* A read: a hit, a miss, a failure.
LEMMA BlkReadKeeps ==
    ASSUME BlkInv, NEW dev \in Dev, NEW sector \in DOMAIN medium, NEW n \in 1 .. MaxCount,
           blk_dev_read(dev, sector, n)
    PROVE  BlkInv'
<1>1. blk_devs' = blk_devs /\ medium' = medium /\ Dev' = Dev
      /\ \A d, s : Phys(d, s)' = Phys(d, s)
  BY DEF blk_dev_read, Dev, Phys
<1>2. CASE UNCHANGED <<bcache, stale>>
  BY <1>1, <1>2 DEF BlkInv, CacheCoherent, Line
<1>3. dev \in Nat /\ sector \in Nat
  <2>1. PICK total \in Nat : medium \in [0 .. total - 1 -> Datum] /\ blk_devs \in Seq(DeviceIn(total))
    BY DEF BlkInv
  <2> QED
    BY <2>1, LenProperties DEF Dev
<1>4. ASSUME NEW i \in bcache_find(dev, sector), bcache' = Touched(i, bcache[i]), stale' = stale
      PROVE  BlkInv'
  <2>1. i \in Line
    BY DEF bcache_find
  <2>2. /\ bcache' \in [Line -> CacheLine]
        /\ \A j \in Line : SameLine(bcache', j)
    BY <1>4, <2>1, TouchedLines DEF BlkInv, SameLine
  <2>3. CacheCoherent'
    <3>1. \A j \in Line : bcache'[j].valid /\ <<bcache'[j].dev, bcache'[j].sector>> \notin stale' =>
             bcache'[j].data = medium[Phys(bcache'[j].dev, bcache'[j].sector)]
      BY <1>1, <1>4, <2>2 DEF BlkInv, CacheCoherent, SameLine
    <3>2. \A j, k \in Line : bcache'[j].valid /\ bcache'[k].valid /\ bcache'[j].dev = bcache'[k].dev
                              /\ bcache'[j].sector = bcache'[k].sector => j = k
      BY <2>2 DEF BlkInv, CacheCoherent, SameLine
    <3> QED
      BY <1>1, <3>1, <3>2 DEF CacheCoherent, Line
  <2> QED
    BY <1>1, <1>4, <2>2, <2>3 DEF BlkInv, Line, SameLine
<1>5. ASSUME bcache' = bcache_store(dev, sector, medium[Phys(dev, sector)]), n = 1,
             stale' = stale \ {<<dev, sector>>}
      PROVE  BlkInv'
  <2> DEFINE data == medium[Phys(dev, sector)]
  <2>1. sector < blk_devs[dev].count
    <3>1. sector + 1 <= blk_devs[dev].count /\ blk_devs[dev].count \in Nat
      <4>1. PICK total \in Nat : blk_devs \in Seq(DeviceIn(total))
        BY DEF BlkInv
      <4>2. blk_devs[dev] \in DeviceIn(total)
        BY <4>1, ElementOfSeq, LenProperties DEF Dev
      <4> QED
        BY <1>5, <4>2 DEF blk_dev_read, InDev, DeviceIn, Device
    <3> QED
      BY <1>3, <3>1
  <2>2. data \in Datum
    BY <1>3, <2>1, PhysInside DEF BlkInv
  <2> HIDE DEF data
  <2>3. bcache' \in [Line -> CacheLine] /\ \E i : IsStore(bcache', i, dev, sector, data)
    <3>1. bcache' = bcache_store(dev, sector, data)
      BY <1>5 DEF data
    <3> QED
      BY <1>3, <2>2, <3>1, StoreLines, Zenon
  <2>4. PICK i : IsStore(bcache', i, dev, sector, data)
    BY <2>3
  <2>5. \A j \in Line : bcache'[j].valid =>
          /\ bcache'[j].dev \in Dev
          /\ bcache'[j].sector \in DOMAIN medium
          /\ bcache'[j].sector < blk_devs[bcache'[j].dev].count
    BY <2>1, <2>4 DEF BlkInv, IsStore, SameLine
  <2>6. ASSUME NEW j \in Line, bcache'[j].valid, <<bcache'[j].dev, bcache'[j].sector>> \notin stale'
        PROVE  bcache'[j].data = medium[Phys(bcache'[j].dev, bcache'[j].sector)]
    <3>1. CASE j = i
      BY <2>4, <3>1 DEF data, IsStore
    <3>2. CASE j # i
      <4>1. /\ bcache'[j].dev = bcache[j].dev /\ bcache'[j].sector = bcache[j].sector
            /\ bcache[j].valid /\ bcache'[j].data = bcache[j].data
            /\ ~ (bcache[j].dev = dev /\ bcache[j].sector = sector)
        BY <2>4, <2>6, <3>2 DEF IsStore, SameLine
      <4>2. <<bcache[j].dev, bcache[j].sector>> \notin stale
        BY <1>5, <2>6, <4>1
      <4> QED
        BY <4>1, <4>2 DEF BlkInv, CacheCoherent
    <3> QED
      BY <3>1, <3>2
  <2>7. \A j, k \in Line : bcache'[j].valid /\ bcache'[k].valid /\ bcache'[j].dev = bcache'[k].dev
                         /\ bcache'[j].sector = bcache'[k].sector => j = k
    BY <2>4 DEF BlkInv, CacheCoherent, IsStore, SameLine
  <2>8. CacheCoherent'
    BY <1>1, <2>6, <2>7 DEF CacheCoherent, Line
  <2>9. blk_devs # <<>>
    BY DEF Dev
  <2> QED
    BY <1>1, <2>3, <2>5, <2>8, <2>9 DEF BlkInv, Line
<1> QED
  <2>1. CASE bcache_find(dev, sector) # {}
    <3>1. (CHOOSE x \in bcache_find(dev, sector) : TRUE) \in bcache_find(dev, sector)
      BY <2>1
    <3> QED
      BY <1>2, <1>4, <2>1, <3>1 DEF blk_dev_read
  <2>2. CASE bcache_find(dev, sector) = {}
    BY <1>2, <1>5, <2>2 DEF blk_dev_read, bcache_eligible
  <2> QED
    BY <2>1, <2>2

\* A write: all of it, or the part that reached the disk.
LEMMA BlkWriteKeeps ==
    ASSUME BlkInv, NEW dev \in Dev, NEW sector \in DOMAIN medium, NEW n \in 1 .. MaxCount,
           NEW data \in [1 .. n -> Datum], NEW k \in 0 .. n, blk_dev_write(dev, sector, data, k)
    PROVE  BlkInv'
<1> DEFINE hit == {Phys(dev, sector + j - 1) : j \in 1 .. k}
           keys == UNION {KeysOf(p) : p \in hit}
           own == {<<dev, sector + j - 1>> : j \in 1 .. n}
           from(p) == CHOOSE j \in 1 .. k : Phys(dev, sector + j - 1) = p
                                     /\ \A i \in j + 1 .. k : Phys(dev, sector + i - 1) # p
<1>1. PICK total \in Nat : medium \in [0 .. total - 1 -> Datum] /\ blk_devs \in Seq(DeviceIn(total))
  BY DEF BlkInv
<1>2. /\ n \in Nat \ {0} /\ Len(data) = n /\ data \in Seq(Datum) /\ dev \in Nat /\ sector \in Nat
      /\ blk_devs # <<>>
  <2>1. n \in Nat \ {0} /\ dev \in Nat /\ sector \in Nat /\ blk_devs # <<>>
    BY <1>1, BlkAssumption, LenProperties DEF Dev
  <2> QED
    BY <2>1
<1>3. /\ blk_devs' = blk_devs /\ Dev' = Dev /\ (\A d, s : Phys(d, s)' = Phys(d, s))
      /\ medium' = [p \in DOMAIN medium |-> IF p \in hit THEN data[from(p)] ELSE medium[p]]
      /\ sector + n <= blk_devs[dev].count
      /\ \/ /\ k = n
            /\ \/ n = 1 /\ bcache' = bcache_store(dev, sector, data[1])
               \/ bcache' = bcache_invalidate_range(dev, sector, n)
            /\ stale' = (stale \cup keys) \ own
         \/ bcache' = bcache /\ stale' = stale \cup keys
  BY <1>2 DEF blk_dev_write, Dev, Phys, InDev, bcache_eligible
<1>4. blk_devs[dev] \in DeviceIn(total) /\ blk_devs[dev].count \in Nat
  <2>1. blk_devs[dev] \in DeviceIn(total)
    BY <1>1, ElementOfSeq, LenProperties DEF Dev
  <2> QED
    BY <2>1 DEF DeviceIn, Device
\* The disk after it: what was hit has a datum of the transfer.
<1>5. ASSUME NEW p \in hit PROVE from(p) \in 1 .. k
  <2> DEFINE C == {j \in 1 .. k : Phys(dev, sector + j - 1) = p}
  <2>1. C \in SUBSET Int /\ C # {} /\ k \in Int /\ \A j \in C : j <= k
    OBVIOUS
  <2> HIDE DEF C, hit
  <2>2. PICK m \in C : \A j \in C : j <= m
    BY <2>1, GreatestUpTo
  <2>3. /\ m \in 1 .. k /\ Phys(dev, sector + m - 1) = p
        /\ \A i \in m + 1 .. k : Phys(dev, sector + i - 1) # p
    <3>1. m \in 1 .. k /\ Phys(dev, sector + m - 1) = p
      BY <2>2 DEF C
    <3>2. ASSUME NEW i \in m + 1 .. k PROVE i \notin C /\ i \in 1 .. k
      BY <2>2, <3>1
    <3> QED
      BY <3>1, <3>2 DEF C
  <2> QED
    BY <2>3, Zenon
<1>6. medium' \in [0 .. total - 1 -> Datum] /\ DOMAIN medium' = DOMAIN medium
  <2> HIDE DEF from, hit
  <2> QED
    BY <1>1, <1>2, <1>3, <1>5
\* A sector of a device that was hit is stale under every key but the writer's.
<1>7. ASSUME NEW d \in Dev, NEW s \in DOMAIN medium, s < blk_devs[d].count, Phys(d, s) \in hit
      PROVE  <<d, s>> \in keys
  <2>1. <<d, s>> \in KeysOf(Phys(d, s))
    BY <1>7 DEF KeysOf
  <2> HIDE DEF hit
  <2> QED
    BY <1>7, <2>1
<1>8. \A d \in Dev, s \in DOMAIN medium : s < blk_devs[d].count /\ Phys(d, s) \notin hit =>
          medium'[Phys(d, s)] = medium[Phys(d, s)]
  <2> SUFFICES ASSUME NEW d \in Dev, NEW s \in DOMAIN medium, s < blk_devs[d].count, Phys(d, s) \notin hit
               PROVE  medium'[Phys(d, s)] = medium[Phys(d, s)]
    OBVIOUS
  <2>1. s \in Nat
    BY <1>1
  <2>2. Phys(d, s) \in DOMAIN medium
    BY <2>1, PhysInside
  <2> HIDE DEF hit, from
  <2> QED
    BY <1>3, <2>2
<1> HIDE DEF hit, keys, from
<1>8a. ASSUME NEW j \in Line, bcache[j].valid,
              <<bcache[j].dev, bcache[j].sector>> \notin stale \cup keys
       PROVE  bcache[j].data = medium'[Phys(bcache[j].dev, bcache[j].sector)]
  BY <1>7, <1>8, <1>8a DEF BlkInv, CacheCoherent
\* The transfer failed: the cache is left alone.
<1>9. CASE bcache' = bcache /\ stale' = stale \cup keys
  <2>1. ASSUME NEW j \in Line, bcache[j].valid, <<bcache[j].dev, bcache[j].sector>> \notin stale'
        PROVE  bcache[j].data = medium'[Phys(bcache[j].dev, bcache[j].sector)]
    BY <1>8a, <1>9, <2>1
  <2>2. CacheCoherent'
    BY <1>3, <1>9, <2>1 DEF BlkInv, CacheCoherent, Line
  <2> QED
    BY <1>1, <1>2, <1>3, <1>6, <1>9, <2>2 DEF BlkInv, Line
\* One sector: the line of the key has what was written.
<1>10. CASE k = n /\ n = 1 /\ bcache' = bcache_store(dev, sector, data[1]) /\ stale' = (stale \cup keys) \ own
  <2>1. sector < blk_devs[dev].count /\ data[1] \in Datum /\ sector + 1 - 1 = sector
    BY <1>2, <1>3, <1>4, <1>10
  <2>2. PICK i : IsStore(bcache', i, dev, sector, data[1])
    BY <1>2, <1>10, <2>1, StoreLines, Zenon
  <2>3. bcache' \in [Line -> CacheLine]
    BY <1>2, <1>10, <2>1, StoreLines, Zenon
  <2>4. medium'[Phys(dev, sector)] = data[1]
    <3>1. Phys(dev, sector) \in DOMAIN medium
      BY <1>2, <2>1, PhysInside
    <3>2. 1 \in 1 .. k /\ Phys(dev, sector + 1 - 1) = Phys(dev, sector)
      BY <1>10, <2>1
    <3>3. Phys(dev, sector) \in hit
      BY <3>2 DEF hit
    <3>4. from(Phys(dev, sector)) = 1
      BY <1>5, <1>10, <3>3
    <3> QED
      BY <1>3, <3>1, <3>3, <3>4
  <2>5. ASSUME NEW j \in Line, bcache'[j].valid, <<bcache'[j].dev, bcache'[j].sector>> \notin stale'
        PROVE  bcache'[j].data = medium'[Phys(bcache'[j].dev, bcache'[j].sector)]
    <3>1. CASE j = i
      BY <2>2, <2>4, <3>1 DEF IsStore
    <3>2. CASE j # i
      <4>1. /\ bcache'[j].dev = bcache[j].dev /\ bcache'[j].sector = bcache[j].sector
            /\ bcache[j].valid /\ bcache'[j].data = bcache[j].data
            /\ ~ (bcache[j].dev = dev /\ bcache[j].sector = sector)
        BY <2>2, <2>5, <3>2 DEF IsStore, SameLine
      <4>2. <<bcache[j].dev, bcache[j].sector>> \notin own
        BY <1>2, <1>10, <4>1
      <4>3. <<bcache[j].dev, bcache[j].sector>> \notin stale \cup keys
        BY <1>10, <2>5, <4>1, <4>2
      <4> QED
        BY <1>8a, <4>1, <4>3
    <3> QED
      BY <3>1, <3>2
  <2>6. \A j, x \in Line : bcache'[j].valid /\ bcache'[x].valid /\ bcache'[j].dev = bcache'[x].dev
                         /\ bcache'[j].sector = bcache'[x].sector => j = x
    BY <2>2 DEF BlkInv, CacheCoherent, IsStore, SameLine
  <2>7. CacheCoherent'
    BY <1>3, <2>5, <2>6 DEF CacheCoherent, Line
  <2>8. \A j \in Line : bcache'[j].valid =>
          /\ bcache'[j].dev \in Dev
          /\ bcache'[j].sector \in DOMAIN medium
          /\ bcache'[j].sector < blk_devs[bcache'[j].dev].count
    BY <2>1, <2>2 DEF BlkInv, IsStore, SameLine
  <2> QED
    BY <1>1, <1>2, <1>3, <1>6, <2>3, <2>7, <2>8 DEF BlkInv, Line
\* Several, or such as are not cached: their lines are dropped.
<1>11. CASE k = n /\ bcache' = bcache_invalidate_range(dev, sector, n) /\ stale' = (stale \cup keys) \ own
  <2>1. ASSUME NEW j \in Line
        PROVE  bcache'[j] = IF bcache[j].dev = dev /\ bcache[j].sector \in sector .. sector + n - 1
                            THEN [bcache[j] EXCEPT !.valid = FALSE] ELSE bcache[j]
    BY <1>11 DEF bcache_invalidate_range
  <2>2. ASSUME NEW j \in Line
        PROVE  /\ bcache'[j] \in CacheLine
               /\ bcache'[j].valid =>
                     /\ bcache'[j] = bcache[j] /\ bcache[j].valid
                     /\ ~ (bcache[j].dev = dev /\ bcache[j].sector \in sector .. sector + n - 1)
    BY <2>1 DEF BlkInv, CacheLine
  <2>3. bcache' \in [Line -> CacheLine]
    <3>1. bcache' = [j \in Line |-> bcache'[j]]
      BY <1>11 DEF bcache_invalidate_range
    <3> QED
      BY <2>2, <3>1
  <2>4. ASSUME NEW j \in Line, bcache'[j].valid, <<bcache'[j].dev, bcache'[j].sector>> \notin stale'
        PROVE  bcache'[j].data = medium'[Phys(bcache'[j].dev, bcache'[j].sector)]
    <3>1. /\ bcache'[j] = bcache[j] /\ bcache[j].valid
          /\ ~ (bcache[j].dev = dev /\ bcache[j].sector \in sector .. sector + n - 1)
      BY <2>2, <2>4
    <3>2. <<bcache[j].dev, bcache[j].sector>> \notin own
      BY <1>2, <3>1
    <3>3. <<bcache[j].dev, bcache[j].sector>> \notin stale \cup keys
      BY <1>11, <2>4, <3>1, <3>2
    <3> QED
      BY <1>8a, <3>1, <3>3
  <2>5. \A j, x \in Line : bcache'[j].valid /\ bcache'[x].valid /\ bcache'[j].dev = bcache'[x].dev
                         /\ bcache'[j].sector = bcache'[x].sector => j = x
    BY <2>2 DEF BlkInv, CacheCoherent
  <2>6. CacheCoherent'
    BY <1>3, <2>4, <2>5 DEF CacheCoherent, Line
  <2>7. \A j \in Line : bcache'[j].valid =>
          /\ bcache'[j].dev \in Dev
          /\ bcache'[j].sector \in DOMAIN medium
          /\ bcache'[j].sector < blk_devs[bcache'[j].dev].count
    BY <2>2 DEF BlkInv
  <2> QED
    BY <1>1, <1>2, <1>3, <1>6, <2>3, <2>6, <2>7 DEF BlkInv, Line
<1> QED
  BY <1>2, <1>3, <1>9, <1>10, <1>11

\* Boot: the disk and its partitions are registered.
LEMMA BlkAddKeeps ==
    ASSUME BlkInv, NEW id \in Identify, NEW mbr \in Mbr, NEW data \in Datum,
           blkdev_manager_add(id, mbr, data)
    PROVE  BlkInv'
<1> DEFINE total == ata_detect_devices(id)
           disk == <<[name |-> 0, start |-> 0, count |-> total]>>
<1>1. /\ blk_devs = <<>> /\ stale = {} /\ stale' = stale /\ total >= 0
      /\ medium' = [p \in 0 .. total - 1 |-> data]
      /\ blk_devs' = disk \o mbr_scan(mbr, total) \/ blk_devs' = disk
      /\ bcache' = bcache \/ (bcache' = bcache_store(1, 0, data) /\ total > 0)
  BY DEF blkdev_manager_add, BlkInv
<1>2. total \in Nat
  <2>1. {id.lba48, id.lba28, id.cylinders, id.heads, id.sectors} \subseteq Nat
    BY BlkAssumption
  <2>2. id.cylinders * id.heads * id.sectors \in Nat
    <3>1. id.cylinders \in Nat /\ id.heads \in Nat /\ id.sectors \in Nat
      BY <2>1
    <3>2. \A x, y \in Nat : x * y \in Nat
      OBVIOUS
    <3> QED
      BY <3>1, <3>2
  <2>3. CASE id.lba48 > 0
    BY <2>1, <2>3, <1>1 DEF ata_detect_devices
  <2>4. CASE id.lba48 = 0 /\ id.lba28 > 0
    BY <2>1, <2>4, <1>1 DEF ata_detect_devices
  <2>5. CASE id.lba48 = 0 /\ ~ (id.lba28 > 0)
    BY <2>1, <2>2, <2>5, <1>1 DEF ata_detect_devices
  <2> QED
    BY <2>1, <2>3, <2>4, <2>5
<1> HIDE DEF total
<1>3. \A i \in Line : ~ bcache[i].valid
  BY <1>1 DEF BlkInv, Dev
<1>4. medium' \in [0 .. total - 1 -> Datum] /\ DOMAIN medium' = 0 .. total - 1
  BY <1>1
<1>5. /\ blk_devs' \in Seq(DeviceIn(total)) /\ Len(blk_devs') >= 1
      /\ blk_devs'[1] = [name |-> 0, start |-> 0, count |-> total]
  <2> DEFINE first == [name |-> 0, start |-> 0, count |-> total]
             S == DeviceIn(total)
  <2>1. first \in S
    BY <1>2 DEF DeviceIn, Device
  <2> HIDE DEF S
  <2>2. disk \in Seq(S) /\ Len(disk) = 1 /\ Len(disk) >= 1 /\ disk[1] = first
    BY <2>1
  <2>3. mbr_scan(mbr, total) \in Seq(S)
    BY <1>2, ScanInside DEF S
  <2> DEFINE more == mbr_scan(mbr, total)
  <2> HIDE DEF disk, more, first
  <2>4. disk \o more \in Seq(S) /\ Len(disk \o more) >= 1 /\ (disk \o more)[1] = first
    BY <2>2, <2>3, ConcatProperties DEF more
  <2>5. blk_devs' = disk \/ blk_devs' = disk \o more
    BY <1>1 DEF more
  <2>6. blk_devs' \in Seq(S) /\ Len(blk_devs') >= 1 /\ blk_devs'[1] = first
    BY <2>2, <2>4, <2>5, Zenon
  <2> QED
    BY <2>6 DEF S, first
<1>6. CASE bcache' = bcache
  BY <1>1, <1>2, <1>3, <1>4, <1>5, <1>6, BlkAssumption DEF BlkInv, CacheCoherent, Line
<1>7. CASE bcache' = bcache_store(1, 0, data) /\ total > 0
  <2>1. 1 \in Nat /\ 0 \in Nat
    OBVIOUS
  <2>2. bcache' \in [Line -> CacheLine] /\ \E i : IsStore(bcache', i, 1, 0, data)
    BY <1>7, <2>1, StoreLines, Zenon
  <2>3. PICK i : IsStore(bcache', i, 1, 0, data)
    BY <2>2
  <2>4. ASSUME NEW j \in Line, bcache'[j].valid
        PROVE  j = i /\ bcache'[j].dev = 1 /\ bcache'[j].sector = 0 /\ bcache'[j].data = data
    BY <1>3, <2>3, <2>4 DEF IsStore, SameLine
  <2>5. /\ 1 \in Dev' /\ 0 \in DOMAIN medium' /\ 0 < blk_devs'[1].count
    BY <1>2, <1>4, <1>5, <1>7, LenProperties DEF Dev
  <2>6. Phys(1, 0)' = 0
    <3>1. Phys(1, 0)' = (blk_devs'[1].start + 0) % LBA_LIMIT
      BY DEF Phys, ata_setup_lba
    <3>2. blk_devs'[1].start + 0 = 0 /\ 0 % LBA_LIMIT = 0
      BY <1>5, BlkAssumption, ModSmall
    <3> QED
      BY <3>1, <3>2
  <2>7. medium'[0] = data
    BY <1>1, <1>2, <1>7
  <2>8. \A j \in Line : bcache'[j].valid =>
           /\ bcache'[j].dev \in Dev' /\ bcache'[j].sector \in DOMAIN medium'
           /\ bcache'[j].sector < blk_devs'[bcache'[j].dev].count
    BY <2>4, <2>5
  <2>9. CacheCoherent'
    BY <2>4, <2>6, <2>7 DEF CacheCoherent, Line
  <2>10. blk_devs' # <<>>
    BY <1>5
  <2> QED
    BY <1>2, <1>4, <1>5, <2>2, <2>8, <2>9, <2>10 DEF BlkInv, Line
<1> QED
  BY <1>1, <1>6, <1>7

\* For every drive, partition table and number of cache lines: what a read would
\* answer from the cache is on the disk, unless another device's write or a failed
\* one has passed the line by, and no sector is cached twice (blk_dev.c).
THEOREM CacheStaysCoherent == BlkSpec => []CacheCoherent
<1>1. BlkInit => BlkInv
  <2> SUFFICES ASSUME BlkInit PROVE BlkInv
    OBVIOUS
  <2>1. EmptyLine \in CacheLine /\ ~ EmptyLine.valid
    BY BlkAssumption DEF EmptyLine, CacheLine
  <2>2. bcache \in [Line -> CacheLine] /\ \A i \in Line : ~ bcache[i].valid
    BY <2>1 DEF BlkInit
  <2>3. medium \in [0 .. 0 - 1 -> Datum] /\ blk_devs \in Seq(DeviceIn(0))
    BY DEF BlkInit
  <2> QED
    BY <2>2, <2>3 DEF BlkInit, BlkInv, CacheCoherent
<1>2. BlkInv /\ [BlkNext]_blkVars => BlkInv'
  <2> SUFFICES ASSUME BlkInv, [BlkNext]_blkVars PROVE BlkInv'
    OBVIOUS
  <2>1. CASE UNCHANGED blkVars
    <3>1. (\A d, s : Phys(d, s)' = Phys(d, s)) /\ Dev' = Dev
      BY <2>1 DEF blkVars, Phys, Dev
    <3> QED
      BY <2>1, <3>1 DEF blkVars, BlkInv, CacheCoherent, Line
  <2> QED
    BY <2>1, BlkReadKeeps, BlkWriteKeeps, BlkAddKeeps DEF BlkNext
<1>3. BlkInv => CacheCoherent
  BY DEF BlkInv
<1> QED
  BY <1>1, <1>2, <1>3, PTL DEF BlkSpec

-----------------------------------------------------------------------------
(* The user library's allocator *)

UBlock == [at : Nat, size : Nat, free : BOOLEAN]

\* t is h with its elements a + 1 .. b replaced by cut.
IsSplice(t, h, a, cut, b) ==
    /\ Len(t) = a + Len(cut) + Len(h) - b
    /\ \A j \in 1 .. a : t[j] = h[j]
    /\ \A j \in 1 .. Len(cut) : t[a + j] = cut[j]
    /\ \A j \in 1 .. Len(h) - b : t[a + Len(cut) + j] = h[b + j]

SpliceOf(S, t, h, a, cut, b) == t \in Seq(S) /\ IsSplice(t, h, a, cut, b)

\* Cutting a list and joining it again.
LEMMA Splice ==
    ASSUME NEW S, NEW h \in Seq(S), NEW cut \in Seq(S), NEW a \in Nat, NEW b \in Nat, a <= b, b <= Len(h)
    PROVE  LET t == SubSeq(h, 1, a) \o cut \o SubSeq(h, b + 1, Len(h))
           IN  SpliceOf(S, t, h, a, cut, b)
<1>0. PICK n, c : n = Len(h) /\ c = Len(cut)
  OBVIOUS
<1> DEFINE p == SubSeq(h, 1, a)
           q == SubSeq(h, b + 1, n)
           pc == p \o cut
           t == pc \o q
<1>1. n \in Nat /\ c \in Nat /\ a <= n /\ b <= n
  BY <1>0, LenProperties
<1>2. ASSUME NEW i \in 1 .. n PROVE h[i] \in S
  BY <1>0, ElementOfSeq
<1>3. p \in Seq(S) /\ Len(p) = a /\ \A i \in 1 .. a : p[i] = h[i]
  <2>1. \A i \in 1 .. a : h[i] \in S
    BY <1>1, <1>2
  <2> QED BY <2>1, SubSeqProperties
<1>4. q \in Seq(S) /\ Len(q) = n - b /\ \A i \in 1 .. n - b : q[i] = h[b + i]
  <2>1. PICK e \in Int : e = b + 1
    OBVIOUS
  <2>2. \A i \in e .. n : h[i] \in S
    BY <1>1, <1>2, <2>1
  <2>3. n \in Int
    BY <1>1
  <2>4. /\ SubSeq(h, e, n) \in Seq(S)
        /\ Len(SubSeq(h, e, n)) = IF e <= n THEN n - e + 1 ELSE 0
        /\ \A i \in 1 .. n - e + 1 : SubSeq(h, e, n)[i] = h[e + i - 1]
    BY <2>2, <2>3, SubSeqProperties
  <2>5. n - e + 1 = n - b /\ \A i \in 1 .. n - b : e + i - 1 = b + i
    BY <1>1, <2>1
  <2>6. Len(SubSeq(h, e, n)) = n - b
    BY <1>1, <2>1, <2>4
  <2>7. q = SubSeq(h, e, n)
    BY <2>1
  <2> HIDE DEF q
  <2> QED BY <2>4, <2>5, <2>6, <2>7
<1> HIDE DEF p, q
<1>5. pc \in Seq(S) /\ Len(pc) = a + c /\ \A i \in 1 .. a + c : pc[i] = IF i <= a THEN p[i] ELSE cut[i - a]
  BY <1>0, <1>3, ConcatProperties
<1> HIDE DEF pc
<1>6. /\ t \in Seq(S) /\ Len(t) = (a + c) + (n - b)
      /\ \A i \in 1 .. (a + c) + (n - b) : t[i] = IF i <= a + c THEN pc[i] ELSE q[i - (a + c)]
  <2> HIDE DEF t
  <2>1. t = pc \o q
    BY DEF t
  <2>2. PICK x \in Nat, y \in Nat : x = a + c /\ y = n - b /\ Len(pc) = x /\ Len(q) = y
    BY <1>1, <1>4, <1>5
  <2>3. /\ pc \o q \in Seq(S) /\ Len(pc \o q) = Len(pc) + Len(q)
        /\ \A i \in 1 .. Len(pc) + Len(q) : (pc \o q)[i] = IF i <= Len(pc) THEN pc[i] ELSE q[i - Len(pc)]
    BY <1>4, <1>5, ConcatProperties
  <2> QED BY <2>1, <2>2, <2>3
<1> HIDE DEF t
<1>7. \A j \in 1 .. a : t[j] = h[j]
  BY <1>1, <1>3, <1>5, <1>6
<1>8. \A j \in 1 .. c : t[a + j] = cut[j]
  <2> SUFFICES ASSUME NEW j \in 1 .. c PROVE t[a + j] = cut[j]
    OBVIOUS
  <2>1. a + j \in 1 .. a + c /\ a + j \in 1 .. (a + c) + (n - b) /\ ~(a + j <= a) /\ (a + j) - a = j /\ a + j <= a + c
    BY <1>1
  <2> QED BY <1>5, <1>6, <2>1
<1>9. \A j \in 1 .. n - b : t[a + c + j] = h[b + j]
  <2> SUFFICES ASSUME NEW j \in 1 .. n - b PROVE t[a + c + j] = h[b + j]
    OBVIOUS
  <2>1. a + c + j \in 1 .. (a + c) + (n - b) /\ ~(a + c + j <= a + c) /\ (a + c + j) - (a + c) = j
    BY <1>1
  <2> QED BY <1>4, <1>6, <2>1
<1>10. Len(t) = a + c + n - b
  BY <1>1, <1>6
<1>11. t \in Seq(S) /\ IsSplice(t, h, a, cut, b)
  BY <1>0, <1>6, <1>7, <1>8, <1>9, <1>10 DEF IsSplice
<1> QED BY <1>0, <1>11 DEF t, pc, p, q, SpliceOf

\* The block list as one predicate over lists: tiling, and backing what is held.
Tiles(h) ==
    /\ h \in Seq(UBlock) /\ Len(h) \in Nat \ {0}
    /\ h[1].at = 0
    /\ \A i \in 1 .. Len(h) - 1 : EndOf(h[i]) = h[i + 1].at
    /\ EndOf(h[Len(h)]) = HEAP_SIZE
MergedBut(h, N) == \A i \in 1 .. Len(h) - 1 : i \notin N => ~(h[i].free /\ h[i + 1].free)
Backs(h, i, p, bytes) ==
    /\ h[i].at + HDR = p /\ ~h[i].free
    /\ h[i].size >= bytes \/ bytes > SIZE_LIMIT - ALIGN
Held(h, live) ==
    \A p \in DOMAIN live : live[p] \in Nat /\ \E i \in 1 .. Len(h) : Backs(h, i, p, live[p])

\* A list of blocks has blocks as its elements.
LEMMA BlockFacts ==
    ASSUME NEW h \in Seq(UBlock), NEW i \in 1 .. Len(h)
    PROVE  h[i] \in UBlock /\ h[i].at \in Nat /\ h[i].size \in Nat /\ h[i].free \in BOOLEAN
<1>1. h[i] \in UBlock
  BY ElementOfSeq
<1> QED BY <1>1 DEF UBlock

\* cut covers the bytes of the blocks a + 1 .. b.
CoversSame(cut, h, a, b) ==
    /\ a < b /\ b <= Len(h) /\ Len(cut) \in Nat \ {0}
    /\ cut[1].at = h[a + 1].at /\ EndOf(cut[Len(cut)]) = EndOf(h[b])
    /\ \A j \in 1 .. Len(cut) - 1 : EndOf(cut[j]) = cut[j + 1].at

\* Blocks replaced by others that cover the same bytes still tile the arena.
LEMMA SpliceTiles ==
    ASSUME NEW h, NEW t, NEW cut, NEW a \in Nat, NEW b \in Nat,
           Tiles(h), SpliceOf(UBlock, t, h, a, cut, b), CoversSame(cut, h, a, b)
    PROVE  Tiles(t)
<1>0. PICK n, c, m : n = Len(h) /\ c = Len(cut) /\ m = Len(t)
  OBVIOUS
<1>1. n \in Nat \ {0} /\ c \in Nat \ {0} /\ m = a + c + n - b /\ m \in Nat \ {0} /\ a < b /\ b <= n
  <2>1. n \in Nat \ {0} /\ c \in Nat \ {0} /\ m = a + c + n - b /\ a < b /\ b <= n
    BY <1>0 DEF Tiles, IsSplice, SpliceOf, CoversSame
  <2> QED BY <2>1
<1>2. /\ \A j \in 1 .. a : t[j] = h[j]
      /\ \A j \in 1 .. c : t[a + j] = cut[j]
      /\ \A j \in 1 .. n - b : t[a + c + j] = h[b + j]
  BY <1>0 DEF IsSplice, SpliceOf
<1>3. h[1].at = 0 /\ (\A i \in 1 .. n - 1 : EndOf(h[i]) = h[i + 1].at) /\ EndOf(h[n]) = HEAP_SIZE
  BY <1>0 DEF Tiles
<1>4. cut[1].at = h[a + 1].at /\ EndOf(cut[c]) = EndOf(h[b]) /\ \A j \in 1 .. c - 1 : EndOf(cut[j]) = cut[j + 1].at
  BY <1>0 DEF CoversSame
<1>5. t[1].at = 0
  <2>1. CASE a = 0
    BY <1>1, <1>2, <1>3, <1>4, <2>1
  <2>2. CASE a # 0
    BY <1>1, <1>2, <1>3, <2>2
  <2> QED BY <2>1, <2>2
<1>6. EndOf(t[m]) = HEAP_SIZE
  <2>1. CASE b = n
    <3>1. m = a + c /\ t[a + c] = cut[c]
      BY <1>1, <1>2, <2>1
    <3> QED BY <1>3, <1>4, <2>1, <3>1
  <2>2. CASE b # n
    <3>1. n - b \in 1 .. n - b /\ m = a + c + (n - b) /\ b + (n - b) = n
      BY <1>1, <2>2
    <3> QED BY <1>2, <1>3, <3>1
  <2> QED BY <2>1, <2>2
<1>7. ASSUME NEW i \in 1 .. m - 1 PROVE EndOf(t[i]) = t[i + 1].at
  <2>1. CASE i < a
    <3>1. i \in 1 .. a /\ i + 1 \in 1 .. a /\ i \in 1 .. n - 1
      BY <1>1, <2>1
    <3> QED BY <1>2, <1>3, <3>1
  <2>2. CASE i = a
    <3>1. i \in 1 .. a /\ i \in 1 .. n - 1 /\ 1 \in 1 .. c
      BY <1>1, <2>2
    <3>2. t[a + 1] = cut[1]
      BY <1>2, <3>1
    <3> QED BY <1>2, <1>3, <1>4, <2>2, <3>1, <3>2
  <2>3. CASE a < i /\ i < a + c
    <3>1. i - a \in 1 .. c - 1 /\ i - a \in 1 .. c /\ (i - a) + 1 \in 1 .. c
          /\ a + (i - a) = i /\ a + ((i - a) + 1) = i + 1
      BY <1>1, <2>3
    <3> QED BY <1>2, <1>4, <3>1
  <2>4. CASE i = a + c
    <3>1. 1 \in 1 .. n - b /\ c \in 1 .. c /\ b \in 1 .. n - 1
      BY <1>1, <2>4
    <3>2. t[a + c] = cut[c] /\ t[a + c + 1] = h[b + 1]
      BY <1>2, <3>1
    <3> QED BY <1>3, <1>4, <2>4, <3>1, <3>2
  <2>5. CASE a + c < i
    <3> DEFINE j == i - (a + c)
    <3>1. j \in 1 .. n - b /\ j + 1 \in 1 .. n - b /\ a + c + j = i /\ a + c + (j + 1) = i + 1
          /\ b + j \in 1 .. n - 1 /\ b + (j + 1) = (b + j) + 1
      BY <1>1, <2>5
    <3> HIDE DEF j
    <3>2. t[i] = h[b + j] /\ t[i + 1] = h[(b + j) + 1]
      BY <1>2, <3>1
    <3> QED BY <1>3, <3>1, <3>2
  <2> QED BY <1>1, <2>1, <2>2, <2>3, <2>4, <2>5
<1> QED BY <1>0, <1>1, <1>5, <1>6, <1>7 DEF Tiles, SpliceOf

\* Block i of t is the blocks i and i + 1 of h, the others are the same.
Absorbed(t, h, i) ==
    /\ i \in 1 .. Len(h) - 1
    /\ t \in Seq(UBlock) /\ Len(t) = Len(h) - 1
    /\ \A j \in 1 .. i - 1 : t[j] = h[j]
    /\ t[i].at = h[i].at /\ t[i].free = h[i].free /\ t[i].size = h[i].size + HDR + h[i + 1].size
    /\ \A j \in i + 1 .. Len(h) - 1 : t[j] = h[j + 1]

\* One merge makes one block of two, and the blocks still tile the arena.
LEMMA AbsorbIs ==
    ASSUME NEW h \in Seq(UBlock), NEW i \in Nat, i >= 1, i < Len(h)
    PROVE  Absorbed(Absorb(h, i), h, i) /\ (Tiles(h) => Tiles(Absorb(h, i)))
<1> DEFINE e == [h[i] EXCEPT !.size = @ + HDR + h[i + 1].size]
           cut == <<e>>
           t == Absorb(h, i)
<1>1. Len(h) \in Nat /\ i \in 1 .. Len(h) /\ i + 1 \in 1 .. Len(h) /\ HDR \in Nat
  BY LenProperties, UserLibAssumption
<1>2. h[i] \in UBlock /\ h[i + 1] \in UBlock
  BY <1>1, ElementOfSeq
<1>3. /\ e \in UBlock /\ e.at = h[i].at /\ e.free = h[i].free
      /\ e.size = h[i].size + HDR + h[i + 1].size
  <2>1. PICK x \in Nat, y \in Nat : x = h[i].size /\ y = h[i + 1].size
    BY <1>2 DEF UBlock
  <2>2. x + HDR + y \in Nat
    BY <1>1
  <2> QED BY <1>2, <2>1, <2>2 DEF UBlock
<1> HIDE DEF e
<1>4. cut \in Seq(UBlock) /\ Len(cut) = 1 /\ cut[1] = e
  BY <1>3
<1>5. SpliceOf(UBlock, t, h, i - 1, cut, i + 1)
  <2>1. PICK a \in Nat, b \in Nat : a = i - 1 /\ b = i + 1 /\ a <= b /\ b <= Len(h) /\ b + 1 = i + 2
    BY <1>1
  <2>2. t = SubSeq(h, 1, a) \o cut \o SubSeq(h, b + 1, Len(h))
    BY <2>1 DEF Absorb, e
  <2> HIDE DEF cut, t
  <2>3. SpliceOf(UBlock, SubSeq(h, 1, a) \o cut \o SubSeq(h, b + 1, Len(h)), h, a, cut, b)
    BY <1>4, <2>1, Splice
  <2> QED BY <2>1, <2>2, <2>3
<1> HIDE DEF cut, t
<1>6. PICK n \in Nat : n = Len(h) /\ i < n
  BY <1>1
<1>7. /\ t \in Seq(UBlock)
      /\ Len(t) = (i - 1) + 1 + n - (i + 1)
      /\ \A j \in 1 .. i - 1 : t[j] = h[j]
      /\ \A j \in 1 .. 1 : t[(i - 1) + j] = cut[j]
      /\ \A j \in 1 .. n - (i + 1) : t[(i - 1) + 1 + j] = h[(i + 1) + j]
  BY <1>4, <1>5, <1>6 DEF SpliceOf, IsSplice
<1>8. Len(t) = n - 1
  BY <1>6, <1>7
<1>9. t[i] = e
  <2>1. 1 \in 1 .. 1 /\ (i - 1) + 1 = i
    OBVIOUS
  <2> QED BY <1>4, <1>7, <2>1
<1>10. ASSUME NEW j \in i + 1 .. n - 1 PROVE t[j] = h[j + 1]
  <2>1. j - i \in 1 .. n - (i + 1) /\ (i - 1) + 1 + (j - i) = j /\ (i + 1) + (j - i) = j + 1
    BY <1>6
  <2> QED BY <1>7, <2>1
<1>11. Absorbed(t, h, i)
  <2>1. i \in 1 .. n - 1
    BY <1>6
  <2> QED BY <1>3, <1>6, <1>7, <1>8, <1>9, <1>10, <2>1 DEF Absorbed
<1>12. ASSUME Tiles(h) PROVE Tiles(t)
  <2>1. PICK a \in Nat, b \in Nat : a = i - 1 /\ b = i + 1 /\ a < b /\ b <= Len(h) /\ a + 1 = i
    BY <1>1
  <2>2. CoversSame(cut, h, a, b)
    <3>1. EndOf(h[i]) = h[i + 1].at
      BY <1>12, <1>1 DEF Tiles
    <3>2. PICK x \in Nat, y \in Nat, s \in Nat :
             x = h[i].size /\ y = h[i + 1].size /\ s = h[i].at
      BY <1>2 DEF UBlock
    <3>3. e.at = s /\ e.size = x + HDR + y /\ h[i + 1].at = s + HDR + x
      BY <1>3, <3>1, <3>2 DEF EndOf
    <3>4. EndOf(e) = EndOf(h[i + 1])
      <4>1. HDR \in Nat
        BY <1>1
      <4>2. s + HDR + (x + HDR + y) = (s + HDR + x) + HDR + y
        BY <4>1
      <4>3. EndOf(e) = s + HDR + (x + HDR + y) /\ EndOf(h[i + 1]) = (s + HDR + x) + HDR + y
        BY <3>2, <3>3 DEF EndOf
      <4> QED BY <4>2, <4>3
    <3>5. Len(cut) \in Nat \ {0} /\ cut[Len(cut)] = e /\ \A j \in 1 .. Len(cut) - 1 : FALSE
      BY <1>4
    <3> QED BY <1>3, <1>4, <2>1, <3>4, <3>5 DEF CoversSame
  <2> QED BY <1>5, <1>12, <2>1, <2>2, SpliceTiles
<1> QED BY <1>11, <1>12 DEF t

\* A free block is absorbed: neighbours stay merged where they were, and the block
\* that did it has no free neighbour behind it.
LEMMA AbsorbMerged ==
    ASSUME NEW h, NEW t, NEW i \in Nat, NEW N, Absorbed(t, h, i), Tiles(h), MergedBut(h, N),
           N \subseteq {i - 1, i}, h[i + 1].free
    PROVE  MergedBut(t, N \ {i}) /\ ~(i < Len(t) /\ t[i + 1].free)
<1>1. PICK n \in Nat : n = Len(h) /\ Len(t) = n - 1 /\ i \in 1 .. n - 1
  BY DEF Absorbed, Tiles
<1>2. /\ \A j \in 1 .. i - 1 : t[j] = h[j]
      /\ t[i].free = h[i].free
      /\ \A j \in i + 1 .. n - 1 : t[j] = h[j + 1]
  BY <1>1 DEF Absorbed
<1>3. \A j \in 1 .. n - 1 : j \notin N => ~(h[j].free /\ h[j + 1].free)
  BY <1>1 DEF MergedBut
<1>4. ASSUME i < n - 1 PROVE ~t[i + 1].free
  <2>1. i + 1 \in i + 1 .. n - 1 /\ i + 1 \in 1 .. n - 1 /\ i + 1 \notin N
    BY <1>1, <1>4
  <2> QED BY <1>2, <1>3, <2>1
<1>5. ASSUME NEW j \in 1 .. (n - 1) - 1, j \notin N \ {i}, t[j].free, t[j + 1].free PROVE FALSE
  <2>1. CASE j < i - 1
    <3>1. j \in 1 .. i - 1 /\ j + 1 \in 1 .. i - 1 /\ j \in 1 .. n - 1 /\ j # i
      BY <1>1, <2>1
    <3> QED BY <1>2, <1>3, <1>5, <3>1
  <2>2. CASE j = i - 1
    <3>1. j \in 1 .. i - 1 /\ j + 1 = i /\ j \in 1 .. n - 1 /\ j # i
      BY <1>1, <2>2
    <3> QED BY <1>2, <1>3, <1>5, <3>1
  <2>3. CASE j = i
    BY <1>1, <1>4, <1>5, <2>3
  <2>4. CASE i < j
    <3>1. j \in i + 1 .. n - 1 /\ j + 1 \in i + 1 .. n - 1 /\ j + 1 \in 1 .. n - 1 /\ j + 1 \notin N
      BY <1>1, <2>4
    <3>2. t[j] = h[j + 1] /\ t[j + 1] = h[(j + 1) + 1]
      BY <1>2, <3>1
    <3> QED BY <1>3, <1>5, <3>1, <3>2
  <2> QED BY <1>1, <2>1, <2>2, <2>3, <2>4
<1> QED BY <1>1, <1>4, <1>5 DEF MergedBut

\* What is held stays backed when a free block is absorbed.
LEMMA AbsorbHeld ==
    ASSUME NEW h, NEW t, NEW i \in Nat, NEW live, Absorbed(t, h, i), Tiles(h), Held(h, live), h[i + 1].free
    PROVE  Held(t, live)
<1>1. PICK n \in Nat : n = Len(h) /\ Len(t) = n - 1 /\ i \in 1 .. n - 1
  BY DEF Absorbed, Tiles
<1>2. /\ \A j \in 1 .. i - 1 : t[j] = h[j]
      /\ t[i].free = h[i].free /\ t[i].at = h[i].at
      /\ \A j \in i + 1 .. n - 1 : t[j] = h[j + 1]
  BY <1>1 DEF Absorbed
<1>3. t[i].size \in Nat /\ h[i].size \in Nat /\ t[i].size >= h[i].size
  <2>1. h \in Seq(UBlock) /\ i \in 1 .. Len(h) /\ i + 1 \in 1 .. Len(h)
    BY <1>1 DEF Tiles
  <2>2. PICK x \in Nat, y \in Nat : x = h[i].size /\ y = h[i + 1].size
    BY <2>1, BlockFacts
  <2>3. t[i].size = x + HDR + y /\ HDR \in Nat
    BY <2>2, UserLibAssumption DEF Absorbed
  <2> QED BY <2>2, <2>3
<1>4. ASSUME NEW p \in DOMAIN live PROVE live[p] \in Nat /\ \E k \in 1 .. n - 1 : Backs(t, k, p, live[p])
  <2>1. live[p] \in Nat /\ \E j \in 1 .. n : Backs(h, j, p, live[p])
    BY <1>1 DEF Held
  <2>2. PICK j \in 1 .. n : Backs(h, j, p, live[p])
    BY <2>1
  <2>3. j # i + 1
    BY <2>2 DEF Backs
  <2>4. CASE j < i
    <3>1. j \in 1 .. i - 1 /\ j \in 1 .. n - 1
      BY <1>1, <2>4
    <3>2. Backs(t, j, p, live[p])
      BY <1>2, <2>2, <3>1 DEF Backs
    <3> QED BY <2>1, <3>1, <3>2
  <2>5. CASE j = i
    <3>1. t[i].size >= live[p] \/ live[p] > SIZE_LIMIT - ALIGN
      <4>1. PICK x \in Nat, y \in Nat, z \in Nat : x = t[i].size /\ y = h[i].size /\ z = live[p] /\ x >= y
        BY <1>3, <2>1
      <4>2. CASE y >= z
        BY <4>1, <4>2
      <4> QED BY <2>2, <2>5, <4>1, <4>2 DEF Backs
    <3>2. Backs(t, i, p, live[p])
      BY <1>2, <2>2, <2>5, <3>1 DEF Backs
    <3> QED BY <1>1, <2>1, <3>2
  <2>6. CASE i + 1 < j
    <3>1. PICK k \in 1 .. n - 1 : k = j - 1 /\ k \in i + 1 .. n - 1 /\ k + 1 = j
      BY <1>1, <2>6
    <3>2. Backs(t, k, p, live[p])
      BY <1>2, <2>2, <3>1 DEF Backs
    <3> QED BY <2>1, <3>1, <3>2
  <2> QED BY <1>1, <2>3, <2>4, <2>5, <2>6
<1> QED BY <1>1, <1>4 DEF Held

\* The state of the arena as the allocator keeps it.
Arena(h, live) == Tiles(h) /\ MergedBut(h, {}) /\ Held(h, live)

\* free: the block is marked, absorbs the free block behind it, and is absorbed
\* by the free block in front of it; the loop never absorbs two.
LEMMA FreeArena ==
    ASSUME NEW h, NEW live, NEW ptr \in DOMAIN live, Arena(h, live)
    PROVE  Arena(free(h, ptr), Drop(live, ptr))
<1> DEFINE i == BlockOf(h, ptr)
           rest == Drop(live, ptr)
           marked == [h EXCEPT ![i].free = TRUE]
           Step(p) == IF i < Len(p) /\ p[i + 1].free THEN Absorb(p, i) ELSE p
           R(g) == [k \in 0 .. Len(h) |-> IF k = 0 THEN marked ELSE Step(g[k - 1])]
           forward == CHOOSE g : g = R(g)
           X == Seq(UBlock)
<1>0. PICK n \in Nat : n = Len(h) /\ n >= 1 /\ h \in Seq(UBlock)
  BY DEF Arena, Tiles
<1>1. i \in 1 .. n /\ h[i].at = ptr - HDR
  <2>1. PICK j \in 1 .. n : Backs(h, j, ptr, live[ptr])
    BY <1>0 DEF Arena, Held
  <2>2. h[j].at \in Nat /\ HDR \in Nat /\ h[j].at + HDR = ptr
    BY <1>0, <2>1, BlockFacts, UserLibAssumption DEF Backs
  <2>3. PICK x \in Nat : x = h[j].at /\ x + HDR = ptr
    BY <2>2
  <2>4. h[j].at = ptr - HDR
    BY <2>2, <2>3
  <2>5. j \in DOMAIN h /\ DOMAIN h = 1 .. n
    BY <1>0, LenProperties
  <2>6. \E k \in DOMAIN h : h[k].at = ptr - HDR
    BY <2>4, <2>5
  <2>7. i \in DOMAIN h /\ h[i].at = ptr - HDR
    BY <2>6, Zenon DEF BlockOf
  <2> QED BY <2>5, <2>7
<1> HIDE DEF i
<1>2. PICK m \in 1 .. n : m = i
  BY <1>1
\* Marking.
<1>3. /\ marked \in Seq(UBlock) /\ Len(marked) = n
      /\ \A j \in 1 .. n : j # m => marked[j] = h[j]
      /\ marked[m].at = h[m].at /\ marked[m].size = h[m].size /\ marked[m].free
  <2> DEFINE e == [h[m] EXCEPT !.free = TRUE]
  <2>1. h[m] \in UBlock
    BY <1>0, BlockFacts
  <2>2. e \in UBlock /\ e.at = h[m].at /\ e.size = h[m].size /\ e.free
    BY <2>1 DEF UBlock
  <2>3. marked = [h EXCEPT ![m] = e]
    BY <1>2
  <2> HIDE DEF e
  <2>4. m \in 1 .. Len(h)
    BY <1>0
  <2>5. /\ [h EXCEPT ![m] = e] \in Seq(UBlock)
        /\ Len([h EXCEPT ![m] = e]) = Len(h)
        /\ \A j \in 1 .. Len(h) : [h EXCEPT ![m] = e][j] = IF j = m THEN e ELSE h[j]
    BY <1>0, <2>2, <2>4, ExceptSeq
  <2> QED BY <1>0, <2>2, <2>3, <2>5
<1> HIDE DEF marked
<1>4. Tiles(marked)
  <2>1. \A j \in 1 .. n : marked[j].at = h[j].at /\ EndOf(marked[j]) = EndOf(h[j])
    BY <1>3 DEF EndOf
  <2>2. /\ h[1].at = 0 /\ EndOf(h[n]) = HEAP_SIZE
        /\ \A j \in 1 .. n - 1 : EndOf(h[j]) = h[j + 1].at
    BY <1>0 DEF Arena, Tiles
  <2>3. 1 \in 1 .. n /\ n \in 1 .. n /\ n \in Nat \ {0} /\ \A j \in 1 .. n - 1 : j \in 1 .. n /\ j + 1 \in 1 .. n
    BY <1>0
  <2> QED BY <1>3, <2>1, <2>2, <2>3 DEF Tiles
<1>5. MergedBut(marked, {m - 1, m})
  <2>1. \A j \in 1 .. n - 1 : ~(h[j].free /\ h[j + 1].free)
    BY <1>0 DEF Arena, MergedBut
  <2>2. ASSUME NEW j \in 1 .. n - 1, j \notin {m - 1, m} PROVE ~(marked[j].free /\ marked[j + 1].free)
    <3>1. j \in 1 .. n /\ j + 1 \in 1 .. n /\ j # m /\ j + 1 # m
      BY <1>0, <2>2
    <3> QED BY <1>3, <2>1, <3>1
  <2> QED BY <1>3, <2>2 DEF MergedBut
<1>6. Held(marked, rest)
  <2>1. DOMAIN rest = DOMAIN live \ {ptr} /\ \A p \in DOMAIN live \ {ptr} : rest[p] = live[p]
    BY DEF Drop
  <2> HIDE DEF rest
  <2>2. ASSUME NEW p \in DOMAIN live, p # ptr PROVE live[p] \in Nat /\ \E j \in 1 .. n : Backs(marked, j, p, live[p])
    <3>1. live[p] \in Nat /\ \E j \in 1 .. n : Backs(h, j, p, live[p])
      BY <1>0 DEF Arena, Held
    <3>2. PICK j \in 1 .. n : Backs(h, j, p, live[p])
      BY <3>1
    <3>3. j # m
      <4>1. PICK k \in 1 .. n : Backs(h, k, ptr, live[ptr])
        BY <1>0 DEF Arena, Held
      <4>2. h[k].at \in Nat /\ HDR \in Nat /\ h[k].at + HDR = ptr /\ h[m].at \in Nat
        BY <1>0, <4>1, BlockFacts, UserLibAssumption DEF Backs
      <4>3. PICK x \in Nat, y \in Nat : x = h[m].at /\ y = h[k].at /\ y + HDR = ptr
        BY <4>2
      <4>4. x = ptr - HDR
        BY <1>1, <1>2, <4>3
      <4>5. x + HDR = ptr
        BY <4>2, <4>3, <4>4
      <4> QED BY <2>2, <3>2, <4>3, <4>5 DEF Backs
    <3>4. Backs(marked, j, p, live[p])
      BY <1>3, <3>2, <3>3 DEF Backs
    <3> QED BY <3>1, <3>4
  <2> QED BY <1>3, <2>1, <2>2 DEF Held
<1> HIDE DEF rest
\* The loop.
<1>7. \A p \in X : Step(p) \in X
  <2> SUFFICES ASSUME NEW p \in X PROVE Step(p) \in X
    OBVIOUS
  <2>1. CASE i < Len(p) /\ p[i + 1].free
    <3>1. m \in Nat /\ m >= 1 /\ m < Len(p) /\ p \in Seq(UBlock)
      BY <1>2, <2>1
    <3>2. Absorbed(Absorb(p, m), p, m)
      BY <3>1, AbsorbIs
    <3> QED BY <1>2, <2>1, <3>2 DEF Absorbed
  <2>2. CASE ~(i < Len(p) /\ p[i + 1].free)
    BY <2>2
  <2> QED BY <2>1, <2>2
<1>8. marked \in X
  BY <1>3
<1> HIDE DEF Step, X
<1> DEFINE step == [k \in 1 .. n |-> [p \in X |-> Step(p)]]
<1>9. step \in [1 .. n -> [X -> X]] /\ \A k \in 1 .. n, p \in X : step[k][p] = Step(p)
  BY <1>7
<1> HIDE DEF step
<1>10. PICK f : IsRecursion(f, n, X, marked, step)
  BY <1>8, <1>9, RecursionExists, Zenon
<1>11. f \in [0 .. n -> X] /\ f[0] = marked /\ \A k \in 1 .. n : f[k] = step[k][f[k - 1]]
  BY <1>10 DEF IsRecursion
<1>12. ASSUME NEW k \in 1 .. n PROVE f[k] = Step(f[k - 1])
  <2>1. k - 1 \in 0 .. n /\ f[k - 1] \in X
    BY <1>11
  <2> QED BY <1>9, <1>11, <2>1
<1>13. f = R(f)
  <2>1. R(f) = [k \in 0 .. n |-> IF k = 0 THEN marked ELSE Step(f[k - 1])]
    BY <1>0
  <2> HIDE DEF R
  <2> QED BY <1>11, <1>12, <2>1
<1> HIDE DEF R
<1>14. forward = R(forward)
  BY <1>13, Zenon
<1> DEFINE merged == forward[Len(h)]
<1>15. free(h, ptr) = IF i > 1 /\ merged[i - 1].free THEN Absorb(merged, i - 1) ELSE merged
  BY Zenon DEF free, R, Step, i, marked
<1> HIDE DEF forward
<1>16. forward[0] = marked /\ \A k \in 1 .. n : forward[k] = Step(forward[k - 1])
  <2>1. forward = [k \in 0 .. n |-> IF k = 0 THEN marked ELSE Step(forward[k - 1])]
    BY <1>0, <1>14 DEF R
  <2> QED BY <2>1
<1> DEFINE Quiet(p) == ~(m < Len(p) /\ p[m + 1].free)
           Good(p) == /\ Tiles(p) /\ Held(p, rest) /\ MergedBut(p, {m - 1, m})
                      /\ m <= Len(p) /\ p[m].free
           T == {k \in 0 .. n : Good(forward[k]) /\ (k >= 1 => Quiet(forward[k]))}
<1>17. 0 \in T
  BY <1>3, <1>4, <1>5, <1>6, <1>16
<1>18. ASSUME NEW p, Good(p) PROVE Good(Step(p)) /\ Quiet(Step(p))
  <2>1. CASE m < Len(p) /\ p[m + 1].free
    <3> DEFINE t == Absorb(p, m)
    <3>1. Step(p) = t
      BY <1>2, <2>1 DEF Step
    <3>2. p \in Seq(UBlock) /\ m \in Nat /\ m >= 1
      BY <1>18 DEF Tiles
    <3>3. Absorbed(t, p, m) /\ Tiles(t)
      BY <1>18, <2>1, <3>2, AbsorbIs
    <3> HIDE DEF t
    <3>4. MergedBut(t, {m - 1, m} \ {m}) /\ Quiet(t)
      BY <1>18, <2>1, <3>2, <3>3, AbsorbMerged
    <3>5. MergedBut(t, {m - 1, m})
      BY <3>4 DEF MergedBut
    <3>6. Held(t, rest)
      BY <1>18, <2>1, <3>2, <3>3, AbsorbHeld
    <3>7. m <= Len(t) /\ t[m].free
      <4>1. m \in 1 .. Len(p) - 1 /\ Len(t) = Len(p) - 1 /\ t[m].free = p[m].free
        BY <3>3 DEF Absorbed
      <4>2. PICK l \in Nat : l = Len(p)
        BY <1>18 DEF Tiles
      <4> QED BY <1>18, <4>1, <4>2
    <3> QED BY <3>1, <3>3, <3>4, <3>5, <3>6, <3>7
  <2>2. CASE ~(m < Len(p) /\ p[m + 1].free)
    <3>1. Step(p) = p
      BY <1>2, <2>2 DEF Step
    <3> QED BY <1>18, <2>2, <3>1
  <2> QED BY <2>1, <2>2
<1> HIDE DEF Good, Quiet
<1>19. ASSUME NEW k \in 1 .. n, k - 1 \in T PROVE k \in T
  <2>1. Good(forward[k - 1]) /\ k \in 0 .. n
    BY <1>19
  <2> QED BY <1>16, <1>18, <2>1
<1>20. n \in T
  <2> HIDE DEF T
  <2>1. 0 .. n \subseteq T
    BY <1>17, <1>19, IntervalInduction
  <2> QED BY <2>1
<1>21. merged = forward[n]
  BY <1>0
<1>22. Good(merged) /\ Quiet(merged)
  <2>1. n >= 1 /\ Good(forward[n]) /\ Quiet(forward[n])
    BY <1>0, <1>20
  <2> QED BY <1>21, <2>1
<1> HIDE DEF merged
<1>23. MergedBut(merged, {m - 1})
  <2>1. PICK l \in Nat : l = Len(merged) /\ m <= l
    BY <1>22 DEF Good, Tiles
  <2>2. ASSUME NEW j \in 1 .. l - 1, j # m - 1 PROVE ~(merged[j].free /\ merged[j + 1].free)
    <3>1. CASE j = m
      BY <1>22, <2>1, <3>1 DEF Quiet
    <3>2. CASE j # m
      BY <1>22, <2>1, <2>2, <3>2 DEF Good, MergedBut
    <3> QED BY <3>1, <3>2
  <2> QED BY <2>1, <2>2 DEF MergedBut
<1>24. Tiles(merged) /\ Held(merged, rest) /\ m <= Len(merged) /\ merged[m].free
  BY <1>22 DEF Good
\* The block in front.
<1>25. CASE m > 1 /\ merged[m - 1].free
  <2> DEFINE t == Absorb(merged, m - 1)
  <2>1. free(h, ptr) = t
    BY <1>2, <1>15, <1>25
  <2>2. PICK o \in Nat : o = m - 1 /\ o >= 1 /\ o < Len(merged) /\ merged \in Seq(UBlock) /\ o + 1 = m
    <3>1. PICK l \in Nat : l = Len(merged)
      BY <1>24 DEF Tiles
    <3> QED BY <1>24, <1>25, <3>1 DEF Tiles
  <2>3. Absorbed(t, merged, o) /\ Tiles(t)
    BY <1>24, <2>2, AbsorbIs
  <2> HIDE DEF t
  <2>4. MergedBut(t, {o} \ {o})
    <3>1. MergedBut(merged, {o}) /\ {o} \subseteq {o - 1, o} /\ merged[o + 1].free
      BY <1>23, <1>24, <2>2
    <3> QED BY <1>24, <2>3, <3>1, AbsorbMerged
  <2>5. Held(t, rest)
    BY <1>24, <2>2, <2>3, AbsorbHeld
  <2>6. {o} \ {o} = {}
    OBVIOUS
  <2> QED BY <2>1, <2>3, <2>4, <2>5, <2>6 DEF Arena, rest
<1>26. CASE ~(m > 1 /\ merged[m - 1].free)
  <2>1. free(h, ptr) = merged
    BY <1>2, <1>15, <1>26
  <2>2. MergedBut(merged, {})
    <3>1. PICK l \in Nat : l = Len(merged)
      BY <1>24 DEF Tiles
    <3>2. ASSUME NEW j \in 1 .. l - 1 PROVE ~(merged[j].free /\ merged[j + 1].free)
      <4>1. CASE j = m - 1
        BY <1>26, <4>1
      <4>2. CASE j # m - 1
        BY <1>23, <3>1, <4>2 DEF MergedBut
      <4> QED BY <4>1, <4>2
    <3> QED BY <3>1, <3>2 DEF MergedBut
  <2> QED BY <1>24, <2>1, <2>2 DEF Arena, rest
<1> QED BY <1>25, <1>26

\* Rounding a request up: enough for it, unless the sum wraps.
LEMMA AlignUp ==
    ASSUME NEW n \in Nat
    PROVE  ALIGN_UP(n) \in Nat /\ (n <= SIZE_LIMIT - ALIGN => ALIGN_UP(n) >= n)
<1>1. PICK A \in Nat \ {0}, L \in Nat \ {0} : A = ALIGN /\ L = SIZE_LIMIT
  BY UserLibAssumption
<1>2. PICK m \in Nat : m = n + A - 1
  OBVIOUS
<1>3. PICK w \in Nat : w = m % L /\ (m < L => w = m)
  <2>1. m \in Int
    OBVIOUS
  <2>2. m % L \in 0 .. L - 1
    BY <2>1, DivMod, Zenon
  <2>3. ASSUME m < L PROVE m % L = m
    <3>1. m \in 0 .. L - 1
      BY <2>3
    <3> QED BY <3>1, ModSmall
  <2>4. m % L \in Nat
    BY <2>2
  <2> QED BY <2>3, <2>4
<1>4. PICK q \in Int, r \in 0 .. A - 1 : q = w \div A /\ w = A * q + r
  <2>1. w \in Int
    OBVIOUS
  <2> QED BY <2>1, DivMod, Zenon
<1>5. q \in Nat
  <2> SUFFICES ASSUME q < 0 PROVE FALSE
    OBVIOUS
  <2>1. A * q + A <= A * 0
    <3>1. 0 \in Int
      OBVIOUS
    <3> QED BY <3>1, ProductGap, Zenon
  <2>2. A * q \in Int
    OBVIOUS
  <2> QED BY <1>4, <2>1, <2>2
<1>6. ALIGN_UP(n) = q * A
  BY <1>1, <1>2, <1>3, <1>4 DEF ALIGN_UP
<1>7. q * A \in Nat /\ q * A = A * q
  BY <1>5
<1>8. ASSUME n <= L - A PROVE q * A >= n
  <2>1. m < L
    BY <1>2, <1>8
  <2>2. w = n + A - 1
    BY <1>2, <1>3, <2>1
  <2> QED BY <1>4, <1>7, <2>2
<1> QED BY <1>1, <1>6, <1>7, <1>8

\* The arena before the first malloc's search.
LEMMA HeapInitArena == ASSUME NEW live, DOMAIN live = {} PROVE Arena(heap_init, live)
<1> DEFINE b == [at |-> 0, size |-> HEAP_SIZE - HDR, free |-> TRUE]
<1>1. HEAP_SIZE \in Nat /\ HDR \in Nat /\ HEAP_SIZE > HDR
  BY UserLibAssumption
<1>2. b \in UBlock /\ b.at = 0 /\ EndOf(b) = HEAP_SIZE
  <2>1. HEAP_SIZE - HDR \in Nat /\ 0 + HDR + (HEAP_SIZE - HDR) = HEAP_SIZE
    BY <1>1
  <2> QED BY <2>1 DEF UBlock, EndOf
<1>3. heap_init = <<b>>
  BY DEF heap_init
<1> HIDE DEF b
<1>4. heap_init \in Seq(UBlock) /\ Len(heap_init) = 1 /\ heap_init[1] = b
  BY <1>2, <1>3
<1>5. \A i \in 1 .. 1 - 1 : FALSE
  OBVIOUS
<1>6. Tiles(heap_init)
  BY <1>2, <1>4, <1>5 DEF Tiles
<1>7. MergedBut(heap_init, {})
  BY <1>4, <1>5 DEF MergedBut
<1> QED BY <1>6, <1>7 DEF Arena, Held

\* A free block is replaced by one in use and, when it is split, a free one.
Takes(t, h, cut, i, ptr, bytes) ==
    /\ i >= 1 /\ i <= Len(h) /\ h[i].free /\ Len(cut) \in {1, 2}
    /\ SpliceOf(UBlock, t, h, i - 1, cut, i) /\ CoversSame(cut, h, i - 1, i)
    /\ Backs(cut, 1, ptr, bytes)
HoldIn(live, ptr, bytes) == [p \in DOMAIN live \cup {ptr} |-> IF p = ptr THEN bytes ELSE live[p]]

\* A block taken, whole or split, leaves the arena as the allocator keeps it.
LEMMA TakeArena ==
    ASSUME NEW h, NEW t, NEW cut, NEW live, NEW i \in Nat, NEW bytes \in Nat, NEW ptr,
           Arena(h, live), Takes(t, h, cut, i, ptr, bytes)
    PROVE  Arena(t, HoldIn(live, ptr, bytes))
<1> DEFINE now == [p \in DOMAIN live \cup {ptr} |-> IF p = ptr THEN bytes ELSE live[p]]
<1>0. h[i].free /\ SpliceOf(UBlock, t, h, i - 1, cut, i) /\ CoversSame(cut, h, i - 1, i)
      /\ Backs(cut, 1, ptr, bytes)
  BY DEF Takes
<1>1. PICK n \in Nat, c \in Nat : n = Len(h) /\ c = Len(cut) /\ i <= n /\ i >= 1 /\ (c = 1 \/ c = 2)
  BY DEF Arena, Tiles, Takes
<1>2. PICK m \in Nat : m = Len(t) /\ m = c + n - 1
  <2>1. Len(t) = (i - 1) + c + n - i
    BY <1>0, <1>1 DEF SpliceOf, IsSplice
  <2>2. (i - 1) + c + n - i = c + n - 1 /\ c + n - 1 \in Nat
    BY <1>1
  <2> QED BY <2>1, <2>2
<1>3. /\ \A j \in 1 .. i - 1 : t[j] = h[j]
      /\ \A j \in 1 .. c : t[(i - 1) + j] = cut[j]
      /\ \A j \in 1 .. n - i : t[(i - 1) + c + j] = h[i + j]
  BY <1>0, <1>1 DEF SpliceOf, IsSplice
<1>4. t[i] = cut[1] /\ (c = 2 => t[i + 1] = cut[2])
  <2>1. 1 \in 1 .. c /\ (i - 1) + 1 = i
    BY <1>1
  <2>2. c = 2 => 2 \in 1 .. c /\ (i - 1) + 2 = i + 1
    BY <1>1
  <2> QED BY <1>3, <2>1, <2>2
<1>5. ASSUME NEW j \in i + 1 .. n PROVE j - 1 + c \in 1 .. m /\ t[j - 1 + c] = h[j]
  <2>1. j - i \in 1 .. n - i /\ (i - 1) + c + (j - i) = j - 1 + c /\ i + (j - i) = j /\ j - 1 + c \in 1 .. m
    BY <1>1, <1>2
  <2> QED BY <1>3, <2>1
<1>6. Tiles(t)
  <2>1. PICK a \in Nat : a = i - 1
    BY <1>1
  <2> QED BY <1>0, <2>1, SpliceTiles DEF Arena
<1>7. \A j \in 1 .. n - 1 : ~(h[j].free /\ h[j + 1].free)
  BY <1>1 DEF Arena, MergedBut
<1>8. ~cut[1].free
  BY <1>0 DEF Backs
<1>9. MergedBut(t, {})
  <2>0. n \in Nat /\ i \in Nat /\ c \in Nat /\ m = c + n - 1 /\ i <= n /\ i >= 1 /\ (c = 1 \/ c = 2)
    BY <1>1, <1>2
  <2>1. ASSUME NEW k \in Nat, k >= 1, k < m PROVE ~(t[k].free /\ t[k + 1].free)
    <3>1. CASE k < i - 1
      <4>1. k \in 1 .. i - 1 /\ k + 1 \in 1 .. i - 1 /\ k \in 1 .. n - 1
        BY <2>0, <2>1, <3>1
      <4> QED BY <1>3, <1>7, <4>1
    <3>2. CASE k = i - 1
      <4>1. k + 1 = i
        BY <2>0, <3>2
      <4> QED BY <1>4, <1>8, <4>1
    <3>3. CASE k = i
      BY <1>4, <1>8, <3>3
    <3>4. CASE k = i + 1 /\ c = 2
      <4>1. i + 1 \in i + 1 .. n /\ i \in 1 .. n - 1 /\ (i + 1) - 1 + c = k + 1
        BY <2>0, <2>1, <3>4
      <4>2. t[k + 1] = h[i + 1]
        BY <1>5, <4>1
      <4> QED BY <1>0, <1>7, <4>1, <4>2
    <3>5. CASE k > i - 1 + c
      <4>1. PICK j \in Int : j = k + 1 - c
        BY <2>0, <2>1
      <4>2. j \in i + 1 .. n /\ j - 1 + c = k /\ j + 1 \in i + 1 .. n /\ (j + 1) - 1 + c = k + 1 /\ j \in 1 .. n - 1
        BY <2>0, <2>1, <3>5, <4>1
      <4>3. t[k] = h[j] /\ t[k + 1] = h[j + 1]
        BY <1>5, <4>2
      <4> QED BY <1>7, <4>2, <4>3
    <3>6. k < i - 1 \/ k = i - 1 \/ k = i \/ (k = i + 1 /\ c = 2) \/ k > i - 1 + c
      BY <2>0, <2>1
    <3> QED BY <3>1, <3>2, <3>3, <3>4, <3>5, <3>6
  <2>2. \A k \in 1 .. m - 1 : k \in Nat /\ k >= 1 /\ k < m
    OBVIOUS
  <2>3. \A k \in 1 .. m - 1 : ~(t[k].free /\ t[k + 1].free)
    BY <2>1, <2>2
  <2> QED BY <1>2, <2>3 DEF MergedBut
<1>10. Held(t, now)
  <2>1. ASSUME NEW p \in DOMAIN now PROVE now[p] \in Nat /\ \E k \in 1 .. m : Backs(t, k, p, now[p])
    <3>1. CASE p = ptr
      <4>1. now[p] = bytes
        BY <3>1
      <4>2. Backs(t, i, ptr, bytes)
        <5>1. Backs(cut, 1, ptr, bytes)
          BY <1>0
        <5>2. t[i] = cut[1]
          BY <1>4
        <5> QED BY <5>1, <5>2, Zenon DEF Backs
      <4>3. i \in 1 .. m
        BY <1>1, <1>2
      <4> HIDE DEF now
      <4> QED BY <3>1, <4>1, <4>2, <4>3
    <3>2. CASE p # ptr
      <4>1. now[p] = live[p] /\ p \in DOMAIN live
        BY <3>2
      <4> HIDE DEF now
      <4>2. live[p] \in Nat /\ \E j \in 1 .. n : Backs(h, j, p, live[p])
        BY <1>1, <4>1 DEF Arena, Held
      <4>3. PICK j \in 1 .. n : Backs(h, j, p, live[p])
        BY <4>2
      <4>4. j # i
        BY <1>0, <4>3 DEF Backs
      <4>5. CASE j < i
        <5>1. j \in 1 .. i - 1 /\ j \in 1 .. m
          BY <1>1, <1>2, <4>5
        <5>2. Backs(t, j, p, live[p])
          BY <1>3, <4>3, <5>1 DEF Backs
        <5> QED BY <4>1, <4>2, <5>1, <5>2
      <4>6. CASE j > i
        <5>1. j \in i + 1 .. n
          BY <1>1, <4>6
        <5>2. PICK k \in 1 .. m : t[k] = h[j]
          BY <1>5, <5>1
        <5>3. Backs(t, k, p, live[p])
          BY <4>3, <5>2 DEF Backs
        <5> QED BY <4>1, <4>2, <5>3
      <4> QED BY <1>1, <4>4, <4>5, <4>6
    <3> QED BY <3>1, <3>2
  <2> HIDE DEF now
  <2> QED BY <1>2, <2>1 DEF Held
<1> QED BY <1>6, <1>9, <1>10 DEF Arena, HoldIn

\* Before the first malloc there is no list.
Usual(h, live) == Arena(h, live) \/ (h = << >> /\ DOMAIN live = {})

\* malloc keeps the arena sound, whether or not it finds a block.
LEMMA MallocArena ==
    ASSUME NEW h, NEW live, NEW bytes \in Nat, Usual(h, live)
    PROVE  /\ malloc(h, bytes).ptr = -1 => Arena(malloc(h, bytes).h, live)
           /\ malloc(h, bytes).ptr # -1 =>
                Arena(malloc(h, bytes).h, HoldIn(live, malloc(h, bytes).ptr, bytes))
<1> DEFINE want == ALIGN_UP(IF bytes = 0 THEN 1 ELSE bytes)
           blocks == IF h = <<>> THEN heap_init ELSE h
           fits == {j \in DOMAIN blocks : blocks[j].free /\ blocks[j].size >= want}
           i == CHOOSE x \in fits : \A y \in fits : x <= y
           b == blocks[i]
           cut == IF b.size >= want + HDR + ALIGN
                  THEN <<[at |-> b.at, size |-> want, free |-> FALSE],
                         [at |-> b.at + HDR + want, size |-> b.size - want - HDR, free |-> TRUE]>>
                  ELSE <<[b EXCEPT !.free = FALSE]>>
           t == SubSeq(blocks, 1, i - 1) \o cut \o SubSeq(blocks, i + 1, Len(blocks))
<1>1. malloc(h, bytes) = IF fits = {} THEN [h |-> blocks, ptr |-> -1] ELSE [h |-> t, ptr |-> b.at + HDR]
  BY DEF malloc
<1>2. want \in Nat /\ (bytes <= SIZE_LIMIT - ALIGN => want >= bytes)
  <2>1. CASE bytes = 0
    <3>1. ALIGN_UP(1) \in Nat
      BY AlignUp
    <3> QED BY <2>1, <3>1
  <2>2. CASE bytes # 0
    BY <2>2, AlignUp
  <2> QED BY <2>1, <2>2
<1>3. Arena(blocks, live)
  <2>1. CASE h = << >>
    <3>1. DOMAIN live = {}
      <4>1. ~Arena(<< >>, live)
        BY DEF Arena, Tiles
      <4> QED BY <2>1, <4>1 DEF Usual
    <3> QED BY <2>1, <3>1, HeapInitArena
  <2>2. CASE h # << >>
    BY <2>2 DEF Usual
  <2> QED BY <2>1, <2>2
<1> HIDE DEF want, blocks
<1>4. CASE fits = {}
  <2>1. malloc(h, bytes) = [h |-> blocks, ptr |-> -1]
    BY <1>1, <1>4
  <2>2. malloc(h, bytes).h = blocks /\ malloc(h, bytes).ptr = -1
    BY <2>1
  <2> QED BY <1>3, <2>2
<1>5. CASE fits # {}
  <2>1. PICK n \in Nat : n = Len(blocks) /\ DOMAIN blocks = 1 .. n /\ blocks \in Seq(UBlock)
    BY <1>3, LenProperties DEF Arena, Tiles
  <2>2. i \in fits
    <3>1. fits \in SUBSET Nat
      BY <2>1
    <3> HIDE DEF fits
    <3>2. \E x \in fits : \A y \in fits : x <= y
      BY <1>5, <3>1, LeastNat, Zenon
    <3> QED BY <3>2
  <2>3. i \in 1 .. n /\ b.free /\ b.size >= want
    BY <2>1, <2>2
  <2> HIDE DEF fits, i
  <2>4. PICK k \in Nat : k = i /\ k >= 1 /\ k <= Len(blocks)
    BY <2>1, <2>3
  <2>5. b \in UBlock
    <3>1. k \in 1 .. Len(blocks)
      BY <2>1, <2>4
    <3> QED BY <2>1, <2>4, <3>1, BlockFacts
  <2>6. PICK x \in Nat, s \in Nat : x = b.at /\ s = b.size /\ s >= want
    BY <2>3, <2>5 DEF UBlock
  <2>7. HDR \in Nat /\ ALIGN \in Nat /\ HDR >= 1
    BY UserLibAssumption
  <2>8. /\ cut \in Seq(UBlock) /\ Len(cut) \in {1, 2}
        /\ cut[1].at = x /\ ~cut[1].free /\ cut[1].size \in Nat /\ cut[1].size >= want
        /\ EndOf(cut[Len(cut)]) = EndOf(b)
        /\ \A j \in 1 .. Len(cut) - 1 : EndOf(cut[j]) = cut[j + 1].at
    <3>1. CASE s >= want + HDR + ALIGN
      <4> DEFINE c1 == [at |-> x, size |-> want, free |-> FALSE]
                 c2 == [at |-> x + HDR + want, size |-> s - want - HDR, free |-> TRUE]
      <4>1. cut = <<c1, c2>>
        BY <2>6, <3>1
      <4>2. PICK y \in Nat, z \in Nat : y = x + HDR + want /\ z = s - want - HDR
        BY <1>2, <2>7, <3>1
      <4>3. c1 \in UBlock /\ c1.at = x /\ c1.free = FALSE /\ c1.size = want
        BY <1>2 DEF UBlock
      <4>4. c2 \in UBlock /\ c2.at = y /\ c2.size = z
        BY <4>2 DEF UBlock
      <4> HIDE DEF c1, c2, cut
      <4>5. cut \in Seq(UBlock) /\ Len(cut) = 2 /\ cut[1] = c1 /\ cut[2] = c2
        BY <4>1, <4>3, <4>4
      <4>6. EndOf(c1) = y
        BY <4>2, <4>3 DEF EndOf
      <4>7. EndOf(c2) = EndOf(b)
        <5>1. y + HDR + z = x + HDR + s
          BY <1>2, <2>7, <4>2
        <5> HIDE DEF b
        <5> QED BY <2>6, <4>4, <5>1 DEF EndOf
      <4>8. \A j \in 1 .. Len(cut) - 1 : j = 1
        BY <4>5
      <4>9. want >= want
        BY <1>2
      <4> QED BY <1>2, <4>3, <4>4, <4>5, <4>6, <4>7, <4>8, <4>9
    <3>2. CASE ~(s >= want + HDR + ALIGN)
      <4> DEFINE c1 == [b EXCEPT !.free = FALSE]
      <4>1. cut = <<c1>>
        BY <2>6, <3>2
      <4>2. c1 \in UBlock /\ c1.at = x /\ c1.free = FALSE /\ c1.size = s
        <5> HIDE DEF b
        <5> QED BY <2>5, <2>6 DEF UBlock
      <4> HIDE DEF c1, cut
      <4>3. cut \in Seq(UBlock) /\ Len(cut) = 1 /\ cut[1] = c1 /\ \A j \in 1 .. Len(cut) - 1 : FALSE
        BY <4>1, <4>2
      <4>4. EndOf(c1) = EndOf(b)
        BY <2>6, <4>2 DEF EndOf
      <4> QED BY <2>6, <4>2, <4>3, <4>4
    <3> QED BY <3>1, <3>2
  <2> HIDE DEF cut
  <2>9. PICK a \in Nat : a = k - 1 /\ a <= k /\ a < k /\ a + 1 = k
    BY <2>4
  <2>10. SpliceOf(UBlock, t, blocks, a, cut, k)
    <3>1. t = SubSeq(blocks, 1, a) \o cut \o SubSeq(blocks, k + 1, Len(blocks))
      BY <2>4, <2>9
    <3> HIDE DEF t
    <3>2. SpliceOf(UBlock, SubSeq(blocks, 1, a) \o cut \o SubSeq(blocks, k + 1, Len(blocks)), blocks, a, cut, k)
      BY <2>1, <2>4, <2>8, <2>9, Splice
    <3> QED BY <3>1, <3>2
  <2> HIDE DEF t
  <2>11. CoversSame(cut, blocks, a, k)
    <3>1. blocks[a + 1] = b /\ blocks[k] = b
      BY <2>4, <2>9
    <3>2. Len(cut) \in Nat \ {0}
      BY <2>8
    <3> QED BY <2>4, <2>6, <2>8, <2>9, <3>1, <3>2 DEF CoversSame
  <2>12. Backs(cut, 1, x + HDR, bytes)
    <3>1. cut[1].size >= bytes \/ bytes > SIZE_LIMIT - ALIGN
      <4>1. PICK z \in Nat, L \in Int : z = cut[1].size /\ L = SIZE_LIMIT - ALIGN
        BY <2>8, UserLibAssumption
      <4> QED BY <1>2, <2>8, <4>1
    <3> QED BY <2>8, <3>1 DEF Backs
  <2>13. blocks[k].free
    BY <2>3, <2>4
  <2>14. Arena(t, HoldIn(live, x + HDR, bytes))
    <3>1. SpliceOf(UBlock, t, blocks, k - 1, cut, k) /\ CoversSame(cut, blocks, k - 1, k)
      BY <2>9, <2>10, <2>11
    <3>2. PICK ptr : ptr = x + HDR
      OBVIOUS
    <3>3. Takes(t, blocks, cut, k, ptr, bytes)
      BY <2>4, <2>8, <2>12, <2>13, <3>1, <3>2 DEF Takes
    <3>4. Arena(t, HoldIn(live, ptr, bytes))
      BY <1>3, <3>3, TakeArena
    <3> QED BY <3>2, <3>4
  <2>15. x + HDR # -1
    BY <2>7
  <2>16. malloc(h, bytes).h = t /\ malloc(h, bytes).ptr = x + HDR
    BY <1>1, <1>5, <2>6
  <2> QED BY <2>14, <2>15, <2>16
<1> QED BY <1>4, <1>5

\* calloc refuses exactly the products that do not fit a size_t: one it accepts
\* is the number of bytes malloc is asked for.
LEMMA CallocTotal ==
    ASSUME NEW n \in Nat, NEW size \in Nat,
           size # 0 => ((n * size) % SIZE_LIMIT) \div size = n
    PROVE  (n * size) % SIZE_LIMIT = n * size
<1>1. PICK L \in Nat \ {0} : L = SIZE_LIMIT
  BY UserLibAssumption
<1>2. PICK v \in Nat : v = n * size
  OBVIOUS
<1>3. PICK q \in Int, w \in 0 .. L - 1 : w = v % L /\ v = L * q + w
  <2>1. v \in Int
    OBVIOUS
  <2> QED BY <2>1, DivMod, Zenon
<1>4. CASE size = 0
  <2>1. v = 0 /\ 0 \in 0 .. L - 1
    BY <1>2, <1>4
  <2>2. v % L = v
    BY <2>1, ModSmall
  <2> QED BY <1>1, <1>2, <2>2
<1>5. CASE size # 0
  <2>1. w \div size = n
    BY <1>1, <1>2, <1>3, <1>5
  <2>2. PICK d \in Int, r \in 0 .. size - 1 : d = w \div size /\ w = size * d + r
    <3>1. w \in Int /\ size \in Nat \ {0}
      BY <1>5
    <3> QED BY <3>1, DivMod, Zenon
  <2>3. size * d = v
    <3>1. size * n = n * size
      OBVIOUS
    <3> QED BY <1>2, <2>1, <2>2, <3>1
  <2>4. w >= v
    BY <2>2, <2>3
  <2>5. q \in Nat
    <3> SUFFICES ASSUME q < 0 PROVE FALSE
      OBVIOUS
    <3>1. L * q + L <= L * 0
      <4>1. 0 \in Int
        OBVIOUS
      <4> QED BY <4>1, ProductGap, Zenon
    <3>2. L * q \in Int
      OBVIOUS
    <3> QED BY <1>3, <3>1, <3>2
  <2>6. L * q \in Nat
    BY <2>5
  <2>7. w = v
    BY <1>3, <2>4, <2>6
  <2> QED BY <1>1, <1>2, <1>3, <2>7
<1> QED BY <1>4, <1>5

\* The blocks of the arena start at different addresses: a pointer names one block.
LEMMA TilesApart ==
    ASSUME NEW h, Tiles(h), NEW i \in DOMAIN h, NEW j \in DOMAIN h, h[i].at = h[j].at
    PROVE  i = j
<1>1. PICK n \in Nat : n = Len(h) /\ DOMAIN h = 1 .. n /\ h \in Seq(UBlock)
  BY LenProperties DEF Tiles
<1>2. PICK f \in [1 .. n -> Nat] : \A k \in 1 .. n : f[k] = h[k].at
  <2>1. \A k \in 1 .. n : h[k].at \in Nat
    BY <1>1, BlockFacts
  <2>2. [k \in 1 .. n |-> h[k].at] \in [1 .. n -> Nat]
    BY <2>1
  <2> QED BY <2>2
<1>3. ASSUME NEW k \in 1 .. n, k > 1 PROVE f[k] > f[k - 1]
  <2>1. PICK e \in 1 .. n - 1 : e = k - 1 /\ e \in 1 .. n /\ e + 1 = k
    BY <1>3
  <2>2. EndOf(h[e]) = h[e + 1].at
    BY <1>1, <2>1 DEF Tiles
  <2>3. PICK s \in Nat : s = h[e].size
    BY <1>1, <2>1, BlockFacts
  <2>4. f[k] = f[e] + HDR + s
    BY <1>2, <2>1, <2>2, <2>3 DEF EndOf
  <2>5. HDR \in Nat /\ HDR >= 1 /\ f[e] \in Nat
    BY <2>1, UserLibAssumption
  <2> QED BY <2>1, <2>3, <2>4, <2>5
<1> DEFINE T == {k \in 0 .. n : \A a, b \in 1 .. n : (a < b /\ b <= k) => f[a] < f[b]}
<1>4. 0 \in T
  OBVIOUS
<1>5. ASSUME NEW k \in 1 .. n, k - 1 \in T PROVE k \in T
  <2>1. ASSUME NEW a \in 1 .. n, NEW b \in 1 .. n, a < b, b <= k PROVE f[a] < f[b]
    <3>1. CASE b <= k - 1
      BY <1>5, <2>1, <3>1
    <3>2. CASE b = k
      <4>1. PICK e \in 1 .. n : e = k - 1 /\ a <= e
        BY <2>1, <3>2
      <4>2. f[e] < f[b]
        BY <1>3, <2>1, <3>2, <4>1
      <4>3. a # e => f[a] < f[e]
        BY <1>5, <4>1
      <4>4. f[a] \in Nat /\ f[b] \in Nat /\ f[e] \in Nat
        OBVIOUS
      <4> QED BY <4>1, <4>2, <4>3, <4>4
    <3> QED BY <2>1, <3>1, <3>2
  <2> QED BY <2>1
<1> HIDE DEF T
<1>6. 0 .. n \subseteq T
  BY <1>4, <1>5, IntervalInduction
<1>7. \A a, b \in 1 .. n : a < b => f[a] < f[b]
  <2>1. n \in T
    BY <1>6
  <2> QED BY <2>1 DEF T
<1>8. PICK a \in 1 .. n, b \in 1 .. n : a = i /\ b = j /\ f[a] = f[b]
  BY <1>1, <1>2
<1> QED BY <1>7, <1>8

\* A pointer the program holds can be given another size that its block has room for.
LEMMA RegrantArena ==
    ASSUME NEW h, NEW live, NEW ptr \in DOMAIN live, NEW size \in Nat, Arena(h, live),
           h[BlockOf(h, ptr)].size >= ALIGN_UP(size)
    PROVE  Arena(h, HoldIn(live, ptr, size))
<1> DEFINE i == BlockOf(h, ptr)
           now == HoldIn(live, ptr, size)
<1>1. PICK n \in Nat : n = Len(h) /\ h \in Seq(UBlock) /\ DOMAIN h = 1 .. n
  BY LenProperties DEF Arena, Tiles
<1>2. PICK j \in 1 .. n : Backs(h, j, ptr, live[ptr])
  BY <1>1 DEF Arena, Held
<1>3. PICK x \in Nat : x = h[j].at /\ x + HDR = ptr /\ HDR \in Nat
  BY <1>1, <1>2, BlockFacts, UserLibAssumption DEF Backs
<1>4. h[j].at = ptr - HDR
  BY <1>3
<1>5. \E k \in DOMAIN h : h[k].at = ptr - HDR
  BY <1>1, <1>4
<1>6. i \in DOMAIN h /\ h[i].at = ptr - HDR
  BY <1>5, Zenon DEF BlockOf
<1>7. i = j
  BY <1>1, <1>4, <1>6, TilesApart DEF Arena
<1>8. h[j].size >= size \/ size > SIZE_LIMIT - ALIGN
  <2>1. PICK s \in Nat, u \in Nat, L \in Int : s = h[j].size /\ u = ALIGN_UP(size) /\ L = SIZE_LIMIT - ALIGN
    <3>1. h[j].size \in Nat
      BY <1>1, BlockFacts
    <3>2. ALIGN_UP(size) \in Nat
      BY AlignUp
    <3>3. SIZE_LIMIT - ALIGN \in Int
      BY UserLibAssumption
    <3> QED BY <3>1, <3>2, <3>3
  <2>2. s >= u
    BY <1>7, <2>1
  <2>3. size <= L => u >= size
    BY <2>1, AlignUp
  <2> QED BY <2>1, <2>2, <2>3
<1>9. Backs(h, j, ptr, size)
  BY <1>2, <1>8 DEF Backs
<1>10. Held(h, now)
  <2>1. ASSUME NEW p \in DOMAIN now PROVE now[p] \in Nat /\ \E k \in 1 .. n : Backs(h, k, p, now[p])
    <3>1. CASE p = ptr
      <4>1. now[p] = size
        BY <3>1 DEF HoldIn
      <4> HIDE DEF now
      <4> QED BY <1>9, <3>1, <4>1
    <3>2. CASE p # ptr
      <4>1. p \in DOMAIN live /\ now[p] = live[p]
        BY <3>2 DEF HoldIn
      <4> HIDE DEF now
      <4> QED BY <1>1, <4>1 DEF Arena, Held
    <3> QED BY <3>1, <3>2
  <2> HIDE DEF now
  <2> QED BY <1>1, <2>1 DEF Held
<1> QED BY <1>10 DEF Arena

\* The invariant of the allocator, for every call a program can make.
LEMMA LibStep == Usual(uheap, ulive) /\ [LibNext]_libVars => Usual(uheap, ulive)'
<1> SUFFICES ASSUME Usual(uheap, ulive), [LibNext]_libVars PROVE Usual(uheap', ulive')
  BY DEF Usual, Arena, Tiles, MergedBut, Held, Backs, EndOf
<1>0. Request \subseteq Nat
  <2>1. 0 .. SIZE_LIMIT - 1 \subseteq Nat
    BY UserLibAssumption
  <2> QED BY <2>1, UserLibAssumption
<1>1. ASSUME NEW bytes \in Request, CallMalloc(bytes) PROVE Usual(uheap', ulive')
  <2>1. PICK r : r = malloc(uheap, bytes)
    OBVIOUS
  <2>2. uheap' = r.h /\ ulive' = IF r.ptr = -1 THEN ulive ELSE HoldIn(ulive, r.ptr, bytes)
    BY <1>1, <2>1 DEF CallMalloc, Hold, HoldIn
  <2>3. bytes \in Nat
    BY <1>0
  <2>4. /\ r.ptr = -1 => Arena(r.h, ulive)
        /\ r.ptr # -1 => Arena(r.h, HoldIn(ulive, r.ptr, bytes))
    BY <2>1, <2>3, MallocArena
  <2> QED BY <2>2, <2>4 DEF Usual
<1>2. ASSUME NEW n \in 1 .. 2, NEW size \in Request, CallCalloc(n, size) PROVE Usual(uheap', ulive')
  <2>1. PICK r, total : r = calloc(uheap, n, size) /\ total = (n * size) % SIZE_LIMIT
    OBVIOUS
  <2>2. uheap' = r.h /\ ulive' = IF r.ptr = -1 THEN ulive ELSE HoldIn(ulive, r.ptr, n * size)
    BY <1>2, <2>1 DEF CallCalloc, Hold, HoldIn
  <2>3. n \in Nat /\ size \in Nat
    BY <1>0
  <2>4. CASE size # 0 /\ total \div size # n
    <3>1. r = [h |-> uheap, ptr |-> -1]
      BY <2>1, <2>4 DEF calloc
    <3>2. r.h = uheap /\ r.ptr = -1
      BY <3>1
    <3> QED BY <2>2, <3>2
  <2>5. CASE ~(size # 0 /\ total \div size # n)
    <3>1. r = malloc(uheap, total)
      BY <2>1, <2>5 DEF calloc
    <3>2. total = n * size
      BY <2>1, <2>3, <2>5, CallocTotal
    <3>3. total \in Nat
      BY <2>3, <3>2
    <3>4. /\ r.ptr = -1 => Arena(r.h, ulive)
          /\ r.ptr # -1 => Arena(r.h, HoldIn(ulive, r.ptr, total))
      BY <3>1, <3>3, MallocArena
    <3> QED BY <2>2, <3>2, <3>4 DEF Usual
  <2> QED BY <2>4, <2>5
<1>3. ASSUME NEW ptr \in DOMAIN ulive, CallFree(ptr) PROVE Usual(uheap', ulive')
  <2>1. Arena(uheap, ulive)
    BY DEF Usual
  <2>2. Arena(free(uheap, ptr), Drop(ulive, ptr))
    BY <2>1, FreeArena
  <2> QED BY <1>3, <2>2 DEF CallFree, Usual
<1>4. ASSUME NEW ptr \in DOMAIN ulive, NEW size \in Request, realloc(ptr, size) PROVE Usual(uheap', ulive')
  <2>0. Arena(uheap, ulive) /\ size \in Nat
    BY <1>0 DEF Usual
  <2>1. PICK big, new : big = (uheap[BlockOf(uheap, ptr)].size >= ALIGN_UP(size)) /\ new = malloc(uheap, size)
    OBVIOUS
  <2>2. CASE uheap' = free(uheap, ptr) /\ ulive' = Drop(ulive, ptr)
    BY <2>0, <2>2, FreeArena DEF Usual
  <2>3. CASE big /\ ulive' = Hold(ptr, size) /\ UNCHANGED uheap
    <3>1. Arena(uheap, HoldIn(ulive, ptr, size))
      BY <2>0, <2>1, <2>3, RegrantArena
    <3>2. ulive' = HoldIn(ulive, ptr, size)
      BY <2>3 DEF Hold, HoldIn
    <3> QED BY <2>3, <3>1, <3>2 DEF Usual
  <2>4. CASE UNCHANGED <<uheap, ulive>>
    BY <2>4
  <2>5. CASE new.ptr # -1 /\ uheap' = free(new.h, ptr) /\ ulive' = Drop(Hold(new.ptr, size), ptr)
    <3>1. PICK held : held = HoldIn(ulive, new.ptr, size)
      OBVIOUS
    <3>2. Arena(new.h, held)
      BY <2>0, <2>1, <2>5, <3>1, MallocArena DEF Usual
    <3>3. ptr \in DOMAIN held
      BY <3>1 DEF HoldIn
    <3>4. Arena(free(new.h, ptr), Drop(held, ptr))
      BY <3>2, <3>3, FreeArena
    <3>5. Hold(new.ptr, size) = held
      BY <3>1 DEF Hold, HoldIn
    <3> QED BY <2>5, <3>4, <3>5 DEF Usual
  <2> QED BY <1>4, <2>1, <2>2, <2>3, <2>4, <2>5 DEF realloc
<1>5. ASSUME NEW a \in Arrays, NEW size \in ElementSize, CallQsort(a, size) PROVE Usual(uheap', ulive')
  BY <1>5 DEF CallQsort
<1>6. CASE UNCHANGED libVars
  BY <1>6 DEF libVars
<1> QED BY <1>1, <1>2, <1>3, <1>4, <1>5, <1>6 DEF LibNext

\* The user allocator is sound after any sequence of calls, for every arena size
\* and every request, the ones that wrap included.
THEOREM ArenaStaysSound == LibSpec => []ArenaSound
<1>1. LibInit => Usual(uheap, ulive)
  BY DEF LibInit, Usual
<1>2. Usual(uheap, ulive) => ArenaSound
  <2> SUFFICES ASSUME Usual(uheap, ulive) PROVE ArenaSound
    OBVIOUS
  <2>1. CASE Arena(uheap, ulive)
    <3>1. PICK n \in Nat : n = Len(uheap) /\ DOMAIN uheap = 1 .. n
      BY <2>1, LenProperties DEF Arena, Tiles
    <3>2. BlocksTile
      BY <2>1 DEF Arena, Tiles, BlocksTile
    <3>3. Coalesced
      BY <2>1 DEF Arena, MergedBut, Coalesced
    <3>4. HeldIsBacked
      BY <2>1, <3>1 DEF Arena, Held, Backs, HeldIsBacked
    <3> QED BY <3>2, <3>3, <3>4 DEF ArenaSound
  <2>2. CASE uheap = << >> /\ DOMAIN ulive = {}
    <3>1. \A i \in 1 .. Len(uheap) - 1 : FALSE
      BY <2>2
    <3> QED BY <2>2, <3>1 DEF ArenaSound, BlocksTile, Coalesced, HeldIsBacked
  <2> QED BY <2>1, <2>2 DEF Usual
<1> QED BY <1>1, <1>2, LibStep, PTL DEF LibSpec

-----------------------------------------------------------------------------
(* The user library's sort *)

\* The first k elements of the array, in order.
InOrder(s, a, k) ==
    /\ s \in Seq(Element) /\ Len(s) = k
    /\ \A j \in 1 .. k - 1 : s[j].key <= s[j + 1].key
    /\ {s[j] : j \in 1 .. k} = {a[j] : j \in 1 .. k}

\* One turn of the loop.
Insert(s, x, k) ==
    LET low == {j \in 1 .. k : s[j].key <= x.key} \cup {0}
        at == CHOOSE j \in low : \A i \in low : i <= j
    IN  SubSeq(s, 1, at) \o <<x>> \o SubSeq(s, at + 1, k)

\* The place of x: behind an element that is not greater, before one that is.
PlacedAt(t, s, x, k, p) ==
    /\ SpliceOf(Element, t, s, p, <<x>>, p)
    /\ p > 0 => s[p].key <= x.key
    /\ p < k => x.key <= s[p + 1].key

\* Insertion finds that place.
LEMMA InsertPlaces ==
    ASSUME NEW s, NEW a, NEW k \in Nat, InOrder(s, a, k), NEW x \in Element
    PROVE  \E p \in 0 .. k : PlacedAt(Insert(s, x, k), s, x, k, p)
<1> DEFINE low == {j \in 1 .. k : s[j].key <= x.key} \cup {0}
           at == CHOOSE j \in low : \A i \in low : i <= j
<1>1. low \in SUBSET Int /\ low # {} /\ (\A j \in low : j <= k) /\ k \in Int
  OBVIOUS
<1>2. \A j \in low : j \in 0 .. k /\ (j > 0 => s[j].key <= x.key)
  OBVIOUS
<1>3. \A j \in 1 .. k : j \notin low => ~(s[j].key <= x.key)
  OBVIOUS
<1> HIDE DEF low
<1>4. \E j \in low : \A i \in low : i <= j
  BY <1>1, GreatestUpTo, Zenon
<1>5. at \in low /\ \A i \in low : i <= at
  BY <1>4
<1>6. Insert(s, x, k) = SubSeq(s, 1, at) \o <<x>> \o SubSeq(s, at + 1, k)
  BY DEF Insert, low
<1> HIDE DEF at
<1>7. PICK p \in Nat : p = at /\ p <= k
  BY <1>2, <1>5
<1>8. s \in Seq(Element) /\ Len(s) = k
  BY DEF InOrder
<1>9. PICK cut : cut = <<x>> /\ cut \in Seq(Element)
  <2>1. <<x>> \in Seq(Element)
    OBVIOUS
  <2> QED BY <2>1
<1>10. SpliceOf(Element, SubSeq(s, 1, p) \o cut \o SubSeq(s, p + 1, Len(s)), s, p, cut, p)
  <2>1. p <= p /\ p <= Len(s)
    BY <1>7, <1>8
  <2> QED BY <1>8, <1>9, <2>1, Splice
<1>11. SpliceOf(Element, Insert(s, x, k), s, p, <<x>>, p)
  BY <1>6, <1>7, <1>8, <1>9, <1>10
<1>12. p > 0 => s[p].key <= x.key
  BY <1>2, <1>5, <1>7
<1>13. ASSUME p < k PROVE x.key <= s[p + 1].key
  <2>1. PICK q \in 1 .. k : q = p + 1
    BY <1>13
  <2>2. q \notin low
    BY <1>5, <1>7, <2>1
  <2>3. ~(s[q].key <= x.key)
    BY <1>3, <2>2
  <2>4. s[q].key \in Int /\ x.key \in Int
    <3>1. s[q] \in Element
      BY <1>8, ElementOfSeq
    <3> QED BY <3>1 DEF Element
  <2> QED BY <2>1, <2>3, <2>4
<1>14. PlacedAt(Insert(s, x, k), s, x, k, p) /\ p \in 0 .. k
  BY <1>7, <1>11, <1>12, <1>13 DEF PlacedAt
<1> QED BY <1>14

\* Put there, x leaves the elements in order.
LEMMA PlacedInOrder ==
    ASSUME NEW s, NEW t, NEW a, NEW k \in Nat, NEW p \in 0 .. k, InOrder(s, a, k),
           PlacedAt(t, s, a[k + 1], k, p)
    PROVE  InOrder(t, a, k + 1)
<1>1. PICK x : x = a[k + 1]
  OBVIOUS
<1>2. /\ t \in Seq(Element)
      /\ Len(t) = p + 1 + k - p
      /\ \A j \in 1 .. p : t[j] = s[j]
      /\ \A j \in 1 .. 1 : t[p + j] = x
      /\ \A j \in 1 .. k - p : t[p + 1 + j] = s[p + j]
  <2>1. Len(s) = k
    BY DEF InOrder
  <2>2. PICK cut : cut = <<x>> /\ Len(cut) = 1 /\ cut[1] = x
    <3>1. Len(<<x>>) = 1 /\ <<x>>[1] = x
      OBVIOUS
    <3> QED BY <3>1
  <2>3. SpliceOf(Element, t, s, p, cut, p)
    BY <1>1, <2>2 DEF PlacedAt
  <2> QED BY <2>1, <2>2, <2>3 DEF SpliceOf, IsSplice
<1>3. Len(t) = k + 1
  BY <1>2
<1>4. t[p + 1] = x
  BY <1>2
<1>5. (p > 0 => s[p].key <= x.key) /\ (p < k => x.key <= s[p + 1].key)
  BY <1>1 DEF PlacedAt
<1>6. \A j \in 1 .. k - 1 : s[j].key <= s[j + 1].key
  BY DEF InOrder
<1>7. ASSUME NEW j \in p + 2 .. k + 1 PROVE t[j] = s[j - 1]
  <2>1. j - p - 1 \in 1 .. k - p /\ p + 1 + (j - p - 1) = j /\ p + (j - p - 1) = j - 1
    OBVIOUS
  <2> QED BY <1>2, <2>1
<1>8. ASSUME NEW j \in 1 .. (k + 1) - 1 PROVE t[j].key <= t[j + 1].key
  <2>1. CASE j < p
    <3>1. j \in 1 .. p /\ j + 1 \in 1 .. p /\ j \in 1 .. k - 1
      BY <2>1
    <3> QED BY <1>2, <1>6, <3>1
  <2>2. CASE j = p
    <3>1. j \in 1 .. p /\ p > 0
      BY <2>2
    <3> QED BY <1>2, <1>4, <1>5, <2>2, <3>1
  <2>3. CASE j = p + 1
    <3>1. j + 1 \in p + 2 .. k + 1 /\ (j + 1) - 1 = p + 1 /\ p < k
      BY <2>3
    <3>2. t[j + 1] = s[p + 1]
      BY <1>7, <3>1
    <3> QED BY <1>4, <1>5, <2>3, <3>1, <3>2
  <2>4. CASE j > p + 1
    <3>1. j \in p + 2 .. k + 1 /\ j + 1 \in p + 2 .. k + 1 /\ (j + 1) - 1 = j
      BY <2>4
    <3>2. PICK i \in 1 .. k - 1 : i = j - 1 /\ i + 1 = j
      BY <2>4
    <3>3. t[j] = s[i] /\ t[j + 1] = s[i + 1]
      BY <1>7, <3>1, <3>2
    <3> QED BY <1>6, <3>2, <3>3
  <2> QED BY <2>1, <2>2, <2>3, <2>4
<1>9. {t[j] : j \in 1 .. k + 1} = {a[j] : j \in 1 .. k + 1}
  <2>1. {t[j] : j \in 1 .. k + 1} = {s[j] : j \in 1 .. k} \cup {x}
    <3>1. ASSUME NEW j \in 1 .. k + 1 PROVE t[j] \in {s[e] : e \in 1 .. k} \cup {x}
      <4>1. CASE j <= p
        <5>1. j \in 1 .. p /\ j \in 1 .. k
          BY <4>1
        <5> QED BY <1>2, <5>1
      <4>2. CASE j = p + 1
        BY <1>4, <4>2
      <4>3. CASE j > p + 1
        <5>1. j \in p + 2 .. k + 1 /\ j - 1 \in 1 .. k
          BY <4>3
        <5> QED BY <1>7, <5>1
      <4> QED BY <4>1, <4>2, <4>3
    <3>2. ASSUME NEW e \in 1 .. k PROVE \E j \in 1 .. k + 1 : t[j] = s[e]
      <4>1. CASE e <= p
        <5>1. e \in 1 .. p /\ e \in 1 .. k + 1
          BY <4>1
        <5> QED BY <1>2, <5>1
      <4>2. CASE e > p
        <5>1. e + 1 \in p + 2 .. k + 1 /\ e + 1 \in 1 .. k + 1 /\ (e + 1) - 1 = e
          BY <4>2
        <5> QED BY <1>7, <5>1
      <4> QED BY <4>1, <4>2
    <3>3. p + 1 \in 1 .. k + 1
      OBVIOUS
    <3> QED BY <1>4, <3>1, <3>2, <3>3
  <2>2. {a[j] : j \in 1 .. k + 1} = {a[j] : j \in 1 .. k} \cup {x}
    <3>1. 1 .. k + 1 = (1 .. k) \cup {k + 1}
      OBVIOUS
    <3> QED BY <1>1, <3>1
  <2>3. {s[j] : j \in 1 .. k} = {a[j] : j \in 1 .. k}
    BY DEF InOrder
  <2> QED BY <2>1, <2>2, <2>3
<1> QED BY <1>2, <1>3, <1>8, <1>9 DEF InOrder

\* Insertion sort: after turn i the first i elements are in order.
LEMMA QsortInOrder ==
    ASSUME NEW a \in Seq(Element), a # << >>, NEW size, ~(size > TMP_SIZE)
    PROVE  InOrder(qsort(a, size), a, Len(a))
<1> DEFINE R(g) == [i \in 1 .. Len(a) |->
                       IF i = 1 THEN <<a[1]>> ELSE Insert(g[i - 1], a[i], i - 1)]
           place == CHOOSE g : g = R(g)
<1>0. PICK n \in Nat : n = Len(a) /\ n >= 1
  <2>1. Len(a) \in Nat /\ Len(a) # 0
    BY LenProperties, EmptySeq
  <2> QED BY <2>1
<1>1. qsort(a, size) = place[n]
  BY <1>0 DEF qsort, Insert
<1>2. ASSUME NEW i \in 1 .. n PROVE a[i] \in Element
  BY <1>0, ElementOfSeq
<1>3. InOrder(<<a[1]>>, a, 1)
  <2>1. PICK x \in Element : x = a[1]
    BY <1>0, <1>2
  <2>2. PICK s : s = <<x>> /\ s \in Seq(Element) /\ Len(s) = 1 /\ s[1] = x
    <3>1. <<x>> \in Seq(Element) /\ Len(<<x>>) = 1 /\ <<x>>[1] = x
      OBVIOUS
    <3> QED BY <3>1
  <2>3. 1 .. 1 = {1} /\ 1 .. 1 - 1 = {}
    OBVIOUS
  <2> QED BY <2>1, <2>2, <2>3 DEF InOrder
<1>4. ASSUME NEW k \in 1 .. n - 1, NEW s, InOrder(s, a, k)
      PROVE  InOrder(Insert(s, a[k + 1], k), a, k + 1)
  <2>1. k \in Nat /\ a[k + 1] \in Element
    BY <1>2
  <2>2. PICK p \in 0 .. k : PlacedAt(Insert(s, a[k + 1], k), s, a[k + 1], k, p)
    BY <1>4, <2>1, InsertPlaces
  <2> QED BY <1>4, <2>1, <2>2, PlacedInOrder
\* The recursion has a solution.
<1>5. place = R(place)
  <2> DEFINE X == Seq(Element)
             x0 == <<a[1]>>
             Step(k, s) == IF InOrder(s, a, k) THEN Insert(s, a[k + 1], k) ELSE s
             step == [k \in 1 .. n - 1 |-> [s \in X |-> Step(k, s)]]
  <2>1. x0 \in X
    BY <1>3 DEF InOrder
  <2>2. ASSUME NEW k \in 1 .. n - 1, NEW s \in X PROVE Step(k, s) \in X
    BY <1>4, <2>2 DEF InOrder
  <2>3. step \in [1 .. n - 1 -> [X -> X]]
    <3> HIDE DEF X, Step
    <3> QED BY <2>2
  <2>4. n - 1 \in Nat
    BY <1>0
  <2>5. PICK f : IsRecursion(f, n - 1, X, x0, step)
    <3> HIDE DEF X, x0, step
    <3> QED BY <2>1, <2>3, <2>4, RecursionExists
  <2>6. f[0] = x0 /\ f \in [0 .. n - 1 -> X] /\ \A k \in 1 .. n - 1 : f[k] = Step(k, f[k - 1])
    <3> HIDE DEF X, x0, Step
    <3>1. f \in [0 .. n - 1 -> X] /\ f[0] = x0 /\ \A k \in 1 .. n - 1 : f[k] = step[k][f[k - 1]]
      BY <2>5 DEF IsRecursion
    <3>2. ASSUME NEW k \in 1 .. n - 1 PROVE f[k - 1] \in X
      <4>1. k - 1 \in 0 .. n - 1
        BY <1>0
      <4> QED BY <3>1, <4>1
    <3> QED BY <3>1, <3>2
  <2> DEFINE T == {k \in 0 .. n - 1 : InOrder(f[k], a, k + 1)}
  <2>7. 0 \in T
    <3>1. InOrder(f[0], a, 0 + 1) /\ 0 \in 0 .. n - 1
      BY <1>0, <1>3, <2>6
    <3> QED BY <3>1
  <2>8. ASSUME NEW k \in 1 .. n - 1, k - 1 \in T PROVE k \in T
    <3>1. InOrder(f[k - 1], a, k)
      <4>1. (k - 1) + 1 = k
        OBVIOUS
      <4> QED BY <2>8, <4>1
    <3>2. f[k] = Insert(f[k - 1], a[k + 1], k)
      BY <2>6, <3>1
    <3>3. InOrder(f[k], a, k + 1)
      BY <1>4, <3>1, <3>2
    <3>4. k \in 0 .. n - 1
      OBVIOUS
    <3> QED BY <3>3, <3>4
  <2> HIDE DEF T, X, x0, Step
  <2>9. 0 .. n - 1 \subseteq T
    BY <2>4, <2>7, <2>8, IntervalInduction
  <2>10. \A k \in 0 .. n - 1 : InOrder(f[k], a, k + 1)
    BY <2>9 DEF T
  <2> DEFINE g == [i \in 1 .. n |-> f[i - 1]]
  <2>11. ASSUME NEW i \in 1 .. n PROVE g[i] = IF i = 1 THEN <<a[1]>> ELSE Insert(g[i - 1], a[i], i - 1)
    <3>1. CASE i = 1
      BY <2>6, <3>1 DEF x0
    <3>2. CASE i # 1
      <4>1. PICK k \in 1 .. n - 1 : k = i - 1 /\ k + 1 = i /\ (k - 1) + 1 = k /\ k - 1 \in 0 .. n - 1
        BY <3>2
      <4>2. InOrder(f[k - 1], a, k)
        BY <2>10, <4>1
      <4>3. f[k] = Insert(f[k - 1], a[i], k)
        BY <2>6, <4>1, <4>2 DEF Step
      <4>4. g[i] = f[k] /\ g[i - 1] = f[k - 1]
        BY <4>1
      <4> QED BY <3>2, <4>1, <4>3, <4>4
    <3> QED BY <3>1, <3>2
  <2>12. g = R(g)
    BY <1>0, <2>11
  <2> HIDE DEF g
  <2>13. \E u : u = R(u)
    BY <2>12
  <2> QED BY <2>13, Zenon
<1> HIDE DEF place
<1>6. place[1] = <<a[1]>> /\ \A i \in 1 .. n : i # 1 => place[i] = Insert(place[i - 1], a[i], i - 1)
  BY <1>0, <1>5
<1> DEFINE T == {k \in 0 .. n : k = 0 \/ InOrder(place[k], a, k)}
<1>7. 0 \in T
  OBVIOUS
<1>8. ASSUME NEW i \in 1 .. n, i - 1 \in T PROVE i \in T
  <2>1. CASE i = 1
    BY <1>3, <1>6, <2>1
  <2>2. CASE i # 1
    <3>1. PICK k \in 1 .. n - 1 : k = i - 1 /\ k + 1 = i
      BY <2>2
    <3>2. InOrder(place[k], a, k)
      BY <1>8, <3>1
    <3>3. InOrder(place[i], a, i)
      BY <1>4, <1>6, <2>2, <3>1, <3>2
    <3>4. i \in 0 .. n
      OBVIOUS
    <3> QED BY <3>3, <3>4
  <2> QED BY <2>1, <2>2
<1> HIDE DEF T
<1>9. 0 .. n \subseteq T
  BY <1>7, <1>8, IntervalInduction
<1>10. n \in T
  BY <1>0, <1>9
<1> QED BY <1>0, <1>1, <1>10 DEF T

\* A program's sorts, for every array, every size of its elements and every order
\* of its calls.
THEOREM SortsAlways == LibSpec => []QsortSorts
<1>1. LibInit => QsortSorts
  <2> SUFFICES ASSUME LibInit PROVE QsortSorts
    OBVIOUS
  <2>1. sorted.in = << >> /\ sorted.out = << >> /\ sorted.size = 0
    BY DEF LibInit
  <2>2. Len(<< >>) = 0 /\ \A i \in 1 .. 0 - 1 : FALSE
    OBVIOUS
  <2> QED BY <2>1, <2>2 DEF QsortSorts
<1>2. QsortSorts /\ [LibNext]_libVars => QsortSorts'
  <2> SUFFICES ASSUME QsortSorts, [LibNext]_libVars PROVE QsortSorts'
    OBVIOUS
  <2>1. CASE sorted' = sorted
    BY <2>1 DEF QsortSorts
  <2>2. ASSUME NEW a \in Arrays, NEW size \in ElementSize, CallQsort(a, size) PROVE QsortSorts'
    <3>1. sorted'.in = a /\ sorted'.out = qsort(a, size) /\ sorted'.size = size
      BY <2>2 DEF CallQsort
    <3>2. a \in Seq(Element) /\ size \in Nat /\ TMP_SIZE \in Nat
      BY UserLibAssumption
    <3>3. CASE a = << >>
      <4>1. qsort(a, size) = a
        BY <3>3 DEF qsort
      <4>2. Len(<< >>) = 0 /\ \A i \in 1 .. 0 - 1 : FALSE
        OBVIOUS
      <4> QED BY <3>1, <3>3, <4>1, <4>2 DEF QsortSorts
    <3>5. CASE size > TMP_SIZE
      <4>1. qsort(a, size) = a
        BY <3>5 DEF qsort
      <4> QED BY <3>1, <3>2, <3>5, <4>1 DEF QsortSorts
    <3>4. CASE a # << >> /\ ~(size > TMP_SIZE)
      <4>1. PICK s : s = qsort(a, size)
        OBVIOUS
      <4>2. InOrder(s, a, Len(a))
        BY <3>2, <3>4, <4>1, QsortInOrder
      <4>3. PICK n : n = Len(a)
        OBVIOUS
      <4>4. /\ Len(s) = n /\ DOMAIN s = 1 .. n /\ DOMAIN a = 1 .. n
            /\ \A j \in 1 .. n - 1 : s[j].key <= s[j + 1].key
            /\ {s[j] : j \in 1 .. n} = {a[j] : j \in 1 .. n}
        BY <3>2, <4>2, <4>3, LenProperties DEF InOrder
      <4>5. sorted'.out = s /\ ~(sorted'.size > TMP_SIZE)
        BY <3>1, <3>4, <4>1
      <4>6. Len(sorted'.out) = n /\ Len(sorted'.in) = n /\ DOMAIN sorted'.out = 1 .. n /\ DOMAIN sorted'.in = 1 .. n
        BY <3>1, <4>3, <4>4, <4>5
      <4>7. {sorted'.out[j] : j \in DOMAIN sorted'.out} = {sorted'.in[j] : j \in DOMAIN sorted'.in}
        <5>1. {s[j] : j \in DOMAIN s} = {a[j] : j \in DOMAIN a}
          BY <4>4
        <5> QED BY <3>1, <4>5, <5>1, Zenon
      <4>8. \A j \in 1 .. Len(sorted'.out) - 1 : sorted'.out[j].key <= sorted'.out[j + 1].key
        BY <4>4, <4>5, <4>6
      <4> QED BY <4>5, <4>6, <4>7, <4>8 DEF QsortSorts
    <3> QED BY <3>3, <3>4, <3>5
  <2>3. ASSUME NEW bytes \in Request, CallMalloc(bytes) PROVE sorted' = sorted
    BY <2>3 DEF CallMalloc
  <2>4. ASSUME NEW n \in 1 .. 2, NEW size \in Request, CallCalloc(n, size) PROVE sorted' = sorted
    BY <2>4 DEF CallCalloc
  <2>5. ASSUME NEW ptr \in DOMAIN ulive, CallFree(ptr) PROVE sorted' = sorted
    BY <2>5 DEF CallFree
  <2>6. ASSUME NEW ptr \in DOMAIN ulive, NEW size \in Request, realloc(ptr, size) PROVE sorted' = sorted
    BY <2>6 DEF realloc
  <2>7. UNCHANGED libVars => sorted' = sorted
    BY DEF libVars
  <2> QED BY <2>1, <2>2, <2>3, <2>4, <2>5, <2>6, <2>7 DEF LibNext
<1> QED BY <1>1, <1>2, PTL DEF LibSpec

=============================================================================
