------------------------------ MODULE BlkCache ------------------------------
(***************************************************************************)
(* The block layer: the ATA disk (lizard/ata.c), its partitions            *)
(* (lizard/mbr.c, lizard/blkdev_manager.c) and the write-through sector    *)
(* cache in front of them (lizard/blk_dev.c).                              *)
(*                                                                         *)
(* A cache line is keyed by device and sector of that device, so a sector  *)
(* of the disk can be cached once for the disk and once for every          *)
(* partition it lies in.  Every transfer may fail; a write of several      *)
(* sectors fails at one of them, and that one may have reached the disk.   *)
(* Only the order of the lru stamps is ever looked at: a stamp is kept as  *)
(* its rank.                                                               *)
(***************************************************************************)
EXTENDS Integers, Sequences, FiniteSets

CONSTANTS
    BCACHE_LINES,
    BCACHE_SECTOR_SIZE,
    Identify,       \* what the drive may answer to IDENTIFY
    Mbr,            \* the partition tables the disk may hold
    Datum,          \* what a sector may hold
    LBA_LIMIT,      \* sectors a 28-bit address reaches (2^28)
    MaxCount        \* sectors of the largest transfer

ASSUME BlkAssumption ==
    /\ {BCACHE_LINES, MaxCount, LBA_LIMIT} \subseteq Nat \ {0}
    /\ BCACHE_SECTOR_SIZE \in Nat \ {0}
    /\ Datum # {}
    /\ \A id \in Identify : {id.lba48, id.lba28, id.cylinders, id.heads, id.sectors} \subseteq Nat
    /\ \A m \in Mbr : m.valid \in BOOLEAN /\ m.parts \in Seq([type : STRING, start : Nat, count : Nat])

VARIABLES
    blk_devs,   \* registered devices: <<[name, start, count], ...>>, the disk first
    sector_size,    \* of the disk, and so of its partitions (blkdev_manager.c:158)
    medium,     \* the sectors of the disk
    bcache,
    stale       \* history: <<device, sector>> whose line the medium may have left behind

blkVars == <<blk_devs, sector_size, medium, bcache, stale>>

Line == 0 .. BCACHE_LINES - 1
EmptyLine == [dev |-> 0, sector |-> 0, lru |-> 0, valid |-> FALSE, data |-> CHOOSE d \in Datum : TRUE]
Dev == DOMAIN blk_devs

-----------------------------------------------------------------------------
(* The disk and its partitions. *)

\* A drive that answers, is not busy for ever, reports no error and is ATA; its
\* size from LBA48, else LBA28, else the geometry, which may be 0.
ata_detect_devices(id) ==
    IF id.status = 0 \/ id.busy \/ id.err \/ id.atapi THEN -1
    ELSE CASE id.lba48 > 0 -> id.lba48
           [] id.lba48 = 0 /\ id.lba28 > 0 -> id.lba28
           [] OTHER -> id.cylinders * id.heads * id.sectors

mbr_partition_is_used(p) == p.type # "empty" /\ p.count # 0

\* The partitions in table order, up to a GPT marker; one that does not fit the
\* disk is skipped.
mbr_scan(mbr, total) ==
    LET n == Len(mbr.parts)
        gpt == {i \in 1 .. n : mbr_partition_is_used(mbr.parts[i]) /\ mbr.parts[i].type = "gpt"}
        stop == IF gpt = {} THEN n ELSE (CHOOSE i \in gpt : \A j \in gpt : i <= j) - 1
        Fits(i) == mbr_partition_is_used(mbr.parts[i]) /\ mbr.parts[i].start + mbr.parts[i].count <= total
        scan[i \in 0 .. stop] ==
            IF i = 0 THEN <<>>
            ELSE IF Fits(i)
            THEN Append(scan[i - 1], [name |-> i, start |-> mbr.parts[i].start, count |-> mbr.parts[i].count])
            ELSE scan[i - 1]
    IN  IF mbr.valid THEN scan[stop] ELSE <<>>

\* The sector of the disk a device's sector is; the address registers hold 28
\* bits of it.
ata_setup_lba(lba) == lba % LBA_LIMIT
Phys(dev, sector) == ata_setup_lba(blk_devs[dev].start + sector)

-----------------------------------------------------------------------------
(* The cache. *)

bcache_eligible(n) == n = 1 /\ sector_size = BCACHE_SECTOR_SIZE
bcache_find(dev, sector) ==
    {i \in Line : bcache[i].valid /\ bcache[i].dev = dev /\ bcache[i].sector = sector}

\* Line 0 unless a later line is invalid or older.
bcache_victim ==
    LET invalid == {i \in Line \ {0} : ~bcache[i].valid}
        older(i) == \A j \in Line : bcache[i].lru < bcache[j].lru \/ (bcache[i].lru = bcache[j].lru /\ i <= j)
    IN  IF invalid # {} THEN CHOOSE i \in invalid : \A j \in invalid : i <= j
        ELSE CHOOSE i \in Line : older(i)

\* Line i becomes the most recent one, with its contents as given.
Touched(i, line) ==
    LET lru(j) == IF j = i THEN BCACHE_LINES + 1 ELSE bcache[j].lru
        rank(j) == Cardinality({lru(k) : k \in {x \in Line : lru(x) < lru(j)}})
    IN  [j \in Line |-> [(IF j = i THEN line ELSE bcache[j]) EXCEPT !.lru = rank(j)]]

\* An existing line is reused, or the key would be cached twice.
bcache_store(dev, sector, data) ==
    LET hit == bcache_find(dev, sector)
        i == IF hit = {} THEN bcache_victim ELSE CHOOSE x \in hit : TRUE
    IN  Touched(i, [dev |-> dev, sector |-> sector, lru |-> 0, valid |-> TRUE, data |-> data])

bcache_invalidate_range_first(dev, sector, n) ==
    [i \in Line |-> IF bcache[i].dev = dev /\ bcache[i].sector = sector
                    THEN [bcache[i] EXCEPT !.valid = FALSE] ELSE bcache[i]]
bcache_invalidate_range(dev, sector, n) ==
    [i \in Line |-> IF bcache[i].dev = dev /\ bcache[i].sector \in sector .. sector + n - 1
                    THEN [bcache[i] EXCEPT !.valid = FALSE] ELSE bcache[i]]

-----------------------------------------------------------------------------
(* Transfers.  A device's own sectors only: the callers stay inside. *)

InDev(dev, sector, n) == sector + n <= blk_devs[dev].count

\* A hit moves the line; a miss reads and stores; a failed read changes nothing.
blk_dev_read(dev, sector, n) ==
    /\ InDev(dev, sector, n)
    /\ IF ~bcache_eligible(n) THEN UNCHANGED <<bcache, stale>>
       ELSE IF bcache_find(dev, sector) # {}
       THEN LET i == CHOOSE x \in bcache_find(dev, sector) : TRUE
            IN  bcache' = Touched(i, bcache[i]) /\ UNCHANGED stale
       ELSE \/ UNCHANGED <<bcache, stale>>
            \/ /\ bcache' = bcache_store(dev, sector, medium[Phys(dev, sector)])
               /\ stale' = stale \ {<<dev, sector>>}
    /\ UNCHANGED <<blk_devs, sector_size, medium>>

\* The keys under which sector p of the disk can be cached.
KeysOf(p) == {key \in Dev \X DOMAIN medium :
                 key[2] < blk_devs[key[1]].count /\ Phys(key[1], key[2]) = p}

\* k sectors reach the disk before the transfer fails; all of them when it does
\* not.  The cache is updated only then, and only under the writer's key.
blk_dev_write(dev, sector, data, k) ==
    LET n == Len(data)
        hit == {Phys(dev, sector + j - 1) : j \in 1 .. k}
        keys == UNION {KeysOf(p) : p \in hit}
        own == {<<dev, sector + j - 1>> : j \in 1 .. n}
    IN  /\ InDev(dev, sector, n)
        /\ medium' = [p \in DOMAIN medium |->
                         IF p \in hit
                         THEN data[CHOOSE j \in 1 .. k : Phys(dev, sector + j - 1) = p
                                     /\ \A i \in j + 1 .. k : Phys(dev, sector + i - 1) # p]
                         ELSE medium[p]]
        /\ \/ /\ k = n      \* success
              /\ bcache' = IF bcache_eligible(n) THEN bcache_store(dev, sector, data[1])
                           ELSE bcache_invalidate_range(dev, sector, n)
              /\ stale' = (stale \cup keys) \ own
           \/ bcache' = bcache /\ stale' = stale \cup keys
        /\ UNCHANGED <<blk_devs, sector_size>>

BlkInit ==
    /\ blk_devs = <<>>
    /\ sector_size = 0
    /\ medium = <<>>
    /\ bcache = [i \in Line |-> EmptyLine]
    /\ stale = {}

\* ata_detect_devices at boot: the disk is registered and its table read through
\* the cache.  A table that cannot be read leaves the disk without partitions, and
\* a disk of no sectors has none to read.
blkdev_manager_add(id, mbr, data) ==
    LET total == ata_detect_devices(id)
        disk == <<[name |-> 0, start |-> 0, count |-> total]>>
    IN  /\ blk_devs = <<>>
        /\ total >= 0
        /\ sector_size' = IF id.sector_size = 0 THEN BCACHE_SECTOR_SIZE ELSE id.sector_size
        /\ medium' = [p \in 0 .. total - 1 |-> data]
        /\ \/ /\ total > 0
              /\ blk_devs' = disk \o mbr_scan(mbr, total)
              /\ bcache' = IF sector_size' = BCACHE_SECTOR_SIZE THEN bcache_store(1, 0, data) ELSE bcache
           \/ blk_devs' = disk /\ UNCHANGED bcache
        /\ UNCHANGED stale

BlkNext ==
    \/ \E id \in Identify, mbr \in Mbr, data \in Datum : blkdev_manager_add(id, mbr, data)
    \/ \E dev \in Dev, sector \in DOMAIN medium, n \in 1 .. MaxCount : blk_dev_read(dev, sector, n)
    \/ \E dev \in Dev, sector \in DOMAIN medium, n \in 1 .. MaxCount : \E data \in [1 .. n -> Datum] :
          \E k \in 0 .. n : blk_dev_write(dev, sector, data, k)

BlkSpec == BlkInit /\ [][BlkNext]_blkVars

-----------------------------------------------------------------------------

\* A line that is valid holds what the disk holds, unless the sector was since
\* written under another key (the disk's or a partition's) or by a transfer
\* that failed: blk_dev_write leaves the cache alone when the device reports an
\* error (blk_dev.c:106).  And no sector of a device is cached twice, or a store
\* and an invalidation would change one line and a read answer from the other.
CacheCoherent ==
    /\ \A i \in Line : bcache[i].valid /\ <<bcache[i].dev, bcache[i].sector>> \notin stale =>
          bcache[i].data = medium[Phys(bcache[i].dev, bcache[i].sector)]
    /\ \A i, j \in Line : bcache[i].valid /\ bcache[j].valid /\ bcache[i].dev = bcache[j].dev
                         /\ bcache[i].sector = bcache[j].sector => i = j

=============================================================================
