------------------------------- MODULE Fat16 -------------------------------
(***************************************************************************)
(* The FAT16 driver (lizard/fat16.c, lizard/fat16_helpers.c).  A call runs *)
(* with interrupts off, so it is one step; inside it the driver issues one *)
(* device transfer after the other and any of them may fail.  Each routine *)
(* is an operator from a call state s to the call state it leaves:         *)
(*                                                                         *)
(*   s.vol     the volume: FAT copies, fat_cache, sectors; worn: whether   *)
(*             transfers to its disk fail at all                           *)
(*   s.dent    the in-core dentries, each with its inode (module Files)    *)
(*   s.fuse    the fuse-th transfer from here fails (0: none will)         *)
(*   s.landed  whether that transfer, if a write, reached the medium       *)
(*   s.dead    whether every transfer after it fails too                   *)
(*   s.oom     the oom-th kernel allocation from here fails (0: none will) *)
(*   s.hurt    a ghost: something has happened after which the volume may  *)
(*             be inconsistent; the comments at each place say why         *)
(*   s.ok      the last routine returned 0                                 *)
(*   s.c, s.loc, s.ent, s.d, s.done, s.buf   its results                   *)
(*                                                                         *)
(* A directory slot is the pair <<sector, index>>; the fixed root          *)
(* directory is sector 0 and the slots of a directory cluster are all in   *)
(* its first sector.  Time stamps are left out, and no volume is read-only *)
(* (ata.c:155).  A failed write that did land is seen at once: the block   *)
(* cache may hide it until its line is evicted (module BlkCache).          *)
(***************************************************************************)
EXTENDS Integers, Sequences, FiniteSets

CONSTANTS
    bytes_per_sector,
    sectors_per_cluster,
    total_clusters,
    num_fats,
    fat_cache_loaded, \* there was memory for the first FAT, and it could be read
    RootSlots,        \* slots of the root directory
    ClusterSlots,     \* slots of a directory cluster
    Byte,             \* what a file holds
    Name,             \* what programs call a file
    fold,             \* a name in upper case, as strcasecmp sees it
    fat16_str_to_name \* the 8.3 name stored for a name, NoName if it does not fit

ASSUME GeometryAssumption ==
    /\ {bytes_per_sector, sectors_per_cluster, total_clusters, num_fats} \subseteq Nat \ {0}
    /\ {RootSlots, ClusterSlots} \subseteq Nat \ {0, 1}
    /\ fat_cache_loaded \in BOOLEAN
    /\ DOMAIN fold = Name
    /\ DOMAIN fat16_str_to_name = Name

Cluster == 2 .. total_clusters + 1
FREE_CLUSTER == 0
EOC == total_clusters + 2         \* any value that is no cluster of the volume
cluster_size == bytes_per_sector * sectors_per_cluster

END == [free |-> "end"]           \* first name byte 0x00
DELETED == [free |-> "deleted"]   \* first name byte 0xE5
JUNK == [free |-> "junk"]         \* a slot that is no valid entry
OLD == "old"                      \* a byte no file has written
DotNames == {".", ".."}
NoName == "does not fit 8.3"
ShortName == {fat16_str_to_name[n] : n \in Name} \ {NoName}
Entry == [name : ShortName \cup DotNames, dir : BOOLEAN, first : Cluster \cup {0}, size : Nat]

\* What a cluster holds: directory slots or file data.
DirOf(slots) == [kind |-> "dir", v |-> slots]
DataOf(bytes) == [kind |-> "data", v |-> bytes]
SlotsOf(x) == IF x.kind = "dir" THEN x.v ELSE [i \in 0 .. ClusterSlots - 1 |-> JUNK]
BytesOf(x) == IF x.kind = "data" THEN x.v ELSE [i \in 0 .. cluster_size - 1 |-> OLD]
ZeroSlots == [i \in 0 .. ClusterSlots - 1 |-> END]

LowOf(a, b) == IF a < b THEN a ELSE b
HighOf(a, b) == IF a < b THEN b ELSE a
Least(S) == CHOOSE x \in S : \A y \in S : x <= y

-----------------------------------------------------------------------------
(* Transfers. *)

\* What a caller does when a routine returned 0, and when it did not.
Then(s, Op(_)) == IF s.ok THEN Op(s) ELSE s
Otherwise(s, Op(_)) == IF s.ok THEN s ELSE Op(s)
Either(s, Ok(_), Failed(_)) == IF s.ok THEN Ok(s) ELSE Failed(s)
Fail(s) == [s EXCEPT !.ok = FALSE]
Ignore(s) == [s EXCEPT !.ok = TRUE]

Blown(s) == [s EXCEPT !.fuse = IF s.dead THEN 1 ELSE 0, !.hurt = TRUE, !.ok = FALSE]

\* n sectors are read (or written with nothing the model keeps).
Reads(s, n) ==
    IF s.fuse \in 1 .. n THEN Blown(s)
    ELSE [s EXCEPT !.fuse = HighOf(0, @ - n)]

\* One sector is written; vol is the volume with it.
WriteSector(s, vol) ==
    IF s.fuse = 1
    THEN [Blown(s) EXCEPT !.vol = IF s.landed THEN vol ELSE @]
    ELSE [s EXCEPT !.fuse = HighOf(0, @ - 1), !.vol = vol]

\* One zalloc of the kernel.
Allocate(s) == [s EXCEPT !.oom = HighOf(0, @ - 1), !.ok = s.oom # 1]

-----------------------------------------------------------------------------
(* The FAT. *)

fat16_cluster_valid(c) == c \in Cluster
Cached(s) == s.vol.fat_cache # <<>>
FatNow(s) == IF Cached(s) THEN s.vol.fat_cache ELSE s.vol.fat[1]
FatRead(s) == IF Cached(s) THEN s ELSE Reads(s, 1)

fat16_fat_get(s, c) == Then(FatRead(s), LAMBDA r : [r EXCEPT !.c = FatNow(r)[c]])

\* Every copy in turn, read and written back, and the cache last.
fat16_fat_set(s, c, value) ==
    LET copy[f \in 0 .. num_fats] ==
            IF f = 0 THEN s
            ELSE Then(copy[f - 1], LAMBDA r : Then(Reads(r, 1), LAMBDA q :
                      WriteSector(q, [q.vol EXCEPT !.fat[f][c] = value])))
    IN  Then(copy[num_fats], LAMBDA r :
            IF Cached(r) THEN [r EXCEPT !.vol.fat_cache[c] = value] ELSE r)

fat16_next_cluster(s, c) == Otherwise(fat16_fat_get(s, c), LAMBDA r : [r EXCEPT !.ok = TRUE, !.c = EOC])

\* The clusters of a chain in order; a cycle is cut where it closes.
Chain(fat, first) ==
    LET upto[n \in 0 .. total_clusters] ==
            IF n = 0
            THEN IF fat16_cluster_valid(first) THEN <<first>> ELSE <<>>
            ELSE LET p == upto[n - 1]
                     next == IF p = <<>> THEN EOC ELSE fat[p[Len(p)]]
                 IN  IF fat16_cluster_valid(next) /\ \A i \in DOMAIN p : p[i] # next
                     THEN Append(p, next) ELSE p
    IN  upto[total_clusters]

\* The first free cluster, marked as the end of a chain.
fat16_cluster_alloc(s) ==
    LET free == {c \in Cluster : FatNow(s)[c] = FREE_CLUSTER}
        probes == IF Cached(s) THEN 0 ELSE IF free = {} THEN total_clusters ELSE Least(free) - 1
    IN  Then(Reads(s, probes), LAMBDA r :
            IF free = {} THEN Fail(r)
            ELSE Then(fat16_fat_set(r, Least(free), EOC), LAMBDA q :
                     [q EXCEPT !.c = Least(free)]))

fat16_chain_free_head(s, first) ==
    IF fat16_cluster_valid(first) THEN fat16_fat_set(s, first, FREE_CLUSTER) ELSE s
fat16_chain_free(s, first) ==
    LET chain == Chain(FatNow(s), first)
        freed[n \in 0 .. Len(chain)] ==
            IF n = 0 THEN s
            ELSE Then(freed[n - 1], LAMBDA r : Then(FatRead(r), LAMBDA q :
                      fat16_fat_set(q, chain[n], FREE_CLUSTER)))
    IN  freed[Len(chain)]

\* The next cluster of a chain that grows if it ends here.
chain_step(s, c) ==
    LET Grown(r) == Then(fat16_fat_set(r, c, r.c), LAMBDA q : [q EXCEPT !.c = r.c])
    IN  Then(fat16_next_cluster(s, c), LAMBDA r :
            IF fat16_cluster_valid(r.c) THEN r ELSE Then(fat16_cluster_alloc(r), Grown))

-----------------------------------------------------------------------------
(* Directory slots. *)

fat16_entry_valid(e) == e \notin {END, DELETED, JUNK}
fat16_is_dot(e) == e.name \in DotNames
fat16_name_cmp(name, e) == fat16_entry_valid(e) /\ e.name = fold[name]

NoLoc == <<-1, -1>>
SlotAt(vol, loc) == SlotsOf(vol.sec[loc[1]])[loc[2]]

\* The sectors of a directory, and the transfers each of them costs: without the
\* fat_cache every link of the chain is one too.
DirSectors(s, dir_first) == IF dir_first = 0 THEN <<0>> ELSE Chain(FatNow(s), dir_first)
PerSector(s, dir_first) == IF dir_first = 0 \/ Cached(s) THEN 1 ELSE 2

\* The first slot at which the callback stops, else NoLoc.  A link that cannot be
\* read reads as the end of the directory.
ScanSectors(s, secs, per, Stops(_)) ==
    LET StopsIn(k) == {i \in DOMAIN SlotsOf(s.vol.sec[secs[k]]) :
                          Stops(SlotsOf(s.vol.sec[secs[k]])[i])}
        hits == {k \in DOMAIN secs : StopsIn(k) # {}}
        cost == IF hits = {} THEN per * Len(secs) ELSE per * (Least(hits) - 1) + 1
        broken == s.fuse \in 1 .. cost /\ per = 2 /\ s.fuse % 2 = 0
        r == Reads(s, cost)
    IN  IF broken THEN [r EXCEPT !.ok = TRUE, !.loc = NoLoc]
        ELSE IF ~r.ok \/ hits = {} THEN [r EXCEPT !.loc = NoLoc]
        ELSE [r EXCEPT !.loc = <<secs[Least(hits)], Least(StopsIn(Least(hits)))>>]
fat16_dir_scan(s, dir_first, Stops(_)) ==
    ScanSectors(s, DirSectors(s, dir_first), PerSector(s, dir_first), Stops)

\* Found or not; an error reads as "not found".  fat16_lookup's walk finds the
\* same slot.
fat16_dir_find(s, dir_first, name) ==
    LET Result(r) == IF r.loc # NoLoc /\ SlotAt(r.vol, r.loc) # END
                     THEN [r EXCEPT !.ent = SlotAt(r.vol, r.loc)] ELSE Fail(r)
    IN  Result(fat16_dir_scan(s, dir_first, LAMBDA e : e = END \/ fat16_name_cmp(name, e)))

\* Nothing but "." and "..", and no error.
fat16_dir_empty(s, first) ==
    LET Result(r) == IF r.loc = NoLoc THEN r ELSE Fail(r)
    IN  Result(fat16_dir_scan(s, first, LAMBDA e : fat16_entry_valid(e) /\ ~fat16_is_dot(e)))

WithSlot(vol, loc, e) ==
    [vol EXCEPT !.sec[loc[1]] = DirOf([SlotsOf(@) EXCEPT ![loc[2]] = e])]

fat16_dir_write_noread(s, loc, e) ==
    WriteSector(s, [s.vol EXCEPT !.sec[loc[1]] =
                          DirOf([i \in DOMAIN SlotsOf(@) |-> IF i = loc[2] THEN e ELSE END])])
fat16_dir_write(s, loc, e) ==
    Then(Reads(s, 1), LAMBDA r : WriteSector(r, WithSlot(r.vol, loc, e)))

\* A subdirectory that is full grows by a cluster, which is linked before it is
\* zeroed.
ExtendDir(s, chain) ==
    LET links == IF Cached(s) THEN 0 ELSE Len(chain)
        last == chain[IF s.fuse \in 1 .. links THEN s.fuse ELSE Len(chain)]
    IN  Then(fat16_cluster_alloc(Ignore(Reads(s, links))), LAMBDA a :
        Then(fat16_fat_set(a, last, a.c), LAMBDA l :
        Then(WriteSector(l, [l.vol EXCEPT !.sec[a.c] = DirOf(ZeroSlots)]), LAMBDA z :
        Then(Reads(z, sectors_per_cluster - 1), LAMBDA r : [r EXCEPT !.loc = <<a.c, 0>>]))))

\* A free slot; a scan that failed reads as a full directory.
fat16_dir_alloc_slot(s, dir_first) ==
    Then(Ignore(fat16_dir_scan(s, dir_first, LAMBDA e : e \in {END, DELETED})), LAMBDA r :
        IF r.loc # NoLoc THEN r
        ELSE IF dir_first = 0 THEN Fail(r)
        ELSE ExtendDir(r, Chain(FatNow(r), dir_first)))

-----------------------------------------------------------------------------
(* Files.  A file or directory is named by its dentry d; the copy of its    *)
(* entry that the inode keeps is s.dent[d].ent.                             *)

ent_of(s, d) == s.dent[d].ent

\* inode and fat16_inode_info.
fat16_make_inode(s, d, e, loc) ==
    Then(Allocate(s), LAMBDA r : [r EXCEPT !.dent[d].ent = e, !.dent[d].loc = loc])

fat16_lookup(s, dir, d) ==
    Then(fat16_dir_find(s, ent_of(s, dir).first, s.dent[d].name), LAMBDA r :
        fat16_make_inode(r, d, r.ent, r.loc))

\* The n-th cluster after first, following links only.
Hop(s, first, n) ==
    LET hop[k \in 0 .. n] ==
            IF k = 0 THEN [s EXCEPT !.c = first]
            ELSE IF fat16_cluster_valid(hop[k - 1].c) THEN fat16_next_cluster(hop[k - 1], hop[k - 1].c)
            ELSE hop[k - 1]
    IN  hop[n]

\* count bytes from offset into s.buf, sector by sector.
fat16_read(s, d, count, offset) ==
    LET want == LowOf(count, ent_of(s, d).size - offset)
        start == Hop([s EXCEPT !.buf = <<>>], ent_of(s, d).first, offset \div cluster_size)
        sector(r) ==
            LET at == (offset + Len(r.buf)) % cluster_size
                n == LowOf(bytes_per_sector - (at % bytes_per_sector), want - Len(r.buf))
            IN  Then(Reads(r, 1), LAMBDA q :
                    [q EXCEPT !.buf = @ \o [i \in 1 .. n |-> BytesOf(q.vol.sec[q.c])[at + i - 1]]])
        loop[k \in 0 .. HighOf(0, want)] ==
            IF k = 0 THEN start
            ELSE LET r == loop[k - 1]
                     n == IF k > 1 /\ (offset + Len(r.buf)) % cluster_size = 0
                          THEN fat16_next_cluster(r, r.c) ELSE r
                 IN  IF ~r.ok \/ Len(r.buf) = want \/ ~fat16_cluster_valid(r.c) \/ ~fat16_cluster_valid(n.c)
                     THEN r ELSE sector(n)
        Result(r) == [r EXCEPT !.ok = @ \/ r.buf # <<>>]
    IN  IF want <= 0 THEN [s EXCEPT !.buf = <<>>] ELSE Result(loop[want])

\* buf at offset.  The chain grows as it is followed.  A write that starts past
\* the end and runs out of space on the way returns at once: the first cluster
\* of an empty file is then known to the inode only.
fat16_write(s, d, buf, offset) ==
    LET e == ent_of(s, d)
        Seek(first) ==
            LET seek[k \in 0 .. offset \div cluster_size] ==
                    IF k = 0 THEN [first EXCEPT !.dent[d].ent.first = first.c, !.done = 0]
                    ELSE Then(seek[k - 1], LAMBDA r : chain_step(r, r.c))
            IN  seek[offset \div cluster_size]
        Sector(r) ==
            LET at == (offset + r.done) % cluster_size
                n == LowOf(bytes_per_sector - (at % bytes_per_sector), Len(buf) - r.done)
                data(x) == [i \in 0 .. cluster_size - 1 |->
                               IF i \in at .. at + n - 1 THEN buf[r.done + i - at + 1] ELSE BytesOf(x)[i]]
            IN  Then(Reads(r, IF n = bytes_per_sector THEN 0 ELSE 1), LAMBDA q :
                Then(WriteSector(q, [q.vol EXCEPT !.sec[r.c] = DataOf(data(@))]), LAMBDA w :
                    [w EXCEPT !.done = @ + n]))
        More(r) ==
            IF ~r.ok \/ r.done = Len(buf) THEN r
            ELSE Then(IF r.done > 0 /\ (offset + r.done) % cluster_size = 0 THEN chain_step(r, r.c) ELSE r, Sector)
        Data(start) ==
            LET loop[k \in 0 .. Len(buf)] == IF k = 0 THEN start ELSE More(loop[k - 1])
            IN  loop[Len(buf)]
        Saved(out, kept) ==
            [fat16_dir_write(Ignore(kept), s.dent[d].loc, ent_of(kept, d)) EXCEPT !.ok = out.done > 0]
        Finish(out) == Saved(out, [out EXCEPT !.dent[d].ent.size = HighOf(@, offset + out.done)])
        Write(start) == IF start.ok THEN Finish(Data(start)) ELSE [start EXCEPT !.hurt = @ \/ e.first = 0]
    IN  IF e.dir THEN Fail(s)
        ELSE IF buf = <<>> THEN [s EXCEPT !.done = 0]
        ELSE Then(IF e.first = 0 THEN fat16_cluster_alloc(s) ELSE [s EXCEPT !.c = e.first],
                  LAMBDA first : Write(Seek(first)))

\* Drops the data of a file.  A chain that could not be freed is let go.
fat16_truncate(s, d) ==
    LET e == ent_of(s, d)
        empty == [e EXCEPT !.first = 0, !.size = 0]
        freed == [Ignore(fat16_chain_free(s, e.first)) EXCEPT !.dent[d].ent = empty]
    IN  IF e.dir THEN Fail(s)
        ELSE IF e.first = 0 /\ e.size = 0 THEN s
        ELSE fat16_dir_write(freed, s.dent[d].loc, empty)

\* A name that 8.3 cannot hold is refused, and so is one that is found; a name
\* that is stored other than it compares (a trailing dot, a space) is not found.
fat16_fill_entry(s, dir, name, isdir) ==
    LET e == [name |-> fat16_str_to_name[name], dir |-> isdir, first |-> 0, size |-> 0]
    IN  IF e.name = NoName THEN Fail(s)
        ELSE Either(fat16_dir_find(s, ent_of(s, dir).first, name), Fail, LAMBDA f :
                 [f EXCEPT !.ok = TRUE, !.ent = e, !.hurt = @ \/ e.name # fold[name]])

fat16_create(s, dir, d) ==
    Then(fat16_fill_entry(s, dir, s.dent[d].name, FALSE), LAMBDA e :
    Then(fat16_dir_alloc_slot(e, ent_of(s, dir).first), LAMBDA l :
    Then(fat16_dir_write(l, l.loc, e.ent), LAMBDA w :
        fat16_make_inode(w, d, e.ent, l.loc))))

\* The cluster with "." and ".." first, the entry last.  What fails after the
\* cluster was written is undone by freeing it, an entry already written stays.
fat16_mkdir(s, dir, d) ==
    LET up == ent_of(s, dir).first
        Dots(ent) == [i \in DOMAIN ZeroSlots |->
                         CASE i = 0 -> [ent EXCEPT !.name = "."]
                           [] i = 1 -> [ent EXCEPT !.name = "..", !.first = up]
                           [] OTHER -> END]
        Made(e, c) == [e EXCEPT !.first = c]
    IN  Then(fat16_fill_entry(s, dir, s.dent[d].name, TRUE), LAMBDA e :
        Then(fat16_cluster_alloc(e), LAMBDA a :
        Then(Reads(a, sectors_per_cluster - 1), LAMBDA q :
        Then(WriteSector(q, [q.vol EXCEPT !.sec[a.c] = DirOf(Dots(Made(e.ent, a.c)))]), LAMBDA z :
        Otherwise(
            Then(fat16_dir_alloc_slot(z, up), LAMBDA l :
            Then(fat16_dir_write(l, l.loc, Made(e.ent, a.c)), LAMBDA w :
            Otherwise(fat16_make_inode(w, d, Made(e.ent, a.c), l.loc), LAMBDA x : [x EXCEPT !.hurt = TRUE]))),
            LAMBDA x : Fail(fat16_chain_free(Ignore(x), a.c)))))))

\* The chain is freed before the entry is marked deleted.
Remove(s, dir, name, Removable(_)) ==
    LET Delete(r, f) ==
            Then(r, LAMBDA q : fat16_dir_write(Ignore(fat16_chain_free(q, f.ent.first)), f.loc, DELETED))
    IN  Then(fat16_dir_find(s, ent_of(s, dir).first, name), LAMBDA f : Delete(Removable(f), f))

fat16_unlink(s, dir, name) ==
    Remove(s, dir, name, LAMBDA f : [f EXCEPT !.ok = ~f.ent.dir])
fat16_rmdir(s, dir, name) ==
    Remove(s, dir, name, LAMBDA f :
        IF f.ent.dir THEN fat16_dir_empty(f, f.ent.first) ELSE Fail(f))

\* The slots of a directory up to the end mark or to the sector that could not
\* be read: at most max entries from slot number start on into s.buf, and in
\* s.done where the next call resumes: past the entry for which there was no room.
fat16_readdir(s, d, start, max) ==
    LET first == ent_of(s, d).first
        per == PerSector(s, first)
        SlotsIn(secs, n) ==
            LET slots[k \in 0 .. n] ==
                    IF k = 0 THEN <<>>
                    ELSE slots[k - 1] \o [i \in 1 .. Cardinality(DOMAIN SlotsOf(s.vol.sec[secs[k]])) |->
                                             SlotsOf(s.vol.sec[secs[k]])[i - 1]]
            IN  slots[n]
        List(r, all) ==
            LET ends == {i \in DOMAIN all : all[i] = END}
                last == IF ends = {} THEN Len(all) ELSE Least(ends) - 1
                valid == {i \in start + 1 .. last : fat16_entry_valid(all[i])}
                refused == {i \in valid : Cardinality({j \in valid : j < i}) = max}
                given == {i \in valid : Cardinality({j \in valid : j < i}) < max}
            IN  [r EXCEPT !.ok = TRUE,
                          !.buf = [k \in 1 .. Cardinality(given) |->
                                      all[CHOOSE i \in given : Cardinality({j \in given : j < i}) = k - 1]],
                          !.done = IF refused # {} THEN Least(refused) ELSE HighOf(start, last)]
        Walk(r, secs) == List(r, SlotsIn(secs, IF r.ok THEN Len(secs) ELSE (s.fuse + per - 2) \div per))
        Begin(secs) == Walk(Reads(s, per * Len(secs)), secs)
    IN  Begin(DirSectors(s, first))

\* A volume is mounted from its boot sector with the first FAT in memory, or,
\* when there is no memory for it or it cannot be read, without.
fat16_mount(b) ==
    [fat |-> [f \in 1 .. num_fats |-> b.fat], fat_cache |-> IF fat_cache_loaded THEN b.fat ELSE <<>>,
     sec |-> b.sec, worn |-> b.worn]

=============================================================================
