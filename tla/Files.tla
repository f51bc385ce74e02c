------------------------------- MODULE Files -------------------------------
(***************************************************************************)
(* The virtual file system (lizard/vfs.c, dentry.c, inode.c, vfs_helper.c) *)
(* over module Fat16, and the system calls on files (lizard/syscall.c).  A *)
(* system call runs with interrupts off and never blocks on a file, so it  *)
(* is one step of the machine.                                             *)
(*                                                                         *)
(* A dentry is an index into dent, the kernel memory for dentries; index 0 *)
(* is the root.  Dentries stay cached until their file is removed.  An     *)
(* inode belongs to one dentry and is never freed: it is the pair          *)
(* loc, ent of the dentry.  A path is a sequence of names.                 *)
(*                                                                         *)
(* hurt is a history variable.  It is set by what the code does not guard  *)
(* against:                                                                *)
(*   - a device transfer that failed;                                      *)
(*   - a write through a file that was removed while open;                 *)
(*   - one entry under two cached dentries (two spellings of a name, which *)
(*     the dcache tells apart and FAT16 does not, or a path that leads     *)
(*     through an empty regular file, which reads as the root directory);  *)
(*   - a name created under a regular file, or one that 8.3 stores other   *)
(*     than it compares;                                                   *)
(*   - a directory entry written whose inode could not be allocated;       *)
(*   - a write past the end of an empty file that ran out of space.        *)
(***************************************************************************)
EXTENDS Fat16

CONSTANTS
    Task,
    TASK_MAX_FDS,
    MaxDent,        \* dentries the kernel has memory for besides the root
    BootVolume,     \* the disks: what they hold at boot, and whether transfers fail: [fat, sec, worn]
    PathIn,         \* the paths programs pass: [abs : BOOLEAN, comps : Seq]
    FlagIn,         \* the flags they open files with
    CwdMax,         \* longest working directory, in names
    Written,        \* the buffers programs write
    MaxOffset,      \* highest position programs seek to
    FaultIn,        \* what may fail in a call: see Fault
    MaxKills        \* how many tasks an exception kills

ASSUME FilesAssumption ==
    /\ IsFiniteSet(Task)
    /\ {TASK_MAX_FDS, MaxDent, CwdMax, MaxOffset, MaxKills} \subseteq Nat
    /\ FaultIn \subseteq [fuse : Nat, landed : BOOLEAN, dead : BOOLEAN, oom : Nat]
    /\ FlagIn \subseteq SUBSET {"creat", "trunc", "append"}
    /\ \A p \in PathIn : p.abs \in BOOLEAN /\ p.comps \in Seq(Name \cup DotNames)
    /\ \A b \in Written : b \in Seq(Byte)
    /\ \A b \in BootVolume :
          /\ DOMAIN b.sec = {0} \cup Cluster
          /\ \A c \in DOMAIN b.sec : SlotsOf(b.sec[c]) \in
                [0 .. (IF c = 0 THEN RootSlots ELSE ClusterSlots) - 1 -> Entry \cup {END, DELETED, JUNK}]

VARIABLES
    vol,        \* the volume
    dent,       \* dentries with their inodes
    fd_table,   \* the open files of each task
    cwd,        \* the working directory of each task
    lost,       \* references of files whose task was killed, per dentry
    hurt

vars == <<vol, dent, fd_table, cwd, lost, hurt>>

Dentry == 0 .. MaxDent
NoInode == [name |-> NoName, dir |-> FALSE, first |-> 0, size |-> 0]
NoDentry == [refs |-> 0]
NoFile == [d |-> -1]
Fd == 1 .. TASK_MAX_FDS
NoFiles == [fd \in Fd |-> NoFile]

-----------------------------------------------------------------------------
(* The dentry cache. *)

\* atomic counters; the last reference frees the dentry, and what was cached
\* under it can no longer be found.
dentry_get(s, d) == [s EXCEPT !.dent[d].refs = @ + 1]
dentry_put(s, d) ==
    IF s.dent[d].refs > 1 THEN [s EXCEPT !.dent[d].refs = @ - 1]
    ELSE [s EXCEPT !.dent = [i \in Dentry |->
             IF i = d THEN NoDentry
             ELSE IF s.dent[i] # NoDentry /\ s.dent[i].parent = d
             THEN [s.dent[i] EXCEPT !.parent = -1] ELSE s.dent[i]]]

dentry_alloc(s, name) ==
    LET free == {i \in Dentry : s.dent[i] = NoDentry}
    IN  IF free = {} THEN Fail(s)
        ELSE Then(Allocate(s), LAMBDA r :
                 [r EXCEPT !.d = Least(free),
                           !.dent[Least(free)] = [name |-> name, parent |-> -1, cached |-> FALSE,
                                                  refs |-> 1, loc |-> NoLoc, ent |-> NoInode]])

InCache(dn, i) == dn[i] # NoDentry /\ dn[i].cached
dentry_add(s, p, d) ==
    LET alias == \E i \in Dentry \ {0} : InCache(s.dent, i) /\ s.dent[i].loc = s.dent[d].loc
    IN  [s EXCEPT !.dent[d].parent = p, !.dent[d].cached = TRUE,
                  !.hurt = @ \/ alias \/ ~ent_of(s, p).dir]

\* The child of p called exactly so (strcmp), with a reference, else not ok.
CachedChild(s, p, name) ==
    {i \in Dentry : s.dent[i] # NoDentry /\ i # 0 /\ s.dent[i].cached
                    /\ s.dent[i].parent = p /\ s.dent[i].name = name}
dentry_lookup(s, p, name) ==
    IF CachedChild(s, p, name) = {} THEN Fail(s)
    ELSE LET d == CHOOSE i \in CachedChild(s, p, name) : TRUE
         IN  [dentry_get(s, d) EXCEPT !.d = d]

-----------------------------------------------------------------------------
(* Paths. *)

\* The lexical fold of a path against a working directory.
vfs_resolve_path(base, in) ==
    LET start == IF in.abs THEN <<>> ELSE base
        walk[n \in 0 .. Len(in.comps)] ==
            IF n = 0 THEN start
            ELSE LET p == walk[n - 1]
                     x == in.comps[n]
                 IN  CASE x = "." -> p
                       [] x = ".." -> IF p = <<>> THEN p ELSE SubSeq(p, 1, Len(p) - 1)
                       [] OTHER -> Append(p, x)
    IN  walk[Len(in.comps)]

\* From the dcache, else from the directory; the cache keeps one reference and
\* the caller gets one.
vfs_lookup_noget(s, p, name) ==
    Otherwise(dentry_lookup(s, p, name), LAMBDA miss :
    Then(dentry_alloc(s, name), LAMBDA n :
    Either(fat16_lookup(n, p, n.d), LAMBDA r : [dentry_add(r, p, n.d) EXCEPT !.d = n.d],
                                    LAMBDA r : dentry_put(r, n.d))))
vfs_lookup(s, p, name) ==
    Otherwise(dentry_lookup(s, p, name), LAMBDA miss :
    Then(dentry_alloc(s, name), LAMBDA n :
    Either(fat16_lookup(n, p, n.d), LAMBDA r : [dentry_get(dentry_add(r, p, n.d), n.d) EXCEPT !.d = n.d],
                                    LAMBDA r : dentry_put(r, n.d))))

\* Each component in turn; the reference moves from the parent to the child.
vfs_path_lookup(s, path) ==
    LET walk[n \in 0 .. Len(path)] ==
            IF n = 0 THEN [dentry_get(s, 0) EXCEPT !.d = 0]
            ELSE Then(walk[n - 1], LAMBDA r : dentry_put(vfs_lookup(r, r.d, path[n]), r.d))
    IN  walk[Len(path)]

vfs_lookup_parent(s, path) ==
    IF path = <<>> THEN Fail(s) ELSE vfs_path_lookup(s, SubSeq(path, 1, Len(path) - 1))
Leaf(path) == path[Len(path)]

\* Creates the last name of path.  Were the name cached already, the reference
\* taken by the lookup would be lost.
vfs_mknod(s, path, isdir) ==
    LET Under(p) == [p EXCEPT !.hurt = @ \/ ~ent_of(p, p.d).dir]
    IN  Then(vfs_lookup_parent(s, path), LAMBDA p : dentry_put(
            Either(dentry_lookup(p, p.d, Leaf(path)), Fail, LAMBDA miss :
            Then(dentry_alloc(Under(p), Leaf(path)), LAMBDA n :
            Either(IF isdir THEN fat16_mkdir(n, p.d, n.d) ELSE fat16_create(n, p.d, n.d),
                   LAMBDA r : dentry_add(r, p.d, n.d),
                   LAMBDA r : dentry_put(r, n.d)))), p.d))

\* Removes the last name of path, and its dentry from the cache: a file that is
\* open keeps its own reference.
vfs_remove_cached(s, path, isdir) ==
    Then(vfs_lookup_parent(s, path), LAMBDA p : dentry_put(
        Then(dentry_alloc(p, Leaf(path)), LAMBDA n : dentry_put(
            IF isdir THEN fat16_rmdir(n, p.d, Leaf(path)) ELSE fat16_unlink(n, p.d, Leaf(path)), n.d)), p.d))
vfs_remove(s, path, isdir) ==
    LET Uncached(c) == dentry_put(dentry_put([c EXCEPT !.dent[c.d].cached = FALSE], c.d), c.d)
    IN  Then(vfs_lookup_parent(s, path), LAMBDA p : dentry_put(
            Then(dentry_alloc(p, Leaf(path)), LAMBDA n : dentry_put(
                Then(IF isdir THEN fat16_rmdir(n, p.d, Leaf(path)) ELSE fat16_unlink(n, p.d, Leaf(path)),
                     LAMBDA gone : Either(dentry_lookup(gone, p.d, Leaf(path)), Uncached, Ignore)), n.d)), p.d))

\* In s.d the dentry the new file holds.
vfs_open_leaks(s, path, flags) ==
    LET Create(r) == IF "creat" \in flags
                     THEN Then(vfs_mknod(Ignore(r), path, FALSE), LAMBDA q : vfs_path_lookup(q, path)) ELSE r
    IN  Then(Otherwise(vfs_path_lookup(s, path), Create), LAMBDA q :
        Then(IF "trunc" \in flags THEN fat16_truncate(q, q.d) ELSE q, LAMBDA r :
        Either(Allocate(r), LAMBDA file : [file EXCEPT !.d = q.d],
                            LAMBDA file : dentry_put(file, q.d))))
vfs_open(s, path, flags) ==
    LET Create(r) == IF "creat" \in flags
                     THEN Then(vfs_mknod(Ignore(r), path, FALSE), LAMBDA q : vfs_path_lookup(q, path)) ELSE r
    IN  Then(Otherwise(vfs_path_lookup(s, path), Create), LAMBDA q :
        Either(Then(IF "trunc" \in flags THEN fat16_truncate(q, q.d) ELSE q, Allocate),
               LAMBDA file : [file EXCEPT !.d = q.d],
               LAMBDA file : dentry_put(file, q.d)))

vfs_close(s, f) == dentry_put(s, f.d)

\* Exactly len bytes from off on, in as many reads as it takes.
read_at(s, d, off, len) ==
    LET Got(r) == IF r.ok /\ r.buf # <<>> THEN [r EXCEPT !.done = @ + Len(r.buf)] ELSE Fail(r)
        loop[n \in 0 .. len] ==
            IF n = 0 THEN [s EXCEPT !.done = 0]
            ELSE LET r == loop[n - 1]
                 IN  IF ~r.ok \/ r.done >= len THEN r ELSE Got(fat16_read(r, d, len - r.done, off + r.done))
    IN  loop[len]

\* The header, which says how much follows it or that this is no program.  The
\* reads of the segments stop at the first that fails, so one stands for them;
\* the frames they fill are in module AddrSpace.
load_elf(s, d, elf) ==
    Then(read_at(s, d, 0, 1), LAMBDA h : IF elf.valid THEN read_at(h, d, 1, elf.len) ELSE Fail(h))

\* The file is open while the task is made and loaded, and closed in any case.
spawn(s, path, elf) ==
    Then(vfs_open(s, path, {}), LAMBDA file :
        vfs_close(Then(Allocate(file), LAMBDA t : load_elf(t, file.d, elf)), file))

-----------------------------------------------------------------------------
(* System calls. *)

\* A call may meet a transfer that fails (number fuse, after it reached the medium
\* or not), alone or with all after it, a kernel allocation that fails (number oom),
\* both or neither.
NoFault == [fuse |-> 0, landed |-> FALSE, dead |-> FALSE, oom |-> 0]
Fault == {NoFault} \cup {f \in FaultIn : f.fuse = 0 \/ vol.worn}

Enter(f) ==
    [vol |-> vol, dent |-> dent, fuse |-> f.fuse, landed |-> f.landed, dead |-> f.dead, oom |-> f.oom,
     hurt |-> FALSE, ok |-> TRUE, c |-> 0, loc |-> NoLoc, ent |-> END, d |-> 0, done |-> 0, buf |-> <<>>]

Return(s) ==
    /\ vol' = s.vol
    /\ dent' = s.dent
    /\ hurt' = (hurt \/ s.hurt)

Abs(t, in) == vfs_resolve_path(cwd[t], in)
Open(t, fd) == fd_table[t][fd] # NoFile
FileAt(t, fd) == fd_table[t][fd]

\* The lowest free descriptor; a table that is full closes the file again.
sys_open(t, in, flags) ==
    LET free == {fd \in Fd : ~Open(t, fd)}
        Opened(r) ==
            IF r.ok /\ free # {}
            THEN /\ Return(r)
                 /\ fd_table' = [fd_table EXCEPT ![t][Least(free)] =
                                    [d |-> r.d, offset |-> 0, append |-> "append" \in flags]]
            ELSE /\ Return(IF r.ok THEN dentry_put(r, r.d) ELSE r)
                 /\ UNCHANGED fd_table
    IN  /\ \E f \in Fault : Opened(vfs_open(Enter(f), Abs(t, in), flags))
        /\ UNCHANGED <<cwd, lost>>

sys_close(t, fd) ==
    /\ Open(t, fd)
    /\ Return(vfs_close(Enter(NoFault), FileAt(t, fd)))
    /\ fd_table' = [fd_table EXCEPT ![t][fd] = NoFile]
    /\ UNCHANGED <<cwd, lost>>

\* LZ_SEEK_SET, CUR and END reach every position.
sys_lseek(t, fd, pos) ==
    /\ Open(t, fd)
    /\ fd_table' = [fd_table EXCEPT ![t][fd].offset = pos]
    /\ UNCHANGED <<vol, dent, cwd, lost, hurt>>

\* vfs_read: the position moves by what was read.
sys_read(t, fd, count) ==
    LET Done(r) ==
            /\ Return(r)
            /\ fd_table' = [fd_table EXCEPT ![t][fd].offset = @ + IF r.ok THEN Len(r.buf) ELSE 0]
    IN  /\ Open(t, fd)
        /\ \E f \in Fault : Done(fat16_read(Enter(f), FileAt(t, fd).d, count, FileAt(t, fd).offset))
        /\ UNCHANGED <<cwd, lost>>

\* vfs_write: O_APPEND moves to the end first.
vfs_write(s, file, buf) ==
    LET at == IF file.append THEN ent_of(s, file.d).size ELSE file.offset
    IN  fat16_write([s EXCEPT !.hurt = @ \/ ~s.dent[file.d].cached], file.d, buf, at)

sys_write(t, fd, buf) ==
    LET file == FileAt(t, fd)
        at == IF file.append THEN dent[file.d].ent.size ELSE file.offset
        Done(r) ==
            /\ Return(r)
            /\ fd_table' = [fd_table EXCEPT ![t][fd].offset = at + IF r.ok THEN r.done ELSE 0]
    IN  /\ Open(t, fd)
        /\ at <= MaxOffset
        /\ \E f \in Fault : Done(vfs_write(Enter(f), file, buf))
        /\ UNCHANGED <<cwd, lost>>

sys_readdir(t, fd, max) ==
    LET Done(r) ==
            /\ Return(r)
            /\ fd_table' = [fd_table EXCEPT ![t][fd].offset = r.done]
    IN  /\ Open(t, fd)
        /\ \E f \in Fault : Done(fat16_readdir(Enter(f), FileAt(t, fd).d, FileAt(t, fd).offset, max))
        /\ UNCHANGED <<cwd, lost>>

sys_chdir(t, in) ==
    LET path == Abs(t, in)
        Done(r) ==
            /\ Return(IF r.ok THEN dentry_put(r, r.d) ELSE r)
            /\ cwd' = [cwd EXCEPT ![t] = IF r.ok /\ ent_of(r, r.d).dir THEN path ELSE @]
    IN  /\ Len(path) <= CwdMax
        /\ \E f \in Fault : Done(vfs_path_lookup(Enter(f), path))
        /\ UNCHANGED <<fd_table, lost>>

\* Looked up first, and its parent: EEXIST, ENOENT, ENOTDIR.
sys_mkdir(t, in) ==
    LET path == Abs(t, in)
    IN  /\ path # <<>>
        /\ \E f \in Fault : Return(
              Either(vfs_path_lookup(Enter(f), path), LAMBDA d : dentry_put(d, d.d), LAMBDA miss :
              Then(vfs_lookup_parent(Ignore(miss), path), LAMBDA p :
                  IF ent_of(p, p.d).dir THEN vfs_mknod(dentry_put(p, p.d), path, TRUE) ELSE dentry_put(p, p.d))))
        /\ UNCHANGED <<fd_table, cwd, lost>>

\* do_remove: ENOENT, ENOTDIR, EISDIR, then the removal.
sys_unlink(t, in, want_dir) ==
    LET path == Abs(t, in)
    IN  /\ path # <<>>
        /\ \E f \in Fault : Return(
              Then(vfs_path_lookup(Enter(f), path), LAMBDA d :
                  IF ent_of(d, d.d).dir = want_dir
                  THEN vfs_remove(dentry_put(d, d.d), path, want_dir) ELSE dentry_put(d, d.d)))
        /\ UNCHANGED <<fd_table, cwd, lost>>

\* The child has no open file and starts where its parent is.  It is a task of
\* Task that has none open (one that has ended), or, with t itself, one that
\* makes no calls here.
sys_spawn(t, in) ==
    LET Done(r, child) ==
            /\ Return(r)
            /\ cwd' = IF r.ok THEN [cwd EXCEPT ![child] = cwd[t]] ELSE cwd
    IN  /\ \E f \in Fault, elf \in [valid : BOOLEAN, len : 0 .. MaxOffset],
              child \in {c \in Task : c = t \/ fd_table[c] = NoFiles} :
                 Done(spawn(Enter(f), Abs(t, in), elf), child)
        /\ UNCHANGED <<fd_table, lost>>

task_close_all_fds(s, t) ==
    LET closed[n \in 0 .. TASK_MAX_FDS] ==
            IF n = 0 THEN s
            ELSE IF Open(t, n) THEN vfs_close(closed[n - 1], FileAt(t, n)) ELSE closed[n - 1]
    IN  closed[TASK_MAX_FDS]

sys_exit(t) ==
    /\ Return(task_close_all_fds(Enter(NoFault), t))
    /\ fd_table' = [fd_table EXCEPT ![t] = NoFiles]
    /\ UNCHANGED <<cwd, lost>>

\* exception_handle goes to task_exit directly: the files are never closed.
Opens(d) == {o \in Task \X Fd : Open(o[1], o[2]) /\ FileAt(o[1], o[2]).d = d}
SumOf(f) == LET sum[n \in 0 .. MaxDent + 1] == IF n = 0 THEN 0 ELSE sum[n - 1] + f[n - 1]
            IN  sum[MaxDent + 1]
exception_kill(t) ==
    /\ SumOf(lost) < MaxKills
    /\ \E fd \in Fd : Open(t, fd)
    /\ lost' = [d \in Dentry |-> lost[d] + Cardinality({o \in Opens(d) : o[1] = t})]
    /\ fd_table' = [fd_table EXCEPT ![t] = NoFiles]
    /\ UNCHANGED <<vol, dent, cwd, hurt>>

RootDentry == [name |-> "/", parent |-> 0, cached |-> TRUE, refs |-> 1, loc |-> NoLoc,
               ent |-> [name |-> "/", dir |-> TRUE, first |-> 0, size |-> 0]]
\* An empty volume, and the volumes the machine is started with.
EmptyVolume ==
    [fat |-> [c \in Cluster |-> FREE_CLUSTER],
     sec |-> [i \in {0} \cup Cluster |->
                 IF i = 0 THEN DirOf([k \in 0 .. RootSlots - 1 |-> END])
                 ELSE DataOf([k \in 0 .. cluster_size - 1 |-> OLD])],
     worn |-> TRUE]
FilesInit ==
    /\ \E b \in BootVolume : vol = fat16_mount(b)
    /\ dent = [i \in Dentry |-> IF i = 0 THEN RootDentry ELSE NoDentry]
    /\ fd_table = [t \in Task |-> NoFiles]
    /\ cwd = [t \in Task |-> <<>>]
    /\ lost = [i \in Dentry |-> 0]
    /\ hurt = FALSE

FilesNext ==
    \E t \in Task :
        \/ \E in \in PathIn, flags \in FlagIn : sys_open(t, in, flags)
        \/ \E in \in PathIn : sys_chdir(t, in) \/ sys_mkdir(t, in) \/ sys_spawn(t, in)
        \/ \E in \in PathIn, want_dir \in BOOLEAN : sys_unlink(t, in, want_dir)
        \/ \E fd \in Fd : sys_close(t, fd)
        \/ \E fd \in Fd, pos \in 0 .. MaxOffset : sys_lseek(t, fd, pos)
        \/ \E fd \in Fd, count \in 1 .. MaxOffset : sys_read(t, fd, count)
        \/ \E fd \in Fd, buf \in Written : sys_write(t, fd, buf)
        \/ \E fd \in Fd, max \in {1, 2} : sys_readdir(t, fd, max)
        \/ sys_exit(t)
        \/ exception_kill(t)

FilesSpec == FilesInit /\ [][FilesNext]_vars

-----------------------------------------------------------------------------
(* What a volume means. *)

DirSecs(v, first) ==
    LET c == Chain(FatNow([vol |-> v]), first)
    IN  IF first = 0 THEN {0} ELSE {c[i] : i \in DOMAIN c}
EntryLocs(v, first) ==
    {l \in DirSecs(v, first) \X (0 .. RootSlots + ClusterSlots) :
        /\ l[2] \in DOMAIN SlotsOf(v.sec[l[1]])
        /\ fat16_entry_valid(SlotAt(v, l))
        /\ ~fat16_is_dot(SlotAt(v, l))}
\* The first clusters of the directories of the tree; 0 is the root.
DirFirsts(v) ==
    LET upto[n \in 0 .. total_clusters] ==
            IF n = 0 THEN {0}
            ELSE upto[n - 1] \cup {SlotAt(v, l).first : l \in
                     {x \in UNION {EntryLocs(v, f) : f \in upto[n - 1]} : SlotAt(v, x).dir}}
    IN  upto[total_clusters]
AllLocs(v) == UNION {EntryLocs(v, f) : f \in DirFirsts(v)}
ChainAt(v, l) == Chain(FatNow([vol |-> v]), SlotAt(v, l).first)
ClustersAt(v, l) == {ChainAt(v, l)[i] : i \in DOMAIN ChainAt(v, l)}

\* Reference counts are exact: a dentry lives as long as the cache, an open file
\* or a file of a killed task points to it, and not longer.  Whatever fails on
\* the way (vfs.c: every early return gives back what it took).
RefsExact ==
    \A i \in Dentry :
        LET users == Cardinality(Opens(i)) + lost[i]
        IN  IF dent[i] = NoDentry THEN users = 0
            ELSE dent[i].refs = users + IF dent[i].cached THEN 1 ELSE 0

\* The tree on the volume is sound as long as nothing unguarded has happened:
\* every chain ends, no cluster is in two chains, none is allocated and in no
\* chain, the FAT copies and the cached FAT agree, no size is larger than its
\* chain, and no directory holds a name twice or a wrong "..".
VolumeSound == ~hurt =>
    /\ \A f \in 1 .. num_fats : vol.fat[f] = FatNow([vol |-> vol])
    /\ \A l \in AllLocs(vol) :
          LET e == SlotAt(vol, l)
              c == ChainAt(vol, l)
          IN  /\ IF c = <<>> THEN e.first = 0 /\ ~e.dir ELSE FatNow([vol |-> vol])[c[Len(c)]] = EOC
              /\ e.size <= Len(c) * cluster_size
              /\ \A k \in AllLocs(vol) \ {l} : ClustersAt(vol, k) \cap ClustersAt(vol, l) = {}
    /\ \A c \in Cluster : FatNow([vol |-> vol])[c] # FREE_CLUSTER
                            => \E l \in AllLocs(vol) : c \in ClustersAt(vol, l)
    /\ \A f \in DirFirsts(vol) : \A k, l \in EntryLocs(vol, f) :
          /\ SlotAt(vol, k).name = SlotAt(vol, l).name => k = l
          /\ SlotAt(vol, k).dir => SlotAt(vol, <<SlotAt(vol, k).first, 1>>).first = f

\* The inode of a cached dentry is the entry on the volume, in the directory its
\* parent names: fat16_write and fat16_truncate write through it.
CachedIsCopy == ~hurt =>
    \A i \in Dentry \ {0} : InCache(dent, i) =>
        /\ dent[i].loc \in EntryLocs(vol, dent[dent[i].parent].ent.first)
        /\ SlotAt(vol, dent[i].loc) = dent[i].ent
        /\ fat16_name_cmp(dent[i].name, dent[i].ent)

\* A call on a sound volume, even one that meets a failing transfer, changes one
\* of the files and directories there are, or adds to them, or neither: all
\* others keep their entry, their chain and their bytes (a directory may grow).
\* It is not so while a file is open that has been removed: a write through it
\* goes to the clusters and the directory slot it once had, whoever has them now.
Same(v, w, l) ==
    LET m == Len(ChainAt(v, l))
    IN  /\ SlotAt(w, l) = SlotAt(v, l)
        /\ Len(ChainAt(w, l)) >= m
        /\ SubSeq(ChainAt(w, l), 1, m) = ChainAt(v, l)
        /\ ~SlotAt(v, l).dir => Len(ChainAt(w, l)) = m
                                 /\ \A c \in ClustersAt(v, l) : w.sec[c] = v.sec[c]
RemovedOpen == \E t \in Task, fd \in Fd : Open(t, fd) /\ ~dent[FileAt(t, fd).d].cached
NeighboursKept ==
    [][vol' # vol /\ ~hurt /\ ~RemovedOpen =>
         LET changed == {l \in AllLocs(vol) : ~Same(vol, vol', l)}
         IN  \/ changed = {}
             \/ Cardinality(changed) = 1 /\ AllLocs(vol') \subseteq AllLocs(vol)]_vars

=============================================================================
