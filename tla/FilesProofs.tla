----------------------------- MODULE FilesProofs -----------------------------
(* No call of the VFS loses a reference of a dentry or gives one back twice. *)
(*                                                                           *)
(* The argument has four layers.  A routine of the FAT16 driver changes the  *)
(* volume, a dentry's inode and its own results, never a reference, a name   *)
(* or a link (Kin).  A routine of the dentry cache changes one count and     *)
(* says whose (Good, Plus, Minus).  A routine of the VFS gives back what it  *)
(* took, or hands exactly one reference out (Held); vfs_mknod does so only   *)
(* because its callers have found the path missing, so that the name it adds *)
(* is not in the cache (Trail, Blocked).  A system call moves that reference *)
(* into a descriptor table or out of one (UsersOf, FilesInv).                *)
EXTENDS Files, NatFacts, SequenceTheorems, FiniteSetTheorems
-----------------------------------------------------------------------------
(* What the driver leaves alone.  Every routine of Fat16 takes a call state  *)
(* to a call state with the same references, names and links: Kin.           *)

CallFields == {"vol", "dent", "fuse", "landed", "dead", "oom", "hurt", "ok", "c", "loc", "ent", "d", "done", "buf"}
DentFields == {"name", "parent", "cached", "refs", "loc", "ent"}
VolFields == {"fat", "fat_cache", "sec", "worn"}

\* The slots of a sector, and a volume: an entry that is in use has a size.
HasSize(e) == "size" \in DOMAIN e /\ e.size \in Nat
Sized(x) ==
    /\ \E n \in Nat : DOMAIN x = 0 .. n - 1
    /\ \A i \in DOMAIN x : fat16_entry_valid(x[i]) => HasSize(x[i])
VolTyped(v) ==
    /\ DOMAIN v = VolFields
    /\ DOMAIN v.sec = {0} \cup Cluster
    /\ \A c \in {0} \cup Cluster : Sized(SlotsOf(v.sec[c]))
IsSequence(b) == \E S : b \in Seq(S)
DentTyped(dn) ==
    /\ DOMAIN dn = Dentry
    /\ \A i \in Dentry : dn[i] = NoDentry \/ (DOMAIN dn[i] = DentFields /\ HasSize(dn[i].ent))
CallState(s) ==
    /\ DOMAIN s = CallFields
    /\ VolTyped(s.vol) /\ DentTyped(s.dent)
    /\ s.done \in Nat /\ IsSequence(s.buf)
Live(s, i) == i \in Dentry /\ s.dent[i] # NoDentry
Links(x, y) == x.refs = y.refs /\ x.cached = y.cached /\ x.name = y.name /\ x.parent = y.parent
SameLinks(dn, dm) ==
    \A i \in Dentry : /\ dm[i] = NoDentry <=> dn[i] = NoDentry
                      /\ dn[i] # NoDentry => Links(dn[i], dm[i])
\* What every routine of the driver does; all but two keep s.done too.
Akin(s, r) == CallState(r) /\ SameLinks(s.dent, r.dent)
Kin(s, r) == Akin(s, r) /\ r.done = s.done

\* r differs from s in the scalars of the call only.
Scalar(s, r) ==
    DOMAIN r = DOMAIN s /\ r.dent = s.dent /\ r.vol = s.vol /\ r.done = s.done /\ r.buf = s.buf
\* A change of the call's scalars is such a routine.
LEMMA ScalarKin ==
    ASSUME NEW s, NEW r, CallState(s), Scalar(s, r)
    PROVE  Kin(s, r)
BY DEF Scalar, Kin, Akin, CallState, SameLinks, Links

\* Routines follow each other.
LEMMA KinTrans ==
    ASSUME NEW s, NEW r, NEW q, Kin(s, r), Kin(r, q)
    PROVE  Kin(s, q)
BY DEF Kin, Akin, SameLinks, Links

\* The weaker relation chains too.
LEMMA AkinTrans ==
    ASSUME NEW s, NEW r, NEW q, Akin(s, r), Akin(r, q)
    PROVE  Akin(s, q)
BY DEF Akin, SameLinks, Links

\* A routine that does nothing.
LEMMA KinSelf == ASSUME NEW s, CallState(s) PROVE Kin(s, s)
BY DEF Kin, Akin, SameLinks, Links

\* A call state stays one, and a dentry that is there stays there.
LEMMA AkinLive ==
    ASSUME NEW s, NEW r, Akin(s, r)
    PROVE  CallState(r) /\ \A i : Live(s, i) <=> Live(r, i)
BY DEF Akin, SameLinks, Live

\* What Kin gives its users.
LEMMA KinLive ==
    ASSUME NEW s, NEW r, Kin(s, r)
    PROVE  Akin(s, r) /\ CallState(r) /\ \A i : Live(s, i) <=> Live(r, i)
BY AkinLive DEF Kin

\* Reading sectors changes the fuse and the result only.
LEMMA ReadsKin == ASSUME NEW s, NEW n, CallState(s) PROVE Kin(s, Reads(s, n))
<1>1. Scalar(s, Reads(s, n))
  BY DEF Scalar, Reads, Blown, CallState, CallFields
<1> QED BY <1>1, ScalarKin

\* A sector write replaces the volume, or fails.
LEMMA WriteSectorKin ==
    ASSUME NEW s, NEW vol1, CallState(s), VolTyped(vol1)
    PROVE  Kin(s, WriteSector(s, vol1))
<1>1. /\ DOMAIN WriteSector(s, vol1) = DOMAIN s
      /\ WriteSector(s, vol1).dent = s.dent /\ WriteSector(s, vol1).done = s.done
      /\ WriteSector(s, vol1).buf = s.buf /\ WriteSector(s, vol1).vol \in {s.vol, vol1}
  BY DEF WriteSector, Blown, CallState, CallFields
<1> DEFINE w == WriteSector(s, vol1)
<1>2. DOMAIN w = DOMAIN s /\ w.dent = s.dent /\ w.done = s.done /\ w.buf = s.buf /\ VolTyped(w.vol)
  BY <1>1 DEF CallState
<1> HIDE DEF w
<1>3. Kin(s, w)
  BY <1>2 DEF Kin, Akin, CallState, SameLinks, Links
<1> QED BY <1>3 DEF w

\* kmalloc changes the allocation fuse and the result only.
LEMMA AllocateKin == ASSUME NEW s, CallState(s) PROVE Kin(s, Allocate(s))
<1>1. Scalar(s, Allocate(s))
  BY DEF Scalar, Allocate, CallState, CallFields
<1> QED BY <1>1, ScalarKin

\* Returning an error, and ignoring one.
LEMMA FailKin == ASSUME NEW s, CallState(s) PROVE Kin(s, Fail(s)) /\ Kin(s, Ignore(s))
<1>1. Scalar(s, Fail(s)) /\ Scalar(s, Ignore(s))
  BY DEF Scalar, Fail, Ignore, CallState, CallFields
<1> QED BY <1>1, ScalarKin

\* The field a routine returns its result in.
LEMMA FieldKin ==
    ASSUME NEW s, NEW v, CallState(s)
    PROVE  /\ Kin(s, [s EXCEPT !.c = v]) /\ Kin(s, [s EXCEPT !.loc = v]) /\ Kin(s, [s EXCEPT !.ent = v])
           /\ Kin(s, [s EXCEPT !.ok = v]) /\ Kin(s, [s EXCEPT !.hurt = v]) /\ Kin(s, [s EXCEPT !.d = v])
<1>1. Scalar(s, [s EXCEPT !.c = v]) /\ Scalar(s, [s EXCEPT !.loc = v]) /\ Scalar(s, [s EXCEPT !.ent = v])
  BY DEF Scalar, CallState, CallFields
<1>2. Scalar(s, [s EXCEPT !.ok = v]) /\ Scalar(s, [s EXCEPT !.hurt = v]) /\ Scalar(s, [s EXCEPT !.d = v])
  BY DEF Scalar, CallState, CallFields
<1> QED BY <1>1, <1>2, ScalarKin

\* The bytes a read returns.
LEMMA BufKin ==
    ASSUME NEW s, NEW v, CallState(s), IsSequence(v)
    PROVE  Kin(s, [s EXCEPT !.buf = v])
<1> DEFINE w == [s EXCEPT !.buf = v]
<1>1. DOMAIN w = DOMAIN s /\ w.dent = s.dent /\ w.done = s.done /\ w.vol = s.vol /\ w.buf = v
  BY DEF CallState, CallFields
<1> HIDE DEF w
<1>2. Kin(s, w)
  BY <1>1 DEF Kin, Akin, CallState, SameLinks, Links
<1> QED BY <1>2 DEF w

\* The count a read or a write returns.
LEMMA DoneAkin ==
    ASSUME NEW s, NEW v \in Nat, CallState(s)
    PROVE  Akin(s, [s EXCEPT !.done = v])
<1> DEFINE w == [s EXCEPT !.done = v]
<1>1. DOMAIN w = DOMAIN s /\ w.dent = s.dent /\ w.done = v /\ w.vol = s.vol /\ w.buf = s.buf
  BY DEF CallState, CallFields
<1> HIDE DEF w
<1>2. Akin(s, w)
  BY <1>1 DEF Akin, CallState, SameLinks, Links
<1> QED BY <1>2 DEF w

\* The driver writes entries and places of dentries that are there.
LEMMA InodeKin ==
    ASSUME NEW s, NEW d, NEW e, NEW l, CallState(s), Live(s, d), HasSize(e)
    PROVE  /\ Kin(s, [s EXCEPT !.dent[d].ent = e, !.dent[d].loc = l])
           /\ Kin(s, [s EXCEPT !.dent[d].ent = e])
<1>1. DOMAIN NoDentry = {"refs"}
  BY DEF NoDentry
<1>2. "ent" \in DentFields /\ "loc" \in DentFields /\ "refs" \in DentFields /\ "cached" \in DentFields
      /\ "name" \in DentFields /\ "parent" \in DentFields
  BY DEF DentFields
<1>3. DOMAIN s.dent[d] = DentFields /\ d \in Dentry /\ s.dent[d] # NoDentry /\ DOMAIN s.dent = Dentry
  BY DEF CallState, DentTyped, Live
<1>4. ASSUME NEW x, DOMAIN x = DentFields, Links(s.dent[d], x), HasSize(x.ent), NEW r,
             DOMAIN r = DOMAIN s, r.dent = [s.dent EXCEPT ![d] = x],
             r.vol = s.vol, r.done = s.done, r.buf = s.buf
      PROVE  Kin(s, r)
  <2>1. x # NoDentry
    BY <1>1, <1>2, <1>4 DEF DentFields
  <2>2. DOMAIN r.dent = Dentry
    BY <1>3, <1>4
  <2>3. r.dent[d] = x /\ \A i \in Dentry : i # d => r.dent[i] = s.dent[i]
    BY <1>4, <1>3
  <2>4. DentTyped(r.dent)
    BY <1>3, <1>4, <2>2, <2>3 DEF DentTyped, CallState
  <2>5. SameLinks(s.dent, r.dent)
    BY <1>3, <1>4, <2>1, <2>3 DEF SameLinks, Links
  <2> QED BY <1>4, <2>4, <2>5 DEF Kin, Akin, CallState
<1>5. Kin(s, [s EXCEPT !.dent[d].ent = e])
  <2> DEFINE x == [s.dent[d] EXCEPT !.ent = e]
             r == [s EXCEPT !.dent[d].ent = e]
  <2>1. DOMAIN x = DentFields /\ Links(s.dent[d], x) /\ HasSize(x.ent)
    BY <1>2, <1>3 DEF Links
  <2>2. DOMAIN r = DOMAIN s /\ r.dent = [s.dent EXCEPT ![d] = x]
        /\ r.vol = s.vol /\ r.done = s.done /\ r.buf = s.buf
    BY DEF CallState, CallFields
  <2> HIDE DEF x, r
  <2>3. Kin(s, r)
    BY <1>4, <2>1, <2>2
  <2> QED BY <2>3 DEF r
<1>6. Kin(s, [s EXCEPT !.dent[d].ent = e, !.dent[d].loc = l])
  <2> DEFINE x == [s.dent[d] EXCEPT !.ent = e, !.loc = l]
             r == [s EXCEPT !.dent[d].ent = e, !.dent[d].loc = l]
  <2>1. DOMAIN x = DentFields /\ Links(s.dent[d], x) /\ HasSize(x.ent)
    BY <1>2, <1>3 DEF Links
  <2>2. DOMAIN r = DOMAIN s /\ r.dent = [s.dent EXCEPT ![d] = x]
        /\ r.vol = s.vol /\ r.done = s.done /\ r.buf = s.buf
    BY <1>3 DEF CallState, CallFields
  <2> HIDE DEF x, r
  <2>3. Kin(s, r)
    BY <1>4, <2>1, <2>2
  <2> QED BY <2>3 DEF r
<1> QED BY <1>5, <1>6

\* The sectors of a volume are not in its FAT.
LEMMA FatTyped ==
    ASSUME NEW v, VolTyped(v), NEW f, NEW c, NEW x
    PROVE  VolTyped([v EXCEPT !.fat[f][c] = x]) /\ VolTyped([v EXCEPT !.fat_cache[c] = x])
<1>1. ASSUME NEW w, DOMAIN w = DOMAIN v, w.sec = v.sec PROVE VolTyped(w)
  BY <1>1 DEF VolTyped
<1>2. DOMAIN [v EXCEPT !.fat[f][c] = x] = DOMAIN v /\ [v EXCEPT !.fat[f][c] = x].sec = v.sec
  BY DEF VolTyped, VolFields
<1>3. DOMAIN [v EXCEPT !.fat_cache[c] = x] = DOMAIN v /\ [v EXCEPT !.fat_cache[c] = x].sec = v.sec
  BY DEF VolTyped, VolFields
<1> QED BY <1>1, <1>2, <1>3

\* Another volume in a call.
LEMMA VolKin ==
    ASSUME NEW s, NEW v, CallState(s), VolTyped(v)
    PROVE  Kin(s, [s EXCEPT !.vol = v])
<1> DEFINE w == [s EXCEPT !.vol = v]
<1>1. DOMAIN w = DOMAIN s /\ w.dent = s.dent /\ w.done = s.done /\ w.vol = v /\ w.buf = s.buf
  BY DEF CallState, CallFields
<1> HIDE DEF w
<1>2. Kin(s, w)
  BY <1>1 DEF Kin, Akin, CallState, SameLinks, Links
<1> QED BY <1>2 DEF w

\* Reading the FAT.
LEMMA FatGetKin ==
    ASSUME NEW s, NEW c, CallState(s)
    PROVE  Kin(s, FatRead(s)) /\ Kin(s, fat16_fat_get(s, c)) /\ Kin(s, fat16_next_cluster(s, c))
<1>1. Kin(s, FatRead(s))
  BY ReadsKin, KinSelf DEF FatRead
<1> DEFINE x == FatRead(s)
           y == [x EXCEPT !.c = FatNow(x)[c]]
<1>2. Kin(x, y)
  BY <1>1, KinLive, FieldKin
<1>3. fat16_fat_get(s, c) = IF x.ok THEN y ELSE x
  BY DEF fat16_fat_get, Then
<1> HIDE DEF x, y
<1>4. Kin(s, fat16_fat_get(s, c))
  BY <1>1, <1>2, <1>3, KinTrans DEF x
<1> DEFINE z == fat16_fat_get(s, c)
           w == [z EXCEPT !.ok = TRUE, !.c = EOC]
<1>5. fat16_next_cluster(s, c) = IF z.ok THEN z ELSE w
  BY DEF fat16_next_cluster, Otherwise
<1> HIDE DEF z
<1>6. CallState(z)
  BY <1>4, KinLive DEF z
<1>7. Scalar(z, w)
  BY <1>6 DEF Scalar, CallState, CallFields
<1> HIDE DEF w
<1>8. Kin(z, w)
  BY <1>6, <1>7, ScalarKin
<1> QED BY <1>1, <1>4, <1>5, <1>8, KinTrans DEF z

\* Writing every copy of the FAT.
LEMMA FatSetKin ==
    ASSUME NEW s, NEW c, NEW value, CallState(s)
    PROVE  Kin(s, fat16_fat_set(s, c, value))
<1>1. num_fats \in Nat
  BY GeometryAssumption
<1> DEFINE Step(k, r) == Then(r, LAMBDA p : Then(Reads(p, 1), LAMBDA q :
                             WriteSector(q, [q.vol EXCEPT !.fat[k][c] = value])))
           R(g) == [k \in 0 .. num_fats |-> IF k = 0 THEN s ELSE Step(k, g[k - 1])]
           F == CHOOSE g : g = R(g)
           Runs(m, g) == g[0] = s /\ \A k \in 1 .. m : g[k] = Step(k, g[k - 1])
           Z(p) == IF Cached(p) THEN [p EXCEPT !.vol.fat_cache[c] = value] ELSE p
<1>2. fat16_fat_set(s, c, value) = IF F[num_fats].ok THEN Z(F[num_fats]) ELSE F[num_fats]
  BY DEF fat16_fat_set, Then
<1>3. ASSUME NEW k \in 1 .. num_fats, NEW r, Kin(s, r) PROVE Kin(s, Step(k, r))
  <2> DEFINE p == Reads(r, 1)
             v == [p.vol EXCEPT !.fat[k][c] = value]
             q == WriteSector(p, v)
  <2>1. Step(k, r) = IF r.ok THEN (IF p.ok THEN q ELSE p) ELSE r
    BY DEF Then
  <2> HIDE DEF Step
  <2>2. Kin(r, p)
    BY <1>3, KinLive, ReadsKin
  <2> HIDE DEF p
  <2>5. VolTyped(v)
    <3>1. VolTyped(p.vol)
      BY <2>2 DEF Kin, Akin, CallState
    <3> QED BY <3>1, FatTyped
  <2> HIDE DEF v
  <2>3. Kin(p, q)
    BY <2>2, <2>5, KinLive, WriteSectorKin
  <2> HIDE DEF q
  <2>4. Kin(s, p) /\ Kin(s, q)
    BY <1>3, <2>2, <2>3, KinTrans
  <2> QED BY <1>3, <2>1, <2>4
<1>4. Kin(s, s)
  BY KinSelf
<1> HIDE DEF Z
<1> HIDE DEF Step
<1>5. F = R(F)
  <2> DEFINE T == {m \in 0 .. num_fats : \E g : Runs(m, g)}
  <2>1. 0 \in T
    <3>1. Runs(0, [k \in 0 .. 0 |-> s])
      OBVIOUS
    <3>2. \E g : Runs(0, g)
      BY <3>1
    <3> HIDE DEF Runs
    <3> QED BY <3>2, <1>1
  <2>2. ASSUME NEW m \in 1 .. num_fats, m - 1 \in T PROVE m \in T
    <3>1. PICK g : Runs(m - 1, g)
      BY <2>2
    <3> DEFINE h == [k \in 0 .. m |-> IF k = m THEN Step(m, g[m - 1]) ELSE g[k]]
    <3>2. h[0] = s
      BY <3>1
    <3>3. ASSUME NEW k \in 1 .. m PROVE h[k] = Step(k, h[k - 1])
      <4>1. k - 1 \in 0 .. m /\ k - 1 # m /\ k \in 0 .. m /\ (k # m => k \in 1 .. m - 1)
        OBVIOUS
      <4>2. h[k - 1] = g[k - 1]
        BY <4>1
      <4>3. CASE k = m
        BY <4>1, <4>2, <4>3
      <4>4. CASE k # m
        <5>1. h[k] = g[k]
          BY <4>1, <4>4
        <5> QED BY <3>1, <4>1, <4>2, <4>4, <5>1
      <4> QED BY <4>3, <4>4
    <3> HIDE DEF h
    <3>4. Runs(m, h)
      BY <3>2, <3>3
    <3>5. \E g1 : Runs(m, g1)
      BY <3>4
    <3> HIDE DEF Runs
    <3>6. m \in 0 .. num_fats
      BY <1>1
    <3> QED BY <3>5, <3>6
  <2> HIDE DEF T
  <2>3. 0 .. num_fats \subseteq T
    BY <2>1, <2>2, <1>1, IntervalInduction
  <2>4. num_fats \in T
    BY <2>3, <1>1
  <2>5. PICK g : Runs(num_fats, g)
    BY <2>4 DEF T
  <2> DEFINE u == [k \in 0 .. num_fats |-> g[k]]
  <2>6. ASSUME NEW k \in 0 .. num_fats PROVE u[k] = IF k = 0 THEN s ELSE Step(k, u[k - 1])
    <3>1. CASE k = 0
      BY <2>5, <3>1
    <3>2. CASE k # 0
      <4>1. k \in 1 .. num_fats /\ k - 1 \in 0 .. num_fats
        BY <3>2, <1>1
      <4>2. u[k] = g[k] /\ u[k - 1] = g[k - 1]
        BY <4>1
      <4> QED BY <2>5, <3>2, <4>1, <4>2
    <3> QED BY <3>1, <3>2
  <2>7. u = R(u)
    BY <2>6
  <2> HIDE DEF u
  <2>8. \E g1 : g1 = R(g1)
    BY <2>7
  <2> QED BY <2>8, Zenon
<1> HIDE DEF F
<1>6. F[0] = s /\ \A k \in 1 .. num_fats : F[k] = Step(k, F[k - 1])
  <2>1. 0 \in 0 .. num_fats /\ \A k \in 1 .. num_fats : k \in 0 .. num_fats /\ k # 0
    BY <1>1
  <2> QED BY <1>5, <2>1
<1>7. \A k \in 0 .. num_fats : Kin(s, F[k])
  <2> DEFINE T == {k \in 0 .. num_fats : Kin(s, F[k])}
  <2>1. 0 \in T
    BY <1>4, <1>6, <1>1
  <2>2. ASSUME NEW k \in 1 .. num_fats, k - 1 \in T PROVE k \in T
    <3>1. k \in 0 .. num_fats /\ Kin(s, F[k - 1])
      BY <2>2
    <3> QED BY <1>6, <1>3, <3>1
  <2> HIDE DEF T
  <2>3. 0 .. num_fats \subseteq T
    BY <2>1, <2>2, <1>1, IntervalInduction
  <2> QED BY <2>3 DEF T
<1>8. Kin(s, F[num_fats])
  BY <1>1, <1>7
<1>9. ASSUME NEW p, CallState(p) PROVE Kin(p, Z(p))
  <2>1. Kin(p, p)
    BY <1>9, KinSelf
  <2>2. Kin(p, [p EXCEPT !.vol.fat_cache[c] = value])
    <3> DEFINE v == [p.vol EXCEPT !.fat_cache[c] = value]
    <3>1. [p EXCEPT !.vol.fat_cache[c] = value] = [p EXCEPT !.vol = v]
      OBVIOUS
    <3>2. VolTyped(v)
      <4>1. VolTyped(p.vol)
        BY <1>9 DEF CallState
      <4> QED BY <4>1, FatTyped
    <3> HIDE DEF v
    <3>3. Kin(p, [p EXCEPT !.vol = v])
      BY <1>9, <3>2, VolKin
    <3> QED BY <3>1, <3>3
  <2> QED BY <2>1, <2>2 DEF Z
<1>10. Kin(F[num_fats], Z(F[num_fats]))
  BY <1>8, <1>9, KinLive
<1> QED BY <1>2, <1>8, <1>10, KinTrans

\* Taking a cluster, and following or growing a chain.
LEMMA ClusterAllocKin == ASSUME NEW s, CallState(s) PROVE Kin(s, fat16_cluster_alloc(s))
<1> DEFINE free == {c \in Cluster : FatNow(s)[c] = FREE_CLUSTER}
           probes == IF Cached(s) THEN 0 ELSE IF free = {} THEN total_clusters ELSE Least(free) - 1
           x == Reads(s, probes)
           y == fat16_fat_set(x, Least(free), EOC)
           z == [y EXCEPT !.c = Least(free)]
<1>1. fat16_cluster_alloc(s) = IF x.ok THEN (IF free = {} THEN Fail(x) ELSE IF y.ok THEN z ELSE y) ELSE x
  BY DEF fat16_cluster_alloc, Then
<1> HIDE DEF free, probes
<1>2. Kin(s, x)
  BY ReadsKin
<1> HIDE DEF x
<1>3. Kin(s, y)
  BY <1>2, KinLive, FatSetKin, KinTrans
<1> HIDE DEF y
<1>4. Kin(s, z)
  BY <1>3, KinLive, FieldKin, KinTrans
<1> HIDE DEF z
<1>5. Kin(s, Fail(x))
  BY <1>2, KinLive, FailKin, KinTrans
<1> QED BY <1>1, <1>2, <1>3, <1>4, <1>5

\* One step along a chain, which grows at its end.
LEMMA ChainStepKin == ASSUME NEW s, NEW c, CallState(s) PROVE Kin(s, chain_step(s, c))
<1> DEFINE x == fat16_next_cluster(s, c)
           y == fat16_cluster_alloc(x)
           z == fat16_fat_set(y, c, y.c)
           w == [z EXCEPT !.c = y.c]
<1>1. chain_step(s, c) = IF x.ok THEN (IF fat16_cluster_valid(x.c) THEN x
                                       ELSE IF y.ok THEN (IF z.ok THEN w ELSE z) ELSE y) ELSE x
  BY DEF chain_step, Then
<1>2. Kin(s, x)
  BY FatGetKin
<1> HIDE DEF x
<1>3. Kin(s, y)
  BY <1>2, KinLive, ClusterAllocKin, KinTrans
<1> HIDE DEF y
<1>4. Kin(s, z)
  BY <1>3, KinLive, FatSetKin, KinTrans
<1> HIDE DEF z
<1>5. Kin(s, w)
  BY <1>4, KinLive, FieldKin, KinTrans
<1> HIDE DEF w
<1> QED BY <1>1, <1>2, <1>3, <1>4, <1>5

\* Freeing a chain, cluster by cluster.
LEMMA ChainFreeKin ==
    ASSUME NEW s, NEW first, CallState(s), Len(Chain(FatNow(s), first)) \in Nat
    PROVE  Kin(s, fat16_chain_free(s, first))
<1> DEFINE chain == Chain(FatNow(s), first)
<1>0. PICK n \in Nat : n = Len(chain)
  OBVIOUS
<1> DEFINE Step(k, r) == Then(r, LAMBDA p : Then(FatRead(p), LAMBDA q : fat16_fat_set(q, chain[k], FREE_CLUSTER)))
           R(g) == [k \in 0 .. n |-> IF k = 0 THEN s ELSE Step(k, g[k - 1])]
           F == CHOOSE g : g = R(g)
           Runs(m, g) == g[0] = s /\ \A k \in 1 .. m : g[k] = Step(k, g[k - 1])
<1>1. n \in Nat
  OBVIOUS
<1>2. fat16_chain_free(s, first) = F[n]
  BY <1>0 DEF fat16_chain_free, Then
<1> HIDE DEF chain
<1>3. ASSUME NEW k \in 1 .. n, NEW r, Kin(s, r) PROVE Kin(s, Step(k, r))
  <2> DEFINE p == FatRead(r)
             q == fat16_fat_set(p, chain[k], FREE_CLUSTER)
  <2>1. Step(k, r) = IF r.ok THEN (IF p.ok THEN q ELSE p) ELSE r
    BY DEF Then
  <2> HIDE DEF Step
  <2>2. Kin(s, p)
    BY <1>3, KinLive, FatGetKin, KinTrans
  <2> HIDE DEF p
  <2>3. Kin(s, q)
    BY <2>2, KinLive, FatSetKin, KinTrans
  <2> HIDE DEF q
  <2> QED BY <1>3, <2>1, <2>2, <2>3
<1>4. Kin(s, s)
  BY KinSelf
<1> HIDE DEF Step
<1>5. F = R(F)
  <2> DEFINE T == {m \in 0 .. n : \E g : Runs(m, g)}
  <2>1. 0 \in T
    <3>1. Runs(0, [k \in 0 .. 0 |-> s])
      OBVIOUS
    <3>2. \E g : Runs(0, g)
      BY <3>1
    <3> HIDE DEF Runs
    <3> QED BY <3>2, <1>1
  <2>2. ASSUME NEW m \in 1 .. n, m - 1 \in T PROVE m \in T
    <3>1. PICK g : Runs(m - 1, g)
      BY <2>2
    <3> DEFINE h == [k \in 0 .. m |-> IF k = m THEN Step(m, g[m - 1]) ELSE g[k]]
    <3>2. h[0] = s
      BY <3>1
    <3>3. ASSUME NEW k \in 1 .. m PROVE h[k] = Step(k, h[k - 1])
      <4>1. k - 1 \in 0 .. m /\ k - 1 # m /\ k \in 0 .. m /\ (k # m => k \in 1 .. m - 1)
        OBVIOUS
      <4>2. h[k - 1] = g[k - 1]
        BY <4>1
      <4>3. CASE k = m
        BY <4>1, <4>2, <4>3
      <4>4. CASE k # m
        <5>1. h[k] = g[k]
          BY <4>1, <4>4
        <5> QED BY <3>1, <4>1, <4>2, <4>4, <5>1
      <4> QED BY <4>3, <4>4
    <3> HIDE DEF h
    <3>4. Runs(m, h)
      BY <3>2, <3>3
    <3>5. \E g1 : Runs(m, g1)
      BY <3>4
    <3> HIDE DEF Runs
    <3>6. m \in 0 .. n
      BY <1>1
    <3> QED BY <3>5, <3>6
  <2> HIDE DEF T
  <2>3. 0 .. n \subseteq T
    BY <2>1, <2>2, <1>1, IntervalInduction
  <2>4. n \in T
    BY <2>3, <1>1
  <2>5. PICK g : Runs(n, g)
    BY <2>4 DEF T
  <2> DEFINE u == [k \in 0 .. n |-> g[k]]
  <2>6. ASSUME NEW k \in 0 .. n PROVE u[k] = IF k = 0 THEN s ELSE Step(k, u[k - 1])
    <3>1. CASE k = 0
      BY <2>5, <3>1
    <3>2. CASE k # 0
      <4>1. k \in 1 .. n /\ k - 1 \in 0 .. n
        BY <3>2, <1>1
      <4>2. u[k] = g[k] /\ u[k - 1] = g[k - 1]
        BY <4>1
      <4> QED BY <2>5, <3>2, <4>1, <4>2
    <3> QED BY <3>1, <3>2
  <2>7. u = R(u)
    BY <2>6
  <2> HIDE DEF u
  <2>8. \E g1 : g1 = R(g1)
    BY <2>7
  <2> QED BY <2>8, Zenon
<1> HIDE DEF F
<1>6. F[0] = s /\ \A k \in 1 .. n : F[k] = Step(k, F[k - 1])
  <2>1. 0 \in 0 .. n /\ \A k \in 1 .. n : k \in 0 .. n /\ k # 0
    BY <1>1
  <2> QED BY <1>5, <2>1
<1>7. \A k \in 0 .. n : Kin(s, F[k])
  <2> DEFINE T == {k \in 0 .. n : Kin(s, F[k])}
  <2>1. 0 \in T
    BY <1>4, <1>6, <1>1
  <2>2. ASSUME NEW k \in 1 .. n, k - 1 \in T PROVE k \in T
    <3>1. k \in 0 .. n /\ Kin(s, F[k - 1])
      BY <2>2
    <3> QED BY <1>6, <1>3, <3>1
  <2> HIDE DEF T
  <2>3. 0 .. n \subseteq T
    BY <2>1, <2>2, <1>1, IntervalInduction
  <2> QED BY <2>3 DEF T
<1> QED BY <1>1, <1>2, <1>7

-----------------------------------------------------------------------------
(* Chains and directories. *)

\* A chain is a sequence of clusters, whatever the FAT holds.
LEMMA ChainIsSeq == ASSUME NEW fat, NEW first PROVE Chain(fat, first) \in Seq(Cluster)
<1>1. total_clusters \in Nat
  BY GeometryAssumption
<1> DEFINE start == IF fat16_cluster_valid(first) THEN <<first>> ELSE <<>>
<1> DEFINE Step(k, r) == LET next == IF r = <<>> THEN EOC ELSE fat[r[Len(r)]]
                         IN  IF fat16_cluster_valid(next) /\ \A i \in DOMAIN r : r[i] # next
                             THEN Append(r, next) ELSE r
           R(g) == [k \in 0 .. total_clusters |-> IF k = 0 THEN start ELSE Step(k, g[k - 1])]
           F == CHOOSE g : g = R(g)
           Runs(m, g) == g[0] = start /\ \A k \in 1 .. m : g[k] = Step(k, g[k - 1])
<1>2. Chain(fat, first) = F[total_clusters]
  BY DEF Chain
<1>3. ASSUME NEW k \in 1 .. total_clusters, NEW r \in Seq(Cluster) PROVE Step(k, r) \in Seq(Cluster)
  BY DEF fat16_cluster_valid
<1>4. start \in Seq(Cluster)
  BY DEF fat16_cluster_valid
<1> HIDE DEF start
<1> HIDE DEF Step
<1>5. F = R(F)
  <2> DEFINE T == {m \in 0 .. total_clusters : \E g : Runs(m, g)}
  <2>1. 0 \in T
    <3>1. Runs(0, [k \in 0 .. 0 |-> start])
      OBVIOUS
    <3>2. \E g : Runs(0, g)
      BY <3>1
    <3> HIDE DEF Runs
    <3> QED BY <3>2, <1>1
  <2>2. ASSUME NEW m \in 1 .. total_clusters, m - 1 \in T PROVE m \in T
    <3>1. PICK g : Runs(m - 1, g)
      BY <2>2
    <3> DEFINE h == [k \in 0 .. m |-> IF k = m THEN Step(m, g[m - 1]) ELSE g[k]]
    <3>2. h[0] = start
      BY <3>1
    <3>3. ASSUME NEW k \in 1 .. m PROVE h[k] = Step(k, h[k - 1])
      <4>1. k - 1 \in 0 .. m /\ k - 1 # m /\ k \in 0 .. m /\ (k # m => k \in 1 .. m - 1)
        OBVIOUS
      <4>2. h[k - 1] = g[k - 1]
        BY <4>1
      <4>3. CASE k = m
        BY <4>1, <4>2, <4>3
      <4>4. CASE k # m
        <5>1. h[k] = g[k]
          BY <4>1, <4>4
        <5> QED BY <3>1, <4>1, <4>2, <4>4, <5>1
      <4> QED BY <4>3, <4>4
    <3> HIDE DEF h
    <3>4. Runs(m, h)
      BY <3>2, <3>3
    <3>5. \E g1 : Runs(m, g1)
      BY <3>4
    <3> HIDE DEF Runs
    <3>6. m \in 0 .. total_clusters
      BY <1>1
    <3> QED BY <3>5, <3>6
  <2> HIDE DEF T
  <2>3. 0 .. total_clusters \subseteq T
    BY <2>1, <2>2, <1>1, IntervalInduction
  <2>4. total_clusters \in T
    BY <2>3, <1>1
  <2>5. PICK g : Runs(total_clusters, g)
    BY <2>4 DEF T
  <2> DEFINE u == [k \in 0 .. total_clusters |-> g[k]]
  <2>6. ASSUME NEW k \in 0 .. total_clusters PROVE u[k] = IF k = 0 THEN start ELSE Step(k, u[k - 1])
    <3>1. CASE k = 0
      BY <2>5, <3>1
    <3>2. CASE k # 0
      <4>1. k \in 1 .. total_clusters /\ k - 1 \in 0 .. total_clusters
        BY <3>2, <1>1
      <4>2. u[k] = g[k] /\ u[k - 1] = g[k - 1]
        BY <4>1
      <4> QED BY <2>5, <3>2, <4>1, <4>2
    <3> QED BY <3>1, <3>2
  <2>7. u = R(u)
    BY <2>6
  <2> HIDE DEF u
  <2>8. \E g1 : g1 = R(g1)
    BY <2>7
  <2> QED BY <2>8, Zenon
<1> HIDE DEF F
<1>6. F[0] = start /\ \A k \in 1 .. total_clusters : F[k] = Step(k, F[k - 1])
  <2>1. 0 \in 0 .. total_clusters /\ \A k \in 1 .. total_clusters : k \in 0 .. total_clusters /\ k # 0
    BY <1>1
  <2> QED BY <1>5, <2>1
<1>7. \A k \in 0 .. total_clusters : F[k] \in Seq(Cluster)
  <2> DEFINE T == {k \in 0 .. total_clusters : F[k] \in Seq(Cluster)}
  <2>1. 0 \in T
    BY <1>4, <1>6, <1>1
  <2>2. ASSUME NEW k \in 1 .. total_clusters, k - 1 \in T PROVE k \in T
    <3>1. k \in 0 .. total_clusters /\ F[k - 1] \in Seq(Cluster)
      BY <2>2
    <3> QED BY <1>3, <1>6, <3>1
  <2> HIDE DEF T
  <2>3. 0 .. total_clusters \subseteq T
    BY <2>1, <2>2, <1>1, IntervalInduction
  <2> QED BY <2>3 DEF T
<1> QED BY <1>1, <1>2, <1>7

\* The sectors of a directory: the root's, or those of its clusters.
LEMMA DirSectorsSeq ==
    ASSUME NEW s, NEW first PROVE DirSectors(s, first) \in Seq({0} \cup Cluster)
<1>1. Chain(FatNow(s), first) \in Seq({0} \cup Cluster)
  <2>1. \A p \in Seq(Cluster) : p \in Seq({0} \cup Cluster)
    OBVIOUS
  <2> QED BY <2>1, ChainIsSeq
<1>2. <<0>> \in Seq({0} \cup Cluster)
  OBVIOUS
<1> QED BY <1>1, <1>2, Zenon DEF DirSectors

\* Least is what its name says.
LEMMA LeastIn ==
    ASSUME NEW S \in SUBSET Nat, S # {}
    PROVE  Least(S) \in S /\ \A y \in S : Least(S) <= y
<1>1. \E x \in S : \A y \in S : x <= y
  BY LeastNat
<1> QED BY <1>1, Zenon DEF Least

\* What a scan returns: a slot it may stop at, or none; nothing else changes.
Scanned(s, r, hits, l) ==
    /\ Kin(s, r) /\ r.vol = s.vol
    /\ r.loc = NoLoc \/ (hits # {} /\ r.loc = l)
\* The three ways a scan of a directory ends.
LEMMA ScanEnds ==
    ASSUME NEW s, CallState(s), NEW n, NEW broken \in BOOLEAN, NEW hits, NEW l
    PROVE  Scanned(s, IF broken THEN [Reads(s, n) EXCEPT !.ok = TRUE, !.loc = NoLoc]
                      ELSE IF ~Reads(s, n).ok \/ hits = {} THEN [Reads(s, n) EXCEPT !.loc = NoLoc]
                      ELSE [Reads(s, n) EXCEPT !.loc = l], hits, l)
<1> DEFINE x == Reads(s, n)
           y == [x EXCEPT !.ok = TRUE, !.loc = NoLoc]
           z == [x EXCEPT !.loc = NoLoc]
           w == [x EXCEPT !.loc = l]
<1>1. Scalar(s, x)
  BY DEF Scalar, Reads, Blown, CallState, CallFields
<1>2. DOMAIN x = CallFields
  BY <1>1 DEF Scalar, CallState
<1> HIDE DEF x
<1>3. Scalar(s, y) /\ Scalar(s, z) /\ Scalar(s, w)
  BY <1>1, <1>2 DEF Scalar, CallFields
<1>4. y.loc = NoLoc /\ z.loc = NoLoc /\ w.loc = l
  BY <1>2 DEF CallFields
<1> HIDE DEF y, z, w
<1>5. Kin(s, y) /\ Kin(s, z) /\ Kin(s, w) /\ y.vol = s.vol /\ z.vol = s.vol /\ w.vol = s.vol
  BY <1>3, ScalarKin DEF Scalar
<1>6. Scanned(s, IF broken THEN y ELSE IF ~x.ok \/ hits = {} THEN z ELSE w, hits, l)
  BY <1>4, <1>5 DEF Scanned
<1> QED BY <1>6 DEF x, y, z, w

\* Finding a name: what is found is an entry in use.
LEMMA DirFindKin ==
    ASSUME NEW s, NEW first, NEW name, CallState(s)
    PROVE  /\ Kin(s, fat16_dir_find(s, first, name))
           /\ fat16_dir_find(s, first, name).ok => HasSize(fat16_dir_find(s, first, name).ent)
<1> DEFINE secs == DirSectors(s, first)
           per == PerSector(s, first)
           StopsIn(k) == {i \in DOMAIN SlotsOf(s.vol.sec[secs[k]]) :
                             LET e == SlotsOf(s.vol.sec[secs[k]])[i] IN e = END \/ fat16_name_cmp(name, e)}
           hits == {k \in DOMAIN secs : StopsIn(k) # {}}
           cost == IF hits = {} THEN per * Len(secs) ELSE per * (Least(hits) - 1) + 1
           broken == s.fuse \in 1 .. cost /\ per = 2 /\ s.fuse % 2 = 0
           l == <<secs[Least(hits)], Least(StopsIn(Least(hits)))>>
           r == IF broken THEN [Reads(s, cost) EXCEPT !.ok = TRUE, !.loc = NoLoc]
                ELSE IF ~Reads(s, cost).ok \/ hits = {} THEN [Reads(s, cost) EXCEPT !.loc = NoLoc]
                ELSE [Reads(s, cost) EXCEPT !.loc = l]
<1>1. fat16_dir_find(s, first, name) = IF r.loc # NoLoc /\ SlotAt(r.vol, r.loc) # END THEN [r EXCEPT !.ent = SlotAt(r.vol, r.loc)] ELSE Fail(r)
  BY DEF fat16_dir_find, fat16_dir_scan, ScanSectors, Then
<1>2. Scanned(s, r, hits, l)
  <2> HIDE DEF hits, l, cost
  <2>1. broken \in BOOLEAN
    OBVIOUS
  <2> HIDE DEF broken
  <2> QED BY <2>1, ScanEnds
<1> HIDE DEF r
<1> DEFINE u == [r EXCEPT !.ent = SlotAt(r.vol, r.loc)]
           f == Fail(r)
<1>3. Kin(s, r) /\ DOMAIN r = CallFields
  BY <1>2 DEF Scanned, Kin, Akin, CallState
<1>4. Kin(s, u) /\ Kin(s, f) /\ f.ok = FALSE /\ u.ent = SlotAt(r.vol, r.loc)
  <2>1. Kin(r, u) /\ Kin(r, f)
    BY <1>3, KinLive, FieldKin, FailKin
  <2>2. f.ok = FALSE /\ u.ent = SlotAt(r.vol, r.loc)
    BY <1>3 DEF Fail, CallFields
  <2> HIDE DEF u, f
  <2> QED BY <1>3, <2>1, <2>2, KinTrans
<1>5. ASSUME r.loc # NoLoc, SlotAt(r.vol, r.loc) # END PROVE HasSize(SlotAt(r.vol, r.loc))
  <2>1. hits # {} /\ r.loc = l /\ r.vol = s.vol
    BY <1>2, <1>5 DEF Scanned
  <2> DEFINE k == Least(hits)
             x == SlotsOf(s.vol.sec[secs[k]])
             i == Least(StopsIn(k))
  <2>2. k \in DOMAIN secs /\ StopsIn(k) # {}
    <3>0. secs \in Seq({0} \cup Cluster)
      BY DirSectorsSeq
    <3> HIDE DEF secs
    <3>1. hits \in SUBSET Nat
      BY <3>0
    <3>2. k \in hits
      BY <2>1, <3>1, LeastIn
    <3> QED BY <3>2
  <2>3. secs[k] \in {0} \cup Cluster
    <3>0. secs \in Seq({0} \cup Cluster)
      BY DirSectorsSeq
    <3> HIDE DEF secs, k
    <3> QED BY <2>2, <3>0
  <2>4. Sized(x)
    BY <2>3 DEF CallState, VolTyped
  <2>5. i \in StopsIn(k)
    <3>1. DOMAIN x \subseteq Nat
      <4> HIDE DEF x
      <4>1. PICK n \in Nat : DOMAIN x = 0 .. n - 1
        BY <2>4 DEF Sized
      <4> QED BY <4>1
    <3>2. StopsIn(k) \in SUBSET Nat
      BY <3>1
    <3> HIDE DEF StopsIn, k
    <3> QED BY <2>2, <3>2, LeastIn
  <2>6. i \in DOMAIN x /\ (x[i] = END \/ fat16_name_cmp(name, x[i]))
    BY <2>5
  <2>7. SlotAt(r.vol, r.loc) = x[i]
    <3> DEFINE a == secs[k]
    <3>1. l = <<a, i>> /\ x = SlotsOf(s.vol.sec[a])
      OBVIOUS
    <3> HIDE DEF l, x, a, i
    <3> QED BY <2>1, <3>1 DEF SlotAt
  <2> HIDE DEF x, i
  <2> QED BY <1>5, <2>4, <2>6, <2>7 DEF Sized, fat16_name_cmp
<1>6. fat16_dir_find(s, first, name) = IF r.loc # NoLoc /\ SlotAt(r.vol, r.loc) # END THEN u ELSE f
  BY <1>1
<1> HIDE DEF u, f
<1>7. CASE r.loc # NoLoc /\ SlotAt(r.vol, r.loc) # END
  <2>1. fat16_dir_find(s, first, name) = u
    BY <1>6, <1>7
  <2> QED BY <1>4, <1>5, <1>7, <2>1
<1>8. CASE ~(r.loc # NoLoc /\ SlotAt(r.vol, r.loc) # END)
  <2>1. fat16_dir_find(s, first, name) = f
    BY <1>6, <1>8
  <2> QED BY <1>4, <2>1
<1> QED BY <1>7, <1>8

\* Looking whether a directory is empty, and for a free slot.
LEMMA DirEmptyKin ==
    ASSUME NEW s, NEW first, CallState(s)
    PROVE  Kin(s, fat16_dir_empty(s, first))
<1> DEFINE secs == DirSectors(s, first)
           per == PerSector(s, first)
           StopsIn(k) == {i \in DOMAIN SlotsOf(s.vol.sec[secs[k]]) :
                             LET e == SlotsOf(s.vol.sec[secs[k]])[i] IN fat16_entry_valid(e) /\ ~fat16_is_dot(e)}
           hits == {k \in DOMAIN secs : StopsIn(k) # {}}
           cost == IF hits = {} THEN per * Len(secs) ELSE per * (Least(hits) - 1) + 1
           broken == s.fuse \in 1 .. cost /\ per = 2 /\ s.fuse % 2 = 0
           l == <<secs[Least(hits)], Least(StopsIn(Least(hits)))>>
           r == IF broken THEN [Reads(s, cost) EXCEPT !.ok = TRUE, !.loc = NoLoc]
                ELSE IF ~Reads(s, cost).ok \/ hits = {} THEN [Reads(s, cost) EXCEPT !.loc = NoLoc]
                ELSE [Reads(s, cost) EXCEPT !.loc = l]
<1>1. fat16_dir_empty(s, first) = IF r.loc = NoLoc THEN r ELSE Fail(r)
  BY DEF fat16_dir_empty, fat16_dir_scan, ScanSectors, Then
<1>2. Scanned(s, r, hits, l)
  <2> HIDE DEF hits, l, cost
  <2>1. broken \in BOOLEAN
    OBVIOUS
  <2> HIDE DEF broken
  <2> QED BY <2>1, ScanEnds
<1> HIDE DEF r
<1>3. Kin(s, r) /\ Kin(r, Fail(r))
  BY <1>2, KinLive, FailKin DEF Scanned
<1> QED BY <1>1, <1>3, KinTrans

\* A slot that may be written, and a volume with another sector.
OkSlot(e) == fat16_entry_valid(e) => HasSize(e)
\* A volume with another sector is a volume.
LEMMA SecTyped ==
    ASSUME NEW v, VolTyped(v), NEW a, NEW y, a \in {0} \cup Cluster => Sized(SlotsOf(y))
    PROVE  VolTyped([v EXCEPT !.sec[a] = y])
<1> DEFINE w == [v EXCEPT !.sec[a] = y]
<1>1. DOMAIN w = DOMAIN v /\ w.sec = [v.sec EXCEPT ![a] = y]
  BY DEF VolTyped, VolFields
<1> HIDE DEF w
<1>2. DOMAIN w.sec = {0} \cup Cluster
  BY <1>1 DEF VolTyped
<1>3. ASSUME NEW c \in {0} \cup Cluster PROVE Sized(SlotsOf(w.sec[c]))
  BY <1>1 DEF VolTyped
<1>4. VolTyped(w)
  BY <1>1, <1>2, <1>3 DEF VolTyped
<1> QED BY <1>4 DEF w

\* A directory sector holds the slots it was made of.
LEMMA SlotsOfDir == ASSUME NEW x PROVE SlotsOf(DirOf(x)) = x
BY DEF SlotsOf, DirOf

\* A data sector read as a directory has no entry in use.
LEMMA DataSized == ASSUME NEW x PROVE Sized(SlotsOf(DataOf(x)))
<1>1. SlotsOf(DataOf(x)) = [i \in 0 .. ClusterSlots - 1 |-> JUNK]
  BY DEF SlotsOf, DataOf
<1>2. ~fat16_entry_valid(JUNK) /\ ClusterSlots \in Nat
  BY GeometryAssumption DEF fat16_entry_valid
<1> QED BY <1>1, <1>2 DEF Sized

\* A volume with another slot is a volume.
LEMMA SlotTyped ==
    ASSUME NEW v, VolTyped(v), NEW loc, NEW e, OkSlot(e)
    PROVE  VolTyped(WithSlot(v, loc, e))
<1> DEFINE a == loc[1]
           b == loc[2]
           x == SlotsOf(v.sec[a])
           z == [x EXCEPT ![b] = e]
           y == DirOf(z)
<1>1. WithSlot(v, loc, e) = [v EXCEPT !.sec[a] = y]
  BY DEF WithSlot
<1>2. ASSUME a \in {0} \cup Cluster PROVE Sized(SlotsOf(y))
  <2>1. Sized(x)
    BY <1>2 DEF VolTyped
  <2> HIDE DEF x, b
  <2>2. DOMAIN z = DOMAIN x /\ \A i \in DOMAIN z : z[i] = x[i] \/ z[i] = e
    OBVIOUS
  <2> HIDE DEF z
  <2>3. Sized(z)
    BY <2>1, <2>2 DEF Sized, OkSlot
  <2> QED BY <2>3, SlotsOfDir
<1> HIDE DEF a, y
<1> QED BY <1>1, <1>2, SecTyped

\* Writing a slot.
LEMMA DirWriteKin ==
    ASSUME NEW s, NEW loc, NEW e, CallState(s), OkSlot(e)
    PROVE  Kin(s, fat16_dir_write(s, loc, e))
<1> DEFINE x == Reads(s, 1)
           y == WriteSector(x, WithSlot(x.vol, loc, e))
<1>1. fat16_dir_write(s, loc, e) = IF x.ok THEN y ELSE x
  BY DEF fat16_dir_write, Then
<1>2. Kin(s, x)
  BY ReadsKin
<1> HIDE DEF x
<1>3. CallState(x) /\ VolTyped(WithSlot(x.vol, loc, e))
  BY <1>2, SlotTyped DEF Kin, Akin, CallState
<1>4. Kin(x, y)
  BY <1>3, WriteSectorKin
<1> HIDE DEF y
<1> QED BY <1>1, <1>2, <1>4, KinTrans

\* A directory grows by a cluster.
LEMMA ExtendDirKin ==
    ASSUME NEW s, NEW chain, CallState(s)
    PROVE  Kin(s, ExtendDir(s, chain))
<1> DEFINE links == IF Cached(s) THEN 0 ELSE Len(chain)
           last == chain[IF s.fuse \in 1 .. links THEN s.fuse ELSE Len(chain)]
           x == Reads(s, links)
           i == Ignore(x)
           a == fat16_cluster_alloc(i)
           l == fat16_fat_set(a, last, a.c)
           v == [l.vol EXCEPT !.sec[a.c] = DirOf(ZeroSlots)]
           z == WriteSector(l, v)
           r == Reads(z, sectors_per_cluster - 1)
           w == [r EXCEPT !.loc = <<a.c, 0>>]
<1>1. ExtendDir(s, chain) = IF a.ok THEN (IF l.ok THEN (IF z.ok THEN (IF r.ok THEN w ELSE r) ELSE z) ELSE l) ELSE a
  BY DEF ExtendDir, Then
<1> HIDE DEF links, last
<1>2. Kin(s, x)
  BY ReadsKin
<1> HIDE DEF x
<1>3. Kin(s, i)
  BY <1>2, KinLive, FailKin, KinTrans
<1> HIDE DEF i
<1>4. Kin(s, a)
  BY <1>3, KinLive, ClusterAllocKin, KinTrans
<1> HIDE DEF a
<1>5. Kin(s, l)
  BY <1>4, KinLive, FatSetKin, KinTrans
<1> HIDE DEF l
<1>6. VolTyped(v)
  <2>1. Sized(ZeroSlots)
    <3>1. ~fat16_entry_valid(END) /\ ClusterSlots \in Nat
      BY GeometryAssumption DEF fat16_entry_valid
    <3> QED BY <3>1 DEF Sized, ZeroSlots
  <2>2. Sized(SlotsOf(DirOf(ZeroSlots)))
    BY <2>1, SlotsOfDir
  <2>3. VolTyped(l.vol)
    BY <1>5 DEF Kin, Akin, CallState
  <2> QED BY <2>2, <2>3, SecTyped
<1> HIDE DEF v
<1>7. Kin(s, z)
  BY <1>5, <1>6, KinLive, WriteSectorKin, KinTrans
<1> HIDE DEF z
<1>8. Kin(s, r)
  BY <1>7, KinLive, ReadsKin, KinTrans
<1> HIDE DEF r
<1>9. Kin(s, w)
  BY <1>8, KinLive, FieldKin, KinTrans
<1> HIDE DEF w
<1> QED BY <1>1, <1>4, <1>5, <1>7, <1>8, <1>9

\* A free slot is found or made.
LEMMA DirAllocSlotKin ==
    ASSUME NEW s, NEW first, CallState(s)
    PROVE  Kin(s, fat16_dir_alloc_slot(s, first))
<1> DEFINE secs == DirSectors(s, first)
           per == PerSector(s, first)
           StopsIn(k) == {i \in DOMAIN SlotsOf(s.vol.sec[secs[k]]) :
                             LET e == SlotsOf(s.vol.sec[secs[k]])[i] IN e \in {END, DELETED}}
           hits == {k \in DOMAIN secs : StopsIn(k) # {}}
           cost == IF hits = {} THEN per * Len(secs) ELSE per * (Least(hits) - 1) + 1
           broken == s.fuse \in 1 .. cost /\ per = 2 /\ s.fuse % 2 = 0
           l == <<secs[Least(hits)], Least(StopsIn(Least(hits)))>>
           r == IF broken THEN [Reads(s, cost) EXCEPT !.ok = TRUE, !.loc = NoLoc]
                ELSE IF ~Reads(s, cost).ok \/ hits = {} THEN [Reads(s, cost) EXCEPT !.loc = NoLoc]
                ELSE [Reads(s, cost) EXCEPT !.loc = l]
<1>1. fat16_dir_alloc_slot(s, first) = LET i == Ignore(r) IN
      IF i.ok THEN (IF i.loc # NoLoc THEN i ELSE IF first = 0 THEN Fail(i)
                    ELSE ExtendDir(i, Chain(FatNow(i), first))) ELSE i
  BY DEF fat16_dir_alloc_slot, fat16_dir_scan, ScanSectors, Then
<1>2. Scanned(s, r, hits, l)
  <2> HIDE DEF hits, l, cost
  <2>1. broken \in BOOLEAN
    OBVIOUS
  <2> HIDE DEF broken
  <2> QED BY <2>1, ScanEnds
<1> HIDE DEF r
<1> DEFINE i == Ignore(r)
           x == ExtendDir(i, Chain(FatNow(i), first))
<1>3. fat16_dir_alloc_slot(s, first) \in {i, Fail(i), x}
  BY <1>1
<1>4. Kin(s, r) /\ Kin(r, i)
  BY <1>2, KinLive, FailKin DEF Scanned
<1> HIDE DEF i
<1>5. Kin(i, Fail(i)) /\ Kin(i, x)
  BY <1>4, KinLive, FailKin, ExtendDirKin
<1> HIDE DEF x
<1>6. Kin(s, i)
  BY <1>4, KinTrans
<1>7. Kin(s, Fail(i)) /\ Kin(s, x)
  BY <1>5, <1>6, KinTrans
<1> QED BY <1>3, <1>6, <1>7

\* The inode of a dentry is made, from what a look-up found.
LEMMA MakeInodeKin ==
    ASSUME NEW s, NEW d, NEW e, NEW loc, CallState(s), Live(s, d), HasSize(e)
    PROVE  Kin(s, fat16_make_inode(s, d, e, loc))
<1> DEFINE x == Allocate(s)
           y == [x EXCEPT !.dent[d].ent = e, !.dent[d].loc = loc]
<1>1. fat16_make_inode(s, d, e, loc) = IF x.ok THEN y ELSE x
  BY DEF fat16_make_inode, Then
<1>2. Kin(s, x)
  BY AllocateKin
<1> HIDE DEF x
<1>3. Kin(x, y)
  BY <1>2, KinLive, InodeKin
<1> HIDE DEF y
<1> QED BY <1>1, <1>2, <1>3, KinTrans

\* fat16_lookup fills in the inode of the dentry and nothing else.
LEMMA LookupKin ==
    ASSUME NEW s, NEW dir, NEW d, CallState(s), Live(s, d)
    PROVE  Kin(s, fat16_lookup(s, dir, d))
<1> DEFINE first == ent_of(s, dir).first
           name == s.dent[d].name
           x == fat16_dir_find(s, first, name)
           y == fat16_make_inode(x, d, x.ent, x.loc)
<1>1. fat16_lookup(s, dir, d) = IF x.ok THEN y ELSE x
  BY DEF fat16_lookup, Then
<1> HIDE DEF first, name
<1>2. Kin(s, x) /\ (x.ok => HasSize(x.ent))
  BY DirFindKin
<1> HIDE DEF x
<1>3. ASSUME x.ok PROVE Kin(x, y)
  BY <1>2, <1>3, KinLive, MakeInodeKin
<1> HIDE DEF y
<1> QED BY <1>1, <1>2, <1>3, KinTrans

-----------------------------------------------------------------------------
(* Reading and writing. *)

\* A cluster has bytes.
LEMMA ClusterBytes == bytes_per_sector \in Nat \ {0} /\ cluster_size \in Nat \ {0}
<1>1. bytes_per_sector \in Nat \ {0} /\ sectors_per_cluster \in Nat \ {0}
  BY GeometryAssumption
<1>2. \A x, y \in Nat \ {0} : x * y \in Nat \ {0}
  OBVIOUS
<1> QED BY <1>1, <1>2 DEF cluster_size

\* Sequences are made and joined.
LEMMA SequenceMade ==
    ASSUME NEW n \in Int, NEW g, DOMAIN g = 1 .. n, g = [i \in 1 .. n |-> g[i]]
    PROVE  IsSequence(g)
<1> DEFINE S == {g[i] : i \in 1 .. n}
<1>1. CASE n < 0
  <2>1. 1 .. n = 1 .. 0
    BY <1>1
  <2>2. g = [i \in 1 .. 0 |-> g[i]]
    BY <2>1
  <2>3. g \in Seq(S)
    BY <2>2
  <2> QED BY <2>3 DEF IsSequence
<1>2. CASE n \in Nat
  <2>1. g \in Seq(S)
    BY <1>2
  <2> QED BY <2>1 DEF IsSequence
<1> QED BY <1>1, <1>2

\* Two sequences joined are one, as long as both.
LEMMA SequencesJoin ==
    ASSUME NEW a, NEW b, IsSequence(a), IsSequence(b)
    PROVE  IsSequence(a \o b) /\ Len(a) \in Nat /\ Len(a \o b) = Len(a) + Len(b)
<1>1. PICK S : a \in Seq(S)
  BY DEF IsSequence
<1>2. PICK R : b \in Seq(R)
  BY DEF IsSequence
<1>3. a \in Seq(S \cup R) /\ b \in Seq(S \cup R)
  BY <1>1, <1>2
<1>4. a \o b \in Seq(S \cup R) /\ Len(a) \in Nat /\ Len(a \o b) = Len(a) + Len(b)
  BY <1>3
<1> QED BY <1>4 DEF IsSequence

\* Following a chain.
LEMMA HopKin ==
    ASSUME NEW s, NEW first, NEW n \in Nat, CallState(s)
    PROVE  Kin(s, Hop(s, first, n))
<1>1. n \in Nat
  OBVIOUS
<1> DEFINE start == [s EXCEPT !.c = first]
<1> DEFINE Step(k, r) == IF fat16_cluster_valid(r.c) THEN fat16_next_cluster(r, r.c) ELSE r
           R(g) == [k \in 0 .. n |-> IF k = 0 THEN start ELSE Step(k, g[k - 1])]
           F == CHOOSE g : g = R(g)
           Runs(m, g) == g[0] = start /\ \A k \in 1 .. m : g[k] = Step(k, g[k - 1])
<1>2. Hop(s, first, n) = F[n]
  BY DEF Hop
<1>3. ASSUME NEW k \in 1 .. n, NEW r, Kin(s, r) PROVE Kin(s, Step(k, r))
  <2>1. Kin(r, fat16_next_cluster(r, r.c))
    BY <1>3, KinLive, FatGetKin
  <2>2. Kin(s, fat16_next_cluster(r, r.c))
    BY <1>3, <2>1, KinTrans
  <2> QED BY <1>3, <2>2
<1>4. Kin(s, start)
  BY FieldKin
<1> HIDE DEF start
<1> HIDE DEF Step
<1>5. F = R(F)
  <2> DEFINE T == {m \in 0 .. n : \E g : Runs(m, g)}
  <2>1. 0 \in T
    <3>1. Runs(0, [k \in 0 .. 0 |-> start])
      OBVIOUS
    <3>2. \E g : Runs(0, g)
      BY <3>1
    <3> HIDE DEF Runs
    <3> QED BY <3>2, <1>1
  <2>2. ASSUME NEW m \in 1 .. n, m - 1 \in T PROVE m \in T
    <3>1. PICK g : Runs(m - 1, g)
      BY <2>2
    <3> DEFINE h == [k \in 0 .. m |-> IF k = m THEN Step(m, g[m - 1]) ELSE g[k]]
    <3>2. h[0] = start
      BY <3>1
    <3>3. ASSUME NEW k \in 1 .. m PROVE h[k] = Step(k, h[k - 1])
      <4>1. k - 1 \in 0 .. m /\ k - 1 # m /\ k \in 0 .. m /\ (k # m => k \in 1 .. m - 1)
        OBVIOUS
      <4>2. h[k - 1] = g[k - 1]
        BY <4>1
      <4>3. CASE k = m
        BY <4>1, <4>2, <4>3
      <4>4. CASE k # m
        <5>1. h[k] = g[k]
          BY <4>1, <4>4
        <5> QED BY <3>1, <4>1, <4>2, <4>4, <5>1
      <4> QED BY <4>3, <4>4
    <3> HIDE DEF h
    <3>4. Runs(m, h)
      BY <3>2, <3>3
    <3>5. \E g1 : Runs(m, g1)
      BY <3>4
    <3> HIDE DEF Runs
    <3>6. m \in 0 .. n
      BY <1>1
    <3> QED BY <3>5, <3>6
  <2> HIDE DEF T
  <2>3. 0 .. n \subseteq T
    BY <2>1, <2>2, <1>1, IntervalInduction
  <2>4. n \in T
    BY <2>3, <1>1
  <2>5. PICK g : Runs(n, g)
    BY <2>4 DEF T
  <2> DEFINE u == [k \in 0 .. n |-> g[k]]
  <2>6. ASSUME NEW k \in 0 .. n PROVE u[k] = IF k = 0 THEN start ELSE Step(k, u[k - 1])
    <3>1. CASE k = 0
      BY <2>5, <3>1
    <3>2. CASE k # 0
      <4>1. k \in 1 .. n /\ k - 1 \in 0 .. n
        BY <3>2, <1>1
      <4>2. u[k] = g[k] /\ u[k - 1] = g[k - 1]
        BY <4>1
      <4> QED BY <2>5, <3>2, <4>1, <4>2
    <3> QED BY <3>1, <3>2
  <2>7. u = R(u)
    BY <2>6
  <2> HIDE DEF u
  <2>8. \E g1 : g1 = R(g1)
    BY <2>7
  <2> QED BY <2>8, Zenon
<1> HIDE DEF F
<1>6. F[0] = start /\ \A k \in 1 .. n : F[k] = Step(k, F[k - 1])
  <2>1. 0 \in 0 .. n /\ \A k \in 1 .. n : k \in 0 .. n /\ k # 0
    BY <1>1
  <2> QED BY <1>5, <2>1
<1>7. \A k \in 0 .. n : Kin(s, F[k])
  <2> DEFINE T == {k \in 0 .. n : Kin(s, F[k])}
  <2>1. 0 \in T
    BY <1>4, <1>6, <1>1
  <2>2. ASSUME NEW k \in 1 .. n, k - 1 \in T PROVE k \in T
    <3>1. k \in 0 .. n /\ Kin(s, F[k - 1])
      BY <2>2
    <3> QED BY <1>6, <1>3, <3>1
  <2> HIDE DEF T
  <2>3. 0 .. n \subseteq T
    BY <2>1, <2>2, <1>1, IntervalInduction
  <2> QED BY <2>3 DEF T
<1> QED BY <1>1, <1>2, <1>7

\* Reading a file.
LEMMA ReadKin ==
    ASSUME NEW s, NEW d, NEW count \in Nat, NEW offset \in Nat, CallState(s), Live(s, d)
    PROVE  Kin(s, fat16_read(s, d, count, offset))
<1> USE ClusterBytes
<1> DEFINE want == LowOf(count, ent_of(s, d).size - offset)
           first == ent_of(s, d).first
           none == [s EXCEPT !.buf = <<>>]
           hops == offset \div cluster_size
           start == Hop(none, first, hops)
           at(r) == (offset + Len(r.buf)) % cluster_size
           n(r) == LowOf(bytes_per_sector - (at(r) % bytes_per_sector), want - Len(r.buf))
           sector(r) ==
               LET q == Reads(r, 1)
               IN  IF q.ok THEN [q EXCEPT !.buf = @ \o [i \in 1 .. n(r) |-> BytesOf(q.vol.sec[q.c])[at(r) + i - 1]]]
                   ELSE q
           Next1(k, r) == IF k > 1 /\ (offset + Len(r.buf)) % cluster_size = 0
                          THEN fat16_next_cluster(r, r.c) ELSE r
<1> DEFINE Step(k, r) == IF ~r.ok \/ Len(r.buf) = want \/ ~fat16_cluster_valid(r.c) \/ ~fat16_cluster_valid(Next1(k, r).c)
                         THEN r ELSE sector(Next1(k, r))
           R(g) == [k \in 0 .. HighOf(0, want) |-> IF k = 0 THEN start ELSE Step(k, g[k - 1])]
           F == CHOOSE g : g = R(g)
           Runs(m, g) == g[0] = start /\ \A k \in 1 .. m : g[k] = Step(k, g[k - 1])
           Result(r) == [r EXCEPT !.ok = @ \/ r.buf # <<>>]
<1>1. want \in Int
  BY DEF LowOf, ent_of, CallState, DentTyped, Live, HasSize
<1>2. fat16_read(s, d, count, offset) = IF want <= 0 THEN none ELSE Result(F[want])
  BY DEF fat16_read, Then
<1>3. Kin(s, none)
  <2>1. <<>> \in Seq({})
    OBVIOUS
  <2>2. IsSequence(<<>>)
    BY <2>1 DEF IsSequence
  <2> QED BY <2>2, BufKin
<1> SUFFICES ASSUME want > 0 PROVE Kin(s, Result(F[want]))
  <2> HIDE DEF none, Result, F, want
  <2> QED BY <1>1, <1>2, <1>3
<1>4. HighOf(0, want) = want /\ want \in Nat
  BY <1>1 DEF HighOf
<1>5. Kin(s, start)
  <2>1. hops \in Nat
    OBVIOUS
  <2> HIDE DEF none, hops, first
  <2> QED BY <1>3, <2>1, HopKin, KinLive, KinTrans
<1> HIDE DEF start
<1>6. ASSUME NEW r, Kin(s, r) PROVE Kin(s, sector(r))
  <2> DEFINE q == Reads(r, 1)
             g == [i \in 1 .. n(r) |-> BytesOf(q.vol.sec[q.c])[at(r) + i - 1]]
             w == [q EXCEPT !.buf = q.buf \o g]
  <2>1. sector(r) = IF q.ok THEN w ELSE q
    OBVIOUS
  <2>2. Kin(s, q)
    BY <1>6, KinLive, ReadsKin, KinTrans
  <2>3. IsSequence(g)
    <3>0. Len(r.buf) \in Nat
      <4>1. IsSequence(r.buf)
        BY <1>6 DEF Kin, Akin, CallState
      <4> QED BY <4>1, SequencesJoin
    <3>1. at(r) \in Nat
      <4>1. PICK m \in Nat : m = Len(r.buf)
        BY <3>0
      <4>2. PICK c \in Nat \ {0} : c = cluster_size
        OBVIOUS
      <4>3. (offset + m) % c \in Nat
        OBVIOUS
      <4> QED BY <4>1, <4>2, <4>3
    <3> HIDE DEF at
    <3>2. n(r) \in Int
      BY <1>1, <3>0, <3>1 DEF LowOf
    <3> HIDE DEF n, q
    <3>3. DOMAIN g = 1 .. n(r) /\ g = [i \in 1 .. n(r) |-> g[i]]
      OBVIOUS
    <3> HIDE DEF g
    <3> QED BY <3>2, <3>3, SequenceMade
  <2> HIDE DEF g, q, sector
  <2>4. IsSequence(q.buf \o g)
    <3>1. IsSequence(q.buf)
      BY <2>2 DEF Kin, Akin, CallState
    <3> QED BY <2>3, <3>1, SequencesJoin
  <2>5. Kin(q, w)
    BY <2>2, <2>4, KinLive, BufKin
  <2> HIDE DEF w
  <2>6. Kin(s, w)
    BY <2>2, <2>5, KinTrans
  <2> QED BY <2>1, <2>2, <2>6
<1> HIDE DEF sector
<1>7. ASSUME NEW k \in 1 .. want, NEW r, Kin(s, r) PROVE Kin(s, Step(k, r))
  <2> DEFINE x == Next1(k, r)
  <2>1. x = r \/ x = fat16_next_cluster(r, r.c)
    OBVIOUS
  <2>2. Kin(r, fat16_next_cluster(r, r.c))
    BY <1>7, KinLive, FatGetKin
  <2>3. Step(k, r) = r \/ Step(k, r) = sector(x)
    OBVIOUS
  <2> HIDE DEF x, Step
  <2>4. Kin(s, x)
    BY <1>7, <2>1, <2>2, KinTrans
  <2>5. Kin(s, sector(x))
    BY <1>6, <2>4
  <2> QED BY <1>7, <2>3, <2>5
<1> HIDE DEF want, Next1
<1> HIDE DEF Step
<1>8. F = R(F)
  <2> DEFINE T == {m \in 0 .. HighOf(0, want) : \E g : Runs(m, g)}
  <2>1. 0 \in T
    <3>1. Runs(0, [k \in 0 .. 0 |-> start])
      OBVIOUS
    <3>2. \E g : Runs(0, g)
      BY <3>1
    <3> HIDE DEF Runs
    <3> QED BY <3>2, <1>4
  <2>2. ASSUME NEW m \in 1 .. HighOf(0, want), m - 1 \in T PROVE m \in T
    <3>1. PICK g : Runs(m - 1, g)
      BY <2>2
    <3> DEFINE h == [k \in 0 .. m |-> IF k = m THEN Step(m, g[m - 1]) ELSE g[k]]
    <3>2. h[0] = start
      BY <3>1
    <3>3. ASSUME NEW k \in 1 .. m PROVE h[k] = Step(k, h[k - 1])
      <4>1. k - 1 \in 0 .. m /\ k - 1 # m /\ k \in 0 .. m /\ (k # m => k \in 1 .. m - 1)
        OBVIOUS
      <4>2. h[k - 1] = g[k - 1]
        BY <4>1
      <4>3. CASE k = m
        BY <4>1, <4>2, <4>3
      <4>4. CASE k # m
        <5>1. h[k] = g[k]
          BY <4>1, <4>4
        <5> QED BY <3>1, <4>1, <4>2, <4>4, <5>1
      <4> QED BY <4>3, <4>4
    <3> HIDE DEF h
    <3>4. Runs(m, h)
      BY <3>2, <3>3
    <3>5. \E g1 : Runs(m, g1)
      BY <3>4
    <3> HIDE DEF Runs
    <3>6. m \in 0 .. HighOf(0, want)
      BY <1>4
    <3> QED BY <3>5, <3>6
  <2> HIDE DEF T
  <2>3. 0 .. HighOf(0, want) \subseteq T
    BY <2>1, <2>2, <1>4, IntervalInduction
  <2>4. HighOf(0, want) \in T
    BY <2>3, <1>4
  <2>5. PICK g : Runs(HighOf(0, want), g)
    BY <2>4 DEF T
  <2> DEFINE u == [k \in 0 .. HighOf(0, want) |-> g[k]]
  <2>6. ASSUME NEW k \in 0 .. HighOf(0, want) PROVE u[k] = IF k = 0 THEN start ELSE Step(k, u[k - 1])
    <3>1. CASE k = 0
      BY <2>5, <3>1
    <3>2. CASE k # 0
      <4>1. k \in 1 .. HighOf(0, want) /\ k - 1 \in 0 .. HighOf(0, want)
        BY <3>2, <1>4
      <4>2. u[k] = g[k] /\ u[k - 1] = g[k - 1]
        BY <4>1
      <4> QED BY <2>5, <3>2, <4>1, <4>2
    <3> QED BY <3>1, <3>2
  <2>7. u = R(u)
    BY <2>6
  <2> HIDE DEF u
  <2>8. \E g1 : g1 = R(g1)
    BY <2>7
  <2> QED BY <2>8, Zenon
<1> HIDE DEF F
<1>9. F[0] = start /\ \A k \in 1 .. HighOf(0, want) : F[k] = Step(k, F[k - 1])
  <2>1. 0 \in 0 .. HighOf(0, want) /\ \A k \in 1 .. HighOf(0, want) : k \in 0 .. HighOf(0, want) /\ k # 0
    BY <1>4
  <2> QED BY <1>8, <2>1
<1>10. \A k \in 0 .. want : Kin(s, F[k])
  <2> DEFINE T == {k \in 0 .. want : Kin(s, F[k])}
  <2>1. 0 \in T
    BY <1>5, <1>9, <1>4
  <2>2. ASSUME NEW k \in 1 .. want, k - 1 \in T PROVE k \in T
    <3>1. k \in 0 .. want /\ Kin(s, F[k - 1])
      BY <2>2
    <3> QED BY <1>9, <1>7, <1>4, <3>1
  <2> HIDE DEF T
  <2>3. 0 .. want \subseteq T
    BY <2>1, <2>2, <1>4, IntervalInduction
  <2> QED BY <2>3 DEF T
<1>11. Kin(s, F[want])
  BY <1>4, <1>10
<1> DEFINE z == F[want]
<1> HIDE DEF z
<1>12. Kin(z, Result(z))
  BY <1>11, KinLive, FieldKin DEF z
<1> HIDE DEF Result
<1> QED BY <1>11, <1>12, KinTrans DEF z

\* Another entry in the inode: its size stays a number.
LEMMA EntryKept ==
    ASSUME NEW s, NEW d, CallState(s), Live(s, d), NEW v, NEW n \in Nat
    PROVE  /\ HasSize(s.dent[d].ent)
           /\ Kin(s, [s EXCEPT !.dent[d].ent.first = v])
           /\ Kin(s, [s EXCEPT !.dent[d].ent.size = n])
<1>1. HasSize(s.dent[d].ent)
  BY DEF CallState, DentTyped, Live
<1> DEFINE e == [s.dent[d].ent EXCEPT !.first = v]
           f == [s.dent[d].ent EXCEPT !.size = n]
<1>2. HasSize(e) /\ HasSize(f)
  BY <1>1 DEF HasSize
<1>3. /\ [s EXCEPT !.dent[d].ent.first = v] = [s EXCEPT !.dent[d].ent = e]
      /\ [s EXCEPT !.dent[d].ent.size = n] = [s EXCEPT !.dent[d].ent = f]
  OBVIOUS
<1> HIDE DEF e, f
<1>4. Kin(s, [s EXCEPT !.dent[d].ent = e]) /\ Kin(s, [s EXCEPT !.dent[d].ent = f])
  BY <1>2, InodeKin
<1> QED BY <1>1, <1>3, <1>4

\* fat16_write, first loop: to the cluster of the offset.
Sought(x, d, n) ==
    LET seek[k \in 0 .. n] ==
            IF k = 0 THEN [x EXCEPT !.dent[d].ent.first = x.c, !.done = 0]
            ELSE Then(seek[k - 1], LAMBDA r : chain_step(r, r.c))
    IN  seek[n]
\* The first loop of fat16_write keeps the links and counts nothing.
LEMMA SoughtAkin ==
    ASSUME NEW x, NEW d, NEW n \in Nat, CallState(x), Live(x, d)
    PROVE  Akin(x, Sought(x, d, n)) /\ Sought(x, d, n).done = 0
<1>1. n \in Nat
  OBVIOUS
<1> DEFINE y == [x EXCEPT !.dent[d].ent.first = x.c]
           start == [x EXCEPT !.dent[d].ent.first = x.c, !.done = 0]
<1> DEFINE Step(k, r) == IF r.ok THEN chain_step(r, r.c) ELSE r
           R(g) == [k \in 0 .. n |-> IF k = 0 THEN start ELSE Step(k, g[k - 1])]
           F == CHOOSE g : g = R(g)
           Runs(m, g) == g[0] = start /\ \A k \in 1 .. m : g[k] = Step(k, g[k - 1])
<1>2. Sought(x, d, n) = F[n]
  BY DEF Sought, Then
<1>3. ASSUME NEW k \in 1 .. n, NEW r, Kin(start, r) PROVE Kin(start, Step(k, r))
  <2>1. Kin(r, chain_step(r, r.c))
    BY <1>3, KinLive, ChainStepKin
  <2>2. Kin(start, chain_step(r, r.c))
    BY <1>3, <2>1, KinTrans
  <2> QED BY <1>3, <2>2
<1>4. Akin(x, start) /\ start.done = 0
  <2>1. Kin(x, y)
    BY EntryKept
  <2>2. start = [y EXCEPT !.done = 0]
    OBVIOUS
  <2>3. "done" \in DOMAIN y
    BY <2>1 DEF Kin, Akin, CallState, CallFields
  <2> HIDE DEF y, start
  <2>4. Akin(y, start)
    BY <2>1, <2>2, KinLive, DoneAkin
  <2> QED BY <2>1, <2>2, <2>3, <2>4, KinLive, AkinTrans
<1> HIDE DEF start
<1>5. Kin(start, start)
  BY <1>4, AkinLive, KinSelf
<1> HIDE DEF Step
<1>6. F = R(F)
  <2> DEFINE T == {m \in 0 .. n : \E g : Runs(m, g)}
  <2>1. 0 \in T
    <3>1. Runs(0, [k \in 0 .. 0 |-> start])
      OBVIOUS
    <3>2. \E g : Runs(0, g)
      BY <3>1
    <3> HIDE DEF Runs
    <3> QED BY <3>2, <1>1
  <2>2. ASSUME NEW m \in 1 .. n, m - 1 \in T PROVE m \in T
    <3>1. PICK g : Runs(m - 1, g)
      BY <2>2
    <3> DEFINE h == [k \in 0 .. m |-> IF k = m THEN Step(m, g[m - 1]) ELSE g[k]]
    <3>2. h[0] = start
      BY <3>1
    <3>3. ASSUME NEW k \in 1 .. m PROVE h[k] = Step(k, h[k - 1])
      <4>1. k - 1 \in 0 .. m /\ k - 1 # m /\ k \in 0 .. m /\ (k # m => k \in 1 .. m - 1)
        OBVIOUS
      <4>2. h[k - 1] = g[k - 1]
        BY <4>1
      <4>3. CASE k = m
        BY <4>1, <4>2, <4>3
      <4>4. CASE k # m
        <5>1. h[k] = g[k]
          BY <4>1, <4>4
        <5> QED BY <3>1, <4>1, <4>2, <4>4, <5>1
      <4> QED BY <4>3, <4>4
    <3> HIDE DEF h
    <3>4. Runs(m, h)
      BY <3>2, <3>3
    <3>5. \E g1 : Runs(m, g1)
      BY <3>4
    <3> HIDE DEF Runs
    <3>6. m \in 0 .. n
      BY <1>1
    <3> QED BY <3>5, <3>6
  <2> HIDE DEF T
  <2>3. 0 .. n \subseteq T
    BY <2>1, <2>2, <1>1, IntervalInduction
  <2>4. n \in T
    BY <2>3, <1>1
  <2>5. PICK g : Runs(n, g)
    BY <2>4 DEF T
  <2> DEFINE u == [k \in 0 .. n |-> g[k]]
  <2>6. ASSUME NEW k \in 0 .. n PROVE u[k] = IF k = 0 THEN start ELSE Step(k, u[k - 1])
    <3>1. CASE k = 0
      BY <2>5, <3>1
    <3>2. CASE k # 0
      <4>1. k \in 1 .. n /\ k - 1 \in 0 .. n
        BY <3>2, <1>1
      <4>2. u[k] = g[k] /\ u[k - 1] = g[k - 1]
        BY <4>1
      <4> QED BY <2>5, <3>2, <4>1, <4>2
    <3> QED BY <3>1, <3>2
  <2>7. u = R(u)
    BY <2>6
  <2> HIDE DEF u
  <2>8. \E g1 : g1 = R(g1)
    BY <2>7
  <2> QED BY <2>8, Zenon
<1> HIDE DEF F
<1>7. F[0] = start /\ \A k \in 1 .. n : F[k] = Step(k, F[k - 1])
  <2>1. 0 \in 0 .. n /\ \A k \in 1 .. n : k \in 0 .. n /\ k # 0
    BY <1>1
  <2> QED BY <1>6, <2>1
<1>8. \A k \in 0 .. n : Kin(start, F[k])
  <2> DEFINE T == {k \in 0 .. n : Kin(start, F[k])}
  <2>1. 0 \in T
    BY <1>5, <1>7, <1>1
  <2>2. ASSUME NEW k \in 1 .. n, k - 1 \in T PROVE k \in T
    <3>1. k \in 0 .. n /\ Kin(start, F[k - 1])
      BY <2>2
    <3> QED BY <1>7, <1>3, <3>1
  <2> HIDE DEF T
  <2>3. 0 .. n \subseteq T
    BY <2>1, <2>2, <1>1, IntervalInduction
  <2> QED BY <2>3 DEF T
<1>9. Kin(start, F[n])
  BY <1>1, <1>8
<1>10. Akin(start, F[n]) /\ F[n].done = 0
  BY <1>4, <1>9 DEF Kin
<1> QED BY <1>2, <1>4, <1>10, AkinTrans

\* fat16_write, second loop: sector by sector.
Stored(x, offset, buf) ==
    LET Sector(r) ==
            LET at == (offset + r.done) % cluster_size
                n == LowOf(bytes_per_sector - (at % bytes_per_sector), Len(buf) - r.done)
                data(y) == [i \in 0 .. cluster_size - 1 |->
                               IF i \in at .. at + n - 1 THEN buf[r.done + i - at + 1] ELSE BytesOf(y)[i]]
            IN  Then(Reads(r, IF n = bytes_per_sector THEN 0 ELSE 1), LAMBDA q :
                Then(WriteSector(q, [q.vol EXCEPT !.sec[r.c] = DataOf(data(@))]), LAMBDA w :
                    [w EXCEPT !.done = @ + n]))
        More(r) ==
            IF ~r.ok \/ r.done = Len(buf) THEN r
            ELSE Then(IF r.done > 0 /\ (offset + r.done) % cluster_size = 0 THEN chain_step(r, r.c) ELSE r, Sector)
        loop[k \in 0 .. Len(buf)] == IF k = 0 THEN x ELSE More(loop[k - 1])
    IN  loop[Len(buf)]
\* The second loop of fat16_write keeps the links.
LEMMA StoredAkin ==
    ASSUME NEW x, NEW offset \in Nat, NEW buf, IsSequence(buf), CallState(x), x.done = 0
    PROVE  Akin(x, Stored(x, offset, buf))
<1>1. Len(buf) \in Nat
  BY SequencesJoin
<1> DEFINE Good(r) == Akin(x, r) /\ r.done \in 0 .. Len(buf)
           at(r) == (offset + r.done) % cluster_size
           n(r) == LowOf(bytes_per_sector - (at(r) % bytes_per_sector), Len(buf) - r.done)
           data(r, y) == [i \in 0 .. cluster_size - 1 |->
                             IF i \in at(r) .. at(r) + n(r) - 1 THEN buf[r.done + i - at(r) + 1] ELSE BytesOf(y)[i]]
           Sector(r) ==
               LET q == Reads(r, IF n(r) = bytes_per_sector THEN 0 ELSE 1)
                   w == WriteSector(q, [q.vol EXCEPT !.sec[r.c] = DataOf(data(r, @))])
               IN  IF q.ok THEN (IF w.ok THEN [w EXCEPT !.done = @ + n(r)] ELSE w) ELSE q
           Here(r) == IF r.done > 0 /\ (offset + r.done) % cluster_size = 0 THEN chain_step(r, r.c) ELSE r
<1> DEFINE Step(k, r) == IF ~r.ok \/ r.done = Len(buf) THEN r
                         ELSE IF Here(r).ok THEN Sector(Here(r)) ELSE Here(r)
           R(g) == [k \in 0 .. Len(buf) |-> IF k = 0 THEN x ELSE Step(k, g[k - 1])]
           F == CHOOSE g : g = R(g)
           Runs(m, g) == g[0] = x /\ \A k \in 1 .. m : g[k] = Step(k, g[k - 1])
<1>2. Stored(x, offset, buf) = F[Len(buf)]
  BY DEF Stored, Then
<1>3. ASSUME NEW r, Good(r) PROVE Good(Sector(r))
  <2> DEFINE q == Reads(r, IF n(r) = bytes_per_sector THEN 0 ELSE 1)
             v == [q.vol EXCEPT !.sec[r.c] = DataOf(data(r, @))]
             w == WriteSector(q, v)
             z == [w EXCEPT !.done = w.done + n(r)]
  <2>1. Sector(r) = IF q.ok THEN (IF w.ok THEN z ELSE w) ELSE q
    OBVIOUS
  <2> HIDE DEF Sector
  <2>2. Kin(r, q)
    BY <1>3, AkinLive, ReadsKin
  <2> HIDE DEF q
  <2>3. VolTyped(v)
    <3> DEFINE y == DataOf(data(r, q.vol.sec[r.c]))
    <3>1. v = [q.vol EXCEPT !.sec[r.c] = y]
      OBVIOUS
    <3>2. Sized(SlotsOf(y))
      <4> HIDE DEF data
      <4> QED BY DataSized
    <3>3. VolTyped(q.vol)
      BY <2>2 DEF Kin, Akin, CallState
    <3> HIDE DEF y, v
    <3> QED BY <3>1, <3>2, <3>3, SecTyped
  <2> HIDE DEF v
  <2>4. Kin(q, w)
    BY <2>2, <2>3, KinLive, WriteSectorKin
  <2> HIDE DEF w
  <2>5. Kin(r, w)
    BY <2>2, <2>4, KinTrans
  <2>6. n(r) \in Int /\ r.done + n(r) \in 0 .. Len(buf)
    <3>1. PICK m \in Nat : m = Len(buf)
      BY <1>1
    <3>2. PICK k \in 0 .. m : k = r.done
      BY <1>3, <3>1
    <3>3. PICK c \in Nat \ {0} : c = cluster_size
      BY ClusterBytes
    <3>4. PICK b \in Nat \ {0} : b = bytes_per_sector
      BY ClusterBytes
    <3>5. (offset + k) % c \in Nat
      OBVIOUS
    <3>6. PICK a \in Nat : a = at(r)
      BY <3>2, <3>3, <3>5
    <3>7. a % b \in 0 .. b - 1
      OBVIOUS
    <3>8. PICK g \in 0 .. b - 1 : g = a % b
      BY <3>7
    <3>9. n(r) = LowOf(b - g, m - k)
      BY <3>1, <3>2, <3>4, <3>6, <3>8
    <3> HIDE DEF n
    <3>10. LowOf(b - g, m - k) \in Int /\ k + LowOf(b - g, m - k) \in 0 .. m
      BY DEF LowOf
    <3> QED BY <3>1, <3>2, <3>9, <3>10
  <2>7. w.done = r.done /\ CallState(w)
    BY <2>5 DEF Kin, Akin
  <2>8. Akin(w, z) /\ z.done \in 0 .. Len(buf)
    <3> DEFINE j == w.done + n(r)
    <3>1. j \in 0 .. Len(buf) /\ z = [w EXCEPT !.done = j]
      BY <2>6, <2>7
    <3>2. j \in Nat
      BY <3>1, <1>1
    <3>3. "done" \in DOMAIN w
      BY <2>7 DEF CallState, CallFields
    <3> HIDE DEF j, z
    <3> QED BY <2>7, <3>1, <3>2, <3>3, DoneAkin
  <2> HIDE DEF z
  <2>9. Akin(x, q) /\ q.done = r.done /\ Akin(x, w) /\ w.done = r.done
    BY <1>3, <2>2, <2>5, KinLive, AkinTrans DEF Kin
  <2>10. Akin(x, z)
    BY <2>8, <2>9, AkinTrans
  <2> QED BY <1>3, <2>1, <2>8, <2>9, <2>10
<1> HIDE DEF Sector
<1>4. ASSUME NEW k \in 1 .. Len(buf), NEW r, Good(r) PROVE Good(Step(k, r))
  <2> DEFINE h == Here(r)
  <2>1. h = r \/ h = chain_step(r, r.c)
    OBVIOUS
  <2>2. Kin(r, chain_step(r, r.c))
    BY <1>4, AkinLive, ChainStepKin
  <2>3. Step(k, r) \in {r, h, Sector(h)}
    OBVIOUS
  <2> HIDE DEF h, Step
  <2>4. Good(h)
    <3>1. CASE h = r
      BY <1>4, <3>1
    <3>2. CASE h = chain_step(r, r.c)
      <4>1. Kin(r, h)
        BY <2>2, <3>2
      <4>2. Akin(x, h)
        BY <1>4, <4>1, KinLive, AkinTrans
      <4> QED BY <1>4, <4>1, <4>2 DEF Kin
    <3> QED BY <2>1, <3>1, <3>2
  <2>5. Good(Sector(h))
    BY <1>3, <2>4
  <2> HIDE DEF Good
  <2> QED BY <1>4, <2>3, <2>4, <2>5
<1>5. Good(x)
  <2>1. Akin(x, x)
    BY KinSelf, KinLive
  <2> QED BY <1>1, <2>1
<1> HIDE DEF Good, Here
<1> HIDE DEF Step
<1>6. F = R(F)
  <2> DEFINE T == {m \in 0 .. Len(buf) : \E g : Runs(m, g)}
  <2>1. 0 \in T
    <3>1. Runs(0, [k \in 0 .. 0 |-> x])
      OBVIOUS
    <3>2. \E g : Runs(0, g)
      BY <3>1
    <3> HIDE DEF Runs
    <3> QED BY <3>2, <1>1
  <2>2. ASSUME NEW m \in 1 .. Len(buf), m - 1 \in T PROVE m \in T
    <3>1. PICK g : Runs(m - 1, g)
      BY <2>2
    <3> DEFINE h == [k \in 0 .. m |-> IF k = m THEN Step(m, g[m - 1]) ELSE g[k]]
    <3>2. h[0] = x
      BY <3>1
    <3>3. ASSUME NEW k \in 1 .. m PROVE h[k] = Step(k, h[k - 1])
      <4>1. k - 1 \in 0 .. m /\ k - 1 # m /\ k \in 0 .. m /\ (k # m => k \in 1 .. m - 1)
        OBVIOUS
      <4>2. h[k - 1] = g[k - 1]
        BY <4>1
      <4>3. CASE k = m
        BY <4>1, <4>2, <4>3
      <4>4. CASE k # m
        <5>1. h[k] = g[k]
          BY <4>1, <4>4
        <5> QED BY <3>1, <4>1, <4>2, <4>4, <5>1
      <4> QED BY <4>3, <4>4
    <3> HIDE DEF h
    <3>4. Runs(m, h)
      BY <3>2, <3>3
    <3>5. \E g1 : Runs(m, g1)
      BY <3>4
    <3> HIDE DEF Runs
    <3>6. m \in 0 .. Len(buf)
      BY <1>1
    <3> QED BY <3>5, <3>6
  <2> HIDE DEF T
  <2>3. 0 .. Len(buf) \subseteq T
    BY <2>1, <2>2, <1>1, IntervalInduction
  <2>4. Len(buf) \in T
    BY <2>3, <1>1
  <2>5. PICK g : Runs(Len(buf), g)
    BY <2>4 DEF T
  <2> DEFINE u == [k \in 0 .. Len(buf) |-> g[k]]
  <2>6. ASSUME NEW k \in 0 .. Len(buf) PROVE u[k] = IF k = 0 THEN x ELSE Step(k, u[k - 1])
    <3>1. CASE k = 0
      BY <2>5, <3>1
    <3>2. CASE k # 0
      <4>1. k \in 1 .. Len(buf) /\ k - 1 \in 0 .. Len(buf)
        BY <3>2, <1>1
      <4>2. u[k] = g[k] /\ u[k - 1] = g[k - 1]
        BY <4>1
      <4> QED BY <2>5, <3>2, <4>1, <4>2
    <3> QED BY <3>1, <3>2
  <2>7. u = R(u)
    BY <2>6
  <2> HIDE DEF u
  <2>8. \E g1 : g1 = R(g1)
    BY <2>7
  <2> QED BY <2>8, Zenon
<1> HIDE DEF F
<1>7. F[0] = x /\ \A k \in 1 .. Len(buf) : F[k] = Step(k, F[k - 1])
  <2>1. 0 \in 0 .. Len(buf) /\ \A k \in 1 .. Len(buf) : k \in 0 .. Len(buf) /\ k # 0
    BY <1>1
  <2> QED BY <1>6, <2>1
<1>8. \A k \in 0 .. Len(buf) : Good(F[k])
  <2> DEFINE T == {k \in 0 .. Len(buf) : Good(F[k])}
  <2>1. 0 \in T
    BY <1>5, <1>7, <1>1
  <2>2. ASSUME NEW k \in 1 .. Len(buf), k - 1 \in T PROVE k \in T
    <3>1. k \in 0 .. Len(buf) /\ Good(F[k - 1])
      BY <2>2
    <3> QED BY <1>4, <1>7, <3>1
  <2> HIDE DEF T
  <2>3. 0 .. Len(buf) \subseteq T
    BY <2>1, <2>2, <1>1, IntervalInduction
  <2> QED BY <2>3 DEF T
<1>9. Good(F[Len(buf)])
  BY <1>1, <1>8
<1> QED BY <1>2, <1>9 DEF Good

\* Writing a file.
LEMMA WriteAkin ==
    ASSUME NEW s, NEW d, NEW buf, NEW offset \in Nat, CallState(s), Live(s, d), IsSequence(buf)
    PROVE  Akin(s, fat16_write(s, d, buf, offset))
<1> DEFINE e == ent_of(s, d)
           first == IF e.first = 0 THEN fat16_cluster_alloc(s) ELSE [s EXCEPT !.c = e.first]
           hops == offset \div cluster_size
           start == Sought(first, d, hops)
           out == Stored(start, offset, buf)
           kept == [out EXCEPT !.dent[d].ent.size = HighOf(@, offset + out.done)]
           saved == fat16_dir_write(Ignore(kept), s.dent[d].loc, ent_of(kept, d))
           done == [saved EXCEPT !.ok = out.done > 0]
           stuck == [start EXCEPT !.hurt = @ \/ e.first = 0]
           none == [s EXCEPT !.done = 0]
<1>1. fat16_write(s, d, buf, offset) \in {Fail(s), none, first, done, stuck}
  BY DEF fat16_write, Then, Sought, Stored
<1>2. hops \in Nat
  <2>1. PICK c \in Nat \ {0} : c = cluster_size
    BY ClusterBytes
  <2>2. offset \div c \in Nat
    OBVIOUS
  <2> QED BY <2>1, <2>2
<1> HIDE DEF e, hops
<1>3. Akin(s, none) /\ Akin(s, Fail(s))
  BY DoneAkin, FailKin, KinLive
<1> HIDE DEF none
<1>4. Akin(s, first)
  BY ClusterAllocKin, FieldKin, KinLive
<1> HIDE DEF first
<1>5. Akin(first, start) /\ start.done = 0
  BY <1>2, <1>4, AkinLive, SoughtAkin
<1>6. Akin(s, start)
  BY <1>4, <1>5, AkinTrans
<1> HIDE DEF start
<1>7. Akin(s, stuck)
  <2>1. Akin(start, stuck)
    BY <1>6, AkinLive, FieldKin, KinLive
  <2> HIDE DEF stuck
  <2> QED BY <1>6, <2>1, AkinTrans
<1>8. Akin(s, out)
  <2>1. Akin(start, out)
    BY <1>5, <1>6, AkinLive, StoredAkin
  <2> HIDE DEF out
  <2> QED BY <1>6, <2>1, AkinTrans
<1> HIDE DEF out
<1>9. CallState(out) /\ Live(out, d)
  BY <1>8, AkinLive
<1>10. Kin(out, kept)
  <2> DEFINE n == HighOf(out.dent[d].ent.size, offset + out.done)
  <2>1. n \in Nat
    <3>1. HasSize(out.dent[d].ent) /\ out.done \in Nat
      BY <1>9, EntryKept DEF CallState
    <3> QED BY <3>1 DEF HasSize, HighOf
  <2>2. kept = [out EXCEPT !.dent[d].ent.size = n]
    OBVIOUS
  <2> HIDE DEF n, kept
  <2> QED BY <1>9, <2>1, <2>2, EntryKept
<1> HIDE DEF kept
<1>11. Akin(s, kept) /\ CallState(kept) /\ Live(kept, d)
  BY <1>8, <1>9, <1>10, KinLive, AkinTrans
<1>12. OkSlot(ent_of(kept, d))
  <2>1. HasSize(kept.dent[d].ent)
    BY <1>11, EntryKept
  <2> QED BY <2>1 DEF OkSlot, ent_of
<1>13. Kin(kept, Ignore(kept))
  BY <1>11, FailKin
<1>14. Kin(Ignore(kept), saved)
  BY <1>12, <1>13, KinLive, DirWriteKin
<1> HIDE DEF saved
<1>15. Kin(saved, done)
  BY <1>14, KinLive, FieldKin
<1> HIDE DEF done
<1>16. Akin(s, done)
  <2>1. Kin(kept, done)
    BY <1>13, <1>14, <1>15, KinTrans
  <2> QED BY <1>11, <2>1, KinLive, AkinTrans
<1> HIDE DEF stuck
<1> QED BY <1>1, <1>3, <1>4, <1>7, <1>16

-----------------------------------------------------------------------------
(* Making, removing and listing. *)

\* fat16_chain_free, its result heeded or not.
LEMMA ChainFreed ==
    ASSUME NEW s, NEW first, CallState(s)
    PROVE  Kin(s, fat16_chain_free(s, first)) /\ Kin(s, Ignore(fat16_chain_free(s, first)))
<1>1. Chain(FatNow(s), first) \in Seq(Cluster)
  BY ChainIsSeq
<1>2. Len(Chain(FatNow(s), first)) \in Nat
  BY <1>1
<1> DEFINE x == fat16_chain_free(s, first)
<1>3. Kin(s, x)
  BY <1>2, ChainFreeKin
<1> HIDE DEF x
<1>4. Kin(s, Ignore(x))
  BY <1>3, KinLive, FailKin, KinTrans
<1> QED BY <1>3, <1>4 DEF x

\* fat16_truncate.
LEMMA TruncateKin ==
    ASSUME NEW s, NEW d, CallState(s), Live(s, d)
    PROVE  Kin(s, fat16_truncate(s, d))
<1> DEFINE e == ent_of(s, d)
           empty == [e EXCEPT !.first = 0, !.size = 0]
           x == Ignore(fat16_chain_free(s, e.first))
           freed == [x EXCEPT !.dent[d].ent = empty]
           w == fat16_dir_write(freed, s.dent[d].loc, empty)
<1>1. fat16_truncate(s, d) \in {Fail(s), s, w}
  BY DEF fat16_truncate
<1>2. HasSize(empty)
  <2>1. HasSize(e)
    BY EntryKept DEF ent_of
  <2> QED BY <2>1 DEF HasSize
<1> HIDE DEF e, empty
<1>3. Kin(s, x)
  BY ChainFreed
<1> HIDE DEF x
<1>4. Kin(x, freed)
  BY <1>2, <1>3, KinLive, InodeKin
<1> HIDE DEF freed
<1>5. Kin(freed, w)
  BY <1>2, <1>4, KinLive, DirWriteKin DEF OkSlot
<1> HIDE DEF w
<1>6. Kin(s, w)
  BY <1>3, <1>4, <1>5, KinTrans
<1>7. Kin(s, s) /\ Kin(s, Fail(s))
  BY KinSelf, FailKin
<1> QED BY <1>1, <1>6, <1>7

\* fat16_fill_entry: the entry it makes has a size.
LEMMA FillEntryKin ==
    ASSUME NEW s, NEW dir, NEW name, NEW isdir, CallState(s)
    PROVE  /\ Kin(s, fat16_fill_entry(s, dir, name, isdir))
           /\ fat16_fill_entry(s, dir, name, isdir).ok => HasSize(fat16_fill_entry(s, dir, name, isdir).ent)
<1> DEFINE e == [name |-> fat16_str_to_name[name], dir |-> isdir, first |-> 0, size |-> 0]
           first == ent_of(s, dir).first
           x == fat16_dir_find(s, first, name)
           w == [x EXCEPT !.ok = TRUE, !.ent = e, !.hurt = @ \/ e.name # fold[name]]
           op == fat16_fill_entry(s, dir, name, isdir)
<1>1. op \in {Fail(s), Fail(x), w}
  BY DEF fat16_fill_entry, Either
<1>2. HasSize(e)
  BY DEF HasSize
<1> HIDE DEF e, first
<1>3. Kin(s, x)
  BY DirFindKin
<1> HIDE DEF x
<1>4. DOMAIN x = CallFields /\ DOMAIN s = CallFields
  BY <1>3 DEF Kin, Akin, CallState
<1>5. Scalar(x, w) /\ w.ent = e
  BY <1>4 DEF Scalar, CallFields
<1>6. Fail(s).ok = FALSE /\ Fail(x).ok = FALSE
  BY <1>4 DEF Fail, CallFields
<1> HIDE DEF w
<1>7. Kin(x, w) /\ Kin(x, Fail(x))
  BY <1>3, <1>5, KinLive, ScalarKin, FailKin
<1>8. Kin(s, w) /\ Kin(s, Fail(x)) /\ Kin(s, Fail(s))
  BY <1>3, <1>7, KinTrans, FailKin
<1> HIDE DEF op
<1>9. Kin(s, op) /\ (op.ok => HasSize(op.ent))
  BY <1>1, <1>2, <1>5, <1>6, <1>8
<1> QED BY <1>9 DEF op

\* fat16_create.
LEMMA CreateKin ==
    ASSUME NEW s, NEW dir, NEW d, CallState(s), Live(s, d)
    PROVE  Kin(s, fat16_create(s, dir, d))
<1> DEFINE name == s.dent[d].name
           up == ent_of(s, dir).first
           e == fat16_fill_entry(s, dir, name, FALSE)
           l == fat16_dir_alloc_slot(e, up)
           w == fat16_dir_write(l, l.loc, e.ent)
           z == fat16_make_inode(w, d, e.ent, l.loc)
<1>1. fat16_create(s, dir, d) = IF e.ok THEN (IF l.ok THEN (IF w.ok THEN z ELSE w) ELSE l) ELSE e
  BY DEF fat16_create, Then
<1> HIDE DEF name, up
<1>2. Kin(s, e) /\ (e.ok => HasSize(e.ent))
  BY FillEntryKin
<1> HIDE DEF e
<1>3. Kin(s, l)
  BY <1>2, KinLive, DirAllocSlotKin, KinTrans
<1> HIDE DEF l
<1>4. ASSUME e.ok PROVE Kin(s, w)
  BY <1>2, <1>3, <1>4, KinLive, DirWriteKin, KinTrans DEF OkSlot
<1> HIDE DEF w
<1>5. ASSUME e.ok PROVE Kin(s, z)
  BY <1>2, <1>4, <1>5, KinLive, MakeInodeKin, KinTrans
<1> HIDE DEF z
<1> QED BY <1>1, <1>2, <1>3, <1>4, <1>5

\* fat16_mkdir, with its two clean-ups.
LEMMA MkdirKin ==
    ASSUME NEW s, NEW dir, NEW d, CallState(s), Live(s, d)
    PROVE  Kin(s, fat16_mkdir(s, dir, d))
<1> DEFINE name == s.dent[d].name
           up == ent_of(s, dir).first
           e == fat16_fill_entry(s, dir, name, TRUE)
           a == fat16_cluster_alloc(e)
           made == [e.ent EXCEPT !.first = a.c]
           dots == [i \in DOMAIN ZeroSlots |->
                         CASE i = 0 -> [made EXCEPT !.name = "."]
                           [] i = 1 -> [made EXCEPT !.name = "..", !.first = up]
                           [] OTHER -> END]
           q == Reads(a, sectors_per_cluster - 1)
           v == [q.vol EXCEPT !.sec[a.c] = DirOf(dots)]
           z == WriteSector(q, v)
           l == fat16_dir_alloc_slot(z, up)
           w == fat16_dir_write(l, l.loc, made)
           m == fat16_make_inode(w, d, made, l.loc)
           x == [m EXCEPT !.hurt = TRUE]
           t == IF l.ok THEN (IF w.ok THEN (IF m.ok THEN m ELSE x) ELSE w) ELSE l
           u == fat16_chain_free(Ignore(t), a.c)
<1>1. fat16_mkdir(s, dir, d) =
        IF e.ok THEN (IF a.ok THEN (IF q.ok THEN (IF z.ok THEN (IF t.ok THEN t ELSE Fail(u)) ELSE z) ELSE q) ELSE a) ELSE e
  BY DEF fat16_mkdir, Then, Otherwise
<1> HIDE DEF name, up
<1>2. Kin(s, e) /\ (e.ok => HasSize(e.ent))
  BY FillEntryKin
<1> HIDE DEF e
<1>3. Kin(s, a)
  BY <1>2, KinLive, ClusterAllocKin, KinTrans
<1> HIDE DEF a
<1>4. CASE ~e.ok
  BY <1>1, <1>2, <1>4
<1>5. CASE e.ok
  <2>1. HasSize(made)
    BY <1>2, <1>5 DEF HasSize
  <2> HIDE DEF made
  <2>2. Sized(dots)
    <3>1. ~fat16_entry_valid(END) /\ ClusterSlots \in Nat
      BY GeometryAssumption DEF fat16_entry_valid
    <3>2. DOMAIN dots = 0 .. ClusterSlots - 1
      BY DEF ZeroSlots
    <3>3. HasSize([made EXCEPT !.name = "."]) /\ HasSize([made EXCEPT !.name = "..", !.first = up])
      BY <2>1 DEF HasSize
    <3>4. ASSUME NEW i \in DOMAIN dots PROVE dots[i] = END \/ HasSize(dots[i])
      <4>1. CASE i = 0
        <5>1. dots[i] = [made EXCEPT !.name = "."]
          BY <3>4, <4>1
        <5> QED BY <3>3, <5>1
      <4>2. CASE i = 1
        <5>1. dots[i] = [made EXCEPT !.name = "..", !.first = up]
          BY <3>4, <4>2
        <5> QED BY <3>3, <5>1
      <4>3. CASE i # 0 /\ i # 1
        <5>1. dots[i] = END
          BY <3>4, <4>3
        <5> QED BY <5>1
      <4> QED BY <4>1, <4>2, <4>3
    <3> HIDE DEF dots
    <3> QED BY <3>1, <3>2, <3>4 DEF Sized
  <2> HIDE DEF dots
  <2>3. Kin(s, q)
    BY <1>3, KinLive, ReadsKin, KinTrans
  <2> HIDE DEF q
  <2>4. VolTyped(v)
    <3>1. Sized(SlotsOf(DirOf(dots)))
      BY <2>2, SlotsOfDir
    <3>2. VolTyped(q.vol)
      BY <2>3 DEF Kin, Akin, CallState
    <3> QED BY <3>1, <3>2, SecTyped
  <2> HIDE DEF v
  <2>5. Kin(s, z)
    BY <2>3, <2>4, KinLive, WriteSectorKin, KinTrans
  <2> HIDE DEF z
  <2>6. Kin(s, l)
    BY <2>5, KinLive, DirAllocSlotKin, KinTrans
  <2> HIDE DEF l
  <2>7. Kin(s, w)
    BY <2>1, <2>6, KinLive, DirWriteKin, KinTrans DEF OkSlot
  <2> HIDE DEF w
  <2>8. Kin(s, m)
    BY <2>1, <2>7, KinLive, MakeInodeKin, KinTrans
  <2> HIDE DEF m
  <2>9. Kin(s, x)
    BY <2>8, KinLive, FieldKin, KinTrans
  <2> HIDE DEF x
  <2>10. Kin(s, t)
    BY <2>6, <2>7, <2>8, <2>9
  <2> HIDE DEF t
  <2>11. Kin(s, Ignore(t))
    BY <2>10, KinLive, FailKin, KinTrans
  <2>12. Kin(s, u)
    BY <2>11, KinLive, ChainFreed, KinTrans
  <2> HIDE DEF u
  <2>13. Kin(s, Fail(u))
    BY <2>12, KinLive, FailKin, KinTrans
  <2> QED BY <1>1, <1>2, <1>3, <2>3, <2>5, <2>10, <2>13
<1> QED BY <1>4, <1>5

\* What both removals end with.
LEMMA DeleteKin ==
    ASSUME NEW s, NEW first, NEW loc, CallState(s)
    PROVE  Kin(s, fat16_dir_write(Ignore(fat16_chain_free(s, first)), loc, DELETED))
<1> DEFINE x == Ignore(fat16_chain_free(s, first))
<1>1. Kin(s, x)
  BY ChainFreed
<1>2. OkSlot(DELETED)
  BY DEF OkSlot, fat16_entry_valid
<1> HIDE DEF x
<1>3. Kin(x, fat16_dir_write(x, loc, DELETED))
  BY <1>1, <1>2, KinLive, DirWriteKin
<1>4. Kin(s, fat16_dir_write(x, loc, DELETED))
  BY <1>1, <1>3, KinTrans
<1> QED BY <1>4 DEF x

\* fat16_unlink and fat16_rmdir.
LEMMA RemoveKin ==
    ASSUME NEW s, NEW dir, NEW name, CallState(s)
    PROVE  Kin(s, fat16_unlink(s, dir, name)) /\ Kin(s, fat16_rmdir(s, dir, name))
<1> DEFINE first == ent_of(s, dir).first
           f == fat16_dir_find(s, first, name)
           file == [f EXCEPT !.ok = ~f.ent.dir]
           tree == IF f.ent.dir THEN fat16_dir_empty(f, f.ent.first) ELSE Fail(f)
           Delete(r) == fat16_dir_write(Ignore(fat16_chain_free(r, f.ent.first)), f.loc, DELETED)
<1>1. /\ fat16_unlink(s, dir, name) = IF f.ok THEN (IF file.ok THEN Delete(file) ELSE file) ELSE f
      /\ fat16_rmdir(s, dir, name) = IF f.ok THEN (IF tree.ok THEN Delete(tree) ELSE tree) ELSE f
  BY DEF fat16_unlink, fat16_rmdir, Remove, Then
<1> HIDE DEF first
<1>2. Kin(s, f)
  BY DirFindKin
<1> HIDE DEF f
<1>3. Kin(s, file)
  BY <1>2, KinLive, FieldKin, KinTrans
<1> HIDE DEF file
<1>4. Kin(s, tree)
  BY <1>2, KinLive, FailKin, DirEmptyKin, KinTrans
<1> HIDE DEF tree
<1>5. ASSUME NEW r, Kin(s, r) PROVE Kin(s, Delete(r))
  <2>1. Kin(r, Delete(r))
    BY <1>5, KinLive, DeleteKin
  <2> HIDE DEF Delete
  <2> QED BY <1>5, <2>1, KinTrans
<1> HIDE DEF Delete
<1> QED BY <1>1, <1>2, <1>3, <1>4, <1>5

\* The slots of the sectors that could be read, one after the other.
SlotsRead(v, secs, n) ==
    LET slots[k \in 0 .. n] ==
            IF k = 0 THEN <<>>
            ELSE slots[k - 1] \o [i \in 1 .. Cardinality(DOMAIN SlotsOf(v.sec[secs[k]])) |->
                                     SlotsOf(v.sec[secs[k]])[i - 1]]
    IN  slots[n]
\* The slots read so far are a sequence.
LEMMA SlotsReadSeq ==
    ASSUME NEW v, VolTyped(v), NEW secs \in Seq({0} \cup Cluster), NEW n \in 0 .. Len(secs)
    PROVE  IsSequence(SlotsRead(v, secs, n))
<1>1. n \in Nat /\ \A k \in 1 .. n : secs[k] \in {0} \cup Cluster
  OBVIOUS
<1> DEFINE Run(k) == [i \in 1 .. Cardinality(DOMAIN SlotsOf(v.sec[secs[k]])) |-> SlotsOf(v.sec[secs[k]])[i - 1]]
<1>2. ASSUME NEW k \in 1 .. n PROVE IsSequence(Run(k))
  <2> DEFINE x == SlotsOf(v.sec[secs[k]])
             m == Cardinality(DOMAIN x)
  <2>1. Sized(x)
    BY <1>1 DEF VolTyped
  <2> HIDE DEF x
  <2>2. PICK j \in Nat : DOMAIN x = 0 .. j - 1
    BY <2>1 DEF Sized
  <2>3. IsFiniteSet(DOMAIN x)
    BY <2>2, FS_Interval
  <2>4. m \in Nat
    BY <2>3, FS_CardinalityType
  <2> HIDE DEF m
  <2> DEFINE g == [i \in 1 .. m |-> x[i - 1]]
  <2>5. DOMAIN g = 1 .. m /\ g = [i \in 1 .. m |-> g[i]] /\ m \in Int
    BY <2>4
  <2> HIDE DEF g
  <2>6. IsSequence(g)
    BY <2>5, SequenceMade
  <2> QED BY <2>6 DEF g, m, x
<1> HIDE DEF Run
<1> DEFINE Step(k, r) == r \o Run(k)
           R(g) == [k \in 0 .. n |-> IF k = 0 THEN <<>> ELSE Step(k, g[k - 1])]
           F == CHOOSE g : g = R(g)
           Runs(m, g) == g[0] = <<>> /\ \A k \in 1 .. m : g[k] = Step(k, g[k - 1])
<1>3. ASSUME NEW k \in 1 .. n, NEW r, IsSequence(r) PROVE IsSequence(Step(k, r))
  BY <1>2, <1>3, SequencesJoin
<1>4. IsSequence(<<>>)
  <2>1. <<>> \in Seq({})
    OBVIOUS
  <2> QED BY <2>1 DEF IsSequence
<1> HIDE DEF Step
<1>5. F = R(F)
  <2> DEFINE T == {m \in 0 .. n : \E g : Runs(m, g)}
  <2>1. 0 \in T
    <3>1. Runs(0, [k \in 0 .. 0 |-> <<>>])
      OBVIOUS
    <3>2. \E g : Runs(0, g)
      BY <3>1
    <3> HIDE DEF Runs
    <3> QED BY <3>2, <1>1
  <2>2. ASSUME NEW m \in 1 .. n, m - 1 \in T PROVE m \in T
    <3>1. PICK g : Runs(m - 1, g)
      BY <2>2
    <3> DEFINE h == [k \in 0 .. m |-> IF k = m THEN Step(m, g[m - 1]) ELSE g[k]]
    <3>2. h[0] = <<>>
      BY <3>1
    <3>3. ASSUME NEW k \in 1 .. m PROVE h[k] = Step(k, h[k - 1])
      <4>1. k - 1 \in 0 .. m /\ k - 1 # m /\ k \in 0 .. m /\ (k # m => k \in 1 .. m - 1)
        OBVIOUS
      <4>2. h[k - 1] = g[k - 1]
        BY <4>1
      <4>3. CASE k = m
        BY <4>1, <4>2, <4>3
      <4>4. CASE k # m
        <5>1. h[k] = g[k]
          BY <4>1, <4>4
        <5> QED BY <3>1, <4>1, <4>2, <4>4, <5>1
      <4> QED BY <4>3, <4>4
    <3> HIDE DEF h
    <3>4. Runs(m, h)
      BY <3>2, <3>3
    <3>5. \E g1 : Runs(m, g1)
      BY <3>4
    <3> HIDE DEF Runs
    <3>6. m \in 0 .. n
      BY <1>1
    <3> QED BY <3>5, <3>6
  <2> HIDE DEF T
  <2>3. 0 .. n \subseteq T
    BY <2>1, <2>2, <1>1, IntervalInduction
  <2>4. n \in T
    BY <2>3, <1>1
  <2>5. PICK g : Runs(n, g)
    BY <2>4 DEF T
  <2> DEFINE u == [k \in 0 .. n |-> g[k]]
  <2>6. ASSUME NEW k \in 0 .. n PROVE u[k] = IF k = 0 THEN <<>> ELSE Step(k, u[k - 1])
    <3>1. CASE k = 0
      BY <2>5, <3>1
    <3>2. CASE k # 0
      <4>1. k \in 1 .. n /\ k - 1 \in 0 .. n
        BY <3>2, <1>1
      <4>2. u[k] = g[k] /\ u[k - 1] = g[k - 1]
        BY <4>1
      <4> QED BY <2>5, <3>2, <4>1, <4>2
    <3> QED BY <3>1, <3>2
  <2>7. u = R(u)
    BY <2>6
  <2> HIDE DEF u
  <2>8. \E g1 : g1 = R(g1)
    BY <2>7
  <2> QED BY <2>8, Zenon
<1> HIDE DEF F
<1>6. F[0] = <<>> /\ \A k \in 1 .. n : F[k] = Step(k, F[k - 1])
  <2>1. 0 \in 0 .. n /\ \A k \in 1 .. n : k \in 0 .. n /\ k # 0
    BY <1>1
  <2> QED BY <1>5, <2>1
<1>7. \A k \in 0 .. n : IsSequence(F[k])
  <2> DEFINE T == {k \in 0 .. n : IsSequence(F[k])}
  <2>1. 0 \in T
    BY <1>4, <1>6, <1>1
  <2>2. ASSUME NEW k \in 1 .. n, k - 1 \in T PROVE k \in T
    <3>1. k \in 0 .. n /\ IsSequence(F[k - 1])
      BY <2>2
    <3> QED BY <1>3, <1>6, <3>1
  <2> HIDE DEF T
  <2>3. 0 .. n \subseteq T
    BY <2>1, <2>2, <1>1, IntervalInduction
  <2> QED BY <2>3 DEF T
<1>8. IsSequence(F[n])
  BY <1>1, <1>7
<1> QED BY <1>8 DEF SlotsRead, F, R, Step, Run

\* fat16_readdir.
LEMMA ReaddirAkin ==
    ASSUME NEW s, NEW d, NEW start \in Nat, NEW max, CallState(s), s.ok
    PROVE  Akin(s, fat16_readdir(s, d, start, max))
<1> DEFINE first == ent_of(s, d).first
           per == PerSector(s, first)
           secs == DirSectors(s, first)
           r == Reads(s, per * Len(secs))
           n == IF r.ok THEN Len(secs) ELSE (s.fuse + per - 2) \div per
           all == SlotsRead(s.vol, secs, n)
           ends == {i \in DOMAIN all : all[i] = END}
           last == IF ends = {} THEN Len(all) ELSE Least(ends) - 1
           valid == {i \in start + 1 .. last : fat16_entry_valid(all[i])}
           refused == {i \in valid : Cardinality({j \in valid : j < i}) = max}
           given == {i \in valid : Cardinality({j \in valid : j < i}) < max}
           list == [k \in 1 .. Cardinality(given) |->
                       all[CHOOSE i \in given : Cardinality({j \in given : j < i}) = k - 1]]
           pos == IF refused # {} THEN Least(refused) ELSE HighOf(start, last)
           op == [r EXCEPT !.ok = TRUE, !.buf = list, !.done = pos]
<1>1. fat16_readdir(s, d, start, max) = op
  BY Zenon DEF fat16_readdir, SlotsRead
<1>2. secs \in Seq({0} \cup Cluster)
  BY DirSectorsSeq
<1>3. per \in {1, 2}
  BY DEF PerSector
<1>4. Kin(s, r) /\ (r.ok \/ s.fuse \in 1 .. per * Len(secs))
  <2> HIDE DEF secs, per
  <2>1. Kin(s, r)
    BY ReadsKin
  <2>2. DOMAIN s = CallFields
    BY DEF CallState
  <2> QED BY <2>1, <2>2 DEF Reads, CallFields
<1> HIDE DEF secs, per, r
<1>5. n \in 0 .. Len(secs)
  <2>1. PICK m \in Nat : m = Len(secs)
    BY <1>2
  <2>2. CASE r.ok
    BY <2>1, <2>2
  <2>3. CASE ~r.ok
    <3>1. CASE per = 1
      BY <1>4, <2>1, <2>3, <3>1
    <3>2. CASE per = 2
      BY <1>4, <2>1, <2>3, <3>2
    <3> QED BY <1>3, <3>1, <3>2
  <2> QED BY <2>2, <2>3
<1> HIDE DEF n
<1>6. IsSequence(all)
  <2>1. VolTyped(s.vol)
    BY DEF CallState
  <2> QED BY <1>2, <1>5, <2>1, SlotsReadSeq
<1> HIDE DEF all
<1>7. last \in Int /\ last >= 0
  <2>1. PICK S : all \in Seq(S)
    BY <1>6 DEF IsSequence
  <2>2. DOMAIN all \subseteq Nat \ {0} /\ Len(all) \in Nat
    BY <2>1
  <2>3. CASE ends = {}
    BY <2>2, <2>3
  <2>4. CASE ends # {}
    <3>1. ends \in SUBSET Nat /\ ends \subseteq Nat \ {0}
      BY <2>2
    <3> HIDE DEF ends
    <3>2. Least(ends) \in Nat \ {0}
      BY <2>4, <3>1, LeastIn
    <3> QED BY <2>4, <3>2
  <2> QED BY <2>3, <2>4
<1> HIDE DEF last
<1>8. IsFiniteSet(start + 1 .. last) /\ start + 1 .. last \subseteq Nat
  BY <1>7, FS_Interval
<1>9. IsFiniteSet(given) /\ refused \in SUBSET Nat
  <2>1. given \subseteq start + 1 .. last /\ refused \subseteq start + 1 .. last
    OBVIOUS
  <2> HIDE DEF given, refused
  <2> QED BY <1>8, <2>1, FS_Subset
<1> HIDE DEF given, refused, valid
<1>10. IsSequence(list)
  <2> DEFINE m == Cardinality(given)
             g == [k \in 1 .. m |-> all[CHOOSE i \in given : Cardinality({j \in given : j < i}) = k - 1]]
  <2>1. m \in Int
    BY <1>9, FS_CardinalityType
  <2> HIDE DEF m
  <2>2. DOMAIN g = 1 .. m /\ g = [i \in 1 .. m |-> g[i]]
    OBVIOUS
  <2> HIDE DEF g
  <2>3. IsSequence(g)
    BY <2>1, <2>2, SequenceMade
  <2> QED BY <2>3 DEF g, m
<1>11. pos \in Nat
  <2>1. HighOf(start, last) \in Nat
    BY <1>7 DEF HighOf
  <2>2. refused # {} => Least(refused) \in Nat
    BY <1>9, LeastIn
  <2> QED BY <2>1, <2>2
<1> HIDE DEF list, pos
<1>12. DOMAIN r = CallFields /\ CallState(r)
  BY <1>4, KinLive DEF CallState
<1>13. DOMAIN op = DOMAIN r /\ op.dent = r.dent /\ op.vol = r.vol /\ op.buf = list /\ op.done = pos
  BY <1>12 DEF CallFields
<1> HIDE DEF op
<1>14. Akin(r, op)
  BY <1>10, <1>11, <1>12, <1>13 DEF Akin, CallState, SameLinks, Links
<1> QED BY <1>1, <1>4, <1>14, KinLive, AkinTrans

-----------------------------------------------------------------------------
(* The dentry cache.  h counts, for every dentry, the references that others *)
(* than the cache hold.                                                      *)

\* Every count is exact; the root is cached and stays; what has a parent has
\* one that is there.
TreeOk(dn) ==
    /\ 0 \in Dentry /\ dn[0] # NoDentry /\ dn[0].cached
    /\ \A i \in Dentry : dn[i] # NoDentry =>
          /\ dn[i].cached \in BOOLEAN
          /\ dn[i].parent = -1 \/ (dn[i].parent \in Dentry /\ dn[dn[i].parent] # NoDentry)
CountOk(dn, h) ==
    \A i \in Dentry : IF dn[i] = NoDentry THEN h[i] = 0
                      ELSE dn[i].refs = h[i] + (IF dn[i].cached THEN 1 ELSE 0)
Good(s, h) == CallState(s) /\ TreeOk(s.dent) /\ h \in [Dentry -> Nat] /\ CountOk(s.dent, h)

Plus(h, d) == [h EXCEPT ![d] = @ + 1]
Minus(h, d) == [h EXCEPT ![d] = @ - 1]

\* The same dentries under the same names.
SameTree(dn, dm) ==
    \A i \in Dentry :
        /\ dm[i] = NoDentry <=> dn[i] = NoDentry
        /\ dn[i] # NoDentry => dm[i].cached = dn[i].cached /\ dm[i].name = dn[i].name /\ dm[i].parent = dn[i].parent
SameCache(s, r) == \A p, name : CachedChild(r, p, name) = CachedChild(s, p, name)
Childless(s, d) == \A i \in Dentry : s.dent[i] # NoDentry => s.dent[i].parent # d
SameRet(s, r) == r.ok = s.ok /\ r.d = s.d

\* Counting a reference in and out again.
LEMMA PlusMinus ==
    ASSUME NEW h \in [Dentry -> Nat], NEW a \in Dentry, NEW b \in Dentry
    PROVE  /\ Plus(h, a) \in [Dentry -> Nat] /\ Plus(h, a)[a] >= 1 /\ Plus(h, a)[b] >= h[b]
           /\ Minus(Plus(h, a), a) = h
           /\ Minus(Plus(Plus(h, a), b), a) = Plus(h, b)
           /\ Minus(Plus(Plus(h, b), a), a) = Plus(h, b)
BY DEF Plus, Minus

\* The same tree has the same children, the same cache and the same dentries.
LEMMA SameTreeSame ==
    ASSUME NEW s, NEW r, SameTree(s.dent, r.dent)
    PROVE  /\ SameCache(s, r)
           /\ \A d : Childless(s, d) => Childless(r, d)
           /\ \A i \in Dentry : InCache(s.dent, i) => InCache(r.dent, i)
           /\ \A i : Live(s, i) => Live(r, i)
           /\ TreeOk(s.dent) => TreeOk(r.dent)
<1>1. SameCache(s, r)
  BY DEF SameTree, SameCache, CachedChild
<1>2. TreeOk(s.dent) => TreeOk(r.dent)
  BY DEF SameTree, TreeOk
<1> QED BY <1>1, <1>2 DEF SameTree, Childless, InCache, Live

\* A routine of the driver keeps every count exact.
LEMMA GoodAkin ==
    ASSUME NEW s, NEW h, NEW r, Good(s, h), Akin(s, r)
    PROVE  Good(r, h) /\ SameTree(s.dent, r.dent)
<1>1. SameTree(s.dent, r.dent)
  BY DEF Akin, SameLinks, Links, SameTree
<1>2. TreeOk(r.dent)
  BY <1>1, SameTreeSame DEF Good
<1>3. CountOk(r.dent, h)
  BY DEF Good, CountOk, Akin, SameLinks, Links
<1> QED BY <1>1, <1>2, <1>3 DEF Good, Akin

\* A dentry that somebody holds is there.
LEMMA GoodLive ==
    ASSUME NEW s, NEW h, Good(s, h), NEW d \in Dentry, h[d] >= 1
    PROVE  Live(s, d)
BY DEF Good, CountOk, Live

\* A dentry's record is replaced.
Replaced(s, d, x, r) ==
    /\ CallState(s) /\ d \in Dentry /\ DOMAIN x = DentFields /\ HasSize(x.ent)
    /\ DOMAIN r = DOMAIN s /\ r.dent = [s.dent EXCEPT ![d] = x]
    /\ r.vol = s.vol /\ r.done = s.done /\ r.buf = s.buf
\* What replacing a record leaves alone.
LEMMA DentSet ==
    ASSUME NEW s, NEW d, NEW x, NEW r, Replaced(s, d, x, r)
    PROVE  /\ CallState(r) /\ x # NoDentry
           /\ r.dent[d] = x /\ \A i \in Dentry \ {d} : r.dent[i] = s.dent[i]
<1>1. "ent" \in DentFields /\ DOMAIN NoDentry = {"refs"}
  BY DEF DentFields, NoDentry
<1>2. x # NoDentry
  BY <1>1 DEF Replaced
<1>3. DOMAIN s.dent = Dentry
  BY DEF Replaced, CallState, DentTyped
<1>4. DOMAIN r.dent = Dentry /\ r.dent[d] = x /\ \A i \in Dentry \ {d} : r.dent[i] = s.dent[i]
  BY <1>3 DEF Replaced
<1>5. DentTyped(r.dent)
  BY <1>4 DEF Replaced, DentTyped, CallState
<1> QED BY <1>2, <1>4, <1>5 DEF Replaced, CallState

\* A record below a dentry that is there, or below none, keeps the tree.
LEMMA TreeSet ==
    ASSUME NEW dn, NEW dm, NEW d \in Dentry, TreeOk(dn), \A i \in Dentry \ {d} : dm[i] = dn[i],
           dm[d] # NoDentry, dm[d].cached \in BOOLEAN, d # 0,
           dm[d].parent = -1 \/ (dm[d].parent \in Dentry /\ dn[dm[d].parent] # NoDentry)
    PROVE  TreeOk(dm)
<1>1. 0 \in Dentry /\ dm[0] # NoDentry /\ dm[0].cached
  <2>1. 0 \in Dentry /\ dn[0] # NoDentry /\ dn[0].cached
    BY DEF TreeOk
  <2> QED BY <2>1
<1>2. \A j \in Dentry : dn[j] # NoDentry => dm[j] # NoDentry
  OBVIOUS
<1>3. ASSUME NEW i \in Dentry, dm[i] # NoDentry
      PROVE  /\ dm[i].cached \in BOOLEAN
             /\ dm[i].parent = -1 \/ (dm[i].parent \in Dentry /\ dm[dm[i].parent] # NoDentry)
  <2>1. CASE i = d
    BY <1>2, <2>1
  <2>2. CASE i # d
    <3>1. dm[i] = dn[i]
      BY <2>2
    <3>2. /\ dn[i].cached \in BOOLEAN
          /\ dn[i].parent = -1 \/ (dn[i].parent \in Dentry /\ dn[dn[i].parent] # NoDentry)
      BY <1>3, <3>1 DEF TreeOk
    <3> QED BY <1>2, <3>1, <3>2
  <2> QED BY <2>1, <2>2
<1> QED BY <1>1, <1>3 DEF TreeOk

\* Taking and giving back a reference.
LEMMA RefsSet ==
    ASSUME NEW s, CallState(s), NEW d, Live(s, d), NEW v
    PROVE  LET r == [s EXCEPT !.dent[d].refs = v]
           IN  /\ CallState(r) /\ SameTree(s.dent, r.dent) /\ SameRet(s, r)
               /\ r.dent[d].refs = v /\ \A i \in Dentry \ {d} : r.dent[i] = s.dent[i]
<1> DEFINE x == [s.dent[d] EXCEPT !.refs = v]
           r == [s EXCEPT !.dent[d].refs = v]
<1>1. "ent" \in DentFields /\ "loc" \in DentFields /\ "refs" \in DentFields /\ "cached" \in DentFields
      /\ "name" \in DentFields /\ "parent" \in DentFields
  BY DEF DentFields
<1>2. DOMAIN s.dent[d] = DentFields /\ HasSize(s.dent[d].ent) /\ d \in Dentry /\ s.dent[d] # NoDentry
  BY DEF CallState, DentTyped, Live
<1>3. DOMAIN x = DentFields /\ HasSize(x.ent) /\ x.refs = v /\ x.cached = s.dent[d].cached
      /\ x.name = s.dent[d].name /\ x.parent = s.dent[d].parent
  BY <1>1, <1>2
<1>4. DOMAIN r = DOMAIN s /\ r.dent = [s.dent EXCEPT ![d] = x]
      /\ r.vol = s.vol /\ r.done = s.done /\ r.buf = s.buf /\ SameRet(s, r)
  BY DEF CallState, CallFields, SameRet
<1> HIDE DEF x, r
<1>5. CallState(r) /\ x # NoDentry /\ r.dent[d] = x /\ \A i \in Dentry \ {d} : r.dent[i] = s.dent[i]
  <2>1. Replaced(s, d, x, r)
    BY <1>2, <1>3, <1>4 DEF Replaced
  <2> QED BY <2>1, DentSet
<1>6. SameTree(s.dent, r.dent)
  BY <1>2, <1>3, <1>5 DEF SameTree
<1>7. /\ CallState(r) /\ SameTree(s.dent, r.dent) /\ SameRet(s, r)
      /\ r.dent[d].refs = v /\ \A i \in Dentry \ {d} : r.dent[i] = s.dent[i]
  BY <1>3, <1>4, <1>5, <1>6
<1> QED BY <1>7 DEF r

\* dentry_get counts one reference more.
LEMMA GetGood ==
    ASSUME NEW s, NEW h, Good(s, h), NEW d, Live(s, d)
    PROVE  /\ Good(dentry_get(s, d), Plus(h, d))
           /\ SameTree(s.dent, dentry_get(s, d).dent) /\ SameRet(s, dentry_get(s, d))
<1> DEFINE r == dentry_get(s, d)
           v == s.dent[d].refs + 1
<1>1. r = [s EXCEPT !.dent[d].refs = v]
  BY DEF dentry_get
<1>2. CallState(s) /\ d \in Dentry
  BY DEF Good, Live
<1> HIDE DEF r, v
<1>3. /\ CallState(r) /\ SameTree(s.dent, r.dent) /\ SameRet(s, r)
      /\ r.dent[d].refs = v /\ \A i \in Dentry \ {d} : r.dent[i] = s.dent[i]
  BY <1>1, <1>2, RefsSet
<1>4. TreeOk(r.dent)
  BY <1>3, SameTreeSame DEF Good
<1>5. Plus(h, d) \in [Dentry -> Nat]
  BY <1>2, PlusMinus DEF Good
<1>6. CountOk(r.dent, Plus(h, d))
  <2> SUFFICES ASSUME NEW i \in Dentry
               PROVE  IF r.dent[i] = NoDentry THEN Plus(h, d)[i] = 0
                      ELSE r.dent[i].refs = Plus(h, d)[i] + (IF r.dent[i].cached THEN 1 ELSE 0)
    BY DEF CountOk
  <2>1. IF s.dent[i] = NoDentry THEN h[i] = 0
        ELSE s.dent[i].refs = h[i] + (IF s.dent[i].cached THEN 1 ELSE 0)
    BY DEF Good, CountOk
  <2>2. h \in [Dentry -> Nat]
    BY DEF Good
  <2>3. CASE i # d
    BY <1>3, <2>1, <2>2, <2>3 DEF Plus
  <2>4. CASE i = d
    <3>1. r.dent[d] # NoDentry /\ r.dent[d].cached = s.dent[d].cached /\ s.dent[d] # NoDentry
      BY <1>2, <1>3 DEF SameTree, Live
    <3> QED BY <1>2, <1>3, <2>1, <2>2, <2>4, <3>1 DEF Plus, v
  <2> QED BY <2>3, <2>4
<1> QED BY <1>3, <1>4, <1>5, <1>6 DEF Good, r

\* A put that does not free, and one that does.
LEMMA PutGood ==
    ASSUME NEW s, NEW h, Good(s, h), NEW d \in Dentry, h[d] >= 1
    PROVE  LET r == dentry_put(s, d)
           IN  /\ Good(r, Minus(h, d)) /\ SameRet(s, r)
               /\ InCache(s.dent, d) => SameTree(s.dent, r.dent)
               /\ Childless(s, d) => SameCache(s, r)
               /\ \A i \in Dentry : InCache(s.dent, i) => InCache(r.dent, i)
<1> DEFINE r == dentry_put(s, d)
           v == s.dent[d].refs - 1
           cut == [i \in Dentry |-> IF i = d THEN NoDentry
                     ELSE IF s.dent[i] # NoDentry /\ s.dent[i].parent = d
                     THEN [s.dent[i] EXCEPT !.parent = -1] ELSE s.dent[i]]
<1>1. Live(s, d) /\ CallState(s) /\ h \in [Dentry -> Nat] /\ TreeOk(s.dent) /\ CountOk(s.dent, h)
  BY GoodLive DEF Good
<1>2. /\ s.dent[d] # NoDentry /\ s.dent[d].cached \in BOOLEAN
      /\ s.dent[d].refs = h[d] + (IF s.dent[d].cached THEN 1 ELSE 0)
  BY <1>1 DEF CountOk, TreeOk, Live
<1>3. Minus(h, d) \in [Dentry -> Nat] /\ Minus(h, d)[d] = h[d] - 1 /\ \A i \in Dentry \ {d} : Minus(h, d)[i] = h[i]
  BY <1>1 DEF Minus
<1>4. r = IF s.dent[d].refs > 1 THEN [s EXCEPT !.dent[d].refs = v] ELSE [s EXCEPT !.dent = cut]
  BY DEF dentry_put
<1> DEFINE Goal(q) == /\ Good(q, Minus(h, d)) /\ SameRet(s, q)
                      /\ InCache(s.dent, d) => SameTree(s.dent, q.dent)
                      /\ Childless(s, d) => SameCache(s, q)
                      /\ \A i \in Dentry : InCache(s.dent, i) => InCache(q.dent, i)
<1> HIDE DEF r
<1>5. CASE s.dent[d].refs > 1
  <2>0. r = [s EXCEPT !.dent[d].refs = v]
    BY <1>4, <1>5
  <2> HIDE DEF v
  <2>1. /\ CallState(r) /\ SameTree(s.dent, r.dent) /\ SameRet(s, r)
        /\ r.dent[d].refs = v /\ \A i \in Dentry \ {d} : r.dent[i] = s.dent[i]
    BY <1>1, <2>0, RefsSet
  <2>2. TreeOk(r.dent) /\ SameCache(s, r) /\ \A i \in Dentry : InCache(s.dent, i) => InCache(r.dent, i)
    BY <1>1, <2>1, SameTreeSame
  <2>3. CountOk(r.dent, Minus(h, d))
    <3>1. r.dent[d] # NoDentry /\ r.dent[d].cached = s.dent[d].cached
      BY <1>2, <2>1 DEF SameTree
    <3>2. r.dent[d].refs = Minus(h, d)[d] + (IF r.dent[d].cached THEN 1 ELSE 0)
      BY <1>1, <1>2, <1>3, <2>1, <3>1 DEF v
    <3> QED BY <1>1, <1>3, <2>1, <3>1, <3>2 DEF CountOk
  <2>4. Goal(r)
    BY <1>3, <2>1, <2>2, <2>3 DEF Good
  <2> QED BY <2>4 DEF r
<1>6. CASE ~(s.dent[d].refs > 1)
  <2>1. h[d] = 1 /\ s.dent[d].cached = FALSE
    BY <1>1, <1>2, <1>6
  <2>2. r = [s EXCEPT !.dent = cut]
    BY <1>4, <1>6
  <2> HIDE DEF cut
  <2>3. DOMAIN r = DOMAIN s /\ r.dent = cut /\ r.vol = s.vol /\ r.done = s.done /\ r.buf = s.buf /\ SameRet(s, r)
    BY <1>1, <2>2 DEF CallState, CallFields, SameRet
  <2>4. DOMAIN cut = Dentry /\ cut[d] = NoDentry
    BY DEF cut
  <2>5. ASSUME NEW i \in Dentry, i # d
        PROVE  /\ cut[i] = NoDentry <=> s.dent[i] = NoDentry
               /\ s.dent[i] # NoDentry =>
                     /\ DOMAIN cut[i] = DentFields /\ HasSize(cut[i].ent)
                     /\ cut[i].refs = s.dent[i].refs /\ cut[i].cached = s.dent[i].cached /\ cut[i].name = s.dent[i].name
                     /\ cut[i].parent = IF s.dent[i].parent = d THEN -1 ELSE s.dent[i].parent
    <3>1. "ent" \in DentFields /\ "loc" \in DentFields /\ "refs" \in DentFields /\ "cached" \in DentFields
          /\ "name" \in DentFields /\ "parent" \in DentFields /\ DOMAIN NoDentry = {"refs"}
      BY DEF DentFields, NoDentry
    <3>2. s.dent[i] # NoDentry => DOMAIN s.dent[i] = DentFields /\ HasSize(s.dent[i].ent)
      BY <1>1 DEF CallState, DentTyped
    <3>3. cut[i] = IF s.dent[i] # NoDentry /\ s.dent[i].parent = d
                   THEN [s.dent[i] EXCEPT !.parent = -1] ELSE s.dent[i]
      BY <2>5 DEF cut
    <3>4. CASE s.dent[i] = NoDentry
      BY <3>3, <3>4
    <3>5. CASE s.dent[i] # NoDentry /\ s.dent[i].parent = d
      <4> DEFINE x == [s.dent[i] EXCEPT !.parent = -1]
      <4>1. DOMAIN x = DentFields /\ HasSize(x.ent) /\ x.refs = s.dent[i].refs /\ x.cached = s.dent[i].cached
            /\ x.name = s.dent[i].name /\ x.parent = -1
        BY <3>1, <3>2, <3>5
      <4>2. cut[i] = x
        BY <3>3, <3>5
      <4> HIDE DEF x
      <4>3. x # NoDentry
        BY <3>1, <4>1
      <4> QED BY <3>5, <4>1, <4>2, <4>3
    <3>6. CASE s.dent[i] # NoDentry /\ s.dent[i].parent # d
      BY <3>2, <3>3, <3>6
    <3> QED BY <3>4, <3>5, <3>6
  <2>6. CallState(r)
    <3>1. DentTyped(cut)
      BY <2>4, <2>5, <1>1 DEF DentTyped
    <3> QED BY <1>1, <2>3, <3>1 DEF CallState
  <2>7. TreeOk(cut)
    <3>1. 0 \in Dentry /\ 0 # d /\ s.dent[0] # NoDentry /\ s.dent[0].cached
      BY <1>1, <2>1 DEF TreeOk
    <3>2. ASSUME NEW i \in Dentry, cut[i] # NoDentry
          PROVE  cut[i].cached \in BOOLEAN
                 /\ (cut[i].parent = -1 \/ (cut[i].parent \in Dentry /\ cut[cut[i].parent] # NoDentry))
      <4>1. i # d /\ s.dent[i] # NoDentry
        BY <2>4, <2>5, <3>2
      <4>2. s.dent[i].cached \in BOOLEAN
            /\ (s.dent[i].parent = -1 \/ (s.dent[i].parent \in Dentry /\ s.dent[s.dent[i].parent] # NoDentry))
        BY <1>1, <4>1 DEF TreeOk
      <4> QED BY <2>5, <4>1, <4>2
    <3> QED BY <2>5, <3>1, <3>2 DEF TreeOk
  <2>8. CountOk(cut, Minus(h, d))
    BY <1>1, <1>3, <2>1, <2>4, <2>5 DEF CountOk
  <2>9. \A i \in Dentry : InCache(s.dent, i) => InCache(cut, i)
    BY <2>1, <2>5 DEF InCache
  <2>10. Childless(s, d) => SameCache(s, r)
    <3> SUFFICES ASSUME Childless(s, d), NEW p, NEW name
                 PROVE  CachedChild(r, p, name) = CachedChild(s, p, name)
      BY DEF SameCache
    <3>1. \A i \in Dentry : i # d /\ s.dent[i] # NoDentry => cut[i].parent = s.dent[i].parent
      BY <2>5 DEF Childless
    <3> QED BY <2>1, <2>3, <2>4, <2>5, <3>1 DEF CachedChild
  <2>11. ~InCache(s.dent, d)
    BY <2>1 DEF InCache
  <2>12. Goal(r)
    BY <1>3, <2>3, <2>6, <2>7, <2>8, <2>9, <2>10, <2>11 DEF Good
  <2> QED BY <2>12 DEF r
<1> QED BY <1>5, <1>6

\* Only the field d of the call is set.
LEMMA SetD ==
    ASSUME NEW s, NEW h, Good(s, h), NEW v
    PROVE  LET r == [s EXCEPT !.d = v]
           IN  Good(r, h) /\ r.dent = s.dent /\ r.ok = s.ok /\ r.d = v
<1> DEFINE r == [s EXCEPT !.d = v]
<1>1. CallState(s)
  BY DEF Good
<1>2. r.dent = s.dent /\ r.ok = s.ok /\ r.d = v
  BY <1>1 DEF CallState, CallFields
<1>3. Kin(s, r)
  BY <1>1, FieldKin
<1> HIDE DEF r
<1>4. Good(r, h)
  BY <1>3, GoodAkin DEF Kin
<1> QED BY <1>2, <1>4 DEF r

\* A new dentry has one reference, its maker's, and no children.
LEMMA AllocGood ==
    ASSUME NEW s, NEW h, Good(s, h), NEW name
    PROVE  LET n == dentry_alloc(s, name)
           IN  /\ n.ok \in BOOLEAN
               /\ ~n.ok => Good(n, h) /\ SameTree(s.dent, n.dent)
               /\ n.ok => /\ n.d \in Dentry \ {0} /\ s.dent[n.d] = NoDentry /\ Good(n, Plus(h, n.d))
                          /\ Childless(n, n.d) /\ n.dent[n.d].name = name /\ ~n.dent[n.d].cached
                          /\ \A i \in Dentry \ {n.d} : n.dent[i] = s.dent[i]
<1> DEFINE n == dentry_alloc(s, name)
           free == {i \in Dentry : s.dent[i] = NoDentry}
           a == Allocate(s)
           e == Least(free)
           x == [name |-> name, parent |-> -1, cached |-> FALSE, refs |-> 1, loc |-> NoLoc, ent |-> NoInode]
           r == [a EXCEPT !.d = e, !.dent[e] = x]
<1>0. n = IF free = {} THEN Fail(s) ELSE IF a.ok THEN r ELSE a
  BY DEF dentry_alloc, Then
<1>1. CallState(s) /\ TreeOk(s.dent) /\ h \in [Dentry -> Nat] /\ CountOk(s.dent, h) /\ DOMAIN s = CallFields
  BY DEF Good, CallState
<1>2. Kin(s, Fail(s)) /\ Fail(s).ok = FALSE /\ Kin(s, a) /\ a.ok \in BOOLEAN /\ a.dent = s.dent
  BY <1>1, FailKin, AllocateKin DEF Fail, Allocate, CallFields
<1>3. x = x /\ DOMAIN x = DentFields /\ HasSize(x.ent) /\ x.refs = 1 /\ x.parent = -1 /\ x.name = name /\ x.cached = FALSE
  BY DEF DentFields, HasSize, NoInode
<1> HIDE DEF n, a, x
<1> DEFINE Goal(q) ==
        /\ q.ok \in BOOLEAN
        /\ ~q.ok => Good(q, h) /\ SameTree(s.dent, q.dent)
        /\ q.ok => /\ q.d \in Dentry \ {0} /\ s.dent[q.d] = NoDentry /\ Good(q, Plus(h, q.d))
                   /\ Childless(q, q.d) /\ q.dent[q.d].name = name /\ ~q.dent[q.d].cached
                   /\ \A i \in Dentry \ {q.d} : q.dent[i] = s.dent[i]
<1>4. CASE free = {} \/ ~a.ok
  <2>1. Akin(s, n) /\ n.ok = FALSE
    BY <1>0, <1>2, <1>4 DEF Kin
  <2>2. Goal(n)
    BY <2>1, GoodAkin
  <2> QED BY <2>2 DEF n
<1>5. CASE free # {} /\ a.ok
  <2>1. e \in Dentry /\ s.dent[e] = NoDentry
    <3>1. free \in SUBSET Nat
      BY FilesAssumption DEF Dentry
    <3>2. e \in free
      BY <1>5, <3>1, LeastIn
    <3> QED BY <3>2
  <2>2. e # 0 /\ h[e] = 0
    BY <1>1, <2>1 DEF TreeOk, CountOk
  <2> HIDE DEF e
  <2>3. DOMAIN a = CallFields /\ CallState(a)
    BY <1>2, KinLive DEF CallState
  <2>4. DOMAIN r = DOMAIN a /\ r.dent = [a.dent EXCEPT ![e] = x]
        /\ r.vol = a.vol /\ r.done = a.done /\ r.buf = a.buf /\ r.d = e /\ r.ok = a.ok
    BY <2>3 DEF CallFields
  <2> HIDE DEF r
  <2>5. CallState(r) /\ x # NoDentry /\ r.dent[e] = x /\ \A i \in Dentry \ {e} : r.dent[i] = s.dent[i]
    <3>1. DOMAIN x = DentFields /\ HasSize(x.ent)
      BY <1>3
    <3>2. CallState(r) /\ x # NoDentry /\ r.dent[e] = x /\ \A i \in Dentry \ {e} : r.dent[i] = a.dent[i]
      <4>1. Replaced(a, e, x, r)
        BY <2>1, <2>3, <2>4, <3>1 DEF Replaced
      <4> QED BY <4>1, DentSet
    <3> QED BY <1>2, <3>2
  <2>6. TreeOk(r.dent)
    <3>1. r.dent[e].parent = -1 /\ r.dent[e].cached \in BOOLEAN /\ r.dent[e] # NoDentry
      BY <1>3, <2>5
    <3> QED BY <1>1, <2>1, <2>2, <2>5, <3>1, TreeSet
  <2>7. Plus(h, e) \in [Dentry -> Nat] /\ Plus(h, e)[e] = 1 /\ \A i \in Dentry \ {e} : Plus(h, e)[i] = h[i]
    BY <1>1, <2>1, <2>2 DEF Plus
  <2>8. CountOk(r.dent, Plus(h, e))
    BY <1>1, <1>3, <2>5, <2>7 DEF CountOk
  <2>9. Childless(r, e)
    <3>1. e # -1
      BY <2>1, FilesAssumption DEF Dentry
    <3>2. ASSUME NEW i \in Dentry, r.dent[i] # NoDentry PROVE r.dent[i].parent # e
      <4>1. CASE i = e
        BY <1>3, <2>5, <3>1, <4>1
      <4>2. CASE i # e
        BY <1>1, <2>1, <2>5, <3>1, <3>2, <4>2 DEF TreeOk
      <4> QED BY <4>1, <4>2
    <3> QED BY <3>2 DEF Childless
  <2>10. n = r
    BY <1>0, <1>5
  <2>11. Goal(r)
    BY <1>2, <1>3, <1>5, <2>1, <2>2, <2>4, <2>5, <2>6, <2>7, <2>8, <2>9 DEF Good
  <2> QED BY <2>10, <2>11 DEF n
<1> QED BY <1>2, <1>4, <1>5

\* Into the cache: the reference of the maker becomes the cache's.
LEMMA AddGood ==
    ASSUME NEW s, NEW h, NEW d \in Dentry, NEW p, Good(s, h), h[d] >= 1, ~s.dent[d].cached, Live(s, p)
    PROVE  LET r == dentry_add(s, p, d)
           IN  /\ Good(r, Minus(h, d)) /\ SameRet(s, r)
               /\ InCache(r.dent, d) /\ r.dent[d].parent = p /\ r.dent[d].name = s.dent[d].name
               /\ \A i \in Dentry \ {d} : r.dent[i] = s.dent[i]
<1> DEFINE r == dentry_add(s, p, d)
           x == [s.dent[d] EXCEPT !.parent = p, !.cached = TRUE]
<1>1. CallState(s) /\ TreeOk(s.dent) /\ h \in [Dentry -> Nat] /\ CountOk(s.dent, h) /\ Live(s, d)
  BY GoodLive DEF Good
<1>2. "ent" \in DentFields /\ "loc" \in DentFields /\ "refs" \in DentFields /\ "cached" \in DentFields
      /\ "name" \in DentFields /\ "parent" \in DentFields
  BY DEF DentFields
<1>3. DOMAIN s.dent[d] = DentFields /\ HasSize(s.dent[d].ent) /\ s.dent[d] # NoDentry /\ d # 0
      /\ s.dent[d].refs = h[d] /\ p \in Dentry /\ s.dent[p] # NoDentry
  BY <1>1 DEF CallState, DentTyped, Live, TreeOk, CountOk
<1>4. DOMAIN x = DentFields /\ HasSize(x.ent) /\ x.refs = h[d] /\ x.cached = TRUE
      /\ x.name = s.dent[d].name /\ x.parent = p
  BY <1>2, <1>3
<1>5. DOMAIN r = DOMAIN s /\ r.dent = [s.dent EXCEPT ![d] = x]
      /\ r.vol = s.vol /\ r.done = s.done /\ r.buf = s.buf /\ SameRet(s, r)
  <2>1. DOMAIN s = CallFields /\ DOMAIN s.dent = Dentry
    BY <1>1 DEF CallState, DentTyped
  <2> DEFINE hurt1 == s.hurt \/ (\E i \in Dentry \ {0} : InCache(s.dent, i) /\ s.dent[i].loc = s.dent[d].loc)
                      \/ ~ent_of(s, p).dir
  <2>2. r = [s EXCEPT !.dent[d].parent = p, !.dent[d].cached = TRUE, !.hurt = hurt1]
    BY DEF dentry_add
  <2> HIDE DEF hurt1, r
  <2> QED BY <2>1, <2>2 DEF CallFields, SameRet
<1> HIDE DEF x, r
<1>6. CallState(r) /\ x # NoDentry /\ r.dent[d] = x /\ \A i \in Dentry \ {d} : r.dent[i] = s.dent[i]
  <2>1. DOMAIN x = DentFields /\ HasSize(x.ent) /\ CallState(s)
    BY <1>1, <1>4
  <2>2. Replaced(s, d, x, r)
    BY <1>5, <2>1 DEF Replaced
  <2> QED BY <2>2, DentSet
<1>7. TreeOk(r.dent)
  <2>1. TreeOk(s.dent) /\ r.dent[d] # NoDentry /\ r.dent[d].cached \in BOOLEAN
    BY <1>1, <1>4, <1>6
  <2>2. r.dent[d].parent = -1 \/ (r.dent[d].parent \in Dentry /\ s.dent[r.dent[d].parent] # NoDentry)
    BY <1>3, <1>4, <1>6, <2>1 DEF TreeOk
  <2> QED BY <1>3, <1>6, <2>1, <2>2, TreeSet
<1>8. Minus(h, d) \in [Dentry -> Nat] /\ Minus(h, d)[d] = h[d] - 1 /\ \A i \in Dentry \ {d} : Minus(h, d)[i] = h[i]
  BY <1>1 DEF Minus
<1>9. CountOk(r.dent, Minus(h, d))
  <2>1. r.dent[d].refs = Minus(h, d)[d] + 1
    BY <1>1, <1>4, <1>6, <1>8
  <2> QED BY <1>1, <1>4, <1>6, <1>8, <2>1 DEF CountOk
<1>10. /\ Good(r, Minus(h, d)) /\ SameRet(s, r)
       /\ InCache(r.dent, d) /\ r.dent[d].parent = p /\ r.dent[d].name = s.dent[d].name
       /\ \A i \in Dentry \ {d} : r.dent[i] = s.dent[i]
  BY <1>4, <1>5, <1>6, <1>7, <1>8, <1>9 DEF Good, InCache
<1> QED BY <1>10 DEF r

\* Out of the cache: the reference of the cache is the caller's now.
LEMMA UncacheGood ==
    ASSUME NEW s, NEW h, NEW d \in Dentry \ {0}, Good(s, h), InCache(s.dent, d)
    PROVE  Good([s EXCEPT !.dent[d].cached = FALSE], Plus(h, d))
           /\ SameRet(s, [s EXCEPT !.dent[d].cached = FALSE])
<1> DEFINE r == [s EXCEPT !.dent[d].cached = FALSE]
           x == [s.dent[d] EXCEPT !.cached = FALSE]
<1>1. CallState(s) /\ TreeOk(s.dent) /\ h \in [Dentry -> Nat] /\ CountOk(s.dent, h)
  BY DEF Good
<1>2. "ent" \in DentFields /\ "loc" \in DentFields /\ "refs" \in DentFields /\ "cached" \in DentFields
      /\ "name" \in DentFields /\ "parent" \in DentFields
  BY DEF DentFields
<1>3. DOMAIN s.dent[d] = DentFields /\ HasSize(s.dent[d].ent) /\ s.dent[d] # NoDentry
      /\ s.dent[d].refs = h[d] + 1
  BY <1>1 DEF CallState, DentTyped, InCache, CountOk
<1>4. DOMAIN x = DentFields /\ HasSize(x.ent) /\ x.refs = h[d] + 1 /\ x.cached = FALSE
      /\ x.parent = s.dent[d].parent
  BY <1>2, <1>3
<1>5. DOMAIN r = DOMAIN s /\ r.dent = [s.dent EXCEPT ![d] = x]
      /\ r.vol = s.vol /\ r.done = s.done /\ r.buf = s.buf /\ SameRet(s, r)
  BY <1>1 DEF CallState, CallFields, SameRet
<1> HIDE DEF x, r
<1>6. CallState(r) /\ x # NoDentry /\ r.dent[d] = x /\ \A i \in Dentry \ {d} : r.dent[i] = s.dent[i]
  <2>1. DOMAIN x = DentFields /\ HasSize(x.ent) /\ CallState(s)
    BY <1>1, <1>4
  <2>2. Replaced(s, d, x, r)
    BY <1>5, <2>1 DEF Replaced
  <2> QED BY <2>2, DentSet
<1>7. TreeOk(r.dent)
  <2>1. TreeOk(s.dent) /\ r.dent[d] # NoDentry /\ r.dent[d].cached \in BOOLEAN
    BY <1>1, <1>4, <1>6
  <2>2. r.dent[d].parent = -1 \/ (r.dent[d].parent \in Dentry /\ s.dent[r.dent[d].parent] # NoDentry)
    BY <1>3, <1>4, <1>6, <2>1 DEF TreeOk
  <2> QED BY <1>3, <1>6, <2>1, <2>2, TreeSet
<1>8. Plus(h, d) \in [Dentry -> Nat] /\ Plus(h, d)[d] = h[d] + 1 /\ \A i \in Dentry \ {d} : Plus(h, d)[i] = h[i]
  BY <1>1 DEF Plus
<1>9. CountOk(r.dent, Plus(h, d))
  BY <1>1, <1>4, <1>6, <1>8 DEF CountOk
<1>10. Good(r, Plus(h, d)) /\ SameRet(s, r)
  BY <1>5, <1>6, <1>7, <1>8, <1>9 DEF Good
<1> QED BY <1>10 DEF r

\* The cached child of a name.
LEMMA CachedChildIs ==
    ASSUME NEW s, NEW p, NEW name, CachedChild(s, p, name) # {}
    PROVE  LET c == CHOOSE i \in CachedChild(s, p, name) : TRUE
           IN  c \in CachedChild(s, p, name) /\ c \in Dentry \ {0} /\ InCache(s.dent, c) /\ Live(s, c)
<1> DEFINE C == CachedChild(s, p, name)
           c == CHOOSE i \in C : TRUE
<1>1. C # {}
  OBVIOUS
<1> HIDE DEF C
<1>2. c \in C
  BY <1>1, Zenon
<1> HIDE DEF c
<1>3. c \in C /\ c \in Dentry \ {0} /\ InCache(s.dent, c) /\ Live(s, c)
  BY <1>2 DEF C, CachedChild, InCache, Live
<1> QED BY <1>3 DEF c, C

\* dentry_lookup: the cached child with one reference more, or failure.
LEMMA DentryLookupGood ==
    ASSUME NEW s, NEW h, Good(s, h), s.ok, NEW p, NEW name
    PROVE  LET r == dentry_lookup(s, p, name)
           IN  /\ CachedChild(s, p, name) = {} => r.ok = FALSE /\ Good(r, h)
               /\ CachedChild(s, p, name) # {} =>
                     /\ r.ok /\ r.d = (CHOOSE i \in CachedChild(s, p, name) : TRUE)
                     /\ Good(r, Plus(h, r.d)) /\ SameTree(s.dent, r.dent)
                     /\ r.d \in Dentry \ {0} /\ InCache(s.dent, r.d) /\ InCache(r.dent, r.d)
<1> DEFINE r == dentry_lookup(s, p, name)
           c == CHOOSE i \in CachedChild(s, p, name) : TRUE
           g == dentry_get(s, c)
<1>1. CASE CachedChild(s, p, name) = {}
  <2>1. r = Fail(s)
    BY <1>1 DEF dentry_lookup
  <2>2. r.ok = FALSE
    BY <2>1 DEF Fail, Good, CallState, CallFields
  <2>3. Kin(s, r)
    BY <2>1, FailKin DEF Good
  <2>4. Good(r, h)
    BY <2>3, GoodAkin DEF Kin
  <2> QED BY <1>1, <2>2, <2>4
<1>2. CASE CachedChild(s, p, name) # {}
  <2>1. r = [g EXCEPT !.d = c]
    BY <1>2 DEF dentry_lookup
  <2>2. c \in Dentry \ {0} /\ InCache(s.dent, c) /\ Live(s, c)
    BY <1>2, CachedChildIs
  <2> HIDE DEF r
  <2>3. \A x : x = c => r = [dentry_get(s, x) EXCEPT !.d = x]
    BY <2>1
  <2>4. PICK x : x = c
    OBVIOUS
  <2>5. x \in Dentry \ {0} /\ InCache(s.dent, x) /\ Live(s, x)
    BY <2>2, <2>4
  <2> DEFINE y == dentry_get(s, x)
  <2>6. Good(y, Plus(h, x)) /\ SameTree(s.dent, y.dent) /\ SameRet(s, y)
    BY <2>5, GetGood
  <2>7. r = [y EXCEPT !.d = x]
    BY <2>3, <2>4
  <2> HIDE DEF y, c
  <2>8. Good(r, Plus(h, x)) /\ r.dent = y.dent /\ r.ok = y.ok /\ r.d = x
    BY <2>6, <2>7, SetD
  <2>9. InCache(y.dent, x)
    BY <2>5, <2>6, SameTreeSame
  <2>10. /\ r.ok /\ r.d = c
         /\ Good(r, Plus(h, r.d)) /\ SameTree(s.dent, r.dent)
         /\ r.d \in Dentry \ {0} /\ InCache(s.dent, r.d) /\ InCache(r.dent, r.d)
    BY <2>4, <2>5, <2>6, <2>8, <2>9 DEF SameRet
  <2> QED BY <1>2, <2>10 DEF r, c
<1> QED BY <1>1, <1>2

\* Looking a name up: what was cached stays, and what is found is cached; a
\* dentry that is new has nothing under it.
Grows(s, r) == \A p, name : CachedChild(s, p, name) # {} => CachedChild(r, p, name) = CachedChild(s, p, name)
Keeps(s, r) == \A i \in Dentry : InCache(s.dent, i) => InCache(r.dent, i)
LookedUp(s, h, p, name, r) ==
    /\ Keeps(s, r)
    /\ r.ok => /\ r.d \in Dentry /\ Good(r, Plus(h, r.d)) /\ InCache(r.dent, r.d) /\ Grows(s, r)
               /\ CachedChild(r, p, name) # {} /\ r.d = (CHOOSE i \in CachedChild(r, p, name) : TRUE)
               /\ SameCache(s, r) \/ \A x : CachedChild(r, r.d, x) = {}
    /\ ~r.ok => Good(r, h) /\ SameCache(s, r) /\ CachedChild(r, p, name) = {}

\* A new dentry, before it is in the cache: the driver has filled in its inode.
Fresh(s, e, name, f) ==
    /\ e \in Dentry \ {0} /\ Childless(f, e) /\ f.dent[e] # NoDentry /\ f.dent[e].name = name /\ ~f.dent[e].cached
    /\ SameCache(s, f) /\ Keeps(s, f) /\ \A i : Live(s, i) => Live(f, i) /\ i # e
\* dentry_alloc makes such a dentry.
LEMMA FreshMade ==
    ASSUME NEW s, NEW h, Good(s, h), NEW name, dentry_alloc(s, name).ok
    PROVE  LET n == dentry_alloc(s, name) IN Good(n, Plus(h, n.d)) /\ Fresh(s, n.d, name, n)
<1> DEFINE n == dentry_alloc(s, name)
<1>1. /\ n.d \in Dentry \ {0} /\ s.dent[n.d] = NoDentry /\ Good(n, Plus(h, n.d))
      /\ Childless(n, n.d) /\ n.dent[n.d].name = name /\ ~n.dent[n.d].cached
      /\ \A i \in Dentry \ {n.d} : n.dent[i] = s.dent[i]
  BY AllocGood
<1> HIDE DEF n
<1>2. n.dent[n.d] # NoDentry
  <2>1. h \in [Dentry -> Nat]
    BY DEF Good
  <2>2. Plus(h, n.d)[n.d] >= 1
    BY <1>1, <2>1, PlusMinus
  <2> QED BY <1>1, <2>2, GoodLive DEF Live
<1>3. SameCache(s, n)
  BY <1>1 DEF SameCache, CachedChild
<1>4. Keeps(s, n)
  BY <1>1 DEF Keeps, InCache
<1>5. \A i : Live(s, i) => Live(n, i) /\ i # n.d
  BY <1>1 DEF Live
<1>6. Good(n, Plus(h, n.d)) /\ Fresh(s, n.d, name, n)
  BY <1>1, <1>2, <1>3, <1>4, <1>5 DEF Fresh
<1> QED BY <1>6 DEF n

\* The driver's routines keep it one.
LEMMA FreshKin ==
    ASSUME NEW s, NEW h, NEW e, NEW name, NEW n, NEW f, Good(n, h), Fresh(s, e, name, n), Akin(n, f)
    PROVE  Good(f, h) /\ Fresh(s, e, name, f)
<1>1. Good(f, h) /\ SameTree(n.dent, f.dent)
  BY GoodAkin
<1>2. /\ SameCache(n, f)
      /\ \A d : Childless(n, d) => Childless(f, d)
      /\ \A i \in Dentry : InCache(n.dent, i) => InCache(f.dent, i)
      /\ \A i : Live(n, i) => Live(f, i)
  BY <1>1, SameTreeSame
<1>3. f.dent[e] # NoDentry /\ f.dent[e].name = name /\ ~f.dent[e].cached
  BY <1>1 DEF Fresh, SameTree
<1>4. SameCache(s, f) /\ Keeps(s, f)
  BY <1>2 DEF Fresh, SameCache, Keeps
<1> QED BY <1>1, <1>2, <1>3, <1>4 DEF Fresh

\* It is given back: the cache is as it was.
LEMMA FreshPut ==
    ASSUME NEW s, NEW h \in [Dentry -> Nat], NEW e, NEW name, NEW f, Good(f, Plus(h, e)), Fresh(s, e, name, f)
    PROVE  LET u == dentry_put(f, e)
           IN  Good(u, h) /\ SameCache(s, u) /\ Keeps(s, u) /\ SameRet(f, u)
<1> DEFINE u == dentry_put(f, e)
<1>1. e \in Dentry /\ Plus(h, e)[e] >= 1 /\ Minus(Plus(h, e), e) = h
  BY PlusMinus DEF Fresh
<1>2. /\ Good(u, h) /\ SameRet(f, u) /\ (Childless(f, e) => SameCache(f, u))
      /\ \A i \in Dentry : InCache(f.dent, i) => InCache(u.dent, i)
  BY <1>1, PutGood
<1> HIDE DEF u
<1>3. Good(u, h) /\ SameCache(s, u) /\ Keeps(s, u) /\ SameRet(f, u)
  BY <1>2 DEF Fresh, SameCache, Keeps
<1> QED BY <1>3 DEF u

Added(s, h, e, name, p, f, a) ==
    /\ Good(a, h) /\ Keeps(s, a) /\ Grows(s, a) /\ SameRet(f, a) /\ InCache(a.dent, e)
    /\ CachedChild(a, p, name) = {e} /\ \A x : CachedChild(a, e, x) = {}
\* It is entered in the cache: one name more.
LEMMA FreshAdd ==
    ASSUME NEW s, NEW h \in [Dentry -> Nat], NEW e, NEW name, NEW f, Good(f, Plus(h, e)), Fresh(s, e, name, f),
           NEW p, Live(s, p), CachedChild(s, p, name) = {}
    PROVE  Added(s, h, e, name, p, f, dentry_add(f, p, e))
<1> DEFINE a == dentry_add(f, p, e)
<1>1. e \in Dentry /\ Plus(h, e)[e] >= 1 /\ Minus(Plus(h, e), e) = h /\ ~f.dent[e].cached /\ Live(f, p) /\ p # e
  BY PlusMinus DEF Fresh
<1>2. /\ Good(a, h) /\ SameRet(f, a)
      /\ InCache(a.dent, e) /\ a.dent[e].parent = p /\ a.dent[e].name = f.dent[e].name
      /\ \A i \in Dentry \ {e} : a.dent[i] = f.dent[i]
  BY <1>1, AddGood
<1> HIDE DEF a
<1>3. e # 0 /\ f.dent[e].name = name /\ SameCache(s, f) /\ Keeps(s, f) /\ Childless(f, e)
  BY DEF Fresh
<1>4. ASSUME NEW q, NEW x
      PROVE  CachedChild(a, q, x) = IF q = p /\ x = name THEN CachedChild(s, q, x) \cup {e} ELSE CachedChild(s, q, x)
  <2>1. CachedChild(f, q, x) = CachedChild(s, q, x)
    BY <1>3 DEF SameCache
  <2>2. \A i \in Dentry \ {e} : i \in CachedChild(a, q, x) <=> i \in CachedChild(f, q, x)
    BY <1>2 DEF CachedChild
  <2>3. e \notin CachedChild(f, q, x)
    BY <1>1 DEF CachedChild
  <2>4. e \in CachedChild(a, q, x) <=> (q = p /\ x = name)
    BY <1>1, <1>2, <1>3 DEF CachedChild, InCache
  <2>5. CachedChild(a, q, x) \subseteq Dentry /\ CachedChild(f, q, x) \subseteq Dentry
    BY DEF CachedChild
  <2> HIDE DEF CachedChild
  <2> QED BY <2>1, <2>2, <2>3, <2>4, <2>5
<1>5. Grows(s, a) /\ CachedChild(a, p, name) = {e}
  BY <1>4 DEF Grows
<1>6. \A x : CachedChild(a, e, x) = {}
  <2>1. \A i \in Dentry : a.dent[i] # NoDentry => a.dent[i].parent # e
    BY <1>1, <1>2, <1>3 DEF Childless
  <2> QED BY <2>1 DEF CachedChild
<1>7. Keeps(s, a)
  BY <1>2, <1>3 DEF Keeps, InCache
<1>8. Added(s, h, e, name, p, f, a)
  BY <1>2, <1>5, <1>6, <1>7 DEF Added
<1> QED BY <1>8 DEF a

\* vfs_lookup as a choice between its outcomes.
LEMMA LookupGood ==
    ASSUME NEW s, NEW h, Good(s, h), s.ok, NEW p, Live(s, p), NEW name
    PROVE  LookedUp(s, h, p, name, vfs_lookup(s, p, name))
<1> DEFINE l == dentry_lookup(s, p, name)
           n == dentry_alloc(s, name)
           e == n.d
           f == fat16_lookup(n, p, e)
           a == dentry_add(f, p, e)
           g == dentry_get(a, e)
           w == [g EXCEPT !.d = e]
           u == dentry_put(f, e)
           r == vfs_lookup(s, p, name)
<1>1. r = IF l.ok THEN l ELSE IF n.ok THEN (IF f.ok THEN w ELSE u) ELSE n
  BY DEF vfs_lookup, Otherwise, Then, Either
<1>h. h \in [Dentry -> Nat]
  BY DEF Good
<1>2. CASE l.ok
  <2>1. CachedChild(s, p, name) # {}
    BY <1>2, DentryLookupGood
  <2>2. /\ l.d = (CHOOSE i \in CachedChild(s, p, name) : TRUE)
        /\ Good(l, Plus(h, l.d)) /\ SameTree(s.dent, l.dent)
        /\ l.d \in Dentry /\ InCache(l.dent, l.d)
    BY <2>1, DentryLookupGood
  <2> HIDE DEF l
  <2>3. SameCache(s, l) /\ \A i \in Dentry : InCache(s.dent, i) => InCache(l.dent, i)
    BY <2>2, SameTreeSame
  <2>4. CachedChild(l, p, name) = CachedChild(s, p, name) /\ Grows(s, l) /\ Keeps(s, l)
    BY <2>3 DEF SameCache, Grows, Keeps
  <2>5. LookedUp(s, h, p, name, l)
    BY <1>2, <2>1, <2>2, <2>3, <2>4 DEF LookedUp
  <2> QED BY <1>1, <1>2, <2>5
<1>3. CASE ~l.ok
  <2>1. CachedChild(s, p, name) = {}
    BY <1>3, DentryLookupGood
  <2> HIDE DEF l
  <2>2. CASE ~n.ok
    <3>1. Good(n, h) /\ SameTree(s.dent, n.dent)
      BY <2>2, AllocGood
    <3> HIDE DEF n
    <3>2. SameCache(s, n) /\ \A i \in Dentry : InCache(s.dent, i) => InCache(n.dent, i)
      BY <3>1, SameTreeSame
    <3>3. LookedUp(s, h, p, name, n)
      BY <2>1, <2>2, <3>1, <3>2 DEF LookedUp, SameCache, Keeps
    <3> QED BY <1>1, <1>3, <2>2, <3>3
  <2>3. CASE n.ok
    <3>1. Good(n, Plus(h, e)) /\ Fresh(s, e, name, n)
      BY <2>3, FreshMade
    <3> HIDE DEF n, e
    <3>2. Kin(n, f)
      BY <3>1, LookupKin DEF Good, Fresh, Live
    <3>3. Good(f, Plus(h, e)) /\ Fresh(s, e, name, f)
      BY <3>1, <3>2, FreshKin DEF Kin
    <3> HIDE DEF f
    <3>4. CASE ~f.ok
      <4>1. Good(u, h) /\ SameCache(s, u) /\ Keeps(s, u) /\ SameRet(f, u)
        BY <1>h, <3>3, FreshPut
      <4> HIDE DEF u
      <4>2. LookedUp(s, h, p, name, u)
        BY <2>1, <3>4, <4>1 DEF LookedUp, SameCache, SameRet
      <4> QED BY <1>1, <1>3, <2>3, <3>4, <4>2
    <3>5. CASE f.ok
      <4>1. /\ Good(a, h) /\ Keeps(s, a) /\ Grows(s, a) /\ SameRet(f, a) /\ InCache(a.dent, e)
            /\ CachedChild(a, p, name) = {e} /\ \A x : CachedChild(a, e, x) = {}
        <5>1. Added(s, h, e, name, p, f, a)
          BY <1>h, <2>1, <3>3, FreshAdd
        <5> HIDE DEF a
        <5> QED BY <5>1 DEF Added
      <4> HIDE DEF a
      <4>2. e \in Dentry /\ Live(a, e)
        BY <3>3, <4>1 DEF Fresh, InCache, Live
      <4>3. Good(g, Plus(h, e)) /\ SameTree(a.dent, g.dent) /\ SameRet(a, g)
        BY <4>1, <4>2, GetGood
      <4> HIDE DEF g
      <4>4. Good(w, Plus(h, e)) /\ w.dent = g.dent /\ w.ok = g.ok /\ w.d = e
        BY <4>3, SetD
      <4> HIDE DEF w
      <4>5. SameCache(a, w) /\ \A i \in Dentry : InCache(a.dent, i) => InCache(w.dent, i)
        BY <4>3, <4>4, SameTreeSame
      <4>6. Keeps(s, w) /\ Grows(s, w) /\ CachedChild(w, p, name) = {e} /\ \A x : CachedChild(w, e, x) = {}
        BY <4>1, <4>5 DEF Keeps, Grows, SameCache
      <4>7. e = CHOOSE i \in {e} : TRUE
        OBVIOUS
      <4>8. w.ok /\ InCache(w.dent, e)
        BY <3>5, <4>1, <4>2, <4>3, <4>4, <4>5 DEF SameRet
      <4>9. LookedUp(s, h, p, name, w)
        BY <4>2, <4>4, <4>6, <4>7, <4>8 DEF LookedUp
      <4> QED BY <1>1, <1>3, <2>3, <3>5, <4>9
    <3> QED BY <3>4, <3>5
  <2> QED BY <2>2, <2>3
<1> QED BY <1>2, <1>3

-----------------------------------------------------------------------------
(* Paths.  vfs_mknod loses a reference if the name it is to create is cached *)
(* already.  It never is: the calls create a name only after a lookup of the *)
(* whole path has failed, and then the cache holds no trail to that name,    *)
(* whatever lookups of its parent follow.                                    *)

\* The dentries a lookup passes that finds everything in the cache.
Trail(s, path, n, w) ==
    /\ w[0] = 0
    /\ \A k \in 1 .. n : /\ CachedChild(s, w[k - 1], path[k]) # {}
                         /\ w[k] = (CHOOSE i \in CachedChild(s, w[k - 1], path[k]) : TRUE)
Blocked(s, path, n) == \A w : ~Trail(s, path, n, w)

\* A trail outlives a growing cache; the same cache has the same trails.
LEMMA TrailKept ==
    ASSUME NEW s, NEW r, NEW path, NEW n
    PROVE  /\ Grows(s, r) => \A w : Trail(s, path, n, w) => Trail(r, path, n, w)
           /\ SameCache(s, r) => \A w : Trail(s, path, n, w) <=> Trail(r, path, n, w)
<1>1. ASSUME Grows(s, r), NEW w, Trail(s, path, n, w) PROVE Trail(r, path, n, w)
  <2>1. ASSUME NEW k \in 1 .. n
        PROVE  CachedChild(r, w[k - 1], path[k]) # {} /\ w[k] = (CHOOSE i \in CachedChild(r, w[k - 1], path[k]) : TRUE)
    <3>1. CachedChild(s, w[k - 1], path[k]) # {} /\ w[k] = (CHOOSE i \in CachedChild(s, w[k - 1], path[k]) : TRUE)
      BY <1>1 DEF Trail
    <3>2. CachedChild(r, w[k - 1], path[k]) = CachedChild(s, w[k - 1], path[k])
      BY <1>1, <3>1 DEF Grows
    <3> QED BY <3>1, <3>2
  <2> QED BY <1>1, <2>1 DEF Trail
<1>2. ASSUME SameCache(s, r), NEW w PROVE Trail(s, path, n, w) <=> Trail(r, path, n, w)
  <2>1. \A k \in 1 .. n : CachedChild(r, w[k - 1], path[k]) = CachedChild(s, w[k - 1], path[k])
    BY <1>2 DEF SameCache
  <2> QED BY <2>1 DEF Trail
<1> QED BY <1>1, <1>2

\* With the same cache no trail comes about.
LEMMA BlockedKept ==
    ASSUME NEW s, NEW r, NEW path, NEW n, SameCache(s, r), Blocked(s, path, n)
    PROVE  Blocked(r, path, n)
<1>1. \A w : Trail(s, path, n, w) <=> Trail(r, path, n, w)
  BY TrailKept
<1> QED BY <1>1 DEF Blocked

\* A trail depends on the names it passes only.
LEMMA TrailAgree ==
    ASSUME NEW s, NEW q, NEW path, NEW n, NEW w, \A k \in 1 .. n : path[k] = q[k], Trail(s, q, n, w)
    PROVE  Trail(s, path, n, w)
BY DEF Trail

\* A path has one trail at most.
LEMMA TrailUnique ==
    ASSUME NEW s, NEW path, NEW n \in Nat, NEW w, NEW u, Trail(s, path, n, w), Trail(s, path, n, u)
    PROVE  \A k \in 0 .. n : w[k] = u[k]
<1> DEFINE T == {k \in 0 .. n : w[k] = u[k]}
<1>1. 0 \in T
  BY DEF Trail
<1>2. ASSUME NEW k \in 1 .. n, k - 1 \in T PROVE k \in T
  <2>1. w[k - 1] = u[k - 1] /\ k \in 0 .. n
    BY <1>2
  <2>2. /\ w[k] = (CHOOSE i \in CachedChild(s, w[k - 1], path[k]) : TRUE)
        /\ u[k] = (CHOOSE i \in CachedChild(s, u[k - 1], path[k]) : TRUE)
    BY DEF Trail
  <2> QED BY <2>1, <2>2
<1> HIDE DEF T
<1>3. 0 .. n \subseteq T
  BY <1>1, <1>2, IntervalInduction
<1> QED BY <1>3 DEF T

\* A trail goes on to a cached child.
LEMMA TrailGrow ==
    ASSUME NEW s, NEW path, NEW n \in Nat \ {0}, NEW w, Trail(s, path, n - 1, w),
           CachedChild(s, w[n - 1], path[n]) # {}
    PROVE  \E u : Trail(s, path, n, u) /\ u[n] = (CHOOSE i \in CachedChild(s, w[n - 1], path[n]) : TRUE)
<1> DEFINE c == CHOOSE i \in CachedChild(s, w[n - 1], path[n]) : TRUE
           u == [k \in 0 .. n |-> IF k = n THEN c ELSE w[k]]
<1>1. u[n] = c /\ u[0] = w[0] /\ \A k \in 1 .. n : u[k - 1] = w[k - 1] /\ (k # n => u[k] = w[k] /\ k \in 1 .. n - 1)
  OBVIOUS
<1> HIDE DEF u
<1>2. ASSUME NEW k \in 1 .. n
      PROVE  CachedChild(s, u[k - 1], path[k]) # {} /\ u[k] = (CHOOSE i \in CachedChild(s, u[k - 1], path[k]) : TRUE)
  <2>1. CASE k = n
    BY <1>1, <2>1
  <2>2. CASE k # n
    <3>1. CachedChild(s, w[k - 1], path[k]) # {} /\ w[k] = (CHOOSE i \in CachedChild(s, w[k - 1], path[k]) : TRUE)
      BY <1>1, <2>2 DEF Trail
    <3> QED BY <1>1, <2>2, <3>1
  <2> QED BY <2>1, <2>2
<1>3. Trail(s, path, n, u)
  BY <1>1, <1>2 DEF Trail
<1> QED BY <1>1, <1>3

\* A trail starts with shorter ones.
LEMMA TrailCut ==
    ASSUME NEW s, NEW path, NEW n \in Nat, NEW m \in 0 .. n
    PROVE  /\ \A w : Trail(s, path, n, w) => Trail(s, path, m, w)
           /\ Blocked(s, path, m) => Blocked(s, path, n)
<1>1. \A w : Trail(s, path, n, w) => Trail(s, path, m, w)
  BY DEF Trail
<1> QED BY <1>1 DEF Blocked

\* A lookup after n names: it holds the dentry it has reached, or nothing.
\* A trail to one name more than the whole path does not come about.
Walking(s, h, q, path, n, r) ==
    /\ r.ok => /\ r.d \in Dentry /\ Good(r, Plus(h, r.d)) /\ InCache(r.dent, r.d)
               /\ \E w : Trail(r, q, n, w) /\ w[n] = r.d
    /\ ~r.ok => Good(r, h) /\ Blocked(r, q, n)
    /\ Blocked(s, path, Len(q) + 1) => Blocked(r, path, Len(q) + 1)

\* One step of vfs_path_lookup: look the name up, give the parent back.
LEMMA WalkStep ==
    ASSUME NEW s, NEW h \in [Dentry -> Nat], NEW q, NEW path, Len(q) \in Nat,
           \A k \in 1 .. Len(q) : path[k] = q[k],
           NEW n \in 1 .. Len(q), NEW r, Walking(s, h, q, path, n - 1, r)
    PROVE  Walking(s, h, q, path, n, IF r.ok THEN dentry_put(vfs_lookup(r, r.d, q[n]), r.d) ELSE r)
<1> DEFINE a == r.d
           v == vfs_lookup(r, a, q[n])
           u == dentry_put(v, a)
           M == Len(q)
<1>1. (IF r.ok THEN dentry_put(vfs_lookup(r, r.d, q[n]), r.d) ELSE r) = IF r.ok THEN u ELSE r
  OBVIOUS
<1>0. n \in Nat \ {0} /\ n - 1 \in 0 .. n /\ n - 1 \in Nat
  OBVIOUS
<1>2. CASE ~r.ok
  <2>1. Blocked(r, q, n)
    BY <1>0, <1>2, TrailCut DEF Walking
  <2>2. Walking(s, h, q, path, n, r)
    BY <1>2, <2>1 DEF Walking
  <2> QED BY <1>1, <1>2, <2>2
<1>3. CASE r.ok
  <2>1. a \in Dentry /\ Good(r, Plus(h, a)) /\ InCache(r.dent, a) /\ Live(r, a)
    BY <1>3 DEF Walking, InCache, Live
  <2>2. PICK w : Trail(r, q, n - 1, w) /\ w[n - 1] = a
    BY <1>3 DEF Walking
  <2>3. LookedUp(r, Plus(h, a), a, q[n], v)
    BY <1>3, <2>1, LookupGood
  <2>4. Blocked(s, path, M + 1) => Blocked(r, path, M + 1)
    BY DEF Walking
  <2> HIDE DEF a, v
  <2>5. InCache(v.dent, a)
    BY <2>1, <2>3 DEF LookedUp, Keeps
  <2>6. Plus(h, a) \in [Dentry -> Nat] /\ Plus(h, a)[a] >= 1 /\ Minus(Plus(h, a), a) = h
    BY <2>1, PlusMinus
  <2>7. CASE v.ok
    <3> DEFINE b == v.d
    <3>1. /\ b \in Dentry /\ Good(v, Plus(Plus(h, a), b)) /\ InCache(v.dent, b) /\ Grows(r, v)
          /\ CachedChild(v, a, q[n]) # {} /\ b = (CHOOSE i \in CachedChild(v, a, q[n]) : TRUE)
          /\ SameCache(r, v) \/ \A x : CachedChild(v, b, x) = {}
      BY <2>3, <2>7 DEF LookedUp
    <3> HIDE DEF b
    <3>2. Plus(Plus(h, a), b)[a] >= 1 /\ Minus(Plus(Plus(h, a), b), a) = Plus(h, b)
      <4>1. Plus(Plus(h, a), b) \in [Dentry -> Nat] /\ Plus(Plus(h, a), b)[a] >= Plus(h, a)[a]
        BY <2>1, <2>6, <3>1, PlusMinus
      <4>2. Minus(Plus(Plus(h, a), b), a) = Plus(h, b)
        BY <2>1, <3>1, PlusMinus
      <4> QED BY <2>1, <2>6, <4>1, <4>2
    <3>3. Good(u, Plus(h, b)) /\ SameRet(v, u) /\ SameTree(v.dent, u.dent)
      BY <2>1, <2>5, <3>1, <3>2, PutGood
    <3> HIDE DEF u
    <3>4. SameCache(v, u) /\ InCache(u.dent, b)
      BY <3>1, <3>3, SameTreeSame
    <3>5. Trail(v, q, n - 1, w)
      BY <2>2, <3>1, TrailKept
    <3>6. PICK t : Trail(v, q, n, t) /\ t[n] = b
      <4>1. CachedChild(v, w[n - 1], q[n]) # {}
        BY <2>2, <3>1
      <4>2. \E z : Trail(v, q, n, z) /\ z[n] = (CHOOSE i \in CachedChild(v, w[n - 1], q[n]) : TRUE)
        BY <1>0, <3>5, <4>1, TrailGrow
      <4> QED BY <2>2, <3>1, <4>2
    <3>7. Trail(u, q, n, t)
      BY <3>4, <3>6, TrailKept
    <3>8. Blocked(r, path, M + 1) => Blocked(u, path, M + 1)
      <4>1. SameCache(r, v) => (Blocked(r, path, M + 1) => Blocked(u, path, M + 1))
        BY <3>4, BlockedKept
      <4>2. ASSUME \A x : CachedChild(v, b, x) = {}, NEW z, Trail(u, path, M + 1, z) PROVE FALSE
        <5>1. Trail(v, path, M + 1, z)
          BY <3>4, <4>2, TrailKept
        <5>2. Trail(v, path, n, t)
          <6>1. \A k \in 1 .. n : path[k] = q[k]
            OBVIOUS
          <6> QED BY <3>6, <6>1, TrailAgree
        <5>3. n \in 0 .. M + 1 /\ M + 1 \in Nat /\ n \in Nat /\ n \in 0 .. n /\ n + 1 \in 1 .. M + 1
          OBVIOUS
        <5>4. Trail(v, path, n, z)
          BY <5>1, <5>3, TrailCut
        <5>5. z[n] = b
          <6>1. \A k \in 0 .. n : t[k] = z[k]
            BY <5>2, <5>3, <5>4, TrailUnique
          <6> QED BY <3>6, <5>3, <6>1
        <5>6. CachedChild(v, z[(n + 1) - 1], path[n + 1]) # {}
          BY <5>1, <5>3 DEF Trail
        <5>7. (n + 1) - 1 = n
          OBVIOUS
        <5> QED BY <4>2, <5>5, <5>6, <5>7
      <4> QED BY <3>1, <4>1, <4>2 DEF Blocked
    <3>9. u.ok /\ u.d = b
      BY <2>7, <3>3 DEF SameRet, b
    <3>10. Walking(s, h, q, path, n, u)
      BY <2>4, <3>1, <3>3, <3>4, <3>6, <3>7, <3>8, <3>9 DEF Walking
    <3> QED BY <1>1, <1>3, <3>10 DEF u, v, a
  <2>8. CASE ~v.ok
    <3>1. Good(v, Plus(h, a)) /\ SameCache(r, v) /\ CachedChild(v, a, q[n]) = {}
      BY <2>3, <2>8 DEF LookedUp
    <3>2. Good(u, h) /\ SameRet(v, u) /\ SameTree(v.dent, u.dent)
      BY <2>1, <2>5, <2>6, <3>1, PutGood
    <3> HIDE DEF u
    <3>3. SameCache(v, u)
      BY <3>2, SameTreeSame
    <3>4. ASSUME NEW z, Trail(u, q, n, z) PROVE FALSE
      <4>1. Trail(v, q, n, z) /\ Trail(v, q, n - 1, w)
        BY <2>2, <3>1, <3>3, <3>4, TrailKept
      <4>2. Trail(v, q, n - 1, z)
        BY <1>0, <4>1, TrailCut
      <4>3. n - 1 \in 0 .. n - 1 /\ n \in 1 .. n
        BY <1>0
      <4>4. z[n - 1] = a
        <5> DEFINE m == n - 1
        <5>1. m \in Nat /\ Trail(v, q, m, w) /\ Trail(v, q, m, z) /\ m \in 0 .. m
          BY <1>0, <4>1, <4>2
        <5>2. w[m] = a
          BY <2>2
        <5> HIDE DEF m
        <5>3. \A k \in 0 .. m : w[k] = z[k]
          BY <5>1, TrailUnique
        <5>4. z[m] = a
          BY <5>1, <5>2, <5>3
        <5> QED BY <5>4 DEF m
      <4>5. CachedChild(v, z[n - 1], q[n]) # {}
        BY <4>1, <4>3 DEF Trail
      <4> QED BY <3>1, <4>4, <4>5
    <3>5. Blocked(r, path, M + 1) => Blocked(u, path, M + 1)
      BY <3>1, <3>3, BlockedKept
    <3>6. ~u.ok
      BY <2>8, <3>2 DEF SameRet
    <3>7. Walking(s, h, q, path, n, u)
      BY <2>4, <3>2, <3>4, <3>5, <3>6 DEF Walking, Blocked
    <3> QED BY <1>1, <1>3, <3>7 DEF u, v, a
  <2> QED BY <2>7, <2>8
<1> QED BY <1>2, <1>3

\* vfs_path_lookup, name after name.
LEMMA PathGood ==
    ASSUME NEW s, NEW h, Good(s, h), s.ok, NEW q, NEW path, Len(q) \in Nat,
           \A k \in 1 .. Len(q) : path[k] = q[k]
    PROVE  Walking(s, h, q, path, Len(q), vfs_path_lookup(s, q))
<1> DEFINE N == Len(q)
           start == [dentry_get(s, 0) EXCEPT !.d = 0]
<1>1. N \in Nat /\ h \in [Dentry -> Nat]
  BY DEF Good
<1> DEFINE Step(k, r) == IF r.ok THEN dentry_put(vfs_lookup(r, r.d, q[k]), r.d) ELSE r
           R(g) == [k \in 0 .. N |-> IF k = 0 THEN start ELSE Step(k, g[k - 1])]
           F == CHOOSE g : g = R(g)
           Runs(m, g) == g[0] = start /\ \A k \in 1 .. m : g[k] = Step(k, g[k - 1])
<1>2. vfs_path_lookup(s, q) = F[N]
  BY DEF vfs_path_lookup, Then
<1>3. ASSUME NEW k \in 1 .. N, NEW r, Walking(s, h, q, path, k - 1, r) PROVE Walking(s, h, q, path, k, Step(k, r))
  BY <1>1, <1>3, WalkStep
<1>4. Walking(s, h, q, path, 0, start)
  <2> DEFINE g == dentry_get(s, 0)
  <2>1. Live(s, 0) /\ InCache(s.dent, 0) /\ 0 \in Dentry
    BY DEF Good, TreeOk, Live, InCache
  <2>2. Good(g, Plus(h, 0)) /\ SameTree(s.dent, g.dent) /\ SameRet(s, g)
    BY <2>1, GetGood
  <2> HIDE DEF g
  <2>3. Good(start, Plus(h, 0)) /\ start.dent = g.dent /\ start.ok = g.ok /\ start.d = 0
    BY <2>2, SetD DEF g
  <2> HIDE DEF start
  <2>4. SameCache(s, start) /\ InCache(start.dent, 0)
    BY <2>1, <2>2, <2>3, SameTreeSame
  <2>5. Trail(start, q, 0, [k \in {0} |-> 0])
    BY DEF Trail
  <2>6. \E w : Trail(start, q, 0, w) /\ w[0] = 0
    BY <2>5
  <2>7. Blocked(s, path, N + 1) => Blocked(start, path, N + 1)
    BY <2>4, TrailKept DEF Blocked
  <2>8. start.ok
    BY <2>2, <2>3 DEF SameRet
  <2> QED BY <2>1, <2>3, <2>4, <2>6, <2>7, <2>8 DEF Walking
<1> HIDE DEF start
<1> HIDE DEF Step
<1>5. F = R(F)
  <2> DEFINE T == {m \in 0 .. N : \E g : Runs(m, g)}
  <2>1. 0 \in T
    <3>1. Runs(0, [k \in 0 .. 0 |-> start])
      OBVIOUS
    <3>2. \E g : Runs(0, g)
      BY <3>1
    <3> HIDE DEF Runs
    <3> QED BY <3>2, <1>1
  <2>2. ASSUME NEW m \in 1 .. N, m - 1 \in T PROVE m \in T
    <3>1. PICK g : Runs(m - 1, g)
      BY <2>2
    <3> DEFINE f == [k \in 0 .. m |-> IF k = m THEN Step(m, g[m - 1]) ELSE g[k]]
    <3>2. f[0] = start
      BY <3>1
    <3>3. ASSUME NEW k \in 1 .. m PROVE f[k] = Step(k, f[k - 1])
      <4>1. k - 1 \in 0 .. m /\ k - 1 # m /\ k \in 0 .. m /\ (k # m => k \in 1 .. m - 1)
        OBVIOUS
      <4>2. f[k - 1] = g[k - 1]
        BY <4>1
      <4>3. CASE k = m
        BY <4>1, <4>2, <4>3
      <4>4. CASE k # m
        <5>1. f[k] = g[k]
          BY <4>1, <4>4
        <5> QED BY <3>1, <4>1, <4>2, <4>4, <5>1
      <4> QED BY <4>3, <4>4
    <3> HIDE DEF f
    <3>4. Runs(m, f)
      BY <3>2, <3>3
    <3>5. \E g1 : Runs(m, g1)
      BY <3>4
    <3> HIDE DEF Runs
    <3>6. m \in 0 .. N
      BY <1>1
    <3> QED BY <3>5, <3>6
  <2> HIDE DEF T
  <2>3. 0 .. N \subseteq T
    BY <2>1, <2>2, <1>1, IntervalInduction
  <2>4. N \in T
    BY <2>3, <1>1
  <2>5. PICK g : Runs(N, g)
    BY <2>4 DEF T
  <2> DEFINE u == [k \in 0 .. N |-> g[k]]
  <2>6. ASSUME NEW k \in 0 .. N PROVE u[k] = IF k = 0 THEN start ELSE Step(k, u[k - 1])
    <3>1. CASE k = 0
      BY <2>5, <3>1
    <3>2. CASE k # 0
      <4>1. k \in 1 .. N /\ k - 1 \in 0 .. N
        BY <3>2, <1>1
      <4>2. u[k] = g[k] /\ u[k - 1] = g[k - 1]
        BY <4>1
      <4> QED BY <2>5, <3>2, <4>1, <4>2
    <3> QED BY <3>1, <3>2
  <2>7. u = R(u)
    BY <2>6
  <2> HIDE DEF u
  <2>8. \E g1 : g1 = R(g1)
    BY <2>7
  <2> QED BY <2>8, Zenon
<1> HIDE DEF F
<1>6. F[0] = start /\ \A k \in 1 .. N : F[k] = Step(k, F[k - 1])
  <2>1. 0 \in 0 .. N /\ \A k \in 1 .. N : k \in 0 .. N /\ k # 0
    BY <1>1
  <2> QED BY <1>5, <2>1
<1> DEFINE T == {k \in 0 .. N : Walking(s, h, q, path, k, F[k])}
<1>7. 0 \in T
  BY <1>1, <1>4, <1>6
<1>8. ASSUME NEW k \in 1 .. N, k - 1 \in T PROVE k \in T
  <2>1. k \in 0 .. N /\ Walking(s, h, q, path, k - 1, F[k - 1])
    BY <1>8
  <2>2. Walking(s, h, q, path, k, Step(k, F[k - 1])) /\ F[k] = Step(k, F[k - 1])
    BY <1>3, <1>6, <2>1
  <2> QED BY <2>1, <2>2
<1> HIDE DEF T
<1>9. 0 .. N \subseteq T
  BY <1>1, <1>7, <1>8, IntervalInduction
<1>10. N \in T
  BY <1>1, <1>9
<1>11. Walking(s, h, q, path, N, F[N])
  BY <1>10 DEF T
<1> QED BY <1>2, <1>11

-----------------------------------------------------------------------------
(* The operations of the VFS: each gives back what it took. *)

\* A reference that was taken is given back.
LEMMA PutBack ==
    ASSUME NEW s, NEW h \in [Dentry -> Nat], NEW d \in Dentry, Good(s, Plus(h, d))
    PROVE  Good(dentry_put(s, d), h) /\ SameRet(s, dentry_put(s, d))
           /\ (InCache(s.dent, d) => SameTree(s.dent, dentry_put(s, d).dent))
<1>1. Plus(h, d)[d] >= 1 /\ Minus(Plus(h, d), d) = h
  BY PlusMinus
<1> DEFINE r == dentry_put(s, d)
<1>2. Good(r, h) /\ SameRet(s, r) /\ (InCache(s.dent, d) => SameTree(s.dent, r.dent))
  BY <1>1, PutGood
<1> QED BY <1>2

\* An error, returned or ignored, changes no count.
LEMMA GoodIgnore ==
    ASSUME NEW s, NEW h, Good(s, h)
    PROVE  Good(Ignore(s), h) /\ Ignore(s).ok /\ SameTree(s.dent, Ignore(s).dent)
           /\ Good(Fail(s), h) /\ ~Fail(s).ok /\ SameTree(s.dent, Fail(s).dent)
<1>1. CallState(s) /\ DOMAIN s = CallFields
  BY DEF Good, CallState
<1>2. Kin(s, Ignore(s)) /\ Kin(s, Fail(s))
  BY <1>1, FailKin
<1>3. Ignore(s).ok = TRUE /\ Fail(s).ok = FALSE
  BY <1>1 DEF Ignore, Fail, CallFields
<1> QED BY <1>2, <1>3, GoodAkin DEF Kin

\* What a routine returns that hands out a reference if it succeeds.
Held(r, h) ==
    /\ r.ok => r.d \in Dentry /\ Good(r, Plus(h, r.d)) /\ InCache(r.dent, r.d)
    /\ ~r.ok => Good(r, h)

\* What a finished lookup holds.
LEMMA WalkHeld ==
    ASSUME NEW s, NEW h, NEW q, NEW path, NEW n, NEW r, Walking(s, h, q, path, n, r)
    PROVE  Held(r, h) /\ (~r.ok => Blocked(r, q, n))
BY DEF Walking, Held

\* A lookup of the whole path; when it fails the cache has no trail to it.
LEMMA FullGood ==
    ASSUME NEW s, NEW h, Good(s, h), s.ok, NEW path, IsSequence(path)
    PROVE  /\ Held(vfs_path_lookup(s, path), h)
           /\ ~vfs_path_lookup(s, path).ok => Blocked(vfs_path_lookup(s, path), path, Len(path))
<1>1. Len(path) \in Nat
  BY SequencesJoin
<1>2. Walking(s, h, path, path, Len(path), vfs_path_lookup(s, path))
  BY <1>1, PathGood
<1> QED BY <1>2, WalkHeld

\* vfs_lookup_parent: the leaf is still not cached below the parent found.
LEMMA ParentGood ==
    ASSUME NEW s, NEW h, Good(s, h), s.ok, NEW path, IsSequence(path)
    PROVE  LET r == vfs_lookup_parent(s, path)
           IN  /\ Held(r, h)
               /\ Blocked(s, path, Len(path)) =>
                     Blocked(r, path, Len(path)) /\ (r.ok => CachedChild(r, r.d, Leaf(path)) = {})
<1> DEFINE r == vfs_lookup_parent(s, path)
           q == SubSeq(path, 1, Len(path) - 1)
           N == Len(path)
           Goal == /\ Held(r, h)
                   /\ Blocked(s, path, N) => Blocked(r, path, N) /\ (r.ok => CachedChild(r, r.d, Leaf(path)) = {})
<1>1. PICK S : path \in Seq(S)
  BY DEF IsSequence
<1>2. CASE path = <<>>
  <2>1. r = Fail(s)
    BY <1>2 DEF vfs_lookup_parent
  <2> HIDE DEF r, N
  <2>2. Good(r, h) /\ ~r.ok /\ SameTree(s.dent, r.dent)
    BY <2>1, GoodIgnore
  <2>3. SameCache(s, r)
    BY <2>2, SameTreeSame
  <2>4. Goal
    BY <2>2, <2>3, BlockedKept DEF Held
  <2> QED BY <2>4 DEF r, N
<1>3. CASE path # <<>>
  <2>1. N \in Nat \ {0} /\ Len(q) = N - 1 /\ \A k \in 1 .. N - 1 : path[k] = q[k]
    <3>1. N \in Nat \ {0}
      BY <1>1, <1>3, EmptySeq
    <3>2. q \in Seq(S) /\ Len(q) = N - 1 /\ \A k \in 1 .. N - 1 : q[k] = path[k]
      <4> HIDE DEF N
      <4>1. PICK m \in Nat : m = N - 1
        BY <3>1
      <4>2. m \in 0 .. Len(path) /\ q = SubSeq(path, 1, m)
        BY <3>1, <4>1 DEF N
      <4>3. SubSeq(path, 1, m) \in Seq(S) /\ Len(SubSeq(path, 1, m)) = m /\ \A k \in 1 .. m : SubSeq(path, 1, m)[k] = path[k]
        BY <1>1, <4>2
      <4> QED BY <4>1, <4>2, <4>3
    <3> QED BY <3>1, <3>2
  <2>2. r = vfs_path_lookup(s, q)
    BY <1>3 DEF vfs_lookup_parent
  <2> HIDE DEF q, r
  <2>3. Len(q) \in Nat /\ Len(q) + 1 = N /\ \A k \in 1 .. Len(q) : path[k] = q[k]
    BY <2>1
  <2>4. Walking(s, h, q, path, Len(q), r)
    BY <2>2, <2>3, PathGood
  <2>5. Held(r, h)
    BY <2>4, WalkHeld
  <2>6. Blocked(s, path, N) => Blocked(r, path, N)
    BY <2>3, <2>4 DEF Walking
  <2>7. ASSUME Blocked(r, path, N), r.ok PROVE CachedChild(r, r.d, Leaf(path)) = {}
    <3>1. PICK w : Trail(r, q, Len(q), w) /\ w[Len(q)] = r.d
      BY <2>4, <2>7 DEF Walking
    <3>2. Trail(r, path, Len(q), w)
      BY <2>3, <3>1, TrailAgree
    <3>3. Len(q) = N - 1
      BY <2>1
    <3>4. Trail(r, path, N - 1, w) /\ w[N - 1] = r.d
      BY <3>1, <3>2, <3>3
    <3> SUFFICES ASSUME CachedChild(r, w[N - 1], path[N]) # {} PROVE FALSE
      BY <3>4 DEF Leaf
    <3> HIDE DEF N
    <3>5. \E u : Trail(r, path, N, u) /\ u[N] = (CHOOSE i \in CachedChild(r, w[N - 1], path[N]) : TRUE)
      BY <2>1, <3>4, TrailGrow
    <3> QED BY <2>7, <3>5 DEF Blocked
  <2>8. Goal
    BY <2>5, <2>6, <2>7
  <2> QED BY <2>8 DEF r
<1> QED BY <1>2, <1>3

\* Creating a name that the cache does not hold.
LEMMA MknodGood ==
    ASSUME NEW s, NEW h, Good(s, h), s.ok, NEW path, IsSequence(path), Blocked(s, path, Len(path)), NEW isdir
    PROVE  Good(vfs_mknod(s, path, isdir), h)
<1> DEFINE leaf == Leaf(path)
           p == vfs_lookup_parent(s, path)
           a == p.d
           l == dentry_lookup(p, a, leaf)
           v == p.hurt \/ ~ent_of(p, a).dir
           under == [p EXCEPT !.hurt = v]
           n == dentry_alloc(under, leaf)
           e == n.d
           f == IF isdir THEN fat16_mkdir(n, a, e) ELSE fat16_create(n, a, e)
           x == IF l.ok THEN Fail(l)
                ELSE IF n.ok THEN (IF f.ok THEN dentry_add(f, a, e) ELSE dentry_put(f, e)) ELSE n
<1>1. vfs_mknod(s, path, isdir) = IF p.ok THEN dentry_put(x, a) ELSE p
  BY DEF vfs_mknod, Then, Either
<1>2. Held(p, h) /\ (p.ok => CachedChild(p, a, leaf) = {})
  BY ParentGood
<1> HIDE DEF p, leaf
<1>3. CASE ~p.ok
  BY <1>1, <1>2, <1>3 DEF Held
<1>4. CASE p.ok
  <2> DEFINE H == Plus(h, a)
  <2>1. a \in Dentry /\ Good(p, H) /\ InCache(p.dent, a) /\ CachedChild(p, a, leaf) = {}
    BY <1>2, <1>4 DEF Held
  <2>2. H \in [Dentry -> Nat]
    BY <2>1, PlusMinus DEF Good
  <2>3. ~l.ok
    <3> HIDE DEF H
    <3> QED BY <1>4, <2>1, DentryLookupGood
  <2>4. Kin(p, under)
    BY <2>1, FieldKin DEF Good
  <2> HIDE DEF under, l, a, H
  <2>5. Good(under, H) /\ SameTree(p.dent, under.dent)
    BY <2>1, <2>4, GoodAkin DEF Kin
  <2>6. Live(under, a) /\ CachedChild(under, a, leaf) = {}
    <3>1. Live(p, a)
      BY <2>1 DEF InCache, Live
    <3>2. SameCache(p, under) /\ Live(under, a)
      BY <2>5, <3>1, SameTreeSame
    <3> QED BY <2>1, <3>2 DEF SameCache
  <2>7. Good(x, H)
    <3>1. CASE ~n.ok
      <4>1. Good(n, H)
        BY <2>5, <3>1, AllocGood
      <4> HIDE DEF n
      <4> QED BY <2>3, <3>1, <4>1
    <3>2. CASE n.ok
      <4>1. Good(n, Plus(H, e)) /\ Fresh(under, e, leaf, n)
        BY <2>5, <3>2, FreshMade
      <4> HIDE DEF n, e
      <4>2. Kin(n, f)
        <5>1. CallState(n) /\ Live(n, e)
          BY <4>1 DEF Good, Fresh, Live
        <5> QED BY <5>1, MkdirKin, CreateKin
      <4>3. Good(f, Plus(H, e)) /\ Fresh(under, e, leaf, f)
        BY <4>1, <4>2, FreshKin DEF Kin
      <4> HIDE DEF f
      <4>4. Good(dentry_put(f, e), H)
        BY <2>2, <4>3, FreshPut
      <4>5. Added(under, H, e, leaf, a, f, dentry_add(f, a, e))
        BY <2>2, <2>6, <4>3, FreshAdd
      <4>6. Good(dentry_add(f, a, e), H)
        BY <4>5 DEF Added
      <4> QED BY <2>3, <3>2, <4>4, <4>6
    <3> QED BY <3>1, <3>2
  <2> HIDE DEF x
  <2>8. Good(dentry_put(x, a), h)
    BY <2>1, <2>7, PutBack DEF H, Good
  <2> QED BY <1>1, <1>4, <2>8
<1> QED BY <1>3, <1>4

\* Removing a name: the reference of the cache goes with the dentry.
LEMMA UncachedGood ==
    ASSUME NEW c, NEW h \in [Dentry -> Nat], c.d \in Dentry \ {0}, Good(c, Plus(h, c.d)), InCache(c.dent, c.d)
    PROVE  Good(dentry_put(dentry_put([c EXCEPT !.dent[c.d].cached = FALSE], c.d), c.d), h)
<1> DEFINE d == c.d
           z == [c EXCEPT !.dent[d].cached = FALSE]
           y == dentry_put(z, d)
<1> HIDE DEF d
<1>1. d \in Dentry \ {0} /\ Good(c, Plus(h, d)) /\ InCache(c.dent, d)
  BY DEF d
<1>2. Good(z, Plus(Plus(h, d), d)) /\ Plus(h, d) \in [Dentry -> Nat]
  BY <1>1, UncacheGood, PlusMinus
<1> HIDE DEF z
<1>3. Good(y, Plus(h, d))
  BY <1>1, <1>2, PutBack
<1> HIDE DEF y
<1>4. Good(dentry_put(y, d), h)
  BY <1>1, <1>3, PutBack
<1> QED BY <1>4 DEF y, z, d

\* vfs_remove gives back what it took.
LEMMA RemoveGood ==
    ASSUME NEW s, NEW h, Good(s, h), s.ok, NEW path, IsSequence(path), NEW isdir
    PROVE  Good(vfs_remove(s, path, isdir), h)
<1> DEFINE leaf == Leaf(path)
           p == vfs_lookup_parent(s, path)
           a == p.d
           n == dentry_alloc(p, leaf)
           e == n.d
           f == IF isdir THEN fat16_rmdir(n, a, leaf) ELSE fat16_unlink(n, a, leaf)
           l == dentry_lookup(f, a, leaf)
           gone == dentry_put(dentry_put([l EXCEPT !.dent[l.d].cached = FALSE], l.d), l.d)
           y == IF f.ok THEN (IF l.ok THEN gone ELSE Ignore(l)) ELSE f
           x == IF n.ok THEN dentry_put(y, e) ELSE n
<1>1. vfs_remove(s, path, isdir) = IF p.ok THEN dentry_put(x, a) ELSE p
  BY DEF vfs_remove, Then, Either
<1>2. Held(p, h)
  BY ParentGood
<1> HIDE DEF p, leaf
<1>3. CASE ~p.ok
  BY <1>1, <1>2, <1>3 DEF Held
<1>4. CASE p.ok
  <2> DEFINE H == Plus(h, a)
  <2>1. a \in Dentry /\ Good(p, H)
    BY <1>2, <1>4 DEF Held
  <2>2. H \in [Dentry -> Nat]
    BY <2>1, PlusMinus DEF Good
  <2> HIDE DEF a, H
  <2>3. Good(x, H)
    <3>1. CASE ~n.ok
      <4>1. Good(n, H)
        BY <2>1, <3>1, AllocGood
      <4> HIDE DEF n
      <4> QED BY <3>1, <4>1
    <3>2. CASE n.ok
      <4> DEFINE K == Plus(H, e)
      <4>1. Good(n, K) /\ Fresh(p, e, leaf, n)
        BY <2>1, <3>2, FreshMade
      <4>2. e \in Dentry
        BY <4>1 DEF Fresh
      <4> HIDE DEF n, e
      <4>3. K \in [Dentry -> Nat]
        BY <2>2, <4>2, PlusMinus
      <4>4. Kin(n, f)
        BY <4>1, RemoveKin DEF Good
      <4> HIDE DEF K, f
      <4>5. Good(f, K)
        BY <4>1, <4>4, GoodAkin DEF Kin
      <4>6. Good(y, K)
        <5>1. CASE ~f.ok
          BY <4>5, <5>1
        <5>2. CASE f.ok /\ CachedChild(f, a, leaf) = {}
          <6>1. ~l.ok /\ Good(l, K)
            BY <4>5, <5>2, DentryLookupGood
          <6> HIDE DEF l
          <6> QED BY <5>2, <6>1, GoodIgnore
        <5>3. CASE f.ok /\ CachedChild(f, a, leaf) # {}
          <6>1. l.ok /\ Good(l, Plus(K, l.d)) /\ l.d \in Dentry \ {0} /\ InCache(l.dent, l.d)
            BY <4>5, <5>3, DentryLookupGood
          <6> HIDE DEF l
          <6>2. Good(gone, K)
            BY <4>3, <6>1, UncachedGood
          <6> HIDE DEF gone
          <6> QED BY <5>3, <6>1, <6>2
        <5> QED BY <5>1, <5>2, <5>3
      <4> HIDE DEF y
      <4>7. Good(dentry_put(y, e), H)
        BY <2>2, <4>2, <4>6, PutBack DEF K
      <4> QED BY <3>2, <4>7
    <3> QED BY <3>1, <3>2
  <2> HIDE DEF x
  <2>4. Good(dentry_put(x, a), h)
    BY <2>1, <2>3, PutBack DEF H, Good
  <2> QED BY <1>1, <1>4, <2>4
<1> QED BY <1>3, <1>4

\* Opening: the file that is returned holds one reference.
LEMMA OpenGood ==
    ASSUME NEW s, NEW h, Good(s, h), s.ok, NEW path, IsSequence(path), NEW flags
    PROVE  LET r == vfs_open(s, path, flags)
           IN  /\ r.ok => r.d \in Dentry /\ Good(r, Plus(h, r.d))
               /\ ~r.ok => Good(r, h)
<1> DEFINE l == vfs_path_lookup(s, path)
           i == Ignore(l)
           m == vfs_mknod(i, path, FALSE)
           q == IF l.ok THEN l ELSE IF "creat" \in flags THEN (IF m.ok THEN vfs_path_lookup(m, path) ELSE m) ELSE l
           a == q.d
           t == IF "trunc" \in flags THEN fat16_truncate(q, a) ELSE q
           o == IF t.ok THEN Allocate(t) ELSE t
           w == [o EXCEPT !.d = a]
           u == dentry_put(o, a)
           r == vfs_open(s, path, flags)
<1>1. r = IF q.ok THEN (IF o.ok THEN w ELSE u) ELSE q
  BY DEF vfs_open, Then, Otherwise, Either
<1>2. Held(q, h)
  <2>1. Held(l, h) /\ (~l.ok => Blocked(l, path, Len(path)))
    BY FullGood
  <2> HIDE DEF l
  <2>2. CASE l.ok
    BY <2>1, <2>2
  <2>3. CASE ~l.ok
    <3>1. Good(l, h) /\ Blocked(l, path, Len(path))
      BY <2>1, <2>3 DEF Held
    <3>2. Good(i, h) /\ i.ok /\ SameTree(l.dent, i.dent)
      BY <3>1, GoodIgnore
    <3> HIDE DEF i
    <3>3. Blocked(i, path, Len(path))
      BY <3>1, <3>2, SameTreeSame, BlockedKept
    <3>4. Good(m, h)
      BY <3>2, <3>3, MknodGood
    <3> HIDE DEF m
    <3>5. m.ok => Held(vfs_path_lookup(m, path), h)
      BY <3>4, FullGood
    <3>6. ~m.ok => Held(m, h)
      BY <3>4 DEF Held
    <3> QED BY <2>1, <2>3, <3>5, <3>6
  <2> QED BY <2>2, <2>3
<1> HIDE DEF q
<1> DEFINE Goal(z) == /\ z.ok => z.d \in Dentry /\ Good(z, Plus(h, z.d))
                      /\ ~z.ok => Good(z, h)
<1>3. CASE ~q.ok
  <2>1. Goal(q)
    BY <1>2, <1>3 DEF Held
  <2> QED BY <1>1, <1>3, <2>1
<1>4. CASE q.ok
  <2>1. a \in Dentry /\ Good(q, Plus(h, a)) /\ InCache(q.dent, a)
    BY <1>2, <1>4 DEF Held
  <2> HIDE DEF a
  <2>2. Kin(q, t)
    <3>1. CallState(q) /\ Live(q, a)
      BY <2>1 DEF Good, InCache, Live
    <3> QED BY <3>1, TruncateKin, KinSelf
  <2> HIDE DEF t
  <2>3. Kin(t, o)
    BY <2>2, KinLive, AllocateKin, KinSelf
  <2> HIDE DEF o
  <2>4. Good(o, Plus(h, a))
    BY <2>1, <2>2, <2>3, KinTrans, GoodAkin DEF Kin
  <2>5. Good(w, Plus(h, a)) /\ w.ok = o.ok /\ w.d = a
    BY <2>4, SetD
  <2>6. Good(u, h) /\ SameRet(o, u)
    BY <2>1, <2>4, PutBack DEF Good
  <2> HIDE DEF w, u
  <2>7. CASE o.ok
    <3>1. Goal(w)
      BY <2>1, <2>5, <2>7
    <3> QED BY <1>1, <1>4, <2>7, <3>1
  <2>8. CASE ~o.ok
    <3>1. Goal(u)
      BY <2>6, <2>8 DEF SameRet
    <3> QED BY <1>1, <1>4, <2>8, <3>1
  <2> QED BY <2>7, <2>8
<1> QED BY <1>3, <1>4

\* Reading exactly so many bytes.
LEMMA ReadAtAkin ==
    ASSUME NEW s, NEW d, NEW off \in Nat, NEW len \in Nat, CallState(s), Live(s, d)
    PROVE  Akin(s, read_at(s, d, off, len))
<1> DEFINE start == [s EXCEPT !.done = 0]
           Got(r) == IF r.ok /\ r.buf # <<>> THEN [r EXCEPT !.done = @ + Len(r.buf)] ELSE Fail(r)
           Step(r) == IF ~r.ok \/ r.done >= len THEN r
                      ELSE Got(fat16_read(r, d, len - r.done, off + r.done))
           R(g) == [k \in 0 .. len |-> IF k = 0 THEN start ELSE Step(g[k - 1])]
           F == CHOOSE g : g = R(g)
           Runs(m, g) == g[0] = start /\ \A k \in 1 .. m : g[k] = Step(g[k - 1])
<1>1. read_at(s, d, off, len) = F[len]
  BY DEF read_at
<1>2. Akin(s, start)
  BY DoneAkin
<1> HIDE DEF start
<1>3. ASSUME NEW r, CallState(r) PROVE Akin(r, Got(r))
  <2> DEFINE m == r.done + Len(r.buf)
             w == [r EXCEPT !.done = m]
  <2>1. m \in Nat
    BY <1>3, SequencesJoin DEF CallState
  <2>2. Got(r) = IF r.ok /\ r.buf # <<>> THEN w ELSE Fail(r)
    OBVIOUS
  <2> HIDE DEF m
  <2>3. Akin(r, w)
    BY <1>3, <2>1, DoneAkin
  <2>4. Akin(r, Fail(r))
    BY <1>3, FailKin DEF Kin
  <2> HIDE DEF w, Got
  <2> QED BY <2>2, <2>3, <2>4
<1> HIDE DEF Got
<1>4. ASSUME NEW r, Akin(s, r) PROVE Akin(s, Step(r))
  <2>1. CallState(r) /\ Live(r, d) /\ r.done \in Nat
    BY <1>4, AkinLive DEF CallState
  <2>2. CASE ~r.ok \/ r.done >= len
    BY <1>4, <2>2
  <2>3. CASE ~(~r.ok \/ r.done >= len)
    <3> DEFINE a == len - r.done
               b == off + r.done
               q == fat16_read(r, d, a, b)
    <3>1. Step(r) = Got(q)
      BY <2>3
    <3>2. a \in Nat /\ b \in Nat
      BY <2>1, <2>3
    <3> HIDE DEF a, b
    <3>3. Kin(r, q)
      BY <2>1, <3>2, ReadKin
    <3> HIDE DEF q, Step
    <3>4. Akin(r, q) /\ CallState(q)
      BY <3>3, KinLive
    <3>5. Akin(q, Got(q))
      BY <3>4, <1>3
    <3> QED BY <1>4, <3>1, <3>4, <3>5, AkinTrans
  <2> QED BY <2>2, <2>3
<1> HIDE DEF Step
<1>5. F = R(F)
  <2> DEFINE T == {m \in 0 .. len : \E g : Runs(m, g)}
  <2>1. 0 \in T
    <3>1. Runs(0, [k \in 0 .. 0 |-> start])
      OBVIOUS
    <3>2. \E g : Runs(0, g)
      BY <3>1
    <3> HIDE DEF Runs
    <3> QED BY <3>2
  <2>2. ASSUME NEW m \in 1 .. len, m - 1 \in T PROVE m \in T
    <3>1. PICK g : Runs(m - 1, g)
      BY <2>2
    <3> DEFINE h == [k \in 0 .. m |-> IF k = m THEN Step(g[m - 1]) ELSE g[k]]
    <3>2. h[0] = start
      BY <3>1
    <3>3. ASSUME NEW k \in 1 .. m PROVE h[k] = Step(h[k - 1])
      <4>1. k - 1 \in 0 .. m /\ k - 1 # m /\ k \in 0 .. m /\ (k # m => k \in 1 .. m - 1)
        OBVIOUS
      <4>2. h[k - 1] = g[k - 1]
        BY <4>1
      <4>3. CASE k = m
        BY <4>1, <4>2, <4>3
      <4>4. CASE k # m
        <5>1. h[k] = g[k]
          BY <4>1, <4>4
        <5> QED BY <3>1, <4>1, <4>2, <4>4, <5>1
      <4> QED BY <4>3, <4>4
    <3> HIDE DEF h
    <3>4. Runs(m, h)
      BY <3>2, <3>3
    <3>5. \E g1 : Runs(m, g1)
      BY <3>4
    <3> HIDE DEF Runs
    <3> QED BY <3>5
  <2> HIDE DEF T
  <2>3. 0 .. len \subseteq T
    BY <2>1, <2>2, IntervalInduction
  <2>4. len \in T
    BY <2>3
  <2>5. PICK g : Runs(len, g)
    BY <2>4 DEF T
  <2> DEFINE u == [k \in 0 .. len |-> g[k]]
  <2>6. ASSUME NEW k \in 0 .. len PROVE u[k] = IF k = 0 THEN start ELSE Step(u[k - 1])
    <3>1. CASE k = 0
      BY <2>5, <3>1
    <3>2. CASE k # 0
      <4>1. k \in 1 .. len /\ k - 1 \in 0 .. len
        BY <3>2
      <4>2. u[k] = g[k] /\ u[k - 1] = g[k - 1]
        BY <4>1
      <4> QED BY <2>5, <3>2, <4>1, <4>2
    <3> QED BY <3>1, <3>2
  <2>7. u = R(u)
    BY <2>6
  <2> HIDE DEF u
  <2>8. \E g1 : g1 = R(g1)
    BY <2>7
  <2> QED BY <2>8, Zenon
<1>6. F[0] = start /\ \A k \in 1 .. len : F[k] = Step(F[k - 1])
  <2> HIDE DEF F
  <2> QED BY <1>5
<1> HIDE DEF F
<1> DEFINE T == {k \in 0 .. len : Akin(s, F[k])}
<1>7. 0 .. len \subseteq T
  <2>1. 0 \in T
    BY <1>2, <1>6
  <2>2. ASSUME NEW k \in 1 .. len, k - 1 \in T PROVE k \in T
    BY <2>2, <1>4, <1>6
  <2> HIDE DEF T
  <2> QED BY <2>1, <2>2, IntervalInduction
<1>8. len \in T
  BY <1>7
<1> QED BY <1>1, <1>8

\* Loading a program gives back the file it opened, whatever fails.
LEMMA SpawnGood ==
    ASSUME NEW s, NEW h, Good(s, h), s.ok, NEW path, IsSequence(path), NEW elf, elf.len \in Nat
    PROVE  Good(spawn(s, path, elf), h)
<1> DEFINE p == vfs_open(s, path, {})
           a == p.d
           m == Allocate(p)
           x == read_at(m, a, 0, 1)
           y == IF elf.valid THEN read_at(x, a, 1, elf.len) ELSE Fail(x)
           l == IF x.ok THEN y ELSE x
           f == IF m.ok THEN l ELSE m
<1>1. spawn(s, path, elf) = IF p.ok THEN dentry_put(f, a) ELSE p
  BY DEF spawn, load_elf, vfs_close, Then
<1>2. /\ p.ok => a \in Dentry /\ Good(p, Plus(h, a))
      /\ ~p.ok => Good(p, h)
  BY OpenGood
<1> HIDE DEF p
<1>3. CASE ~p.ok
  BY <1>1, <1>2, <1>3
<1>4. CASE p.ok
  <2>1. a \in Dentry /\ Good(p, Plus(h, a)) /\ h \in [Dentry -> Nat]
    BY <1>2, <1>4 DEF Good
  <2> HIDE DEF a
  <2>2. CallState(p) /\ Live(p, a)
    BY <2>1, GoodLive, PlusMinus DEF Good
  <2>3. Akin(p, m) /\ CallState(m) /\ Live(m, a)
    BY <2>2, AllocateKin, KinLive
  <2> HIDE DEF m
  <2>4. Akin(m, x) /\ CallState(x) /\ Live(x, a)
    BY <2>3, ReadAtAkin, AkinLive
  <2> HIDE DEF x
  <2>5. Akin(x, y)
    BY <2>4, ReadAtAkin, FailKin DEF Kin
  <2> HIDE DEF y
  <2>6. Akin(p, x) /\ Akin(p, y)
    BY <2>3, <2>4, <2>5, AkinTrans
  <2>7. Akin(p, f)
    BY <2>3, <2>6
  <2> HIDE DEF f
  <2>8. Good(f, Plus(h, a))
    BY <2>1, <2>7, GoodAkin
  <2>9. Good(dentry_put(f, a), h)
    BY <2>1, <2>8, PutBack
  <2> QED BY <1>1, <1>4, <2>9
<1> QED BY <1>3, <1>4

\* The two system calls that look a path up before they change it.
MkdirCall(s, path) ==
    Either(vfs_path_lookup(s, path), LAMBDA d : dentry_put(d, d.d), LAMBDA miss :
    Then(vfs_lookup_parent(Ignore(miss), path), LAMBDA p :
        IF ent_of(p, p.d).dir THEN vfs_mknod(dentry_put(p, p.d), path, TRUE) ELSE dentry_put(p, p.d)))
UnlinkCall(s, path, want_dir) ==
    Then(vfs_path_lookup(s, path), LAMBDA d :
        IF ent_of(d, d.d).dir = want_dir
        THEN vfs_remove(dentry_put(d, d.d), path, want_dir) ELSE dentry_put(d, d.d))

\* A reference that was handed out is given back.
LEMMA HeldPut ==
    ASSUME NEW r, NEW h \in [Dentry -> Nat], Held(r, h), r.ok
    PROVE  Good(dentry_put(r, r.d), h) /\ SameTree(r.dent, dentry_put(r, r.d).dent) /\ dentry_put(r, r.d).ok
<1> DEFINE a == r.d
<1>1. a \in Dentry /\ Good(r, Plus(h, a)) /\ InCache(r.dent, a)
  BY DEF Held
<1> HIDE DEF a
<1>2. Good(dentry_put(r, a), h) /\ SameRet(r, dentry_put(r, a)) /\ SameTree(r.dent, dentry_put(r, a).dent)
  BY <1>1, PutBack
<1>3. dentry_put(r, a).ok
  BY <1>2 DEF SameRet
<1> QED BY <1>2, <1>3 DEF a

\* sys_mkdir gives back what it took.
LEMMA MkdirGood ==
    ASSUME NEW s, NEW h, Good(s, h), s.ok, NEW path, IsSequence(path)
    PROVE  Good(MkdirCall(s, path), h)
<1> DEFINE l == vfs_path_lookup(s, path)
           i == Ignore(l)
           p == vfs_lookup_parent(i, path)
           u == dentry_put(p, p.d)
           m == vfs_mknod(u, path, TRUE)
<1>1. MkdirCall(s, path) = IF l.ok THEN dentry_put(l, l.d)
                              ELSE IF p.ok THEN (IF ent_of(p, p.d).dir THEN m ELSE u) ELSE p
  BY DEF MkdirCall, Either, Then
<1>2. Held(l, h) /\ (~l.ok => Blocked(l, path, Len(path)))
  BY FullGood
<1>h. h \in [Dentry -> Nat]
  BY DEF Good
<1> HIDE DEF l
<1>3. CASE l.ok
  BY <1>h, <1>1, <1>2, <1>3, HeldPut
<1>4. CASE ~l.ok
  <2>1. Good(l, h) /\ Blocked(l, path, Len(path))
    BY <1>2, <1>4 DEF Held
  <2>2. Good(i, h) /\ i.ok /\ SameTree(l.dent, i.dent)
    BY <2>1, GoodIgnore
  <2> HIDE DEF i
  <2>3. Blocked(i, path, Len(path))
    BY <2>1, <2>2, SameTreeSame, BlockedKept
  <2>4. Held(p, h) /\ Blocked(p, path, Len(path))
    BY <2>2, <2>3, ParentGood
  <2> HIDE DEF p
  <2>5. CASE ~p.ok
    BY <1>1, <1>4, <2>4, <2>5 DEF Held
  <2>6. CASE p.ok
    <3>1. Good(u, h) /\ SameTree(p.dent, u.dent) /\ u.ok
      BY <1>h, <2>4, <2>6, HeldPut
    <3> HIDE DEF u
    <3>2. Blocked(u, path, Len(path))
      BY <2>4, <3>1, SameTreeSame, BlockedKept
    <3>3. Good(m, h)
      BY <3>1, <3>2, MknodGood
    <3> HIDE DEF m
    <3> QED BY <1>1, <1>4, <2>6, <3>1, <3>3
  <2> QED BY <2>5, <2>6
<1> QED BY <1>3, <1>4

\* sys_unlink gives back what it took.
LEMMA UnlinkGood ==
    ASSUME NEW s, NEW h, Good(s, h), s.ok, NEW path, IsSequence(path), NEW want_dir
    PROVE  Good(UnlinkCall(s, path, want_dir), h)
<1> DEFINE l == vfs_path_lookup(s, path)
           u == dentry_put(l, l.d)
           m == vfs_remove(u, path, want_dir)
<1>1. UnlinkCall(s, path, want_dir) = IF l.ok THEN (IF ent_of(l, l.d).dir = want_dir THEN m ELSE u) ELSE l
  BY DEF UnlinkCall, Then
<1>2. Held(l, h) /\ h \in [Dentry -> Nat]
  BY FullGood DEF Good
<1> HIDE DEF l
<1>3. CASE ~l.ok
  BY <1>1, <1>2, <1>3 DEF Held
<1>4. CASE l.ok
  <2>1. Good(u, h) /\ u.ok
    BY <1>2, <1>4, HeldPut
  <2> HIDE DEF u
  <2>2. Good(m, h)
    BY <2>1, RemoveGood
  <2> HIDE DEF m
  <2> QED BY <1>1, <1>4, <2>1, <2>2
<1> QED BY <1>3, <1>4

-----------------------------------------------------------------------------
(* Who uses a dentry. *)

File == [d : Dentry, offset : Nat, append : BOOLEAN]
Table == [Task -> [Fd -> {NoFile} \cup File]]
OpensOf(ft, i) == {o \in Task \X Fd : ft[o[1]][o[2]] # NoFile /\ ft[o[1]][o[2]].d = i}
UsersOf(ft, lo) == [i \in Dentry |-> Cardinality(OpensOf(ft, i)) + lo[i]]
\* ft2 is ft with another entry in one place.
Change(ft, ft2, t, fd) ==
    /\ t \in Task /\ fd \in Fd /\ ft \in Table /\ ft2 \in Table
    /\ \A u \in Task, g \in Fd : <<u, g>> # <<t, fd>> => ft2[u][g] = ft[u][g]

\* The files open on a dentry are finitely many.
LEMMA OpensFinite == ASSUME NEW ft, NEW i PROVE IsFiniteSet(OpensOf(ft, i)) /\ Cardinality(OpensOf(ft, i)) \in Nat
<1>1. IsFiniteSet(Fd)
  <2>1. TASK_MAX_FDS \in Int
    BY FilesAssumption
  <2>2. IsFiniteSet(1 .. TASK_MAX_FDS)
    BY <2>1, FS_Interval
  <2> QED BY <2>2 DEF Fd
<1>2. IsFiniteSet(Task \X Fd)
  BY <1>1, FilesAssumption, FS_Product
<1>3. OpensOf(ft, i) \in SUBSET (Task \X Fd)
  BY DEF OpensOf
<1>4. IsFiniteSet(OpensOf(ft, i))
  BY <1>2, <1>3, FS_Subset
<1> QED BY <1>4, FS_CardinalityType

\* The users of every dentry are a number.
LEMMA UsersType ==
    ASSUME NEW ft, NEW lo \in [Dentry -> Nat]
    PROVE  UsersOf(ft, lo) \in [Dentry -> Nat]
BY OpensFinite DEF UsersOf

\* An open file is not a free place.
LEMMA FileIsFile == ASSUME NEW f \in File PROVE f # NoFile /\ f.d \in Dentry
<1>1. f.d \in Dentry /\ -1 \notin Dentry /\ NoFile.d = -1
  BY FilesAssumption DEF File, Dentry, NoFile
<1> QED BY <1>1

\* What a table holds.
LEMMA TableEntry ==
    ASSUME NEW ft \in Table, NEW t \in Task, NEW fd \in Fd
    PROVE  ft[t][fd] # NoFile => ft[t][fd] \in File
BY DEF Table

\* Another entry in one place changes that place only.
LEMMA OpensChange ==
    ASSUME NEW ft, NEW ft2, NEW t, NEW fd, Change(ft, ft2, t, fd), NEW i
    PROVE  /\ OpensOf(ft2, i) \ {<<t, fd>>} = OpensOf(ft, i) \ {<<t, fd>>}
           /\ <<t, fd>> \in OpensOf(ft, i) <=> (ft[t][fd] # NoFile /\ ft[t][fd].d = i)
           /\ <<t, fd>> \in OpensOf(ft2, i) <=> (ft2[t][fd] # NoFile /\ ft2[t][fd].d = i)
<1>1. t \in Task /\ fd \in Fd /\ <<t, fd>> \in Task \X Fd
  BY DEF Change
<1>2. ASSUME NEW o \in Task \X Fd, o # <<t, fd>> PROVE ft2[o[1]][o[2]] = ft[o[1]][o[2]]
  <2>1. o = <<o[1], o[2]>> /\ o[1] \in Task /\ o[2] \in Fd
    OBVIOUS
  <2> QED BY <1>2, <2>1 DEF Change
<1>3. <<t, fd>>[1] = t /\ <<t, fd>>[2] = fd
  OBVIOUS
<1>4. OpensOf(ft2, i) \ {<<t, fd>>} = OpensOf(ft, i) \ {<<t, fd>>}
  BY <1>2 DEF OpensOf
<1> QED BY <1>1, <1>3, <1>4 DEF OpensOf

\* A file is opened in a free place; a file stays the same dentry's.
LEMMA OpenedCounts ==
    ASSUME NEW ft, NEW ft2, NEW t, NEW fd, Change(ft, ft2, t, fd), NEW lo \in [Dentry -> Nat],
           ft[t][fd] = NoFile, ft2[t][fd] \in File
    PROVE  UsersOf(ft2, lo) = Plus(UsersOf(ft, lo), ft2[t][fd].d)
<1> DEFINE d == ft2[t][fd].d
<1>1. d \in Dentry /\ ft2[t][fd] # NoFile
  BY FileIsFile
<1>2. ASSUME NEW i \in Dentry
      PROVE  Cardinality(OpensOf(ft2, i)) = Cardinality(OpensOf(ft, i)) + (IF i = d THEN 1 ELSE 0)
  <2> DEFINE A == OpensOf(ft, i)
             B == OpensOf(ft2, i)
             o == <<t, fd>>
  <2>1. B \ {o} = A \ {o} /\ o \notin A /\ (o \in B <=> i = d) /\ IsFiniteSet(A) /\ Cardinality(A) \in Nat
    BY <1>1, OpensChange, OpensFinite
  <2> HIDE DEF A, B, o, d
  <2>2. CASE i = d
    <3>1. B = A \cup {o}
      BY <2>1, <2>2
    <3>2. Cardinality(B) = Cardinality(A) + 1
      BY <2>1, <3>1, FS_AddElement
    <3> QED BY <2>2, <3>2 DEF A, B
  <2>3. CASE i # d
    <3>1. B = A
      BY <2>1, <2>3
    <3>2. Cardinality(B) = Cardinality(A) + 0
      BY <2>1, <3>1
    <3> QED BY <2>3, <3>2 DEF A, B
  <2> QED BY <2>2, <2>3
<1> HIDE DEF d
<1>3. ASSUME NEW i \in Dentry PROVE UsersOf(ft2, lo)[i] = Plus(UsersOf(ft, lo), d)[i]
  <2>1. UsersOf(ft2, lo)[i] = Cardinality(OpensOf(ft2, i)) + lo[i]
        /\ UsersOf(ft, lo)[i] = Cardinality(OpensOf(ft, i)) + lo[i]
    BY DEF UsersOf
  <2>2. Cardinality(OpensOf(ft, i)) \in Nat /\ lo[i] \in Nat
    BY OpensFinite
  <2>3. Plus(UsersOf(ft, lo), d)[i] = UsersOf(ft, lo)[i] + (IF i = d THEN 1 ELSE 0)
    BY <1>1, UsersType DEF Plus
  <2> QED BY <1>2, <2>1, <2>2, <2>3
<1>4. UsersOf(ft2, lo) \in [Dentry -> Nat] /\ Plus(UsersOf(ft, lo), d) \in [Dentry -> Nat]
  BY <1>1, UsersType, PlusMinus
<1>5. UsersOf(ft2, lo) = Plus(UsersOf(ft, lo), d)
  BY <1>3, <1>4
<1> QED BY <1>5 DEF d

\* A file that is closed gives one use back.
LEMMA ClosedCounts ==
    ASSUME NEW ft, NEW ft2, NEW t, NEW fd, Change(ft, ft2, t, fd), NEW lo \in [Dentry -> Nat],
           ft2[t][fd] = NoFile, ft[t][fd] \in File
    PROVE  UsersOf(ft, lo) = Plus(UsersOf(ft2, lo), ft[t][fd].d)
<1>1. Change(ft2, ft, t, fd)
  BY DEF Change
<1> QED BY <1>1, OpenedCounts

\* A file that moves keeps its use.
LEMMA MovedCounts ==
    ASSUME NEW ft, NEW ft2, NEW t, NEW fd, Change(ft, ft2, t, fd), NEW lo,
           ft[t][fd] \in File, ft2[t][fd] \in File, ft2[t][fd].d = ft[t][fd].d
    PROVE  UsersOf(ft2, lo) = UsersOf(ft, lo)
<1>1. ft[t][fd] # NoFile /\ ft2[t][fd] # NoFile
  BY FileIsFile
<1>2. ASSUME NEW i PROVE OpensOf(ft2, i) = OpensOf(ft, i)
  <2> DEFINE A == OpensOf(ft, i)
             B == OpensOf(ft2, i)
             o == <<t, fd>>
  <2>1. B \ {o} = A \ {o} /\ (o \in A <=> o \in B)
    BY <1>1, OpensChange
  <2> HIDE DEF A, B, o
  <2>2. A = B
    BY <2>1
  <2> QED BY <2>2 DEF A, B
<1> QED BY <1>2 DEF UsersOf

\* The references of a task's files pass to nobody when it is killed.
Killed(ft, lo, t, ft2, lo2) ==
    /\ ft \in Table /\ lo \in [Dentry -> Nat] /\ t \in Task
    /\ ft2 = [ft EXCEPT ![t] = NoFiles]
    /\ lo2 = [d \in Dentry |-> lo[d] + Cardinality({o \in OpensOf(ft, d) : o[1] = t})]
\* A killed task's uses become lost ones: none disappears.
LEMMA KilledCounts ==
    ASSUME NEW ft, NEW lo, NEW t, NEW ft2, NEW lo2, Killed(ft, lo, t, ft2, lo2)
    PROVE  lo2 \in [Dentry -> Nat] /\ ft2 \in Table /\ UsersOf(ft2, lo2) = UsersOf(ft, lo)
<1> DEFINE mine(d) == {o \in OpensOf(ft, d) : o[1] = t}
           gone == [d \in Dentry |-> lo[d] + Cardinality(mine(d))]
<1>0. ft \in Table /\ lo \in [Dentry -> Nat] /\ t \in Task /\ ft2 = [ft EXCEPT ![t] = NoFiles] /\ lo2 = gone
  BY DEF Killed
<1>1. ft2 \in Table
  BY <1>0 DEF Table, NoFiles
<1>2. \A u \in Task : ft2[u] = IF u = t THEN NoFiles ELSE ft[u]
  BY <1>0 DEF Table
<1>3. \A g \in Fd : NoFiles[g] = NoFile
  BY DEF NoFiles
<1>4. ASSUME NEW d \in Dentry
      PROVE  /\ OpensOf(ft2, d) = OpensOf(ft, d) \ mine(d)
             /\ IsFiniteSet(mine(d)) /\ Cardinality(mine(d)) \in Nat
             /\ Cardinality(OpensOf(ft2, d)) = Cardinality(OpensOf(ft, d)) - Cardinality(mine(d))
  <2>1. OpensOf(ft2, d) = OpensOf(ft, d) \ mine(d)
    <3>1. ASSUME NEW o \in Task \X Fd
          PROVE  (ft2[o[1]][o[2]] # NoFile /\ ft2[o[1]][o[2]].d = d)
                 <=> (ft[o[1]][o[2]] # NoFile /\ ft[o[1]][o[2]].d = d /\ o[1] # t)
      <4>1. o[1] \in Task /\ o[2] \in Fd
        OBVIOUS
      <4> QED BY <1>2, <1>3, <4>1
    <3> QED BY <3>1 DEF OpensOf
  <2>2. mine(d) \in SUBSET OpensOf(ft, d) /\ OpensOf(ft, d) \cap mine(d) = mine(d)
    OBVIOUS
  <2>3. IsFiniteSet(OpensOf(ft, d))
    BY OpensFinite
  <2> HIDE DEF mine
  <2>4. IsFiniteSet(mine(d)) /\ Cardinality(OpensOf(ft, d) \ mine(d)) = Cardinality(OpensOf(ft, d)) - Cardinality(mine(d))
    <3> DEFINE A == OpensOf(ft, d)
               B == mine(d)
    <3>1. B \in SUBSET A /\ A \cap B = B /\ IsFiniteSet(A)
      BY <2>2, <2>3
    <3> HIDE DEF A, B
    <3>2. IsFiniteSet(B)
      BY <3>1, FS_Subset
    <3>3. Cardinality(A \ B) = Cardinality(A) - Cardinality(A \cap B)
      BY <3>1, FS_Difference
    <3>4. Cardinality(A \ B) = Cardinality(A) - Cardinality(B)
      BY <3>1, <3>3
    <3> QED BY <3>2, <3>4 DEF A, B
  <2> QED BY <2>1, <2>4, FS_CardinalityType
<1> HIDE DEF mine
<1>5. gone \in [Dentry -> Nat]
  BY <1>0, <1>4
<1>6. UsersOf(ft2, gone) = UsersOf(ft, lo)
  <2>1. ASSUME NEW d \in Dentry
        PROVE  Cardinality(OpensOf(ft2, d)) + gone[d] = Cardinality(OpensOf(ft, d)) + lo[d]
    <3>1. gone[d] = lo[d] + Cardinality(mine(d)) /\ lo[d] \in Nat
      BY <1>0
    <3>2. Cardinality(OpensOf(ft, d)) \in Nat
      BY OpensFinite
    <3> HIDE DEF gone
    <3> QED BY <1>4, <3>1, <3>2
  <2> HIDE DEF gone
  <2> QED BY <2>1 DEF UsersOf
<1> QED BY <1>0, <1>1, <1>5, <1>6

-----------------------------------------------------------------------------
(* The system calls. *)

\* A path stays a sequence of names.
LEMMA ResolveSeq ==
    ASSUME NEW S, NEW base \in Seq(S), NEW in, in.comps \in Seq(S)
    PROVE  vfs_resolve_path(base, in) \in Seq(S)
<1> DEFINE N == Len(in.comps)
           start == IF in.abs THEN <<>> ELSE base
<1>1. N \in Nat /\ \A k \in 1 .. N : in.comps[k] \in S
  OBVIOUS
<1> DEFINE Step(k, r) == CASE in.comps[k] = "." -> r
                         [] in.comps[k] = ".." -> IF r = <<>> THEN r ELSE SubSeq(r, 1, Len(r) - 1)
                         [] OTHER -> Append(r, in.comps[k])
           R(g) == [k \in 0 .. N |-> IF k = 0 THEN start ELSE Step(k, g[k - 1])]
           F == CHOOSE g : g = R(g)
           Runs(m, g) == g[0] = start /\ \A k \in 1 .. m : g[k] = Step(k, g[k - 1])
<1>2. vfs_resolve_path(base, in) = F[N]
  BY DEF vfs_resolve_path
<1>3. ASSUME NEW k \in 1 .. N, NEW r \in Seq(S) PROVE Step(k, r) \in Seq(S)
  <2>1. Append(r, in.comps[k]) \in Seq(S)
    BY <1>1
  <2>2. r # <<>> => SubSeq(r, 1, Len(r) - 1) \in Seq(S)
    OBVIOUS
  <2> DEFINE c == in.comps[k]
             y == SubSeq(r, 1, Len(r) - 1)
             z == Append(r, c)
  <2>3. Step(k, r) = CASE c = "." -> r [] c = ".." -> (IF r = <<>> THEN r ELSE y) [] OTHER -> z
    OBVIOUS
  <2> HIDE DEF y, z, c, Step
  <2>4. Step(k, r) = r \/ (r # <<>> /\ Step(k, r) = y) \/ Step(k, r) = z
    BY <2>3
  <2> QED BY <2>1, <2>2, <2>4 DEF y, z, c
<1>4. start \in Seq(S)
  OBVIOUS
<1> HIDE DEF N, start
<1> HIDE DEF Step
<1>5. F = R(F)
  <2> DEFINE T == {m \in 0 .. N : \E g : Runs(m, g)}
  <2>1. 0 \in T
    <3>1. Runs(0, [k \in 0 .. 0 |-> start])
      OBVIOUS
    <3>2. \E g : Runs(0, g)
      BY <3>1
    <3> HIDE DEF Runs
    <3> QED BY <3>2, <1>1
  <2>2. ASSUME NEW m \in 1 .. N, m - 1 \in T PROVE m \in T
    <3>1. PICK g : Runs(m - 1, g)
      BY <2>2
    <3> DEFINE h == [k \in 0 .. m |-> IF k = m THEN Step(m, g[m - 1]) ELSE g[k]]
    <3>2. h[0] = start
      BY <3>1
    <3>3. ASSUME NEW k \in 1 .. m PROVE h[k] = Step(k, h[k - 1])
      <4>1. k - 1 \in 0 .. m /\ k - 1 # m /\ k \in 0 .. m /\ (k # m => k \in 1 .. m - 1)
        OBVIOUS
      <4>2. h[k - 1] = g[k - 1]
        BY <4>1
      <4>3. CASE k = m
        BY <4>1, <4>2, <4>3
      <4>4. CASE k # m
        <5>1. h[k] = g[k]
          BY <4>1, <4>4
        <5> QED BY <3>1, <4>1, <4>2, <4>4, <5>1
      <4> QED BY <4>3, <4>4
    <3> HIDE DEF h
    <3>4. Runs(m, h)
      BY <3>2, <3>3
    <3>5. \E g1 : Runs(m, g1)
      BY <3>4
    <3> HIDE DEF Runs
    <3>6. m \in 0 .. N
      BY <1>1
    <3> QED BY <3>5, <3>6
  <2> HIDE DEF T
  <2>3. 0 .. N \subseteq T
    BY <2>1, <2>2, <1>1, IntervalInduction
  <2>4. N \in T
    BY <2>3, <1>1
  <2>5. PICK g : Runs(N, g)
    BY <2>4 DEF T
  <2> DEFINE u == [k \in 0 .. N |-> g[k]]
  <2>6. ASSUME NEW k \in 0 .. N PROVE u[k] = IF k = 0 THEN start ELSE Step(k, u[k - 1])
    <3>1. CASE k = 0
      BY <2>5, <3>1
    <3>2. CASE k # 0
      <4>1. k \in 1 .. N /\ k - 1 \in 0 .. N
        BY <3>2, <1>1
      <4>2. u[k] = g[k] /\ u[k - 1] = g[k - 1]
        BY <4>1
      <4> QED BY <2>5, <3>2, <4>1, <4>2
    <3> QED BY <3>1, <3>2
  <2>7. u = R(u)
    BY <2>6
  <2> HIDE DEF u
  <2>8. \E g1 : g1 = R(g1)
    BY <2>7
  <2> QED BY <2>8, Zenon
<1> HIDE DEF F
<1>6. F[0] = start /\ \A k \in 1 .. N : F[k] = Step(k, F[k - 1])
  <2>1. 0 \in 0 .. N /\ \A k \in 1 .. N : k \in 0 .. N /\ k # 0
    BY <1>1
  <2> QED BY <1>5, <2>1
<1>7. \A k \in 0 .. N : F[k] \in Seq(S)
  <2> DEFINE T == {k \in 0 .. N : F[k] \in Seq(S)}
  <2>1. 0 \in T
    BY <1>4, <1>6, <1>1
  <2>2. ASSUME NEW k \in 1 .. N, k - 1 \in T PROVE k \in T
    <3>1. k \in 0 .. N /\ F[k - 1] \in Seq(S)
      BY <2>2
    <3> QED BY <1>3, <1>6, <3>1
  <2> HIDE DEF T
  <2>3. 0 .. N \subseteq T
    BY <2>1, <2>2, <1>1, IntervalInduction
  <2> QED BY <2>3 DEF T
<1> QED BY <1>1, <1>2, <1>7

\* A table in which one file has moved.
Moved(ft, t, fd, v, ft2) ==
    /\ ft \in Table /\ t \in Task /\ fd \in Fd /\ ft[t][fd] # NoFile /\ v \in Nat
    /\ ft2 = [ft EXCEPT ![t][fd].offset = v]
\* A moved file is one in a table with the same uses.
LEMMA MoveTable ==
    ASSUME NEW ft, NEW ft2, NEW t, NEW fd, NEW v, Moved(ft, t, fd, v, ft2), NEW lo
    PROVE  ft2 \in Table /\ UsersOf(ft2, lo) = UsersOf(ft, lo)
<1> DEFINE f == ft[t][fd]
           f2 == [f EXCEPT !.offset = v]
<1>0. ft \in Table /\ t \in Task /\ fd \in Fd /\ ft[t][fd] # NoFile /\ v \in Nat
  BY DEF Moved
<1>1. f \in File
  BY <1>0, TableEntry
<1>2. f2 \in File /\ f2.d = f.d
  BY <1>0, <1>1 DEF File
<1>3. ft2 = [ft EXCEPT ![t] = [ft[t] EXCEPT ![fd] = f2]]
  BY DEF Moved
<1> HIDE DEF f2
<1>4. ft2 \in Table
  BY <1>0, <1>2, <1>3 DEF Table
<1>5. ft2[t][fd] = f2 /\ \A u \in Task, g \in Fd : <<u, g>> # <<t, fd>> => ft2[u][g] = ft[u][g]
  BY <1>0, <1>3 DEF Table
<1>6. Change(ft, ft2, t, fd)
  BY <1>0, <1>4, <1>5 DEF Change
<1>7. UsersOf(ft2, lo) = UsersOf(ft, lo)
  BY <1>1, <1>2, <1>5, <1>6, MovedCounts
<1> QED BY <1>4, <1>7

\* One entry of a table is set.
Set(ft, t, fd, x, ft2) ==
    /\ ft \in Table /\ t \in Task /\ fd \in Fd /\ x \in {NoFile} \cup File
    /\ ft2 = [ft EXCEPT ![t][fd] = x]
\* Setting one entry changes one entry.
LEMMA SetTable ==
    ASSUME NEW ft, NEW ft2, NEW t, NEW fd, NEW x, Set(ft, t, fd, x, ft2)
    PROVE  Change(ft, ft2, t, fd) /\ ft2[t][fd] = x
<1>0. /\ ft \in Table /\ t \in Task /\ fd \in Fd /\ x \in {NoFile} \cup File
      /\ ft2 = [ft EXCEPT ![t][fd] = x]
  BY DEF Set
<1>1. ft2 \in Table
  BY <1>0 DEF Table
<1>2. ft2[t][fd] = x /\ \A u \in Task, g \in Fd : <<u, g>> # <<t, fd>> => ft2[u][g] = ft[u][g]
  BY <1>0 DEF Table
<1> QED BY <1>0, <1>1, <1>2 DEF Change

\* task_close_all_fds gives back the reference of every file of the task.
LEMMA CloseAllGood ==
    ASSUME NEW s, NEW t \in Task, fd_table \in Table, lost \in [Dentry -> Nat], Good(s, UsersOf(fd_table, lost))
    PROVE  /\ Good(task_close_all_fds(s, t), UsersOf([fd_table EXCEPT ![t] = NoFiles], lost))
           /\ [fd_table EXCEPT ![t] = NoFiles] \in Table
<1> DEFINE N == TASK_MAX_FDS
           Tab(k) == [fd_table EXCEPT ![t] = [g \in Fd |-> IF g <= k THEN NoFile ELSE fd_table[t][g]]]
<1>1. N \in Nat
  BY FilesAssumption
<1> DEFINE Step(k, r) == IF Open(t, k) THEN vfs_close(r, FileAt(t, k)) ELSE r
           R(g) == [k \in 0 .. N |-> IF k = 0 THEN s ELSE Step(k, g[k - 1])]
           F == CHOOSE g : g = R(g)
           Runs(m, g) == g[0] = s /\ \A k \in 1 .. m : g[k] = Step(k, g[k - 1])
<1>2. task_close_all_fds(s, t) = F[N]
  BY DEF task_close_all_fds
<1>3. ASSUME NEW k \in Int
      PROVE  /\ Tab(k) \in Table
             /\ \A u \in Task, g \in Fd :
                   Tab(k)[u][g] = IF u = t /\ g <= k THEN NoFile ELSE fd_table[u][g]
  BY DEF Table
<1> HIDE DEF Tab
<1>4. ASSUME NEW k \in 1 .. N, NEW r, Good(r, UsersOf(Tab(k - 1), lost)) PROVE Good(Step(k, r), UsersOf(Tab(k), lost))
  <2>1. k \in Int /\ k - 1 \in Int /\ k \in Fd
    BY DEF Fd
  <2>2. Change(Tab(k - 1), Tab(k), t, k) /\ Tab(k)[t][k] = NoFile /\ Tab(k - 1)[t][k] = fd_table[t][k]
    <3>1. Tab(k) \in Table /\ Tab(k - 1) \in Table
      BY <1>3, <2>1
    <3>2. /\ \A u \in Task, g \in Fd : Tab(k)[u][g] = IF u = t /\ g <= k THEN NoFile ELSE fd_table[u][g]
          /\ \A u \in Task, g \in Fd : Tab(k - 1)[u][g] = IF u = t /\ g <= k - 1 THEN NoFile ELSE fd_table[u][g]
      BY <1>3, <2>1
    <3>3. ASSUME NEW u \in Task, NEW g \in Fd, <<u, g>> # <<t, k>> PROVE Tab(k)[u][g] = Tab(k - 1)[u][g]
      <4>1. u # t \/ g # k
        BY <3>3
      <4>2. g \in Int
        BY DEF Fd
      <4>3. CASE u # t
        BY <3>2, <4>3
      <4>4. CASE u = t /\ g # k
        <5>1. g <= k <=> g <= k - 1
          BY <4>2, <4>4
        <5> QED BY <3>2, <4>4, <5>1
      <4> QED BY <4>1, <4>3, <4>4
    <3>4. Tab(k)[t][k] = NoFile
      BY <2>1, <3>2
    <3>5. Tab(k - 1)[t][k] = fd_table[t][k]
      BY <2>1, <3>2
    <3> QED BY <2>1, <3>1, <3>3, <3>4, <3>5 DEF Change
  <2>3. CASE fd_table[t][k] = NoFile
    <3>1. Step(k, r) = r
      BY <2>3 DEF Open
    <3>2. Tab(k) = Tab(k - 1)
      <4>1. Tab(k) \in Table /\ Tab(k - 1) \in Table
        BY <2>2 DEF Change
      <4>2. ASSUME NEW u \in Task, NEW g \in Fd PROVE Tab(k)[u][g] = Tab(k - 1)[u][g]
        <5>1. CASE <<u, g>> = <<t, k>>
          <6>1. u = t /\ g = k
            BY <5>1
          <6> QED BY <2>2, <2>3, <6>1
        <5>2. CASE <<u, g>> # <<t, k>>
          BY <2>2, <5>2 DEF Change
        <5> QED BY <5>1, <5>2
      <4>3. ASSUME NEW u \in Task PROVE Tab(k)[u] = Tab(k - 1)[u]
        <5>1. Tab(k)[u] \in [Fd -> {NoFile} \cup File] /\ Tab(k - 1)[u] \in [Fd -> {NoFile} \cup File]
          BY <4>1 DEF Table
        <5> QED BY <4>2, <5>1
      <4> QED BY <4>1, <4>3 DEF Table
    <3> HIDE DEF Step
    <3> QED BY <1>4, <3>1, <3>2
  <2>4. CASE fd_table[t][k] # NoFile
    <3> DEFINE d == fd_table[t][k].d
    <3>1. Step(k, r) = dentry_put(r, d)
      BY <2>4 DEF Open, FileAt, vfs_close
    <3>2. fd_table[t][k] \in File /\ d \in Dentry
      BY <2>1, <2>4, TableEntry, FileIsFile
    <3>3. UsersOf(Tab(k - 1), lost) = Plus(UsersOf(Tab(k), lost), d)
      BY <2>2, <3>2, ClosedCounts
    <3> HIDE DEF Step, d
    <3>4. UsersOf(Tab(k), lost) \in [Dentry -> Nat]
      BY UsersType
    <3>5. Good(r, Plus(UsersOf(Tab(k), lost), d))
      BY <1>4, <3>3
    <3>6. Good(dentry_put(r, d), UsersOf(Tab(k), lost))
      BY <3>2, <3>4, <3>5, PutBack
    <3> QED BY <3>1, <3>6
  <2> QED BY <2>3, <2>4
<1> HIDE DEF Step
<1>5. F = R(F)
  <2> DEFINE T == {m \in 0 .. N : \E g : Runs(m, g)}
  <2>1. 0 \in T
    <3>1. Runs(0, [k \in 0 .. 0 |-> s])
      OBVIOUS
    <3>2. \E g : Runs(0, g)
      BY <3>1
    <3> HIDE DEF Runs
    <3> QED BY <3>2, <1>1
  <2>2. ASSUME NEW m \in 1 .. N, m - 1 \in T PROVE m \in T
    <3>1. PICK g : Runs(m - 1, g)
      BY <2>2
    <3> DEFINE h == [k \in 0 .. m |-> IF k = m THEN Step(m, g[m - 1]) ELSE g[k]]
    <3>2. h[0] = s
      BY <3>1
    <3>3. ASSUME NEW k \in 1 .. m PROVE h[k] = Step(k, h[k - 1])
      <4>1. k - 1 \in 0 .. m /\ k - 1 # m /\ k \in 0 .. m /\ (k # m => k \in 1 .. m - 1)
        OBVIOUS
      <4>2. h[k - 1] = g[k - 1]
        BY <4>1
      <4>3. CASE k = m
        BY <4>1, <4>2, <4>3
      <4>4. CASE k # m
        <5>1. h[k] = g[k]
          BY <4>1, <4>4
        <5> QED BY <3>1, <4>1, <4>2, <4>4, <5>1
      <4> QED BY <4>3, <4>4
    <3> HIDE DEF h
    <3>4. Runs(m, h)
      BY <3>2, <3>3
    <3>5. \E g1 : Runs(m, g1)
      BY <3>4
    <3> HIDE DEF Runs
    <3>6. m \in 0 .. N
      BY <1>1
    <3> QED BY <3>5, <3>6
  <2> HIDE DEF T
  <2>3. 0 .. N \subseteq T
    BY <2>1, <2>2, <1>1, IntervalInduction
  <2>4. N \in T
    BY <2>3, <1>1
  <2>5. PICK g : Runs(N, g)
    BY <2>4 DEF T
  <2> DEFINE u == [k \in 0 .. N |-> g[k]]
  <2>6. ASSUME NEW k \in 0 .. N PROVE u[k] = IF k = 0 THEN s ELSE Step(k, u[k - 1])
    <3>1. CASE k = 0
      BY <2>5, <3>1
    <3>2. CASE k # 0
      <4>1. k \in 1 .. N /\ k - 1 \in 0 .. N
        BY <3>2, <1>1
      <4>2. u[k] = g[k] /\ u[k - 1] = g[k - 1]
        BY <4>1
      <4> QED BY <2>5, <3>2, <4>1, <4>2
    <3> QED BY <3>1, <3>2
  <2>7. u = R(u)
    BY <2>6
  <2> HIDE DEF u
  <2>8. \E g1 : g1 = R(g1)
    BY <2>7
  <2> QED BY <2>8, Zenon
<1> HIDE DEF F
<1>6. F[0] = s /\ \A k \in 1 .. N : F[k] = Step(k, F[k - 1])
  <2>1. 0 \in 0 .. N /\ \A k \in 1 .. N : k \in 0 .. N /\ k # 0
    BY <1>1
  <2> QED BY <1>5, <2>1
<1>7. Tab(0) = fd_table /\ Tab(N) = [fd_table EXCEPT ![t] = NoFiles]
  <2>1. [g \in Fd |-> IF g <= 0 THEN NoFile ELSE fd_table[t][g]] = fd_table[t]
    <3>1. \A g \in Fd : ~(g <= 0)
      BY DEF Fd
    <3> QED BY <3>1 DEF Table
  <2>2. [g \in Fd |-> IF g <= N THEN NoFile ELSE fd_table[t][g]] = NoFiles
    <3>1. \A g \in Fd : g <= N
      BY <1>1 DEF Fd
    <3> QED BY <3>1 DEF NoFiles
  <2>3. [fd_table EXCEPT ![t] = fd_table[t]] = fd_table
    BY DEF Table
  <2> QED BY <2>1, <2>2, <2>3 DEF Tab
<1> DEFINE T == {k \in 0 .. N : Good(F[k], UsersOf(Tab(k), lost))}
<1>8. 0 \in T
  BY <1>1, <1>6, <1>7
<1>9. ASSUME NEW k \in 1 .. N, k - 1 \in T PROVE k \in T
  <2>1. k \in 0 .. N /\ Good(F[k - 1], UsersOf(Tab(k - 1), lost))
    BY <1>9
  <2>2. Good(Step(k, F[k - 1]), UsersOf(Tab(k), lost)) /\ F[k] = Step(k, F[k - 1])
    BY <1>4, <1>6, <2>1
  <2> QED BY <2>1, <2>2
<1> HIDE DEF T
<1>10. 0 .. N \subseteq T
  BY <1>1, <1>8, <1>9, IntervalInduction
<1>11. Good(F[N], UsersOf(Tab(N), lost))
  <2>1. N \in T
    BY <1>1, <1>10
  <2> QED BY <2>1 DEF T
<1>12. Tab(N) \in Table
  BY <1>1, <1>3
<1> QED BY <1>2, <1>7, <1>11, <1>12

-----------------------------------------------------------------------------
(* Between two system calls. *)

PathName == Name \cup DotNames

\* The inductive invariant: volume, tables and paths are what they should be,
\* the dentries are a tree, and every count is exact.
FilesInv ==
    /\ VolTyped(vol) /\ DentTyped(dent) /\ TreeOk(dent)
    /\ fd_table \in Table /\ lost \in [Dentry -> Nat] /\ cwd \in [Task -> Seq(PathName)]
    /\ CountOk(dent, UsersOf(fd_table, lost))

\* A call starts from the state the last one left, with any fuse.
LEMMA EnterGood ==
    ASSUME FilesInv, NEW f
    PROVE  /\ Good(Enter(f), UsersOf(fd_table, lost)) /\ Enter(f).ok
           /\ Enter(f).dent = dent /\ CallState(Enter(f))
<1> DEFINE e == Enter(f)
<1>1. DOMAIN e = CallFields /\ e.vol = vol /\ e.dent = dent /\ e.ok = TRUE /\ e.done = 0 /\ e.buf = <<>>
  BY DEF Enter, CallFields
<1>2. IsSequence(<<>>)
  <2>1. <<>> \in Seq({})
    OBVIOUS
  <2> QED BY <2>1 DEF IsSequence
<1> HIDE DEF e
<1>3. CallState(e)
  BY <1>1, <1>2 DEF CallState, FilesInv
<1>4. UsersOf(fd_table, lost) \in [Dentry -> Nat]
  BY UsersType DEF FilesInv
<1>5. Good(e, UsersOf(fd_table, lost))
  BY <1>1, <1>3, <1>4 DEF Good, FilesInv
<1> QED BY <1>1, <1>3, <1>5 DEF e

\* A call that returns with exact counts leaves the invariant.
LEMMA ReturnInv ==
    ASSUME NEW r, Return(r), Good(r, UsersOf(fd_table', lost')),
           fd_table' \in Table, lost' \in [Dentry -> Nat], cwd' \in [Task -> Seq(PathName)]
    PROVE  FilesInv'
<1>1. vol' = r.vol /\ dent' = r.dent
  BY DEF Return
<1>2. VolTyped(vol') /\ DentTyped(dent') /\ TreeOk(dent') /\ CountOk(dent', UsersOf(fd_table', lost'))
  BY <1>1 DEF Good, CallState
<1> QED BY <1>2 DEF FilesInv

\* The path a call works on is a sequence of names.
LEMMA AbsSeq ==
    ASSUME FilesInv, NEW t \in Task, NEW in \in PathIn
    PROVE  Abs(t, in) \in Seq(PathName) /\ IsSequence(Abs(t, in))
<1>1. cwd[t] \in Seq(PathName) /\ in.comps \in Seq(PathName)
  BY FilesAssumption DEF FilesInv, PathName
<1>2. vfs_resolve_path(cwd[t], in) \in Seq(PathName)
  BY <1>1, ResolveSeq
<1> QED BY <1>2 DEF Abs, IsSequence

\* A call that leaves the tables alone.
LEMMA CallKeeps ==
    ASSUME FilesInv, NEW r, Return(r), Good(r, UsersOf(fd_table, lost)),
           UNCHANGED fd_table, UNCHANGED lost, cwd' \in [Task -> Seq(PathName)]
    PROVE  FilesInv'
BY ReturnInv DEF FilesInv

\* An open file holds its dentry.
LEMMA OpenIsLive ==
    ASSUME FilesInv, NEW t \in Task, NEW fd \in Fd, Open(t, fd), NEW s, Good(s, UsersOf(fd_table, lost))
    PROVE  FileAt(t, fd) \in File /\ FileAt(t, fd).d \in Dentry /\ Live(s, FileAt(t, fd).d)
<1> DEFINE x == fd_table[t][fd]
           d == x.d
           ft2 == [fd_table EXCEPT ![t][fd] = NoFile]
<1>1. fd_table \in Table /\ lost \in [Dentry -> Nat] /\ x # NoFile
  BY DEF FilesInv, Open
<1>2. x \in File /\ d \in Dentry
  BY <1>1, TableEntry, FileIsFile
<1>3. Change(fd_table, ft2, t, fd) /\ ft2[t][fd] = NoFile
  <2>1. Set(fd_table, t, fd, NoFile, ft2)
    BY <1>1 DEF Set
  <2> HIDE DEF ft2
  <2> QED BY <2>1, SetTable
<1> HIDE DEF ft2
<1>4. UsersOf(fd_table, lost) = Plus(UsersOf(ft2, lost), d)
  BY <1>1, <1>2, <1>3, ClosedCounts
<1>5. UsersOf(ft2, lost) \in [Dentry -> Nat]
  BY <1>1, UsersType
<1>6. UsersOf(fd_table, lost)[d] >= 1
  BY <1>2, <1>4, <1>5, PlusMinus
<1>7. Live(s, d)
  BY <1>2, <1>6, GoodLive
<1> QED BY <1>2, <1>7 DEF FileAt

\* A call that moves one file.
LEMMA CallMoves ==
    ASSUME FilesInv, NEW t, NEW fd, NEW v, Moved(fd_table, t, fd, v, fd_table'), UNCHANGED <<cwd, lost>>,
           NEW r, Return(r), Good(r, UsersOf(fd_table, lost))
    PROVE  FilesInv'
<1>1. lost \in [Dentry -> Nat] /\ cwd \in [Task -> Seq(PathName)]
  BY DEF FilesInv
<1>2. fd_table' \in Table /\ UsersOf(fd_table', lost) = UsersOf(fd_table, lost)
  BY MoveTable
<1> QED BY <1>1, <1>2, ReturnInv

\* Every system call keeps the invariant.
LEMMA OpenKeeps ==
    ASSUME FilesInv, NEW t \in Task, NEW in \in PathIn, NEW flags, sys_open(t, in, flags)
    PROVE  FilesInv'
<1> DEFINE free == {fd \in Fd : ~Open(t, fd)}
           H == UsersOf(fd_table, lost)
           path == Abs(t, in)
<1>1. PICK f \in Fault :
        LET r == vfs_open(Enter(f), path, flags)
        IN  IF r.ok /\ free # {}
            THEN /\ Return(r)
                 /\ fd_table' = [fd_table EXCEPT ![t][Least(free)] =
                                    [d |-> r.d, offset |-> 0, append |-> "append" \in flags]]
            ELSE /\ Return(IF r.ok THEN dentry_put(r, r.d) ELSE r)
                 /\ UNCHANGED fd_table
  BY DEF sys_open
<1>2. UNCHANGED <<cwd, lost>>
  BY DEF sys_open
<1> DEFINE r == vfs_open(Enter(f), path, flags)
<1>3. /\ r.ok => r.d \in Dentry /\ Good(r, Plus(H, r.d))
      /\ ~r.ok => Good(r, H)
  BY EnterGood, AbsSeq, OpenGood
<1>4. fd_table \in Table /\ lost \in [Dentry -> Nat] /\ cwd \in [Task -> Seq(PathName)] /\ H \in [Dentry -> Nat]
  BY UsersType DEF FilesInv
<1> HIDE DEF r, path
<1>5. CASE r.ok /\ free # {}
  <2> DEFINE fd == Least(free)
             x == [d |-> r.d, offset |-> 0, append |-> "append" \in flags]
             ft2 == [fd_table EXCEPT ![t][fd] = x]
  <2>1. fd \in Fd /\ fd_table[t][fd] = NoFile
    <3>1. free \in SUBSET Nat
      BY FilesAssumption DEF Fd
    <3>2. fd \in free
      BY <1>5, <3>1, LeastIn
    <3> QED BY <3>2 DEF Open
  <2>2. x \in File /\ x.d = r.d
    BY <1>3, <1>5 DEF File
  <2>3. Return(r) /\ fd_table' = ft2
    BY <1>1, <1>5 DEF r
  <2> HIDE DEF fd, x, free
  <2>4. Change(fd_table, ft2, t, fd) /\ ft2[t][fd] = x
    <3>1. Set(fd_table, t, fd, x, ft2)
      BY <1>4, <2>1, <2>2 DEF Set
    <3> HIDE DEF ft2
    <3> QED BY <3>1, SetTable
  <2> HIDE DEF ft2
  <2>5. UsersOf(ft2, lost) = Plus(H, r.d) /\ ft2 \in Table
    <3>1. ft2[t][fd] \in File /\ ft2[t][fd].d = r.d
      BY <2>2, <2>4
    <3>2. UsersOf(ft2, lost) = Plus(UsersOf(fd_table, lost), ft2[t][fd].d)
      BY <1>4, <2>1, <2>4, <3>1, OpenedCounts
    <3>3. ft2 \in Table
      BY <2>4 DEF Change
    <3> QED BY <3>1, <3>2, <3>3
  <2> HIDE DEF H
  <2>6. Good(r, UsersOf(fd_table', lost'))
    BY <1>2, <1>3, <1>5, <2>3, <2>5
  <2> QED BY <1>2, <1>4, <2>3, <2>5, <2>6, ReturnInv
<1>6. CASE ~(r.ok /\ free # {})
  <2> DEFINE q == IF r.ok THEN dentry_put(r, r.d) ELSE r
  <2>1. Return(q) /\ UNCHANGED fd_table
    BY <1>1, <1>6 DEF r
  <2> HIDE DEF H
  <2>2. r.ok => Good(dentry_put(r, r.d), H)
    BY <1>3, <1>4, PutBack
  <2>3. Good(q, H)
    BY <1>3, <2>2
  <2> HIDE DEF q
  <2> QED BY <1>2, <1>4, <2>1, <2>3, CallKeeps DEF H
<1> QED BY <1>5, <1>6

\* sys_close.
LEMMA CloseKeeps ==
    ASSUME FilesInv, NEW t \in Task, NEW fd \in Fd, sys_close(t, fd)
    PROVE  FilesInv'
<1> DEFINE d == FileAt(t, fd).d
           e == Enter(NoFault)
           ft2 == [fd_table EXCEPT ![t][fd] = NoFile]
           H == UsersOf(ft2, lost)
<1>1. Open(t, fd) /\ Return(dentry_put(e, d)) /\ fd_table' = ft2 /\ UNCHANGED <<cwd, lost>>
  BY DEF sys_close, vfs_close
<1>2. Good(e, UsersOf(fd_table, lost))
  BY EnterGood
<1> HIDE DEF e
<1>3. FileAt(t, fd) \in File /\ d \in Dentry
  BY <1>1, <1>2, OpenIsLive
<1>4. fd_table \in Table /\ lost \in [Dentry -> Nat] /\ cwd \in [Task -> Seq(PathName)]
  BY DEF FilesInv
<1>5. Change(fd_table, ft2, t, fd) /\ ft2[t][fd] = NoFile
  <2>1. Set(fd_table, t, fd, NoFile, ft2)
    BY <1>4 DEF Set
  <2> HIDE DEF ft2
  <2> QED BY <2>1, SetTable
<1> HIDE DEF ft2
<1>6. UsersOf(fd_table, lost) = Plus(H, d) /\ ft2 \in Table /\ H \in [Dentry -> Nat]
  <2>1. fd_table[t][fd] \in File /\ d = fd_table[t][fd].d
    BY <1>3 DEF FileAt
  <2> HIDE DEF d
  <2>2. UsersOf(fd_table, lost) = Plus(H, d)
    BY <1>4, <1>5, <2>1, ClosedCounts
  <2> QED BY <1>4, <1>5, <2>2, UsersType DEF Change
<1> HIDE DEF d
<1>7. Good(dentry_put(e, d), H)
  BY <1>2, <1>3, <1>6, PutBack
<1> QED BY <1>1, <1>4, <1>6, <1>7, ReturnInv

\* sys_lseek.
LEMMA SeekKeeps ==
    ASSUME FilesInv, NEW t \in Task, NEW fd \in Fd, NEW pos \in 0 .. MaxOffset, sys_lseek(t, fd, pos)
    PROVE  FilesInv'
<1>1. Open(t, fd) /\ fd_table' = [fd_table EXCEPT ![t][fd].offset = pos] /\ UNCHANGED <<vol, dent, cwd, lost>>
  BY DEF sys_lseek
<1>2. Moved(fd_table, t, fd, pos, fd_table')
  BY <1>1, FilesAssumption DEF FilesInv, Open, Moved
<1>3. fd_table' \in Table /\ UsersOf(fd_table', lost) = UsersOf(fd_table, lost)
  BY <1>2, MoveTable
<1> QED BY <1>1, <1>3 DEF FilesInv

\* sys_read.
LEMMA ReadKeeps ==
    ASSUME FilesInv, NEW t \in Task, NEW fd \in Fd, NEW count \in 1 .. MaxOffset, sys_read(t, fd, count)
    PROVE  FilesInv'
<1> DEFINE x == FileAt(t, fd)
           r(f) == fat16_read(Enter(f), x.d, count, x.offset)
           H == UsersOf(fd_table, lost)
<1>1. PICK f \in Fault :
        /\ Return(r(f))
        /\ fd_table' = [fd_table EXCEPT ![t][fd].offset = @ + IF r(f).ok THEN Len(r(f).buf) ELSE 0]
  BY DEF sys_read
<1>2. Open(t, fd) /\ UNCHANGED <<cwd, lost>>
  BY DEF sys_read
<1> DEFINE e == Enter(f)
<1>3. Good(e, H) /\ CallState(e)
  BY EnterGood
<1> HIDE DEF e
<1>4. x \in File /\ Live(e, x.d)
  BY <1>2, <1>3, OpenIsLive
<1>5. x.offset \in Nat /\ count \in Nat
  BY <1>4, FilesAssumption DEF File
<1> HIDE DEF H
<1> DEFINE q == fat16_read(e, x.d, count, x.offset)
<1>6. Kin(e, q)
  <2> HIDE DEF x
  <2> QED BY <1>3, <1>4, <1>5, ReadKin
<1>7. Return(q) /\ fd_table' = [fd_table EXCEPT ![t][fd].offset = x.offset + (IF q.ok THEN Len(q.buf) ELSE 0)]
  BY <1>1 DEF e, FileAt
<1> HIDE DEF q, x
<1>8. Good(q, H) /\ Len(q.buf) \in Nat
  BY <1>3, <1>6, GoodAkin, KinLive, SequencesJoin DEF Kin, CallState
<1> DEFINE v == x.offset + (IF q.ok THEN Len(q.buf) ELSE 0)
<1>9. v \in Nat
  BY <1>5, <1>8
<1>10. fd_table' = [fd_table EXCEPT ![t][fd].offset = v]
  BY <1>7
<1> HIDE DEF v
<1>11. Moved(fd_table, t, fd, v, fd_table')
  BY <1>2, <1>9, <1>10 DEF Moved, FilesInv, Open
<1> QED BY <1>2, <1>7, <1>8, <1>11, CallMoves DEF H

\* sys_write.
LEMMA WriteKeeps ==
    ASSUME FilesInv, NEW t \in Task, NEW fd \in Fd, NEW buf \in Written, sys_write(t, fd, buf)
    PROVE  FilesInv'
<1> DEFINE x == FileAt(t, fd)
           at == IF x.append THEN dent[x.d].ent.size ELSE x.offset
           H == UsersOf(fd_table, lost)
<1>1. PICK f \in Fault :
        /\ Return(vfs_write(Enter(f), x, buf))
        /\ fd_table' = [fd_table EXCEPT ![t][fd].offset =
                           at + IF vfs_write(Enter(f), x, buf).ok THEN vfs_write(Enter(f), x, buf).done ELSE 0]
  BY DEF sys_write
<1>2. Open(t, fd) /\ UNCHANGED <<cwd, lost>>
  BY DEF sys_write
<1> DEFINE e == Enter(f)
           q == vfs_write(e, x, buf)
           v1 == e.hurt \/ ~e.dent[x.d].cached
           e1 == [e EXCEPT !.hurt = v1]
<1>3. Good(e, H) /\ CallState(e) /\ e.dent = dent
  BY EnterGood
<1>7. Return(q) /\ fd_table' = [fd_table EXCEPT ![t][fd].offset = at + (IF q.ok THEN q.done ELSE 0)]
  BY <1>1
<1> HIDE DEF e
<1>4. x \in File /\ Live(e, x.d)
  BY <1>2, <1>3, OpenIsLive
<1>5. at \in Nat
  <2>1. x.offset \in Nat
    BY <1>4 DEF File
  <2>2. dent[x.d].ent.size \in Nat
    BY <1>3, <1>4, EntryKept DEF HasSize
  <2> QED BY <2>1, <2>2
<1>6. q = fat16_write(e1, x.d, buf, at)
  BY <1>3 DEF vfs_write, ent_of
<1> HIDE DEF q, x, at, H
<1>8. Kin(e, e1)
  BY <1>3, FieldKin
<1> HIDE DEF e1
<1>9. IsSequence(buf)
  BY FilesAssumption DEF IsSequence
<1>10. Akin(e1, q)
  BY <1>4, <1>5, <1>6, <1>8, <1>9, KinLive, WriteAkin
<1>11. Akin(e, q)
  BY <1>8, <1>10, KinLive, AkinTrans
<1>12. Good(q, H) /\ q.done \in Nat
  BY <1>3, <1>11, GoodAkin DEF Akin, CallState
<1> DEFINE v == at + (IF q.ok THEN q.done ELSE 0)
<1>13. v \in Nat /\ fd_table' = [fd_table EXCEPT ![t][fd].offset = v]
  BY <1>5, <1>7, <1>12
<1> HIDE DEF v
<1>14. Moved(fd_table, t, fd, v, fd_table')
  BY <1>2, <1>13 DEF Moved, FilesInv, Open
<1> QED BY <1>2, <1>7, <1>12, <1>14, CallMoves DEF H

\* sys_readdir.
LEMMA ReaddirKeeps ==
    ASSUME FilesInv, NEW t \in Task, NEW fd \in Fd, NEW max, sys_readdir(t, fd, max)
    PROVE  FilesInv'
<1> DEFINE x == FileAt(t, fd)
           H == UsersOf(fd_table, lost)
<1>1. PICK f \in Fault :
        /\ Return(fat16_readdir(Enter(f), x.d, x.offset, max))
        /\ fd_table' = [fd_table EXCEPT ![t][fd].offset = fat16_readdir(Enter(f), x.d, x.offset, max).done]
  BY DEF sys_readdir
<1>2. Open(t, fd) /\ UNCHANGED <<cwd, lost>>
  BY DEF sys_readdir
<1> DEFINE e == Enter(f)
           q == fat16_readdir(e, x.d, x.offset, max)
<1>3. Good(e, H) /\ CallState(e) /\ e.ok
  BY EnterGood
<1>4. Return(q) /\ fd_table' = [fd_table EXCEPT ![t][fd].offset = q.done]
  BY <1>1
<1> HIDE DEF e
<1>5. x \in File
  BY <1>2, <1>3, OpenIsLive
<1>6. x.offset \in Nat
  BY <1>5 DEF File
<1>7. Akin(e, q)
  BY <1>3, <1>6, ReaddirAkin
<1> HIDE DEF q, x, H
<1>8. Good(q, H) /\ q.done \in Nat
  BY <1>3, <1>7, GoodAkin DEF Akin, CallState
<1>9. Moved(fd_table, t, fd, q.done, fd_table')
  BY <1>2, <1>4, <1>8 DEF Moved, FilesInv, Open
<1> QED BY <1>2, <1>4, <1>8, <1>9, CallMoves DEF H

\* sys_chdir.
LEMMA ChdirKeeps ==
    ASSUME FilesInv, NEW t \in Task, NEW in \in PathIn, sys_chdir(t, in)
    PROVE  FilesInv'
<1> DEFINE path == Abs(t, in)
           H == UsersOf(fd_table, lost)
<1>1. PICK f \in Fault :
        LET r == vfs_path_lookup(Enter(f), path)
        IN  /\ Return(IF r.ok THEN dentry_put(r, r.d) ELSE r)
            /\ cwd' = [cwd EXCEPT ![t] = IF r.ok /\ ent_of(r, r.d).dir THEN path ELSE @]
  BY DEF sys_chdir
<1>2. UNCHANGED <<fd_table, lost>>
  BY DEF sys_chdir
<1> DEFINE r == vfs_path_lookup(Enter(f), path)
           q == IF r.ok THEN dentry_put(r, r.d) ELSE r
<1>3. Held(r, H) /\ path \in Seq(PathName)
  BY EnterGood, AbsSeq, FullGood
<1>4. H \in [Dentry -> Nat] /\ cwd \in [Task -> Seq(PathName)]
  BY UsersType DEF FilesInv
<1>5. Return(q) /\ cwd' = [cwd EXCEPT ![t] = IF r.ok /\ ent_of(r, r.d).dir THEN path ELSE cwd[t]]
  BY <1>1
<1> HIDE DEF r, path, H
<1>6. cwd' \in [Task -> Seq(PathName)]
  BY <1>3, <1>4, <1>5
<1>7. Good(q, H)
  BY <1>3, <1>4, HeldPut DEF Held
<1> HIDE DEF q
<1> QED BY <1>2, <1>5, <1>6, <1>7, CallKeeps DEF H

\* sys_mkdir, sys_unlink and sys_rmdir.
LEMMA PathCallsKeep ==
    ASSUME FilesInv, NEW t \in Task, NEW in \in PathIn, NEW want_dir,
           sys_mkdir(t, in) \/ sys_unlink(t, in, want_dir)
    PROVE  FilesInv'
<1> DEFINE path == Abs(t, in)
           H == UsersOf(fd_table, lost)
<1>1. /\ UNCHANGED <<fd_table, cwd, lost>>
      /\ \E f \in Fault : \/ Return(MkdirCall(Enter(f), path))
                          \/ Return(UnlinkCall(Enter(f), path, want_dir))
  BY DEF sys_mkdir, sys_unlink, MkdirCall, UnlinkCall
<1>2. PICK f \in Fault : \/ Return(MkdirCall(Enter(f), path))
                         \/ Return(UnlinkCall(Enter(f), path, want_dir))
  BY <1>1
<1> DEFINE e == Enter(f)
<1>3. Good(e, H) /\ e.ok /\ IsSequence(path)
  BY EnterGood, AbsSeq
<1>4. cwd' \in [Task -> Seq(PathName)]
  BY <1>1 DEF FilesInv
<1> HIDE DEF e, path, H
<1>5. Good(MkdirCall(e, path), H) /\ Good(UnlinkCall(e, path, want_dir), H)
  BY <1>3, MkdirGood, UnlinkGood
<1>6. PICK q : Return(q) /\ Good(q, H)
  BY <1>2, <1>5 DEF e
<1> QED BY <1>1, <1>4, <1>6, CallKeeps DEF H

\* sys_spawn: the child starts in the directory of its parent.
LEMMA SpawnKeeps ==
    ASSUME FilesInv, NEW t \in Task, NEW in \in PathIn, sys_spawn(t, in)
    PROVE  FilesInv'
<1> DEFINE path == Abs(t, in)
           H == UsersOf(fd_table, lost)
           Elf == [valid : BOOLEAN, len : 0 .. MaxOffset]
<1>1. PICK f \in Fault, elf \in Elf, child \in Task :
        /\ Return(spawn(Enter(f), path, elf))
        /\ cwd' = IF spawn(Enter(f), path, elf).ok THEN [cwd EXCEPT ![child] = cwd[t]] ELSE cwd
        /\ UNCHANGED <<fd_table, lost>>
  BY DEF sys_spawn
<1> DEFINE e == Enter(f)
           q == spawn(e, path, elf)
<1>2. Good(e, H) /\ e.ok /\ IsSequence(path)
  BY EnterGood, AbsSeq
<1>3. elf.len \in Nat
  BY FilesAssumption
<1>4. cwd' \in [Task -> Seq(PathName)]
  BY <1>1 DEF FilesInv
<1>5. Return(q) /\ UNCHANGED <<fd_table, lost>>
  BY <1>1
<1> HIDE DEF e, path, H
<1>6. Good(q, H)
  BY <1>2, <1>3, SpawnGood
<1> HIDE DEF q
<1> QED BY <1>4, <1>5, <1>6, CallKeeps DEF H

\* sys_exit closes every file of the task.
LEMMA ExitKeeps ==
    ASSUME FilesInv, NEW t \in Task, sys_exit(t)
    PROVE  FilesInv'
<1> DEFINE e == Enter(NoFault)
           q == task_close_all_fds(e, t)
<1>1. Return(q) /\ fd_table' = [fd_table EXCEPT ![t] = NoFiles] /\ UNCHANGED <<cwd, lost>>
  BY DEF sys_exit
<1>2. fd_table \in Table /\ lost \in [Dentry -> Nat] /\ cwd \in [Task -> Seq(PathName)]
  BY DEF FilesInv
<1>3. Good(e, UsersOf(fd_table, lost))
  BY EnterGood
<1> HIDE DEF e
<1>4. Good(q, UsersOf([fd_table EXCEPT ![t] = NoFiles], lost)) /\ [fd_table EXCEPT ![t] = NoFiles] \in Table
  BY <1>2, <1>3, CloseAllGood
<1> HIDE DEF q
<1> QED BY <1>1, <1>2, <1>4, ReturnInv

\* exception_kill closes none: the references are lost, and counted.
LEMMA KillKeeps ==
    ASSUME FilesInv, NEW t \in Task, exception_kill(t)
    PROVE  FilesInv'
<1>1. \A d : Opens(d) = OpensOf(fd_table, d)
  BY DEF Opens, OpensOf, Open, FileAt
<1>2. /\ lost' = [d \in Dentry |-> lost[d] + Cardinality({o \in OpensOf(fd_table, d) : o[1] = t})]
      /\ fd_table' = [fd_table EXCEPT ![t] = NoFiles] /\ UNCHANGED <<vol, dent, cwd>>
  BY <1>1 DEF exception_kill
<1>3. fd_table \in Table /\ lost \in [Dentry -> Nat]
  BY DEF FilesInv
<1>4. lost' \in [Dentry -> Nat] /\ fd_table' \in Table /\ UsersOf(fd_table', lost') = UsersOf(fd_table, lost)
  <2>1. Killed(fd_table, lost, t, fd_table', lost')
    BY <1>2, <1>3 DEF Killed
  <2> QED BY <2>1, KilledCounts
<1> QED BY <1>2, <1>4 DEF FilesInv

\* The machine starts with the root alone in the cache.
LEMMA FilesStarts == ASSUME FilesInit PROVE FilesInv
<1>1. VolTyped(vol)
  <2>1. PICK b \in BootVolume : vol = fat16_mount(b)
    BY DEF FilesInit
  <2>2. DOMAIN vol = VolFields /\ vol.sec = b.sec
    BY <2>1 DEF fat16_mount, VolFields
  <2>3. DOMAIN b.sec = {0} \cup Cluster
    BY FilesAssumption
  <2>4. ASSUME NEW c \in {0} \cup Cluster PROVE Sized(SlotsOf(b.sec[c]))
    <3> DEFINE n == IF c = 0 THEN RootSlots ELSE ClusterSlots
               x == SlotsOf(b.sec[c])
    <3>1. x \in [0 .. n - 1 -> Entry \cup {END, DELETED, JUNK}]
      BY <2>3, FilesAssumption
    <3>2. n \in Nat
      BY GeometryAssumption
    <3> HIDE DEF n, x
    <3>3. \A e \in Entry : HasSize(e)
      BY DEF Entry, HasSize
    <3>4. ASSUME NEW i \in DOMAIN x, fat16_entry_valid(x[i]) PROVE HasSize(x[i])
      <4>1. x[i] \in Entry
        BY <3>1, <3>4 DEF fat16_entry_valid
      <4> QED BY <3>3, <4>1
    <3>5. Sized(x)
      BY <3>1, <3>2, <3>4 DEF Sized
    <3> QED BY <3>5 DEF x
  <2> QED BY <2>2, <2>3, <2>4 DEF VolTyped
<1>2. dent = [i \in Dentry |-> IF i = 0 THEN RootDentry ELSE NoDentry] /\ 0 \in Dentry
  BY FilesAssumption DEF FilesInit, Dentry
<1>3. DOMAIN RootDentry = DentFields /\ HasSize(RootDentry.ent) /\ RootDentry.cached = TRUE
      /\ RootDentry.refs = 1 /\ RootDentry.parent = 0
  BY DEF RootDentry, DentFields, HasSize
<1>4. RootDentry # NoDentry
  BY <1>3 DEF NoDentry, DentFields
<1>5. DentTyped(dent) /\ TreeOk(dent)
  <2>1. DentTyped(dent)
    BY <1>2, <1>3 DEF DentTyped
  <2>2. TreeOk(dent)
    BY <1>2, <1>3, <1>4 DEF TreeOk
  <2> QED BY <2>1, <2>2
<1>6. fd_table \in Table /\ lost \in [Dentry -> Nat] /\ cwd \in [Task -> Seq(PathName)]
  <2>1. fd_table \in Table
    BY DEF FilesInit, Table, NoFiles
  <2>2. <<>> \in Seq(PathName)
    OBVIOUS
  <2> QED BY <2>1, <2>2 DEF FilesInit
<1>7. ASSUME NEW i \in Dentry PROVE UsersOf(fd_table, lost)[i] = 0
  <2>1. OpensOf(fd_table, i) = {}
    BY DEF OpensOf, FilesInit, NoFiles
  <2>2. Cardinality(OpensOf(fd_table, i)) = 0
    BY <2>1, FS_EmptySet
  <2> QED BY <2>2 DEF UsersOf, FilesInit
<1>8. CountOk(dent, UsersOf(fd_table, lost))
  BY <1>2, <1>3, <1>4, <1>7 DEF CountOk
<1> QED BY <1>1, <1>5, <1>6, <1>8 DEF FilesInv

\* Every step keeps the invariant.
LEMMA FilesStep == ASSUME FilesInv, [FilesNext]_vars PROVE FilesInv'
<1>1. CASE UNCHANGED vars
  BY <1>1 DEF vars, FilesInv
<1>2. CASE FilesNext
  <2>1. PICK t \in Task :
           \/ \E in \in PathIn, flags \in FlagIn : sys_open(t, in, flags)
           \/ \E in \in PathIn : sys_chdir(t, in) \/ sys_mkdir(t, in) \/ sys_spawn(t, in)
           \/ \E in \in PathIn, want_dir \in BOOLEAN : sys_unlink(t, in, want_dir)
           \/ \E fd \in Fd : sys_close(t, fd)
           \/ \E fd \in Fd, pos \in 0 .. MaxOffset : sys_lseek(t, fd, pos)
           \/ \E fd \in Fd, count \in 1 .. MaxOffset : sys_read(t, fd, count)
           \/ \E fd \in Fd, buf \in Written : sys_write(t, fd, buf)
           \/ \E fd \in Fd, max \in {1, 2} : sys_readdir(t, fd, max)
           \/ sys_exit(t)
           \/ exception_kill(t)
    BY <1>2 DEF FilesNext
  <2>2. CASE \E in \in PathIn, flags \in FlagIn : sys_open(t, in, flags)
    BY <2>2, OpenKeeps
  <2>3. CASE \E in \in PathIn : sys_chdir(t, in) \/ sys_mkdir(t, in) \/ sys_spawn(t, in)
    BY <2>3, ChdirKeeps, PathCallsKeep, SpawnKeeps
  <2>4. CASE \E in \in PathIn, want_dir \in BOOLEAN : sys_unlink(t, in, want_dir)
    BY <2>4, PathCallsKeep
  <2>5. CASE \E fd \in Fd : sys_close(t, fd)
    BY <2>5, CloseKeeps
  <2>6. CASE \E fd \in Fd, pos \in 0 .. MaxOffset : sys_lseek(t, fd, pos)
    BY <2>6, SeekKeeps
  <2>7. CASE \E fd \in Fd, count \in 1 .. MaxOffset : sys_read(t, fd, count)
    BY <2>7, ReadKeeps
  <2>8. CASE \E fd \in Fd, buf \in Written : sys_write(t, fd, buf)
    BY <2>8, WriteKeeps
  <2>9. CASE \E fd \in Fd, max \in {1, 2} : sys_readdir(t, fd, max)
    BY <2>9, ReaddirKeeps
  <2>10. CASE sys_exit(t)
    BY <2>10, ExitKeeps
  <2>11. CASE exception_kill(t)
    BY <2>11, KillKeeps
  <2> QED BY <2>1, <2>2, <2>3, <2>4, <2>5, <2>6, <2>7, <2>8, <2>9, <2>10, <2>11
<1> QED BY <1>1, <1>2

\* The file system keeps its inductive invariant.
THEOREM FilesInductive == FilesSpec => []FilesInv
<1>1. FilesInit => FilesInv
  BY FilesStarts
<1>2. FilesInv /\ [FilesNext]_vars => FilesInv'
  BY FilesStep
<1> QED BY <1>1, <1>2, PTL DEF FilesSpec

\* For any number of tasks, descriptors, dentries, clusters and names, on any
\* volume and whatever transfer or allocation fails: no call of the VFS
\* (vfs.c, dentry.c, syscall.c) loses a reference of a dentry or gives one back
\* too many.
THEOREM RefsStayExact == FilesSpec => []RefsExact
<1>1. FilesInv => RefsExact
  <2> SUFFICES ASSUME FilesInv, NEW i \in Dentry
               PROVE  IF dent[i] = NoDentry THEN Cardinality(Opens(i)) + lost[i] = 0
                      ELSE dent[i].refs = Cardinality(Opens(i)) + lost[i] + IF dent[i].cached THEN 1 ELSE 0
    BY DEF RefsExact
  <2>1. Opens(i) = OpensOf(fd_table, i)
    BY DEF Opens, OpensOf, Open, FileAt
  <2>2. UsersOf(fd_table, lost)[i] = Cardinality(Opens(i)) + lost[i]
    BY <2>1 DEF UsersOf
  <2> QED BY <2>2 DEF FilesInv, CountOk
<1> QED BY <1>1, FilesInductive, PTL
=============================================================================
