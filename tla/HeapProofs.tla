----------------------------- MODULE HeapProofs -----------------------------
(***************************************************************************)
(* The kernel heap: no object has two users, no slab is lost or given      *)
(* away.  Address spaces: every frame has one owner, every space maps the  *)
(* kernel, every program starts with what its file says.                   *)
(***************************************************************************)
EXTENDS Heap, AddrSpace, NatFacts, SequenceTheorems, FiniteSetTheorems, TLAPS

\* The objects of a slab, and those of them that are in use, are finitely many.
LEMMA UsedFinite ==
    ASSUME NEW b \in FrameBlock, NEW c \in Cache
    PROVE  /\ IsFiniteSet(Used(b, c)) /\ Cardinality(Used(b, c)) \in Nat
           /\ Cardinality(Used(b, c)) <= objects_per_slab[c]
           /\ Cardinality(Used(b, c)) = objects_per_slab[c] => Used(b, c) = Objects(c)
<1>1. objects_per_slab[c] \in Nat \ {0}
  BY HeapAssumption
<1>2. IsFiniteSet(Objects(c)) /\ Cardinality(Objects(c)) = objects_per_slab[c]
  <2>1. 0 \in Int /\ objects_per_slab[c] - 1 \in Int /\ ~(0 > objects_per_slab[c] - 1)
    BY <1>1
  <2>2. /\ IsFiniteSet(0..(objects_per_slab[c] - 1))
        /\ Cardinality(0..(objects_per_slab[c] - 1)) = (objects_per_slab[c] - 1) - 0 + 1
    BY <2>1, FS_Interval
  <2> QED BY <2>2, <1>1 DEF Objects
<1>3. Used(b, c) \in SUBSET Objects(c)
  BY DEF Used
<1> QED BY <1>2, <1>3, FS_Subset, FS_CardinalityType

\* So are the slabs of a list.
LEMMA SlabsFinite ==
    ASSUME NEW c, NEW list
    PROVE  /\ IsFiniteSet(Slabs(c, list)) /\ Cardinality(Slabs(c, list)) \in Nat
           /\ Cardinality(Slabs(c, list)) = 0 <=> Slabs(c, list) = {}
<1>1. Slabs(c, list) \in SUBSET FrameBlock
  BY DEF Slabs
<1>2. IsFiniteSet(Slabs(c, list))
  BY <1>1, HeapAssumption, FS_Subset
<1> QED BY <1>2, FS_CardinalityType, FS_EmptySet

\* A block that is given was not in use.
LEMMA GiveFresh == ASSUME NEW b \in FrameBlock, Frames!Give(b) PROVE b \notin frames
BY HeapAssumption DEF Frames!Give

-----------------------------------------------------------------------------
\* A slab that gives an object, whether it had others or was just created.
LEMMA TakeStep ==
    ASSUME HeapTypeOK, ObjectsSplit, SlabsListed, ObjectsPrivate,
           NEW c \in Cache, NEW b \in FrameBlock, cache[b] \in {c, NULL},
           cache' \in [FrameBlock -> Cache \cup {NULL}], cache'[b] = c,
           \A d \in FrameBlock : d # b => cache'[d] = cache[d],
           Take(b, Objects(c) \ Used(b, c), Cardinality(Used(b, c)),
                objects_per_slab[c] - Cardinality(Used(b, c)))
    PROVE  /\ ObjectsSplit' /\ SlabsListed'
           /\ \E o \in Objects(c) : objects' = objects \cup {<<b, o>>}
           /\ on' \in [FrameBlock -> {"none", "full", "partial", "free"}]
           /\ freelist' \in [FrameBlock -> SUBSET Nat]
           /\ in_use' \in [FrameBlock -> Nat] /\ free' \in [FrameBlock -> Nat]
           /\ \A d \in FrameBlock : d # b => cache'[d] = cache[d] /\ on'[d] = on[d]
           /\ cache'[b] = c /\ on'[b] \in {"full", "partial"}
<1> DEFINE n == Cardinality(Used(b, c))
           N == objects_per_slab[c]
<1>1. PICK o \in Objects(c) \ Used(b, c) :
        /\ freelist' = [freelist EXCEPT ![b] = (Objects(c) \ Used(b, c)) \ {o}]
        /\ in_use' = [in_use EXCEPT ![b] = n + 1]
        /\ free' = [free EXCEPT ![b] = N - n - 1]
        /\ on' = [on EXCEPT ![b] = IF N - n - 1 = 0 THEN "full" ELSE "partial"]
        /\ objects' = objects \cup {<<b, o>>}
  BY DEF Take
<1>2. n \in Nat /\ N \in Nat \ {0} /\ n <= N /\ n # N
  BY <1>1, UsedFinite, HeapAssumption
<1>3. Used(b, c)' = Used(b, c) \cup {o}
  BY <1>1 DEF Used, Objects
<1>4. Cardinality(Used(b, c)') = n + 1
  BY <1>1, <1>3, UsedFinite, FS_AddElement DEF Used
<1>5. ASSUME NEW d \in FrameBlock, d # b, NEW e
      PROVE  Used(d, e)' = Used(d, e)
  BY <1>1, <1>5 DEF Used, Objects
<1>6. c # NULL /\ Objects(c) \subseteq Nat
  BY HeapAssumption DEF Objects
<1>7. ObjectsSplit'
  <2> SUFFICES ASSUME NEW d \in FrameBlock, cache'[d] # NULL
               PROVE  /\ freelist'[d] = Objects(cache'[d]) \ Used(d, cache[d])'
                      /\ in_use'[d] = Cardinality(Used(d, cache[d])')
                      /\ free'[d] = objects_per_slab[cache'[d]] - in_use'[d]
    BY DEF ObjectsSplit, Objects
  <2>1. CASE d = b
    <3>1. cache'[d] = c
      BY <2>1 DEF HeapTypeOK
    <3>2. Used(d, cache[d])' = Used(b, c)'
      BY <2>1, <3>1 DEF Used, Objects
    <3>3. freelist'[b] = (Objects(c) \ Used(b, c)) \ {o}
      BY <1>1 DEF HeapTypeOK
    <3>4. (Objects(c) \ Used(b, c)) \ {o} = Objects(c) \ Used(b, c)'
      BY <1>3
    <3>5. in_use'[b] = n + 1 /\ free'[b] = N - (n + 1)
      BY <1>1, <1>2 DEF HeapTypeOK
    <3> QED BY <2>1, <3>1, <3>2, <3>3, <3>4, <3>5, <1>4
  <2>2. CASE d # b
    <3>1. cache'[d] = cache[d]
      BY <2>2 DEF HeapTypeOK
    <3>2. Used(d, cache[d])' = Used(d, cache[d])
      BY <3>1, <2>2, <1>5 DEF Used, Objects
    <3> QED BY <2>2, <3>1, <3>2, <1>1 DEF HeapTypeOK, ObjectsSplit
  <2> QED BY <2>1, <2>2
<1>8. SlabsListed'
  <2> SUFFICES ASSUME NEW d \in FrameBlock
               PROVE  on'[d] = IF cache'[d] = NULL THEN "none"
                               ELSE IF free'[d] = 0 THEN "full"
                               ELSE IF in_use'[d] = 0 THEN "free"
                               ELSE "partial"
    BY DEF SlabsListed
  <2>1. CASE d = b
    BY <2>1, <1>1, <1>2, <1>6 DEF HeapTypeOK
  <2>2. CASE d # b
    BY <2>2, <1>1 DEF HeapTypeOK, SlabsListed
  <2> QED BY <2>1, <2>2
<1>9. /\ on' \in [FrameBlock -> {"none", "full", "partial", "free"}]
      /\ in_use' \in [FrameBlock -> Nat] /\ free' \in [FrameBlock -> Nat]
  BY <1>1, <1>2 DEF HeapTypeOK
<1>10. freelist' \in [FrameBlock -> SUBSET Nat]
  BY <1>1, <1>6 DEF HeapTypeOK
<1>11. /\ \A d \in FrameBlock : d # b => cache'[d] = cache[d] /\ on'[d] = on[d]
       /\ cache'[b] = c /\ on'[b] \in {"full", "partial"}
  BY <1>1 DEF HeapTypeOK
<1> QED BY <1>1, <1>7, <1>8, <1>9, <1>10, <1>11

\* The slab's block is in use, so the new object is nobody else's memory.
LEMMA TakePrivate ==
    ASSUME HeapInv, NEW c \in Cache, NEW b \in FrameBlock, cache[b] \in {c, NULL},
           NEW o \in Objects(c),
           cache' \in [FrameBlock -> Cache \cup {NULL}], cache'[b] = c,
           \A d \in FrameBlock : d # b => cache'[d] = cache[d],
           objects' = objects \cup {<<b, o>>},
           frames \subseteq frames', b \in frames', frames' \subseteq FrameBlock,
           \A f, g \in frames' : f # g => span[f] \cap span[g] = {}
    PROVE  /\ ObjectsPrivate' /\ FramesDisjoint'
           /\ cache' \in [FrameBlock -> Cache \cup {NULL}]
           /\ frames' \in SUBSET FrameBlock
           /\ objects' \in SUBSET (FrameBlock \X Nat)
<1>1. HeapTypeOK /\ ObjectsPrivate /\ FramesDisjoint
  BY DEF HeapInv
<1>2. c # NULL /\ o \in Nat
  BY HeapAssumption DEF Objects
<1>3. /\ cache' \in [FrameBlock -> Cache \cup {NULL}] /\ cache'[b] = c
      /\ \A d \in FrameBlock : d # b => cache'[d] = cache[d]
  BY <1>1 DEF HeapTypeOK
<1>4. objects' \in SUBSET (FrameBlock \X Nat)
  BY <1>1, <1>2 DEF HeapTypeOK
<1>5. FramesDisjoint'
  <2>1. \A d \in FrameBlock : cache'[d] # NULL => d \in frames'
    BY <1>1, <1>3 DEF FramesDisjoint
  <2> QED BY <2>1 DEF FramesDisjoint
<1>6. ASSUME NEW x \in objects'
      PROVE  /\ cache'[x[1]] # NULL /\ x[2] \in Objects(cache'[x[1]])
             /\ x[1] \in frames'
  <2>1. CASE x = <<b, o>>
    BY <2>1, <1>2, <1>3
  <2>2. CASE x \in objects
    <3>1. x[1] \in FrameBlock /\ cache[x[1]] # NULL /\ x[2] \in Objects(cache[x[1]])
          /\ x[1] \in frames
      BY <2>2, <1>1 DEF HeapTypeOK, ObjectsPrivate
    <3>2. cache'[x[1]] = cache[x[1]]
      BY <3>1, <1>3
    <3> QED BY <3>1, <3>2
  <2> QED BY <1>6, <2>1, <2>2
<1>7. ObjectsPrivate'
  <2>1. \A x \in objects' : /\ (cache[x[1]] # NULL)' /\ (x[2] \in Objects(cache[x[1]]))'
                            /\ (x[1] \in frames)'
    BY <1>6 DEF Objects
  <2>2. \A x \in objects' : \A f \in frames' :
            f # x[1] => span[f] \cap span[x[1]] = {}
    BY <1>6
  <2> QED BY <2>1, <2>2 DEF ObjectsPrivate
<1> QED BY <1>3, <1>4, <1>5, <1>7

\* A slab that is live gives an object.
LEMMA TakeFromStep ==
    ASSUME HeapInv, NEW c \in Cache, NEW b \in FrameBlock, cache[b] = c, TakeFrom(b),
           UNCHANGED <<frames, cache>>
    PROVE  /\ ObjectsSplit' /\ SlabsListed' /\ ObjectsPrivate' /\ FramesDisjoint'
           /\ free_slab_count' \in [Cache -> 0..MAX_FREE_SLABS] => HeapTypeOK'
           /\ \A d \in FrameBlock : d # b => cache'[d] = cache[d] /\ on'[d] = on[d]
           /\ cache'[b] = c /\ on'[b] \in {"full", "partial"}
<1>1. HeapTypeOK /\ ObjectsSplit /\ SlabsListed /\ ObjectsPrivate /\ FramesDisjoint
  BY DEF HeapInv
<1>2. c # NULL
  BY HeapAssumption
<1>3. /\ freelist[b] = Objects(c) \ Used(b, c)
      /\ in_use[b] = Cardinality(Used(b, c))
      /\ free[b] = objects_per_slab[c] - Cardinality(Used(b, c))
  BY <1>1, <1>2 DEF ObjectsSplit
<1>4. Take(b, Objects(c) \ Used(b, c), Cardinality(Used(b, c)),
           objects_per_slab[c] - Cardinality(Used(b, c)))
  BY <1>3 DEF TakeFrom, Take
<1>5. /\ cache[b] \in {c, NULL}
      /\ cache' \in [FrameBlock -> Cache \cup {NULL}] /\ cache'[b] = c
      /\ \A d \in FrameBlock : d # b => cache'[d] = cache[d]
  BY <1>1 DEF HeapTypeOK
<1>6. /\ ObjectsSplit' /\ SlabsListed'
      /\ \E o \in Objects(c) : objects' = objects \cup {<<b, o>>}
      /\ on' \in [FrameBlock -> {"none", "full", "partial", "free"}]
      /\ freelist' \in [FrameBlock -> SUBSET Nat]
      /\ in_use' \in [FrameBlock -> Nat] /\ free' \in [FrameBlock -> Nat]
      /\ \A d \in FrameBlock : d # b => cache'[d] = cache[d] /\ on'[d] = on[d]
      /\ cache'[b] = c /\ on'[b] \in {"full", "partial"}
  BY <1>1, <1>4, <1>5, TakeStep
<1>7. PICK o \in Objects(c) : objects' = objects \cup {<<b, o>>}
  BY <1>6
<1>8. /\ frames \subseteq frames' /\ b \in frames' /\ frames' \subseteq FrameBlock
      /\ \A f, g \in frames' : f # g => span[f] \cap span[g] = {}
  BY <1>1, <1>2 DEF FramesDisjoint, HeapTypeOK
<1>9. /\ ObjectsPrivate' /\ FramesDisjoint'
      /\ cache' \in [FrameBlock -> Cache \cup {NULL}]
      /\ frames' \in SUBSET FrameBlock
      /\ objects' \in SUBSET (FrameBlock \X Nat)
  BY <1>5, <1>7, <1>8, TakePrivate
<1> QED BY <1>6, <1>9 DEF HeapTypeOK

\* kmemcache_alloc keeps the invariant, from whichever list the slab comes.
LEMMA AllocStep ==
    ASSUME HeapInv, NEW c \in Cache, kmemcache_alloc(c) PROVE HeapInv'
<1>1. HeapTypeOK /\ ObjectsSplit /\ SlabsListed /\ ObjectsPrivate /\ FreeSlabsCounted
      /\ FramesDisjoint /\ c # NULL
  BY HeapAssumption DEF HeapInv
<1>2. CASE AllocPartial(c)
  <2>1. PICK b \in Slabs(c, "partial") : TakeFrom(b)
    BY <1>2 DEF AllocPartial
  <2>2. b \in FrameBlock /\ cache[b] = c /\ on[b] = "partial"
    BY <2>1 DEF Slabs
  <2>3. UNCHANGED <<frames, cache, free_slab_count>>
    BY <1>2 DEF AllocPartial
  <2>4. /\ ObjectsSplit' /\ SlabsListed' /\ ObjectsPrivate' /\ FramesDisjoint'
        /\ free_slab_count' \in [Cache -> 0..MAX_FREE_SLABS] => HeapTypeOK'
        /\ \A d \in FrameBlock : d # b => cache'[d] = cache[d] /\ on'[d] = on[d]
        /\ on'[b] \in {"full", "partial"}
    BY <2>1, <2>2, <2>3, TakeFromStep
  <2>5. HeapTypeOK'
    BY <2>3, <2>4, <1>1 DEF HeapTypeOK
  <2>6. \A e : Slabs(e, "free")' = Slabs(e, "free")
    BY <2>2, <2>3, <2>4 DEF Slabs
  <2>7. FreeSlabsCounted'
    BY <2>3, <2>6, <1>1 DEF FreeSlabsCounted
  <2> QED BY <2>4, <2>5, <2>7 DEF HeapInv
<1>3. CASE AllocFree(c)
  <2>1. PICK b \in Slabs(c, "free") : TakeFrom(b)
    BY <1>3 DEF AllocFree
  <2>2. b \in FrameBlock /\ cache[b] = c /\ on[b] = "free"
    BY <2>1 DEF Slabs
  <2>3. /\ UNCHANGED <<frames, cache>>
        /\ free_slab_count' = [free_slab_count EXCEPT ![c] = @ - 1]
    BY <1>3 DEF AllocFree
  <2>4. /\ ObjectsSplit' /\ SlabsListed' /\ ObjectsPrivate' /\ FramesDisjoint'
        /\ free_slab_count' \in [Cache -> 0..MAX_FREE_SLABS] => HeapTypeOK'
        /\ \A d \in FrameBlock : d # b => cache'[d] = cache[d] /\ on'[d] = on[d]
        /\ on'[b] \in {"full", "partial"}
    BY <2>1, <2>2, <2>3, TakeFromStep
  <2>5. free_slab_count[c] = Cardinality(Slabs(c, "free")) /\ free_slab_count[c] # 0
    BY <2>1, <1>1, SlabsFinite DEF FreeSlabsCounted
  <2>6. HeapTypeOK'
    <3>1. free_slab_count \in [Cache -> 0..MAX_FREE_SLABS]
      BY <1>1 DEF HeapTypeOK
    <3>2. free_slab_count' \in [Cache -> 0..MAX_FREE_SLABS]
      BY <3>1, <2>3, <2>5, HeapAssumption
    <3> QED BY <3>2, <2>4
  <2>7. /\ Slabs(c, "free")' = Slabs(c, "free") \ {b}
        /\ \A e : e # c => Slabs(e, "free")' = Slabs(e, "free")
    BY <2>2, <2>3, <2>4 DEF Slabs
  <2>8. Cardinality(Slabs(c, "free") \ {b}) = Cardinality(Slabs(c, "free")) - 1
    BY <2>1, SlabsFinite, FS_RemoveElement
  <2>9. ASSUME NEW e \in Cache PROVE free_slab_count'[e] = Cardinality(Slabs(e, "free")')
    <3>1. CASE e = c
      BY <3>1, <2>3, <2>5, <2>7, <2>8, <1>1 DEF HeapTypeOK
    <3>2. CASE e # c
      BY <3>2, <2>3, <2>7, <1>1 DEF HeapTypeOK, FreeSlabsCounted
    <3> QED BY <3>1, <3>2
  <2>10. FreeSlabsCounted'
    BY <2>9 DEF FreeSlabsCounted
  <2> QED BY <2>4, <2>6, <2>10 DEF HeapInv
<1>4. CASE slab_create(c)
  <2>1. PICK b \in slab_blocks[c] :
          /\ Frames!Give(b)
          /\ cache' = [cache EXCEPT ![b] = c]
          /\ Take(b, Objects(c), 0, objects_per_slab[c])
    BY <1>4 DEF slab_create
  <2>2. b \in FrameBlock /\ b \notin frames /\ cache[b] = NULL
    BY <2>1, <1>1, HeapAssumption, GiveFresh DEF FramesDisjoint
  <2>3. Used(b, c) = {}
    <3>1. ASSUME NEW o \in Objects(c), <<b, o>> \in objects PROVE FALSE
      BY <3>1, <2>2, <1>1 DEF ObjectsPrivate
    <3> QED BY <3>1 DEF Used
  <2>4. Cardinality(Used(b, c)) = 0
    BY <2>3, FS_EmptySet
  <2>5. objects_per_slab[c] \in Nat
    BY HeapAssumption
  <2>6. Take(b, Objects(c) \ Used(b, c), Cardinality(Used(b, c)),
             objects_per_slab[c] - Cardinality(Used(b, c)))
    <3>1. Objects(c) \ Used(b, c) = Objects(c)
      BY <2>3
    <3>2. objects_per_slab[c] - Cardinality(Used(b, c)) = objects_per_slab[c]
      BY <2>4, <2>5
    <3> QED BY <2>1, <2>4, <3>1, <3>2 DEF Take
  <2>7. /\ b \in FrameBlock /\ cache[b] \in {c, NULL}
        /\ cache' \in [FrameBlock -> Cache \cup {NULL}] /\ cache'[b] = c
        /\ \A d \in FrameBlock : d # b => cache'[d] = cache[d]
    BY <2>1, <2>2, <1>1 DEF HeapTypeOK
  <2>8. /\ ObjectsSplit' /\ SlabsListed'
        /\ \E o \in Objects(c) : objects' = objects \cup {<<b, o>>}
        /\ on' \in [FrameBlock -> {"none", "full", "partial", "free"}]
        /\ freelist' \in [FrameBlock -> SUBSET Nat]
        /\ in_use' \in [FrameBlock -> Nat] /\ free' \in [FrameBlock -> Nat]
        /\ \A d \in FrameBlock : d # b => cache'[d] = cache[d] /\ on'[d] = on[d]
        /\ on'[b] \in {"full", "partial"}
    BY <2>6, <2>7, <1>1, TakeStep, ZenonT(60)
  <2>9. PICK o \in Objects(c) : objects' = objects \cup {<<b, o>>}
    BY <2>8
  <2>10. frames' = frames \cup {b} /\ \A h \in frames : span[h] \cap span[b] = {}
    BY <2>1 DEF Frames!Give
  <2>11. /\ frames \subseteq frames' /\ b \in frames' /\ frames' \subseteq FrameBlock
         /\ \A f, g \in frames' : f # g => span[f] \cap span[g] = {}
    BY <2>2, <2>10, <1>1 DEF HeapTypeOK, FramesDisjoint
  <2>12. /\ ObjectsPrivate' /\ FramesDisjoint'
         /\ cache' \in [FrameBlock -> Cache \cup {NULL}]
         /\ frames' \in SUBSET FrameBlock
         /\ objects' \in SUBSET (FrameBlock \X Nat)
    BY <2>2, <2>9, <2>11, <2>7, TakePrivate
  <2>13. UNCHANGED free_slab_count
    BY <1>4 DEF slab_create
  <2>14. HeapTypeOK'
    BY <2>8, <2>12, <2>13, <1>1 DEF HeapTypeOK
  <2>15. on[b] = "none"
    BY <2>2, <1>1 DEF SlabsListed
  <2>16. \A e : Slabs(e, "free")' = Slabs(e, "free")
    BY <2>2, <2>8, <2>15 DEF Slabs
  <2>17. FreeSlabsCounted'
    BY <2>13, <2>16, <1>1 DEF FreeSlabsCounted
  <2> QED BY <2>8, <2>12, <2>14, <2>17 DEF HeapInv
<1> QED BY <1>2, <1>3, <1>4 DEF kmemcache_alloc

-----------------------------------------------------------------------------
\* kmemcache_free keeps the invariant: the slab stays in use, is kept as a free
\* one, or is destroyed.
LEMMA FreeStep ==
    ASSUME HeapInv, NEW b \in FrameBlock, NEW o, NEW c \in Cache, cache[b] = c,
           kmemcache_free(b, o)
    PROVE  HeapInv'
<1>1. HeapTypeOK /\ ObjectsSplit /\ SlabsListed /\ ObjectsPrivate /\ FreeSlabsCounted
      /\ FramesDisjoint /\ c # NULL
  BY HeapAssumption DEF HeapInv
<1> DEFINE n == Cardinality(Used(b, c))
           N == objects_per_slab[c]
           keeps == ~Unused(in_use[b]) \/ KeepsSlab(c)
<1>2. <<b, o>> \in objects /\ objects' = objects \ {<<b, o>>}
  BY DEF kmemcache_free
<1>3. o \in Objects(c) /\ o \in Nat /\ b \in frames /\ o \in Used(b, c)
  <2>1. o \in Objects(c) /\ b \in frames
    BY <1>1, <1>2 DEF ObjectsPrivate
  <2> QED BY <2>1, <1>2 DEF Used, Objects
<1>4. /\ freelist[b] = Objects(c) \ Used(b, c) /\ in_use[b] = n /\ free[b] = N - n
  BY <1>1 DEF ObjectsSplit
<1>5. n \in Nat /\ N \in Nat \ {0} /\ n <= N /\ n # 0
  BY <1>3, UsedFinite, HeapAssumption, FS_EmptySet
<1>6. Used(b, c)' = Used(b, c) \ {o}
  BY <1>2 DEF Used, Objects
<1>7. Cardinality(Used(b, c) \ {o}) = n - 1
  BY <1>3, UsedFinite, FS_RemoveElement
<1>8. ASSUME NEW d \in FrameBlock, d # b, NEW e PROVE Used(d, e)' = Used(d, e)
  BY <1>2, <1>8 DEF Used, Objects
<1>9. \A d \in FrameBlock : d # b =>
        /\ freelist'[d] = freelist[d] /\ in_use'[d] = in_use[d] /\ free'[d] = free[d]
        /\ on'[d] = on[d] /\ cache'[d] = cache[d]
  BY <1>1 DEF kmemcache_free, HeapTypeOK
<1>10. objects' \in SUBSET (FrameBlock \X Nat)
  BY <1>1, <1>2 DEF HeapTypeOK
<1>11. on[b] = IF n = N THEN "full" ELSE "partial"
  BY <1>1, <1>4, <1>5 DEF SlabsListed
<1>12. CASE keeps
  <2>1. /\ freelist' = [freelist EXCEPT ![b] = @ \cup {o}]
        /\ in_use' = [in_use EXCEPT ![b] = @ - 1]
        /\ free' = [free EXCEPT ![b] = @ + 1]
        /\ on' = [on EXCEPT ![b] = IF Unused(in_use[b]) THEN "free" ELSE FreedList(b)]
        /\ UNCHANGED <<pool, frames>>
    BY <1>12 DEF kmemcache_free
  <2>2. cache' = cache
    BY <1>12, <1>1 DEF kmemcache_free, HeapTypeOK
  <2>3. /\ freelist'[b] = Objects(c) \ Used(b, c)'
        /\ in_use'[b] = n - 1 /\ free'[b] = N - (n - 1)
    <3>1. freelist'[b] = (Objects(c) \ Used(b, c)) \cup {o}
      BY <2>1, <1>1, <1>4 DEF HeapTypeOK
    <3>2. (Objects(c) \ Used(b, c)) \cup {o} = Objects(c) \ (Used(b, c) \ {o})
      BY <1>3
    <3>3. in_use'[b] = n - 1 /\ free'[b] = N - (n - 1)
      BY <2>1, <1>1, <1>4, <1>5 DEF HeapTypeOK
    <3> QED BY <3>1, <3>2, <3>3, <1>6
  <2>4. on'[b] = IF n - 1 = 0 THEN "free" ELSE "partial"
    BY <2>1, <1>1, <1>4, <1>5, <1>11 DEF HeapTypeOK, Unused, FreedList
  <2>5. ObjectsSplit'
    <3> SUFFICES ASSUME NEW d \in FrameBlock, cache'[d] # NULL
                 PROVE  /\ freelist'[d] = Objects(cache'[d]) \ Used(d, cache[d])'
                        /\ in_use'[d] = Cardinality(Used(d, cache[d])')
                        /\ free'[d] = objects_per_slab[cache'[d]] - in_use'[d]
      BY DEF ObjectsSplit, Objects
    <3>1. CASE d = b
      <4>1. Used(d, cache[d])' = Used(b, c)'
        BY <3>1, <2>2 DEF Used, Objects
      <4> QED BY <3>1, <4>1, <2>2, <2>3, <1>6, <1>7
    <3>2. CASE d # b
      <4>1. Used(d, cache[d])' = Used(d, cache[d])
        BY <3>2, <2>2, <1>8 DEF Used, Objects
      <4> QED BY <3>2, <4>1, <2>2, <1>1, <1>9 DEF ObjectsSplit
    <3> QED BY <3>1, <3>2
  <2>6. SlabsListed'
    <3> SUFFICES ASSUME NEW d \in FrameBlock
                 PROVE  on'[d] = IF cache'[d] = NULL THEN "none"
                                 ELSE IF free'[d] = 0 THEN "full"
                                 ELSE IF in_use'[d] = 0 THEN "free"
                                 ELSE "partial"
      BY DEF SlabsListed
    <3>1. CASE d = b
      BY <3>1, <2>2, <2>3, <2>4, <1>1, <1>5
    <3>2. CASE d # b
      BY <3>2, <1>1, <1>9 DEF SlabsListed
    <3> QED BY <3>1, <3>2
  <2>7. ObjectsPrivate' /\ FramesDisjoint'
    BY <2>1, <2>2, <1>1, <1>2 DEF ObjectsPrivate, FramesDisjoint, Objects
  <2>8. CASE n = 1
    <3>1. /\ free_slab_count' = [free_slab_count EXCEPT ![c] = @ + 1]
          /\ free_slab_count[c] < MAX_FREE_SLABS
      <4>1. Unused(in_use[b])
        BY <2>8, <1>4 DEF Unused
      <4>2. KeepsSlab(c)
        BY <4>1, <1>12
      <4>3. free_slab_count' = [free_slab_count EXCEPT ![c] = @ + 1]
        BY <4>1, <4>2 DEF kmemcache_free
      <4> QED BY <4>2, <4>3 DEF KeepsSlab
    <3>2. free_slab_count' \in [Cache -> 0..MAX_FREE_SLABS]
      <4>1. free_slab_count \in [Cache -> 0..MAX_FREE_SLABS]
        BY <1>1 DEF HeapTypeOK
      <4> QED BY <4>1, <3>1, HeapAssumption
    <3>3. /\ Slabs(c, "free")' = Slabs(c, "free") \cup {b} /\ b \notin Slabs(c, "free")
          /\ \A e : e # c => Slabs(e, "free")' = Slabs(e, "free")
      BY <2>8, <2>2, <2>4, <1>5, <1>9, <1>11 DEF Slabs
    <3>4. Cardinality(Slabs(c, "free") \cup {b}) = Cardinality(Slabs(c, "free")) + 1
      BY <3>3, SlabsFinite, FS_AddElement
    <3>5. ASSUME NEW e \in Cache PROVE free_slab_count'[e] = Cardinality(Slabs(e, "free")')
      <4>1. CASE e = c
        BY <4>1, <3>1, <3>3, <3>4, <1>1 DEF HeapTypeOK, FreeSlabsCounted
      <4>2. CASE e # c
        BY <4>2, <3>1, <3>3, <1>1 DEF HeapTypeOK, FreeSlabsCounted
      <4> QED BY <4>1, <4>2
    <3>6. FreeSlabsCounted'
      BY <3>5 DEF FreeSlabsCounted
    <3>7. HeapTypeOK'
      BY <3>2, <2>1, <2>2, <1>1, <1>3, <1>4, <1>5, <1>10 DEF HeapTypeOK, FreedList
    <3> QED BY <3>6, <3>7, <2>5, <2>6, <2>7 DEF HeapInv
  <2>9. CASE n # 1
    <3>1. free_slab_count' = free_slab_count
      <4>1. ~Unused(in_use[b])
        BY <2>9, <1>4, <1>5 DEF Unused
      <4> QED BY <4>1, <1>1 DEF kmemcache_free, HeapTypeOK
    <3>2. \A e : Slabs(e, "free")' = Slabs(e, "free")
      BY <2>9, <2>2, <2>4, <1>5, <1>9, <1>11 DEF Slabs
    <3>3. FreeSlabsCounted'
      BY <3>1, <3>2, <1>1 DEF FreeSlabsCounted
    <3>4. HeapTypeOK'
      BY <3>1, <2>1, <2>2, <1>1, <1>3, <1>4, <1>5, <1>10 DEF HeapTypeOK, FreedList
    <3> QED BY <3>3, <3>4, <2>5, <2>6, <2>7 DEF HeapInv
  <2> QED BY <2>8, <2>9
<1>13. CASE ~keeps
  <2>1. /\ freelist' = [freelist EXCEPT ![b] = {}]
        /\ in_use' = [in_use EXCEPT ![b] = 0]
        /\ free' = [free EXCEPT ![b] = 0]
        /\ on' = [on EXCEPT ![b] = "none"]
        /\ cache' = [cache EXCEPT ![b] = NULL]
        /\ Frames!TakeBack(b)
    BY <1>13 DEF kmemcache_free
  <2>2. free_slab_count' = free_slab_count
    BY <1>13, <1>1 DEF kmemcache_free, HeapTypeOK
  <2>3. n = 1 /\ frames' = frames \ {b} /\ cache'[b] = NULL /\ on'[b] = "none"
    BY <1>13, <2>1, <1>1, <1>4, <1>5 DEF Unused, Frames!TakeBack, HeapTypeOK
  <2>4. Used(b, c) \ {o} = {}
    <3>1. IsFiniteSet(Used(b, c) \ {o})
      BY UsedFinite, FS_RemoveElement
    <3> QED BY <3>1, <2>3, <1>7, FS_EmptySet
  <2>5. ASSUME NEW x \in objects' PROVE x[1] # b /\ x \in objects /\ x[1] \in FrameBlock
    <3>1. x \in objects /\ x # <<b, o>> /\ x = <<x[1], x[2]>> /\ x[1] \in FrameBlock
      BY <1>2, <1>1 DEF HeapTypeOK
    <3>2. ASSUME x[1] = b PROVE FALSE
      <4>1. x[2] \in Objects(c)
        BY <3>1, <3>2, <1>1 DEF ObjectsPrivate
      <4>2. x[2] \in Used(b, c) /\ x[2] # o
        BY <3>1, <3>2, <4>1 DEF Used
      <4> QED BY <4>2, <2>4
    <3> QED BY <3>1, <3>2
  <2>6. HeapTypeOK'
    BY <2>1, <2>2, <2>3, <1>1, <1>10 DEF HeapTypeOK
  <2>7. ObjectsSplit'
    <3> SUFFICES ASSUME NEW d \in FrameBlock, cache'[d] # NULL
                 PROVE  /\ freelist'[d] = Objects(cache'[d]) \ Used(d, cache[d])'
                        /\ in_use'[d] = Cardinality(Used(d, cache[d])')
                        /\ free'[d] = objects_per_slab[cache'[d]] - in_use'[d]
      BY DEF ObjectsSplit, Objects
    <3>1. d # b /\ cache'[d] = cache[d]
      BY <2>3, <1>9
    <3>2. Used(d, cache[d])' = Used(d, cache[d])
      BY <3>1, <1>8 DEF Used, Objects
    <3> QED BY <3>1, <3>2, <1>1, <1>9 DEF ObjectsSplit
  <2>8. SlabsListed'
    BY <2>3, <1>1, <1>9 DEF SlabsListed
  <2>9. ObjectsPrivate'
    BY <2>3, <2>5, <1>1, <1>9 DEF ObjectsPrivate, Objects
  <2>10. FramesDisjoint'
    BY <2>3, <1>1, <1>9 DEF FramesDisjoint
  <2>11. \A e \in Cache : Slabs(e, "free")' = Slabs(e, "free")
    BY <2>3, <1>9, <1>11 DEF Slabs
  <2>12. FreeSlabsCounted'
    BY <2>2, <2>11, <1>1 DEF FreeSlabsCounted
  <2> QED BY <2>6, <2>7, <2>8, <2>9, <2>10, <2>12 DEF HeapInv
<1> QED BY <1>12, <1>13

\* The other users of the page-frame allocator do not touch a slab.
LEMMA OtherStep ==
    ASSUME HeapInv, NEW b \in FrameBlock, OtherAlloc(b) \/ OtherFree(b) PROVE HeapInv'
<1>1. HeapTypeOK /\ ObjectsSplit /\ SlabsListed /\ ObjectsPrivate /\ FreeSlabsCounted
      /\ FramesDisjoint
  BY DEF HeapInv
<1>2. UNCHANGED slabVars
  BY DEF OtherAlloc, OtherFree
<1>3. UNCHANGED <<cache, on, freelist, in_use, free, free_slab_count, objects>>
  BY <1>2 DEF slabVars
<1>4. ObjectsSplit' /\ SlabsListed' /\ FreeSlabsCounted'
  BY <1>1, <1>3 DEF ObjectsSplit, SlabsListed, FreeSlabsCounted, Used, Objects, Slabs
<1>5. /\ frames' \subseteq FrameBlock
      /\ \A f, g \in frames' : f # g => span[f] \cap span[g] = {}
      /\ \A d \in FrameBlock : cache[d] # NULL => d \in frames'
  <2>1. CASE OtherAlloc(b)
    BY <2>1, <1>1 DEF OtherAlloc, Frames!Give, HeapTypeOK, FramesDisjoint
  <2>2. CASE OtherFree(b)
    BY <2>2, <1>1 DEF OtherFree, Frames!TakeBack, HeapTypeOK, FramesDisjoint
  <2> QED BY <2>1, <2>2
<1>6. HeapTypeOK' /\ FramesDisjoint'
  BY <1>1, <1>3, <1>5 DEF HeapTypeOK, FramesDisjoint
<1>7. ObjectsPrivate'
  BY <1>1, <1>3, <1>5 DEF ObjectsPrivate, Objects, HeapTypeOK
<1> QED BY <1>4, <1>6, <1>7 DEF HeapInv

-----------------------------------------------------------------------------
\* The invariant of slab.c holds in every state, for every set of caches and
\* blocks and every limit on free slabs.
THEOREM Inductive == HeapSpec => []HeapInv
<1>1. HeapInit => HeapInv
  <2> SUFFICES ASSUME HeapInit PROVE HeapInv
    OBVIOUS
  <2>1. HeapTypeOK /\ SlabsListed
    BY HeapAssumption DEF HeapInit, HeapTypeOK, SlabsListed
  <2>2. ObjectsSplit /\ ObjectsPrivate /\ FramesDisjoint
    BY DEF HeapInit, ObjectsSplit, ObjectsPrivate, FramesDisjoint
  <2>3. \A c \in Cache : Slabs(c, "free") = {}
    BY DEF HeapInit, Slabs
  <2>4. FreeSlabsCounted
    BY <2>3, FS_EmptySet DEF FreeSlabsCounted, HeapInit
  <2> QED BY <2>1, <2>2, <2>4 DEF HeapInv
<1>2. HeapInv /\ [HeapNext]_heapVars => HeapInv'
  <2> SUFFICES ASSUME HeapInv, [HeapNext]_heapVars PROVE HeapInv'
    OBVIOUS
  <2>1. ASSUME NEW size \in Request, kmalloc(size) PROVE HeapInv'
    BY <2>1, AllocStep DEF kmalloc
  <2>2. ASSUME NEW b \in FrameBlock, NEW o, kfree(b, o) PROVE HeapInv'
    <3>1. cache[b] \in Cache /\ kmemcache_free(b, o)
      BY <2>2 DEF kfree, HeapInv, HeapTypeOK
    <3>2. PICK c \in Cache : cache[b] = c
      BY <3>1
    <3> QED BY <2>2, <3>1, <3>2, FreeStep
  <2>3. ASSUME NEW b \in FrameBlock, OtherAlloc(b) \/ OtherFree(b) PROVE HeapInv'
    BY <2>3, OtherStep
  <2>4. CASE UNCHANGED heapVars
    <3>1. UNCHANGED <<frames, cache, on, freelist, in_use, free, free_slab_count, objects>>
      BY <2>4 DEF heapVars, slabVars
    <3>2. HeapTypeOK' /\ SlabsListed' /\ FramesDisjoint'
      BY <3>1 DEF HeapInv, HeapTypeOK, SlabsListed, FramesDisjoint
    <3>3. ObjectsSplit' /\ ObjectsPrivate' /\ FreeSlabsCounted'
      BY <3>1 DEF HeapInv, ObjectsSplit, ObjectsPrivate, FreeSlabsCounted,
                  Used, Objects, Slabs
    <3> QED BY <3>2, <3>3 DEF HeapInv
  <2> QED BY <2>1, <2>2, <2>3, <2>4 DEF HeapNext
<1> QED BY <1>1, <1>2, PTL DEF HeapSpec

\* No object of a slab is lost and none is handed out twice.
THEOREM ObjectsSplitAlways == HeapSpec => []ObjectsSplit
<1>1. HeapInv => ObjectsSplit
  BY DEF HeapInv
<1> QED BY <1>1, Inductive, PTL

\* Every slab is on the list that kmemcache_alloc looks for it on.
THEOREM SlabsListedAlways == HeapSpec => []SlabsListed
<1>1. HeapInv => SlabsListed
  BY DEF HeapInv
<1> QED BY <1>1, Inductive, PTL

\* slab_destroy never gives away the memory of a live object.
THEOREM ObjectsPrivateAlways == HeapSpec => []ObjectsPrivate
<1>1. HeapInv => ObjectsPrivate
  BY DEF HeapInv
<1> QED BY <1>1, Inductive, PTL

\* free_slab_count is exact, and so the limit on free slabs is kept.
THEOREM FreeSlabsCountedAlways == HeapSpec => []FreeSlabsCounted
<1>1. HeapInv => FreeSlabsCounted
  BY DEF HeapInv
<1> QED BY <1>1, Inductive, PTL

-----------------------------------------------------------------------------
(* Address spaces: numbers *)

\* What the assumptions say of the sizes.
LEMMA Sizes ==
    /\ FANOUT \in Nat /\ FANOUT >= 2 /\ LEVELS \in Nat /\ LEVELS >= 2 /\ STACK_PAGES \in Nat /\ STACK_PAGES >= 1
    /\ NFrames \in Nat
    /\ KERNEL_PML4_INDEX \in Nat /\ KERNEL_PML4_INDEX >= 1 /\ FANOUT = 2 * KERNEL_PML4_INDEX
<1>1. FANOUT \in Nat \ {0} /\ LEVELS \in Nat \ {0} /\ STACK_PAGES \in Nat \ {0} /\ NFrames \in Nat /\ LEVELS > 1 /\ FANOUT % 2 = 0
  BY AddrSpaceAssumption
<1>2. FANOUT \div 2 \in Int /\ FANOUT = 2 * (FANOUT \div 2) + 0
  BY <1>1, DivMod
<1> QED BY <1>1, <1>2 DEF KERNEL_PML4_INDEX

\* Reach is FANOUT to the power of the level.
LEMMA ReachIs ==
    /\ Reach[0] = 1 /\ \A l \in 1 .. LEVELS : Reach[l] = FANOUT * Reach[l - 1]
    /\ \A l \in 0 .. LEVELS : Reach[l] \in Nat \ {0}
<1> DEFINE X == Nat \ {0}
           step == [i \in 1 .. LEVELS |-> [x \in X |-> FANOUT * x]]
           R(g) == [l \in 0 .. LEVELS |-> IF l = 0 THEN 1 ELSE FANOUT * g[l - 1]]
<1>1. FANOUT \in Nat \ {0} /\ LEVELS \in Nat
  BY Sizes
<1>2. step \in [1 .. LEVELS -> [X -> X]] /\ 1 \in X
  <2>1. ASSUME NEW x \in X PROVE FANOUT * x \in X
    BY <1>1
  <2> QED BY <2>1
<1>3. PICK f : IsRecursion(f, LEVELS, X, 1, step)
  <2> HIDE DEF step, X
  <2> QED BY <1>1, <1>2, RecursionExists
<1>4. f \in [0 .. LEVELS -> X] /\ f[0] = 1
  BY <1>3 DEF IsRecursion
<1>5. ASSUME NEW l \in 1 .. LEVELS PROVE f[l] = FANOUT * f[l - 1] /\ l \in 0 .. LEVELS /\ l # 0
  <2>1. l - 1 \in 0 .. LEVELS /\ l \in 0 .. LEVELS
    BY <1>1
  <2>2. f[l - 1] \in X /\ f[l] = step[l][f[l - 1]]
    BY <1>3, <1>4, <2>1 DEF IsRecursion
  <2> QED BY <2>1, <2>2
<1> HIDE DEF X, step
<1>6. f = R(f)
  <2>1. ASSUME NEW l \in 0 .. LEVELS PROVE f[l] = IF l = 0 THEN 1 ELSE FANOUT * f[l - 1]
    <3>1. CASE l = 0
      BY <1>4, <3>1
    <3>2. CASE l # 0
      <4>1. l \in 1 .. LEVELS
        BY <3>2, <1>1
      <4> QED BY <1>5, <3>2, <4>1
    <3> QED BY <3>1, <3>2
  <2> QED BY <1>4, <2>1
<1>7. \E g : g = R(g)
  BY <1>6
<1>8. Reach = R(Reach)
  BY <1>7, Zenon DEF Reach
<1> DEFINE T == {l \in 0 .. LEVELS : Reach[l] = f[l]}
<1>9. Reach[0] = 1 /\ \A l \in 1 .. LEVELS : Reach[l] = FANOUT * Reach[l - 1]
  <2>1. ASSUME NEW l \in 1 .. LEVELS PROVE l \in 0 .. LEVELS /\ l # 0
    BY <1>5
  <2> QED BY <1>1, <1>8, <2>1
<1>10. 0 \in T
  BY <1>1, <1>4, <1>9
<1>11. ASSUME NEW l \in 1 .. LEVELS, l - 1 \in T PROVE l \in T
  BY <1>5, <1>9, <1>11
<1> HIDE DEF T
<1>12. 0 .. LEVELS \subseteq T
  BY <1>1, <1>10, <1>11, IntervalInduction
<1>13. ASSUME NEW l \in 0 .. LEVELS PROVE Reach[l] \in Nat \ {0}
  BY <1>4, <1>12 DEF T, X
<1> QED BY <1>9, <1>13

\* The number of pages, its half, and the first index of a page.
LEMMA PageNumbers ==
    /\ Reach[LEVELS - 1] \in Nat \ {0} /\ NPages = FANOUT * Reach[LEVELS - 1] /\ NPages \in Nat
    /\ NPages \div 2 = KERNEL_PML4_INDEX * Reach[LEVELS - 1] /\ NPages \div 2 \in Nat
<1>1. LEVELS - 1 \in 0 .. LEVELS /\ LEVELS \in 1 .. LEVELS
  BY Sizes
<1>2. PICK P \in Nat \ {0}, h \in Nat, F \in Nat : P = Reach[LEVELS - 1] /\ h = KERNEL_PML4_INDEX /\ F = FANOUT /\ F = 2 * h
  BY <1>1, ReachIs, Sizes
<1>3. NPages = F * P
  BY <1>1, <1>2, ReachIs DEF NPages
<1>4. F * P \in Nat /\ h * P \in Nat /\ F * P = 2 * (h * P) + 0
  BY <1>2
<1>5. (F * P) \div 2 = h * P
  <2>1. PICK a \in Nat, b \in Nat : a = F * P /\ b = h * P /\ a = 2 * b + 0
    BY <1>4
  <2>2. a \div 2 = b
    BY <2>1, DivModUnique
  <2> QED BY <2>1, <2>2
<1> QED BY <1>2, <1>3, <1>4, <1>5

\* An index is an index of a table.
LEMMA IndexInWord ==
    ASSUME NEW vp \in Nat, NEW l \in 0 .. LEVELS
    PROVE  IndexAt(vp, l) \in Word
<1>1. PICK d \in Nat \ {0} : d = Reach[l]
  BY ReachIs
<1>2. PICK q \in Int : q = vp \div d
  <2>1. vp \in Int
    OBVIOUS
  <2> QED BY <2>1, DivMod
<1>3. FANOUT \in Nat \ {0}
  BY Sizes
<1>4. q % FANOUT \in 0 .. FANOUT - 1
  BY <1>3, DivMod
<1> QED BY <1>1, <1>2, <1>4 DEF IndexAt, Word

\* A page of the lower half is reached through the lower half of the root.
LEMMA UserIndex ==
    ASSUME NEW vp \in 0 .. (NPages \div 2) - 1
    PROVE  IndexAt(vp, LEVELS - 1) \in Word /\ IndexAt(vp, LEVELS - 1) < KERNEL_PML4_INDEX /\ vp \in Nat
<1>1. PICK P \in Nat \ {0}, h \in Nat, F \in Nat : P = Reach[LEVELS - 1] /\ h = KERNEL_PML4_INDEX /\ F = FANOUT /\ F = 2 * h /\ h >= 1
  BY PageNumbers, Sizes
<1>2. vp \in Nat /\ vp < P * h
  BY <1>1, PageNumbers
<1>3. PICK q \in Int, r \in 0 .. P - 1 : q = vp \div P /\ vp = P * q + r
  <2>1. vp \in Int
    BY <1>2
  <2>2. vp \div P \in Int /\ vp % P \in 0 .. P - 1 /\ vp = P * (vp \div P) + (vp % P)
    BY <2>1, DivMod
  <2> QED BY <2>2
<1>4. q < h
  <2> SUFFICES ASSUME q >= h PROVE FALSE
    BY <1>1, <1>3
  <2>1. P * q >= P * h
    <3>1. CASE q = h
      BY <3>1, <1>1
    <3>2. CASE h < q
      <4>1. P * h + P <= P * q
        <5>1. h \in Int
          BY <1>1
        <5> QED BY <5>1, <3>2, ProductGap
      <4> QED BY <4>1, <1>1, <1>3
    <3> QED BY <3>1, <3>2, <1>1, <1>3
  <2> QED BY <2>1, <1>1, <1>2, <1>3
<1>5. q >= 0
  <2> SUFFICES ASSUME q < 0 PROVE FALSE
    BY <1>3
  <2>1. P * q + P <= P * 0
    BY <1>1, <1>3, ProductGap
  <2> QED BY <2>1, <1>1, <1>2, <1>3
<1>6. q \in 0 .. F - 1 /\ F \in Nat \ {0}
  BY <1>1, <1>3, <1>4, <1>5
<1>7. q % F = q
  BY <1>6, ModSmall
<1>8. IndexAt(vp, LEVELS - 1) = q
  BY <1>1, <1>3, <1>7 DEF IndexAt
<1> QED BY <1>1, <1>2, <1>4, <1>6, <1>8 DEF Word

\* The two pages of the kernel: reached through the upper half of the root, and
\* with different last indices.
LEMMA KernelIndices ==
    /\ \A vp \in KernelPage : vp \in Nat /\ vp < NPages /\ IndexAt(vp, LEVELS - 1) >= KERNEL_PML4_INDEX
    /\ \A vp, up \in KernelPage : vp # up => IndexAt(vp, 0) # IndexAt(up, 0)
<1>1. PICK P \in Nat \ {0}, h \in Nat, F \in Nat \ {0} :
          P = Reach[LEVELS - 1] /\ h = KERNEL_PML4_INDEX /\ F = FANOUT /\ F = 2 * h /\ h >= 1 /\ NPages = F * P
  BY PageNumbers, Sizes
<1>2. PICK Q \in Nat \ {0} : P = F * Q
  <2>1. LEVELS - 1 \in 1 .. LEVELS /\ (LEVELS - 1) - 1 \in 0 .. LEVELS
    BY Sizes
  <2>2. Reach[LEVELS - 1] = FANOUT * Reach[(LEVELS - 1) - 1] /\ Reach[(LEVELS - 1) - 1] \in Nat \ {0}
    BY <2>1, ReachIs
  <2> QED BY <1>1, <2>2
<1> DEFINE u == (F - 1) * P
           v == F * P - 1
<1>3. u \in Nat /\ v \in Nat /\ u = P * (F - 1) + 0 /\ v = P * (F - 1) + (P - 1)
  <2>1. P * F = F * P /\ P * (F - 1) = P * F - P /\ (F - 1) * P = F * P - P
    BY <1>1
  <2>2. P * 0 + P <= P * F
    BY <1>1, ProductGap
  <2> QED BY <2>1, <2>2, <1>1
<1>4. v = F * (P - 1) + (F - 1)
  <2>1. F * (P - 1) = F * P - F
    BY <1>1
  <2> QED BY <2>1, <1>1
<1>5. u = F * ((F - 1) * Q) + 0 /\ (F - 1) * Q \in Int
  <2>1. (F - 1) * (F * Q) = F * ((F - 1) * Q)
    BY <1>1, <1>2
  <2>2. (F - 1) * Q \in Int
    BY <1>1, <1>2
  <2> QED BY <1>2, <2>1, <2>2
<1>6. KernelPage = {u, v}
  BY <1>1 DEF KernelPage
<1> HIDE DEF u, v
<1>7. u \div P = F - 1 /\ v \div P = F - 1
  <2>1. u \in Int /\ v \in Int /\ F - 1 \in Int /\ 0 \in 0 .. P - 1 /\ P - 1 \in 0 .. P - 1
    BY <1>1, <1>3
  <2>2. u \div P = F - 1
    BY <2>1, <1>3, DivModUnique
  <2>3. v \div P = F - 1
    BY <2>1, <1>3, DivModUnique
  <2> QED BY <2>2, <2>3
<1>8. (F - 1) % F = F - 1
  BY <1>1, ModSmall
<1>9. IndexAt(u, LEVELS - 1) = F - 1 /\ IndexAt(v, LEVELS - 1) = F - 1
  BY <1>1, <1>7, <1>8 DEF IndexAt
<1>10. u % F = 0 /\ v % F = F - 1
  <2>1. u % F = 0
    <3>1. PICK q \in Int : u = F * q + 0
      BY <1>5
    <3>2. u \in Int /\ 0 \in 0 .. F - 1
      BY <1>1, <1>3
    <3> QED BY <3>1, <3>2, DivModUnique
  <2>2. v % F = F - 1
    <3>1. F - 1 \in 0 .. F - 1 /\ P - 1 \in Int /\ v \in Int
      BY <1>1, <1>3
    <3> QED BY <3>1, <1>4, DivModUnique
  <2> QED BY <2>1, <2>2
<1>11. ASSUME NEW a \in Nat PROVE IndexAt(a, 0) = a % F
  <2>1. a = 1 * a + 0
    OBVIOUS
  <2>2. a \div 1 = a
    OBVIOUS
  <2> QED BY <2>2, <1>1, ReachIs DEF IndexAt
<1>12. u < NPages /\ v < NPages
  <2>1. PICK n \in Nat, m \in Int : n = F * P /\ m = P * (F - 1)
    BY <1>1
  <2>2. P * (F - 1) = F * P - P
    BY <1>1
  <2>3. m = n - P
    BY <2>1, <2>2
  <2>4. u = m /\ v = n - 1
    BY <1>3, <2>1, <2>3
  <2> QED BY <1>1, <2>1, <2>3, <2>4
<1>13. ASSUME NEW vp \in KernelPage
       PROVE  vp \in Nat /\ vp < NPages /\ IndexAt(vp, LEVELS - 1) >= KERNEL_PML4_INDEX
  <2>1. F - 1 >= h
    BY <1>1
  <2> QED BY <1>1, <1>3, <1>6, <1>9, <1>12, <2>1
<1>14. IndexAt(u, 0) = 0 /\ IndexAt(v, 0) = F - 1 /\ F - 1 # 0
  <2>1. F - 1 # 0
    BY <1>1
  <2> QED BY <1>3, <1>10, <1>11, <2>1
<1>15. ASSUME NEW vp \in KernelPage, NEW up \in KernelPage, vp # up PROVE IndexAt(vp, 0) # IndexAt(up, 0)
  BY <1>6, <1>14, <1>15
<1> QED BY <1>13, <1>15

-----------------------------------------------------------------------------
(* Address spaces: trees of tables *)

Memory == [Frame -> [Word -> Int]]

\* The shape of a tree of tables: lev gives the level of each of its frames, the
\* root's is LEVELS; the frames of level low hang below the last tables.  An entry
\* that counts is a cell; of the root only those below end do.
Cell(m, lev, low, end, root, f, w) ==
    f \in DOMAIN lev /\ w \in Word /\ lev[f] > low /\ (f = root => w < end) /\ m[f][w] > 0
Leveled(lev, low, root) ==
    /\ DOMAIN lev \subseteq Frame /\ root \in DOMAIN lev
    /\ \A f \in DOMAIN lev : lev[f] \in low .. LEVELS /\ (lev[f] = LEVELS <=> f = root)
Entries(m, lev) == \A f \in DOMAIN lev, w \in Word : lev[f] >= 1 => m[f][w] \in Nat
Down(m, lev, low, end, root) ==
    \A f \in DOMAIN lev, w \in Word :
        Cell(m, lev, low, end, root, f, w) => m[f][w] \in DOMAIN lev /\ lev[m[f][w]] = lev[f] - 1
Unique(m, lev, low, end, root) ==
    \A f, g \in DOMAIN lev, w, v \in Word :
        Cell(m, lev, low, end, root, f, w) /\ Cell(m, lev, low, end, root, g, v) /\ m[f][w] = m[g][v] => f = g /\ w = v
Onto(m, lev, low, end, root) ==
    \A g \in DOMAIN lev : g # root => \E f \in DOMAIN lev, w \in Word : Cell(m, lev, low, end, root, f, w) /\ m[f][w] = g
Tree(m, lev, low, end, root) ==
    /\ Leveled(lev, low, root) /\ Entries(m, lev) /\ Down(m, lev, low, end, root)
    /\ Unique(m, lev, low, end, root) /\ Onto(m, lev, low, end, root)

\* The cells teardown visits, by level.
CellsRun(m, root, end, f) ==
    /\ f[0] = {<<root, w>> : w \in {x \in Word : x < end /\ Present(m[root][x])}}
    /\ \A k \in 1 .. LEVELS - 1 : f[k] = {d \in {m[c[1]][c[2]] : c \in f[k - 1]} \X Word : Present(m[d[1]][d[2]])}

\* The levels of CellsBelow.
LEMMA CellsRuns ==
    ASSUME NEW m, NEW root, NEW end
    PROVE  \E f : CellsRun(m, root, end, f) /\ CellsBelow(m, root, end) = UNION {f[k] : k \in 0 .. LEVELS - 1}
<1> DEFINE N == LEVELS - 1
           first == {<<root, w>> : w \in {x \in Word : x < end /\ Present(m[root][x])}}
           Put(i, p) == {d \in {m[c[1]][c[2]] : c \in p} \X Word : Present(m[d[1]][d[2]])}
           R(g) == [i \in 0 .. N |-> IF i = 0 THEN first ELSE Put(i, g[i - 1])]
           F == CHOOSE g : g = R(g)
           Upto(n, g) == g[0] = first /\ \A k \in 1 .. n : g[k] = Put(k, g[k - 1])
<1>1. CellsBelow(m, root, end) = UNION {F[k] : k \in 0 .. N}
  BY DEF CellsBelow
<1>2. N \in Nat
  BY Sizes
<1>3. CellsRun(m, root, end, F) <=> Upto(N, F)
  BY DEF CellsRun
<1> HIDE DEF Put, N, first
<1>5. F = R(F)
  <2> DEFINE T == {n \in 0 .. N : \E g : Upto(n, g)}
  <2>1. 0 \in T
    <3>1. Upto(0, [k \in 0 .. 0 |-> first])
      OBVIOUS
    <3>2. \E g : Upto(0, g)
      BY <3>1
    <3> HIDE DEF Upto
    <3> QED BY <3>2, <1>2
  <2>2. ASSUME NEW n \in 1 .. N, n - 1 \in T PROVE n \in T
    <3>1. PICK g : Upto(n - 1, g)
      BY <2>2
    <3> DEFINE f == [k \in 0 .. n |-> IF k = n THEN Put(n, g[n - 1]) ELSE g[k]]
    <3>2. f[0] = first
      BY <3>1
    <3>3. ASSUME NEW k \in 1 .. n PROVE f[k] = Put(k, f[k - 1])
      <4>1. k - 1 \in 0 .. n /\ k - 1 # n /\ k \in 0 .. n /\ (k # n => k \in 1 .. n - 1)
        OBVIOUS
      <4>2. f[k - 1] = g[k - 1]
        BY <4>1
      <4>3. CASE k = n
        BY <4>1, <4>2, <4>3
      <4>4. CASE k # n
        <5>1. f[k] = g[k]
          BY <4>1, <4>4
        <5> QED BY <3>1, <4>1, <4>2, <4>4, <5>1
      <4> QED BY <4>3, <4>4
    <3> HIDE DEF f
    <3>4. Upto(n, f)
      BY <3>2, <3>3
    <3>5. \E e : Upto(n, e)
      BY <3>4
    <3> HIDE DEF Upto
    <3>6. n \in 0 .. N
      BY <1>2
    <3> QED BY <3>5, <3>6
  <2> HIDE DEF T
  <2>3. 0 .. N \subseteq T
    BY <2>1, <2>2, <1>2, IntervalInduction
  <2>4. N \in T
    BY <2>3, <1>2
  <2>5. PICK g : Upto(N, g)
    BY <2>4 DEF T
  <2> DEFINE u == [k \in 0 .. N |-> g[k]]
  <2>6. ASSUME NEW k \in 0 .. N PROVE u[k] = IF k = 0 THEN first ELSE Put(k, u[k - 1])
    <3>1. CASE k = 0
      BY <2>5, <3>1
    <3>2. CASE k # 0
      <4>1. k \in 1 .. N /\ k - 1 \in 0 .. N
        BY <3>2, <1>2
      <4>2. u[k] = g[k] /\ u[k - 1] = g[k - 1]
        BY <4>1
      <4> QED BY <2>5, <3>2, <4>1, <4>2
    <3> QED BY <3>1, <3>2
  <2>7. u = R(u)
    BY <2>6
  <2> HIDE DEF u
  <2>8. \E e : e = R(e)
    BY <2>7
  <2> QED BY <2>8, Zenon
<1> HIDE DEF F
<1>6. F[0] = first
  BY <1>2, <1>5
<1>7. ASSUME NEW k \in 1 .. N PROVE F[k] = Put(k, F[k - 1])
  <2>1. k \in 0 .. N /\ k # 0
    BY <1>2
  <2> QED BY <1>5, <2>1
<1>8. Upto(N, F)
  BY <1>6, <1>7
<1> QED BY <1>1, <1>3, <1>8 DEF N

\* Teardown visits every cell of a tree.
LEMMA CellsAre ==
    ASSUME NEW m, NEW lev, NEW root, NEW end, Tree(m, lev, 0, end, root)
    PROVE  CellsBelow(m, root, end) = {c \in (DOMAIN lev) \X Word : Cell(m, lev, 0, end, root, c[1], c[2])}
<1>1. PICK f : CellsRun(m, root, end, f) /\ CellsBelow(m, root, end) = UNION {f[k] : k \in 0 .. LEVELS - 1}
  BY CellsRuns
<1>2. LEVELS \in Nat /\ LEVELS >= 2 /\ LEVELS - 1 \in Nat
  BY Sizes
<1>3. /\ root \in DOMAIN lev /\ \A g \in DOMAIN lev : lev[g] \in 0 .. LEVELS /\ (lev[g] = LEVELS <=> g = root)
  BY DEF Tree, Leveled
<1> DEFINE C(g, w) == Cell(m, lev, 0, end, root, g, w)
           At(k) == {c \in (DOMAIN lev) \X Word : C(c[1], c[2]) /\ lev[c[1]] = LEVELS - k}
           T == {k \in 0 .. LEVELS - 1 : f[k] = At(k)}
<1>4. 0 \in T
  <2>1. ASSUME NEW w \in Word PROVE C(root, w) <=> w < end /\ Present(m[root][w])
    BY <1>2, <1>3 DEF Cell, Present
  <2>2. ASSUME NEW c \in (DOMAIN lev) \X Word, C(c[1], c[2]), lev[c[1]] = LEVELS - 0 PROVE c[1] = root /\ c[2] \in Word /\ c = <<root, c[2]>>
    BY <1>2, <1>3, <2>2
  <2>3. ASSUME NEW w \in Word, C(root, w) PROVE <<root, w>> \in At(0)
    BY <1>2, <1>3, <2>3
  <2>4. f[0] = {<<root, w>> : w \in {x \in Word : x < end /\ Present(m[root][x])}}
    BY <1>1 DEF CellsRun
  <2>5. ASSUME NEW c PROVE c \in f[0] <=> c \in At(0)
    <3>1. ASSUME c \in f[0] PROVE c \in At(0)
      <4>1. PICK w \in Word : c = <<root, w>> /\ w < end /\ Present(m[root][w])
        BY <2>4, <3>1
      <4> QED BY <2>1, <2>3, <4>1
    <3>2. ASSUME c \in At(0) PROVE c \in f[0]
      <4>1. c \in (DOMAIN lev) \X Word /\ C(c[1], c[2]) /\ lev[c[1]] = LEVELS - 0
        BY <3>2
      <4>2. c[1] = root /\ c[2] \in Word /\ c = <<root, c[2]>>
        BY <2>2, <4>1
      <4>3. c[2] < end /\ Present(m[root][c[2]])
        BY <2>1, <4>1, <4>2
      <4> QED BY <2>4, <4>2, <4>3
    <3> QED BY <3>1, <3>2
  <2>6. f[0] = At(0)
    BY <2>5
  <2> QED BY <1>2, <2>6
<1>5. ASSUME NEW k \in 1 .. LEVELS - 1, k - 1 \in T PROVE k \in T
  <2>1. f[k - 1] = At(k - 1)
    BY <1>5
  <2>2. f[k] = {d \in {m[c[1]][c[2]] : c \in f[k - 1]} \X Word : Present(m[d[1]][d[2]])}
    BY <1>1 DEF CellsRun
  <2>3. ASSUME NEW g \in DOMAIN lev, lev[g] = LEVELS - k
        PROVE  g \in {m[c[1]][c[2]] : c \in f[k - 1]}
    <3>1. g # root
      BY <1>2, <1>3, <2>3
    <3>2. PICK h \in DOMAIN lev, w \in Word : C(h, w) /\ m[h][w] = g
      BY <3>1 DEF Tree, Onto
    <3>3. lev[g] = lev[h] - 1
      BY <3>2 DEF Tree, Down
    <3>4. lev[h] = LEVELS - (k - 1)
      BY <1>2, <1>3, <2>3, <3>3
    <3> HIDE DEF C
    <3>5. <<h, w>> \in At(k - 1)
      BY <3>2, <3>4
    <3> HIDE DEF At
    <3>6. <<h, w>> \in f[k - 1] /\ g = m[<<h, w>>[1]][<<h, w>>[2]]
      BY <2>1, <3>2, <3>5
    <3> QED BY <3>6
  <2>4. ASSUME NEW c \in f[k - 1] PROVE m[c[1]][c[2]] \in DOMAIN lev /\ lev[m[c[1]][c[2]]] = LEVELS - k
    <3>1. c[1] \in DOMAIN lev /\ c[2] \in Word /\ C(c[1], c[2]) /\ lev[c[1]] = LEVELS - (k - 1)
      BY <2>1, <2>4
    <3>2. m[c[1]][c[2]] \in DOMAIN lev /\ lev[m[c[1]][c[2]]] = lev[c[1]] - 1
      BY <3>1 DEF Tree, Down
    <3> QED BY <1>2, <3>1, <3>2
  <2>5. ASSUME NEW g \in DOMAIN lev, lev[g] = LEVELS - k, NEW w \in Word
        PROVE  C(g, w) <=> Present(m[g][w])
    BY <1>2, <1>3, <2>5 DEF Cell, Present
  <2> HIDE DEF C
  <2>6. ASSUME NEW d PROVE d \in f[k] <=> d \in At(k)
    <3>1. ASSUME d \in f[k] PROVE d \in At(k)
      <4>1. PICK c \in f[k - 1], w \in Word : d = <<m[c[1]][c[2]], w>> /\ Present(m[d[1]][d[2]])
        BY <2>2, <3>1
      <4>2. PICK g \in DOMAIN lev : g = m[c[1]][c[2]] /\ lev[g] = LEVELS - k
        BY <2>4
      <4>3. C(g, w)
        BY <2>5, <4>1, <4>2
      <4> QED BY <4>1, <4>2, <4>3
    <3>2. ASSUME d \in At(k) PROVE d \in f[k]
      <4>1. PICK g \in DOMAIN lev, w \in Word : d = <<g, w>> /\ C(g, w) /\ lev[g] = LEVELS - k
        BY <3>2
      <4>2. g \in {m[c[1]][c[2]] : c \in f[k - 1]} /\ Present(m[g][w])
        BY <2>3, <2>5, <4>1
      <4> QED BY <2>2, <4>1, <4>2
    <3> QED BY <3>1, <3>2
  <2>7. f[k] = At(k)
    BY <2>6
  <2> QED BY <1>2, <2>7
<1> HIDE DEF T
<1>6. 0 .. LEVELS - 1 \subseteq T
  BY <1>2, <1>4, <1>5, IntervalInduction
<1>7. \A k \in 0 .. LEVELS - 1 : f[k] = At(k)
  BY <1>6 DEF T
<1> DEFINE All == {c \in (DOMAIN lev) \X Word : C(c[1], c[2])}
<1>8. ASSUME NEW c \in All PROVE \E k \in 0 .. LEVELS - 1 : c \in f[k]
  <2>1. c \in (DOMAIN lev) \X Word /\ C(c[1], c[2]) /\ c[1] \in DOMAIN lev
    OBVIOUS
  <2>2. lev[c[1]] > 0
    BY <2>1 DEF Cell
  <2>3. PICK k \in 0 .. LEVELS - 1 : lev[c[1]] = LEVELS - k
    <3>1. PICK l \in 0 .. LEVELS : l = lev[c[1]] /\ l > 0
      BY <1>3, <2>1, <2>2
    <3>2. LEVELS - l \in 0 .. LEVELS - 1 /\ l = LEVELS - (LEVELS - l)
      BY <1>2, <3>1
    <3> QED BY <3>1, <3>2
  <2> HIDE DEF C
  <2>4. c \in At(k)
    BY <2>1, <2>3
  <2> QED BY <1>7, <2>4
<1>9. ASSUME NEW k \in 0 .. LEVELS - 1, NEW c \in f[k] PROVE c \in All
  <2> HIDE DEF C
  <2> QED BY <1>7, <1>9
<1> HIDE DEF All
<1>10. UNION {f[k] : k \in 0 .. LEVELS - 1} = All
  BY <1>8, <1>9
<1> QED BY <1>1, <1>10 DEF All

\* Teardown frees the frames of the tree.
LEMMA TreeFrames ==
    ASSUME NEW m, NEW lev, NEW root, Tree(m, lev, 0, KERNEL_PML4_INDEX, root)
    PROVE  /\ {m[c[1]][c[2]] : c \in CellsBelow(m, root, KERNEL_PML4_INDEX)} = DOMAIN lev \ {root}
           /\ pgtable_free_tree(m, root) = DOMAIN lev
<1> DEFINE end == KERNEL_PML4_INDEX
           C(g, w) == Cell(m, lev, 0, end, root, g, w)
           B == CellsBelow(m, root, end)
<1>1. B = {c \in (DOMAIN lev) \X Word : C(c[1], c[2])}
  BY CellsAre
<1>2. root \in DOMAIN lev /\ \A g \in DOMAIN lev : lev[g] \in 0 .. LEVELS /\ (lev[g] = LEVELS <=> g = root)
  BY DEF Tree, Leveled
<1>3. LEVELS \in Nat
  BY Sizes
<1> HIDE DEF B
<1>4. ASSUME NEW c \in B PROVE m[c[1]][c[2]] \in DOMAIN lev \ {root}
  <2>1. c[1] \in DOMAIN lev /\ c[2] \in Word /\ C(c[1], c[2])
    BY <1>1, <1>4
  <2>2. m[c[1]][c[2]] \in DOMAIN lev /\ lev[m[c[1]][c[2]]] = lev[c[1]] - 1
    BY <2>1 DEF Tree, Down
  <2>3. lev[m[c[1]][c[2]]] # LEVELS
    BY <1>2, <1>3, <2>1, <2>2
  <2> QED BY <1>2, <2>2, <2>3
<1>5. ASSUME NEW g \in DOMAIN lev \ {root} PROVE \E c \in B : m[c[1]][c[2]] = g
  <2>1. PICK h \in DOMAIN lev, w \in Word : C(h, w) /\ m[h][w] = g
    BY <1>5 DEF Tree, Onto
  <2> HIDE DEF C
  <2>2. <<h, w>> \in B
    BY <1>1, <2>1
  <2>3. <<h, w>>[1] = h /\ <<h, w>>[2] = w
    OBVIOUS
  <2> QED BY <2>1, <2>2, <2>3
<1>6. {m[c[1]][c[2]] : c \in B} = DOMAIN lev \ {root}
  BY <1>4, <1>5
<1> QED BY <1>2, <1>6 DEF pgtable_free_tree, pgtable_free_level, B

\* A walk through the tables.
Walks(m, root, vp, f) ==
    /\ f[0] = root
    /\ \A k \in 1 .. LEVELS : f[k] = IF f[k - 1] = 0 THEN 0 ELSE m[f[k - 1]][IndexAt(vp, LEVELS - k)]

\* pgtable_kva walks.
LEMMA WalkRuns ==
    ASSUME NEW m, NEW root, NEW vp
    PROVE  \E f : Walks(m, root, vp, f) /\ pgtable_kva(m, root, vp) = f[LEVELS]
<1> DEFINE N == LEVELS
           first == root
           Put(i, p) == IF p = 0 THEN 0 ELSE m[p][IndexAt(vp, LEVELS - i)]
           R(g) == [i \in 0 .. N |-> IF i = 0 THEN first ELSE Put(i, g[i - 1])]
           F == CHOOSE g : g = R(g)
           Upto(n, g) == g[0] = first /\ \A k \in 1 .. n : g[k] = Put(k, g[k - 1])
<1>1. pgtable_kva(m, root, vp) = F[N]
  BY DEF pgtable_kva
<1>2. N \in Nat
  BY Sizes
<1>3. Walks(m, root, vp, F) <=> Upto(N, F)
  BY DEF Walks
<1> HIDE DEF Put, N, first
<1>5. F = R(F)
  <2> DEFINE T == {n \in 0 .. N : \E g : Upto(n, g)}
  <2>1. 0 \in T
    <3>1. Upto(0, [k \in 0 .. 0 |-> first])
      OBVIOUS
    <3>2. \E g : Upto(0, g)
      BY <3>1
    <3> HIDE DEF Upto
    <3> QED BY <3>2, <1>2
  <2>2. ASSUME NEW n \in 1 .. N, n - 1 \in T PROVE n \in T
    <3>1. PICK g : Upto(n - 1, g)
      BY <2>2
    <3> DEFINE f == [k \in 0 .. n |-> IF k = n THEN Put(n, g[n - 1]) ELSE g[k]]
    <3>2. f[0] = first
      BY <3>1
    <3>3. ASSUME NEW k \in 1 .. n PROVE f[k] = Put(k, f[k - 1])
      <4>1. k - 1 \in 0 .. n /\ k - 1 # n /\ k \in 0 .. n /\ (k # n => k \in 1 .. n - 1)
        OBVIOUS
      <4>2. f[k - 1] = g[k - 1]
        BY <4>1
      <4>3. CASE k = n
        BY <4>1, <4>2, <4>3
      <4>4. CASE k # n
        <5>1. f[k] = g[k]
          BY <4>1, <4>4
        <5> QED BY <3>1, <4>1, <4>2, <4>4, <5>1
      <4> QED BY <4>3, <4>4
    <3> HIDE DEF f
    <3>4. Upto(n, f)
      BY <3>2, <3>3
    <3>5. \E e : Upto(n, e)
      BY <3>4
    <3> HIDE DEF Upto
    <3>6. n \in 0 .. N
      BY <1>2
    <3> QED BY <3>5, <3>6
  <2> HIDE DEF T
  <2>3. 0 .. N \subseteq T
    BY <2>1, <2>2, <1>2, IntervalInduction
  <2>4. N \in T
    BY <2>3, <1>2
  <2>5. PICK g : Upto(N, g)
    BY <2>4 DEF T
  <2> DEFINE u == [k \in 0 .. N |-> g[k]]
  <2>6. ASSUME NEW k \in 0 .. N PROVE u[k] = IF k = 0 THEN first ELSE Put(k, u[k - 1])
    <3>1. CASE k = 0
      BY <2>5, <3>1
    <3>2. CASE k # 0
      <4>1. k \in 1 .. N /\ k - 1 \in 0 .. N
        BY <3>2, <1>2
      <4>2. u[k] = g[k] /\ u[k - 1] = g[k - 1]
        BY <4>1
      <4> QED BY <2>5, <3>2, <4>1, <4>2
    <3> QED BY <3>1, <3>2
  <2>7. u = R(u)
    BY <2>6
  <2> HIDE DEF u
  <2>8. \E e : e = R(e)
    BY <2>7
  <2> QED BY <2>8, Zenon
<1> HIDE DEF F
<1>6. F[0] = first
  BY <1>2, <1>5
<1>7. ASSUME NEW k \in 1 .. N PROVE F[k] = Put(k, F[k - 1])
  <2>1. k \in 0 .. N /\ k # 0
    BY <1>2
  <2> QED BY <1>5, <2>1
<1>8. Upto(N, F)
  BY <1>6, <1>7
<1> QED BY <1>1, <1>3, <1>8 DEF N

\* Every walk ends where pgtable_kva does.
LEMMA WalkIsKva ==
    ASSUME NEW m, NEW root, NEW vp, NEW f, Walks(m, root, vp, f)
    PROVE  pgtable_kva(m, root, vp) = f[LEVELS]
<1>1. PICK g : Walks(m, root, vp, g) /\ pgtable_kva(m, root, vp) = g[LEVELS]
  BY WalkRuns
<1> DEFINE T == {k \in 0 .. LEVELS : f[k] = g[k]}
<1>2. LEVELS \in Nat
  BY Sizes
<1>3. 0 \in T
  BY <1>1, <1>2 DEF Walks
<1>4. ASSUME NEW k \in 1 .. LEVELS, k - 1 \in T PROVE k \in T
  <2>1. k \in 0 .. LEVELS /\ f[k - 1] = g[k - 1]
    BY <1>2, <1>4
  <2> QED BY <1>1, <2>1 DEF Walks
<1> HIDE DEF T
<1>5. 0 .. LEVELS \subseteq T
  BY <1>2, <1>3, <1>4, IntervalInduction
<1> QED BY <1>1, <1>2, <1>5 DEF T

\* In a user's tree a walk for a page of the lower half stays in the tree.
LEMMA UserWalk ==
    ASSUME NEW m, NEW lev, NEW root, Tree(m, lev, 0, KERNEL_PML4_INDEX, root),
           NEW vp \in 0 .. (NPages \div 2) - 1, NEW f, Walks(m, root, vp, f)
    PROVE  /\ \A k \in 0 .. LEVELS : f[k] = 0 \/ (f[k] \in DOMAIN lev /\ lev[f[k]] = LEVELS - k)
           /\ \A k \in 1 .. LEVELS : f[k] # 0 =>
                 /\ IndexAt(vp, LEVELS - k) \in Word /\ m[f[k - 1]][IndexAt(vp, LEVELS - k)] = f[k]
                 /\ Cell(m, lev, 0, KERNEL_PML4_INDEX, root, f[k - 1], IndexAt(vp, LEVELS - k))
<1>2. LEVELS \in Nat /\ LEVELS >= 2
  BY Sizes
<1>3. root \in DOMAIN lev /\ \A g \in DOMAIN lev : lev[g] \in 0 .. LEVELS /\ (lev[g] = LEVELS <=> g = root)
  BY DEF Tree, Leveled
<1> DEFINE In(k, g) == g \in DOMAIN lev /\ lev[g] = LEVELS - k
           On(k) == k # 0 /\ f[k] # 0 =>
                        /\ IndexAt(vp, LEVELS - k) \in Word /\ m[f[k - 1]][IndexAt(vp, LEVELS - k)] = f[k]
                        /\ Cell(m, lev, 0, KERNEL_PML4_INDEX, root, f[k - 1], IndexAt(vp, LEVELS - k))
           T == {k \in 0 .. LEVELS : (f[k] = 0 \/ In(k, f[k])) /\ On(k)}
<1>4. 0 \in T
  BY <1>2, <1>3 DEF Walks
<1>5. ASSUME NEW k \in 1 .. LEVELS, k - 1 \in T PROVE k \in T
  <2>1. k \in 0 .. LEVELS /\ (f[k - 1] = 0 \/ In(k - 1, f[k - 1])) /\ LEVELS - k \in 0 .. LEVELS
    BY <1>2, <1>5
  <2>2. CASE f[k - 1] = 0
    BY <2>1, <2>2 DEF Walks
  <2>3. CASE f[k - 1] # 0
    <3> DEFINE h == f[k - 1]
               i == IndexAt(vp, LEVELS - k)
    <3>1. vp \in Nat
      BY UserIndex
    <3>2. i \in Word
      BY <2>1, <3>1, IndexInWord
    <3>3. f[k] = m[h][i] /\ h \in DOMAIN lev /\ lev[h] = LEVELS - (k - 1)
      BY <2>1, <2>3 DEF Walks
    <3>4. h = root => i < KERNEL_PML4_INDEX
      <4>1. ASSUME h = root PROVE k = 1
        <5>1. lev[h] = LEVELS
          BY <1>3, <4>1
        <5> QED BY <1>2, <3>3, <5>1
      <4>2. ASSUME k = 1 PROVE i = IndexAt(vp, LEVELS - 1)
        BY <4>2
      <4> QED BY <4>1, <4>2, UserIndex
    <3>9. h = f[k - 1] /\ i = IndexAt(vp, LEVELS - k)
      OBVIOUS
    <3> HIDE DEF h, i
    <3>5. lev[h] >= 1 /\ lev[h] > 0
      BY <1>2, <3>3
    <3>6. m[h][i] \in Nat
      BY <3>2, <3>3, <3>5 DEF Tree, Entries
    <3>7. CASE m[h][i] = 0
      BY <2>1, <3>3, <3>7
    <3>8. CASE m[h][i] # 0
      <4>1. m[h][i] > 0
        BY <3>6, <3>8
      <4>2. Cell(m, lev, 0, KERNEL_PML4_INDEX, root, h, i)
        BY <3>2, <3>3, <3>4, <3>5, <4>1 DEF Cell
      <4>3. m[h][i] \in DOMAIN lev /\ lev[m[h][i]] = lev[h] - 1
        BY <3>2, <3>3, <4>2 DEF Tree, Down
      <4>4. lev[m[h][i]] = LEVELS - k
        BY <1>2, <3>3, <4>3
      <4> QED BY <2>1, <3>2, <3>3, <3>9, <4>2, <4>3, <4>4
    <3> QED BY <3>7, <3>8
  <2> QED BY <2>2, <2>3
<1> HIDE DEF T
<1>6. 0 .. LEVELS \subseteq T
  BY <1>2, <1>4, <1>5, IntervalInduction
<1>7. ASSUME NEW k \in 1 .. LEVELS PROVE k \in T /\ k # 0
  BY <1>2, <1>6
<1> QED BY <1>6, <1>7 DEF T

\* Its end is a frame of data, if it has one.
LEMMA WalkInTree ==
    ASSUME NEW m, NEW lev, NEW root, Tree(m, lev, 0, KERNEL_PML4_INDEX, root),
           NEW vp \in 0 .. (NPages \div 2) - 1
    PROVE  LET g == pgtable_kva(m, root, vp) IN g # 0 => g \in DOMAIN lev /\ lev[g] = 0
<1>1. PICK f : Walks(m, root, vp, f) /\ pgtable_kva(m, root, vp) = f[LEVELS]
  BY WalkRuns
<1>2. LEVELS \in 0 .. LEVELS /\ LEVELS - LEVELS = 0
  BY Sizes
<1>3. f[LEVELS] = 0 \/ (f[LEVELS] \in DOMAIN lev /\ lev[f[LEVELS]] = LEVELS - LEVELS)
  BY <1>1, <1>2, UserWalk
<1> QED BY <1>1, <1>2, <1>3

\* A tree that is not written to, or only below its tables, stays one.
LEMMA TreeKept ==
    ASSUME NEW m, NEW n, NEW lev, NEW low, NEW end, NEW root, low \in {0, 1}, Tree(m, lev, low, end, root),
           \A f \in DOMAIN lev : lev[f] >= 1 => n[f] = m[f]
    PROVE  Tree(n, lev, low, end, root)
<1>1. \A f \in DOMAIN lev : lev[f] \in low .. LEVELS
  BY DEF Tree, Leveled
<1>2. ASSUME NEW f \in DOMAIN lev, lev[f] > low PROVE n[f] = m[f]
  <2>1. lev[f] >= 1
    BY <1>1, <1>2, Sizes
  <2> QED BY <2>1
<1>3. ASSUME NEW f, NEW w PROVE Cell(n, lev, low, end, root, f, w) <=> Cell(m, lev, low, end, root, f, w)
  BY <1>2 DEF Cell
<1>4. ASSUME NEW f, NEW w, Cell(m, lev, low, end, root, f, w) PROVE n[f][w] = m[f][w]
  BY <1>2, <1>4 DEF Cell
<1>5. Entries(n, lev)
  BY DEF Tree, Entries
<1>6. Down(n, lev, low, end, root)
  BY <1>3, <1>4 DEF Tree, Down
<1>7. Unique(n, lev, low, end, root)
  BY <1>3, <1>4 DEF Tree, Unique
<1>8. Onto(n, lev, low, end, root)
  BY <1>3, <1>4 DEF Tree, Onto
<1> QED BY <1>5, <1>6, <1>7, <1>8 DEF Tree

\* As many cells as frames below the root.
LEMMA CellsCounted ==
    ASSUME NEW m, NEW lev, NEW root, Tree(m, lev, 0, KERNEL_PML4_INDEX, root)
    PROVE  LET B == CellsBelow(m, root, KERNEL_PML4_INDEX)
           IN  IsFiniteSet(B) /\ IsFiniteSet(DOMAIN lev) /\ Cardinality(DOMAIN lev) = Cardinality(B) + 1
<1> DEFINE end == KERNEL_PML4_INDEX
           B == CellsBelow(m, root, end)
           S == DOMAIN lev \ {root}
           at == [c \in B |-> m[c[1]][c[2]]]
<1>1. B = {c \in (DOMAIN lev) \X Word : Cell(m, lev, 0, end, root, c[1], c[2])}
  BY CellsAre
<1>2. {m[c[1]][c[2]] : c \in B} = S
  BY TreeFrames
<1>3. DOMAIN lev \subseteq Frame /\ root \in DOMAIN lev
  BY DEF Tree, Leveled
<1>4. IsFiniteSet(Frame) /\ IsFiniteSet(Word)
  <2>1. 1 \in Int /\ NFrames \in Int /\ 0 \in Int /\ FANOUT - 1 \in Int
    BY Sizes
  <2> QED BY <2>1, FS_Interval DEF Frame, Word
<1>5. IsFiniteSet(DOMAIN lev)
  BY <1>3, <1>4, FS_Subset
<1>6. IsFiniteSet((DOMAIN lev) \X Word)
  BY <1>4, <1>5, FS_Product
<1> HIDE DEF B
<1>7. IsFiniteSet(B)
  BY <1>1, <1>6, FS_Subset
<1>8. at \in [B -> S] /\ \A g \in S : \E c \in B : at[c] = g
  BY <1>2
<1>9. ASSUME NEW c \in B, NEW d \in B, at[c] = at[d] PROVE c = d
  <2>1. /\ c \in (DOMAIN lev) \X Word /\ Cell(m, lev, 0, end, root, c[1], c[2])
        /\ d \in (DOMAIN lev) \X Word /\ Cell(m, lev, 0, end, root, d[1], d[2])
    BY <1>1
  <2>2. m[c[1]][c[2]] = m[d[1]][d[2]]
    BY <1>9
  <2>3. c[1] \in DOMAIN lev /\ d[1] \in DOMAIN lev /\ c[2] \in Word /\ d[2] \in Word
    BY <2>1
  <2>4. c[1] = d[1] /\ c[2] = d[2]
    BY <2>1, <2>2, <2>3 DEF Tree, Unique
  <2> QED BY <2>1, <2>4
<1> HIDE DEF at, S
<1>10. at \in Bijection(B, S)
  BY <1>8, <1>9 DEF Bijection, Injection, Surjection, IsInjective
<1>11. ExistsBijection(B, S)
  BY <1>10 DEF ExistsBijection
<1>12. Cardinality(S) = Cardinality(B) /\ IsFiniteSet(S)
  BY <1>7, <1>11, FS_Bijection
<1>13. DOMAIN lev = S \cup {root} /\ root \notin S
  BY <1>3 DEF S
<1>14. Cardinality(S \cup {root}) = Cardinality(S) + 1
  BY <1>12, <1>13, FS_AddElement
<1> QED BY <1>5, <1>7, <1>12, <1>13, <1>14 DEF B

-----------------------------------------------------------------------------
(* Address spaces: one entry more *)

\* The levels when entry old of a table becomes g, at level l.
Relevel(lev, old, g, l) == [f \in (DOMAIN lev \ {old}) \cup {g} |-> IF f = g THEN l ELSE lev[f]]

\* An entry of a table is set to a frame from outside: an empty table where there
\* was none, or data in the place of other data.
SetsEntry(m, n, lev, low, end, root, t, i, g) ==
    /\ low \in {0, 1} /\ Tree(m, lev, low, end, root)
    /\ t \in DOMAIN lev /\ lev[t] > low /\ i \in Word /\ (t = root => i < end) /\ (m[t][i] > 0 => lev[t] = 1)
    /\ g \in Frame /\ g \notin DOMAIN lev
    /\ n[t][i] = g /\ \A w \in Word : w # i => n[t][w] = m[t][w]
    /\ \A f \in DOMAIN lev : f # t /\ lev[f] >= 1 => n[f] = m[f]
    /\ lev[t] >= 2 => \A w \in Word : n[g][w] = 0

\* It stays a tree.
LEMMA SetEntry ==
    ASSUME NEW m, NEW n, NEW lev, NEW low, NEW end, NEW root, NEW t, NEW i, NEW g,
           SetsEntry(m, n, lev, low, end, root, t, i, g)
    PROVE  Tree(n, Relevel(lev, m[t][i], g, lev[t] - 1), low, end, root)
<1> SUFFICES ASSUME low \in {0, 1}, Tree(m, lev, low, end, root),
                    t \in DOMAIN lev, lev[t] > low, i \in Word, t = root => i < end, m[t][i] > 0 => lev[t] = 1,
                    g \in Frame, g \notin DOMAIN lev,
                    n[t][i] = g, \A w \in Word : w # i => n[t][w] = m[t][w],
                    \A f \in DOMAIN lev : f # t /\ lev[f] >= 1 => n[f] = m[f],
                    lev[t] >= 2 => \A w \in Word : n[g][w] = 0
             PROVE  Tree(n, Relevel(lev, m[t][i], g, lev[t] - 1), low, end, root)
  BY DEF SetsEntry
<1> DEFINE old == m[t][i]
           new == Relevel(lev, old, g, lev[t] - 1)
           C(f, w) == Cell(m, lev, low, end, root, f, w)
           D(f, w) == Cell(n, new, low, end, root, f, w)
<1>1. /\ DOMAIN lev \subseteq Frame /\ root \in DOMAIN lev
      /\ \A f \in DOMAIN lev : lev[f] \in low .. LEVELS /\ (lev[f] = LEVELS <=> f = root)
  BY DEF Tree, Leveled
<1>2. LEVELS \in Nat /\ \A f \in Frame : f \in Nat /\ f > 0
  BY Sizes DEF Frame
<1>3. lev[t] \in Nat /\ lev[t] >= 1 /\ lev[t] \in low .. LEVELS /\ low \in Nat
  BY <1>1, <1>2
<1>4. old \in Nat /\ (old # 0 => old > 0 /\ lev[t] = 1)
  BY <1>3 DEF Tree, Entries
<1>5. old \in DOMAIN lev => lev[old] = 0 /\ lev[t] = 1 /\ low = 0
  <2> SUFFICES ASSUME old \in DOMAIN lev PROVE lev[old] = 0 /\ lev[t] = 1 /\ low = 0
    OBVIOUS
  <2>1. old > 0 /\ lev[t] = 1
    BY <1>1, <1>2, <1>4
  <2>2. C(t, i)
    BY <2>1 DEF Cell
  <2>3. lev[old] = lev[t] - 1
    BY <2>2 DEF Tree, Down
  <2> QED BY <1>3, <2>1, <2>3
<1>6. t # g /\ t # old /\ old # root /\ g # root
  <2>1. old \in DOMAIN lev => lev[old] # lev[t]
    BY <1>5
  <2>2. root \in DOMAIN lev /\ lev[root] = LEVELS /\ LEVELS >= 2
    BY <1>1, Sizes
  <2> QED BY <1>5, <2>1, <2>2
<1>7. /\ DOMAIN new = (DOMAIN lev \ {old}) \cup {g} /\ new[g] = lev[t] - 1
      /\ \A f \in DOMAIN lev \ {old} : new[f] = lev[f]
      /\ t \in DOMAIN new /\ root \in DOMAIN new /\ g \in DOMAIN new
  BY <1>1, <1>6 DEF Relevel
<1> HIDE DEF new
<1>8. ASSUME NEW f \in DOMAIN lev, f # t, f # old, lev[f] > low PROVE n[f] = m[f]
  <2>1. lev[f] >= 1
    BY <1>1, <1>2, <1>3, <1>8
  <2> QED BY <1>8, <2>1
<1>9. ASSUME NEW f, NEW w \in Word, C(f, w), ~(f = t /\ w = i)
      PROVE  f # old /\ f # g /\ f \in DOMAIN lev /\ f \in DOMAIN new /\ n[f][w] = m[f][w] /\ new[f] = lev[f] /\ D(f, w)
  <2>1. f \in DOMAIN lev /\ lev[f] > low /\ (f = root => w < end) /\ m[f][w] > 0
    BY <1>9 DEF Cell
  <2>2. f # old /\ f # g
    BY <1>5, <2>1
  <2>3. f \in DOMAIN new /\ new[f] = lev[f]
    BY <1>7, <2>1, <2>2
  <2>4. n[f][w] = m[f][w]
    BY <1>8, <1>9, <2>1, <2>2
  <2> QED BY <2>1, <2>2, <2>3, <2>4 DEF Cell
<1>10. D(t, i) /\ n[t][i] = g
  <2>1. new[t] = lev[t] /\ n[t][i] > 0
    BY <1>2, <1>6, <1>7
  <2> QED BY <1>7, <2>1 DEF Cell
<1>11. ASSUME NEW f, NEW w \in Word, D(f, w), ~(f = t /\ w = i) PROVE C(f, w)
  <2>1. f \in DOMAIN new /\ new[f] > low /\ (f = root => w < end) /\ n[f][w] > 0
    BY <1>11 DEF Cell
  <2>2. f # g
    <3> SUFFICES ASSUME f = g PROVE FALSE
      OBVIOUS
    <3>1. lev[t] - 1 > low
      BY <1>7, <2>1
    <3>2. lev[t] >= 2
      BY <1>3, <3>1
    <3> QED BY <2>1, <3>2
  <2>3. f \in DOMAIN lev /\ f # old /\ new[f] = lev[f]
    BY <1>7, <2>1, <2>2
  <2>4. n[f][w] = m[f][w]
    <3>1. CASE f = t
      BY <1>11, <3>1
    <3>2. CASE f # t
      BY <1>8, <2>1, <2>3, <3>2
    <3> QED BY <3>1, <3>2
  <2> QED BY <2>1, <2>3, <2>4 DEF Cell
<1>12. Leveled(new, low, root)
  <2>1. DOMAIN new \subseteq Frame
    BY <1>1, <1>7
  <2>2. lev[t] - 1 \in low .. LEVELS /\ lev[t] - 1 # LEVELS
    BY <1>2, <1>3
  <2>3. ASSUME NEW f \in DOMAIN new PROVE new[f] \in low .. LEVELS /\ (new[f] = LEVELS <=> f = root)
    <3>1. CASE f = g
      BY <1>6, <1>7, <2>2, <3>1
    <3>2. CASE f # g
      BY <1>1, <1>7, <3>2
    <3> QED BY <3>1, <3>2
  <2> QED BY <1>7, <2>1, <2>3 DEF Leveled
<1>13. Entries(n, new)
  <2> SUFFICES ASSUME NEW f \in DOMAIN new, NEW w \in Word, new[f] >= 1 PROVE n[f][w] \in Nat
    BY DEF Entries
  <2>1. CASE f = g
    <3>1. lev[t] >= 2
      BY <1>3, <1>7, <2>1
    <3> QED BY <2>1, <3>1
  <2>2. CASE f # g
    <3>1. f \in DOMAIN lev /\ lev[f] >= 1 /\ f # old
      BY <1>7, <2>2
    <3>2. m[f][w] \in Nat
      BY <3>1 DEF Tree, Entries
    <3>3. CASE f = t /\ w = i
      BY <1>2, <3>3
    <3>4. CASE f = t /\ w # i
      BY <3>2, <3>4
    <3>5. CASE f # t
      BY <3>1, <3>2, <3>5
    <3> QED BY <3>3, <3>4, <3>5
  <2> QED BY <2>1, <2>2
<1>14. ASSUME NEW f, NEW w \in Word, C(f, w), ~(f = t /\ w = i)
       PROVE  m[f][w] # old /\ m[f][w] # g /\ m[f][w] \in DOMAIN new /\ new[m[f][w]] = lev[f] - 1
  <2>1. f \in DOMAIN lev
    BY <1>14 DEF Cell
  <2>2. m[f][w] \in DOMAIN lev /\ lev[m[f][w]] = lev[f] - 1
    BY <1>14, <2>1 DEF Tree, Down
  <2>3. m[f][w] # old
    <3> SUFFICES ASSUME m[f][w] = old PROVE FALSE
      OBVIOUS
    <3>1. old > 0
      BY <1>14 DEF Cell
    <3>2. C(t, i)
      BY <3>1 DEF Cell
    <3> QED BY <1>14, <2>1, <3>2 DEF Tree, Unique
  <2> QED BY <1>7, <2>2, <2>3
<1>15. Down(n, new, low, end, root)
  <2> SUFFICES ASSUME NEW f \in DOMAIN new, NEW w \in Word, D(f, w) PROVE n[f][w] \in DOMAIN new /\ new[n[f][w]] = new[f] - 1
    BY DEF Down
  <2>1. CASE f = t /\ w = i
    BY <1>6, <1>7, <2>1
  <2>2. CASE ~(f = t /\ w = i)
    <3>1. C(f, w)
      BY <1>11, <2>2
    <3>2. n[f][w] = m[f][w] /\ new[f] = lev[f]
      BY <1>9, <2>2, <3>1
    <3> QED BY <1>14, <2>2, <3>1, <3>2
  <2> QED BY <2>1, <2>2
<1>16. Unique(n, new, low, end, root)
  <2> SUFFICES ASSUME NEW f \in DOMAIN new, NEW h \in DOMAIN new, NEW w \in Word, NEW v \in Word,
                      D(f, w), D(h, v), n[f][w] = n[h][v]
               PROVE  f = h /\ w = v
    BY DEF Unique
  <2>1. ASSUME NEW x, NEW y \in Word, D(x, y), ~(x = t /\ y = i) PROVE C(x, y) /\ n[x][y] = m[x][y] /\ n[x][y] # g /\ x \in DOMAIN lev
    <3>1. C(x, y)
      BY <1>11, <2>1
    <3> QED BY <1>9, <1>14, <2>1, <3>1
  <2>2. CASE f = t /\ w = i
    BY <2>1, <2>2
  <2>3. CASE h = t /\ v = i
    BY <2>1, <2>3
  <2>4. CASE ~(f = t /\ w = i) /\ ~(h = t /\ v = i)
    <3>1. C(f, w) /\ C(h, v) /\ m[f][w] = m[h][v] /\ f \in DOMAIN lev /\ h \in DOMAIN lev
      BY <2>1, <2>4
    <3> QED BY <3>1 DEF Tree, Unique
  <2> QED BY <2>2, <2>3, <2>4
<1>17. Onto(n, new, low, end, root)
  <2> SUFFICES ASSUME NEW h \in DOMAIN new, h # root
               PROVE  \E f \in DOMAIN new, w \in Word : D(f, w) /\ n[f][w] = h
    BY DEF Onto
  <2>1. CASE h = g
    BY <1>7, <1>10, <2>1
  <2>2. CASE h # g
    <3>1. h \in DOMAIN lev /\ h # old
      BY <1>7, <2>2
    <3>2. PICK f \in DOMAIN lev, w \in Word : C(f, w) /\ m[f][w] = h
      BY <3>1 DEF Tree, Onto
    <3>3. ~(f = t /\ w = i)
      BY <3>1, <3>2
    <3> QED BY <1>9, <3>2, <3>3
  <2> QED BY <2>1, <2>2
<1> QED BY <1>12, <1>13, <1>15, <1>16, <1>17 DEF Tree, new

-----------------------------------------------------------------------------
(* Address spaces: frames and mappings *)

\* What the operations on page tables carry along.
Call == [mem : Memory, taken : SUBSET Frame, leaked : SUBSET Int, ok : BOOLEAN, f : Int, t : Int,
         root : Int, ks : Int, rc : Int, read : Int]
Same(s, r) == r.leaked = s.leaked /\ r.root = s.root /\ r.ks = s.ks /\ r.rc = s.rc /\ r.read = s.read

\* A frame that was free.
LEMMA AllocFrame ==
    ASSUME NEW s \in Call, NEW r, r = buddy_alloc_frame(s)
    PROVE  /\ r \in Call /\ Same(s, r) /\ r.mem = s.mem /\ r.t = s.t
           /\ r.ok => s.ok /\ r.f \in Frame \ s.taken /\ r.taken = s.taken \cup {r.f}
<1> DEFINE room == Frame \ s.taken
           f == CHOOSE x \in room : \A y \in room : x <= y
<1>1. room = {} => r = [s EXCEPT !.ok = FALSE]
  BY DEF buddy_alloc_frame
<1>2. room # {} => r = [s EXCEPT !.taken = s.taken \cup {f}, !.f = f]
  BY DEF buddy_alloc_frame
<1>3. room # {} => f \in room
  <2> SUFFICES ASSUME room # {} PROVE f \in room
    OBVIOUS
  <2>1. room \in SUBSET Nat
    BY Sizes DEF Frame
  <2>2. PICK T : T = room
    OBVIOUS
  <2>3. \E x \in T : \A y \in T : x <= y
    BY <2>1, <2>2, LeastNat
  <2> QED BY <2>2, <2>3
<1> HIDE DEF f
<1>4. CASE room = {}
  BY <1>1, <1>4 DEF Call, Same
<1>5. CASE room # {}
  <2>1. f \in Int /\ f \in Frame /\ f \notin s.taken
    BY <1>3, <1>5, Sizes DEF Frame
  <2> HIDE DEF room
  <2>2. s.taken \cup {f} \in SUBSET Frame
    BY <2>1 DEF Call
  <2>3. r = [s EXCEPT !.taken = s.taken \cup {f}, !.f = f]
    BY <1>2, <1>5
  <2> QED BY <2>1, <2>2, <2>3 DEF Call, Same
<1> QED BY <1>4, <1>5

\* Zeroes in the frame at hand.
LEMMA ZeroFrame ==
    ASSUME NEW s \in Call, s.f \in Frame, NEW r, r = Zeroed(s)
    PROVE  /\ r \in Call /\ Same(s, r) /\ r.ok = s.ok /\ r.t = s.t /\ r.f = s.f /\ r.taken = s.taken
           /\ \A g \in Frame : g # s.f => r.mem[g] = s.mem[g]
           /\ \A w \in Word : r.mem[s.f][w] = 0
<1> DEFINE z == [w \in Word |-> 0]
<1>1. z \in [Word -> Int]
  OBVIOUS
<1>2. PICK n : n = [s.mem EXCEPT ![s.f] = z]
  OBVIOUS
<1>3. r = [s EXCEPT !.mem = n]
  BY <1>2 DEF Zeroed
<1>4. s.mem \in Memory
  BY DEF Call
<1>5. n \in Memory /\ n[s.f] = z /\ \A g \in Frame : g # s.f => n[g] = s.mem[g]
  BY <1>1, <1>2, <1>4 DEF Memory
<1>6. r \in Call /\ Same(s, r) /\ r.ok = s.ok /\ r.t = s.t /\ r.f = s.f /\ r.taken = s.taken /\ r.mem = n
  BY <1>3, <1>5 DEF Call, Same
<1> QED BY <1>5, <1>6

\* A table without entries.
LEMMA AllocTable ==
    ASSUME NEW s \in Call, NEW r, r = pgtable_alloc_table(s)
    PROVE  /\ r \in Call
           /\ r.ok => /\ s.ok /\ Same(s, r) /\ r.t = s.t
                      /\ r.f \in Frame \ s.taken /\ r.taken = s.taken \cup {r.f}
                      /\ \A g \in Frame : g # r.f => r.mem[g] = s.mem[g]
                      /\ \A w \in Word : r.mem[r.f][w] = 0
<1>1. PICK q : q = buddy_alloc_frame(s)
  OBVIOUS
<1>2. /\ q \in Call /\ Same(s, q) /\ q.mem = s.mem /\ q.t = s.t
      /\ q.ok => s.ok /\ q.f \in Frame \ s.taken /\ q.taken = s.taken \cup {q.f}
  BY <1>1, AllocFrame
<1>3. r = IF q.ok THEN Zeroed(q) ELSE q
  BY <1>1 DEF pgtable_alloc_table, AndThen
<1>4. CASE ~q.ok
  BY <1>2, <1>3, <1>4
<1>5. CASE q.ok
  <2>1. q.f \in Frame /\ r = Zeroed(q)
    BY <1>2, <1>3, <1>5
  <2>2. /\ r \in Call /\ Same(q, r) /\ r.ok = q.ok /\ r.t = q.t /\ r.f = q.f /\ r.taken = q.taken
        /\ \A g \in Frame : g # q.f => r.mem[g] = q.mem[g]
        /\ \A w \in Word : r.mem[q.f][w] = 0
    BY <1>2, <2>1, ZeroFrame
  <2> QED BY <1>2, <1>5, <2>2 DEF Same
<1> QED BY <1>4, <1>5

\* A root with the kernel's half.
LEMMA CreateTable ==
    ASSUME NEW s \in Call, NEW kernel \in s.taken, NEW r, r = pgtable_create(s, kernel)
    PROVE  /\ r \in Call
           /\ r.ok => /\ s.ok /\ Same(s, r) /\ r.t = s.t
                      /\ r.f \in Frame \ s.taken /\ r.taken = s.taken \cup {r.f}
                      /\ \A g \in Frame : g # r.f => r.mem[g] = s.mem[g]
                      /\ \A w \in Word : r.mem[r.f][w] = IF w >= KERNEL_PML4_INDEX THEN s.mem[kernel][w] ELSE 0
<1>1. PICK q : q = pgtable_alloc_table(s)
  OBVIOUS
<1>2. q \in Call
  BY <1>1, AllocTable
<1>3. q.ok => /\ s.ok /\ Same(s, q) /\ q.t = s.t
              /\ q.f \in Frame \ s.taken /\ q.taken = s.taken \cup {q.f}
              /\ \A g \in Frame : g # q.f => q.mem[g] = s.mem[g]
  BY <1>1, AllocTable
<1> DEFINE z == [w \in Word |-> IF w >= KERNEL_PML4_INDEX THEN q.mem[kernel][w] ELSE 0]
<1>4. PICK n : n = [q.mem EXCEPT ![q.f] = z]
  OBVIOUS
<1>5. r = IF q.ok THEN [q EXCEPT !.mem = n] ELSE q
  BY <1>1, <1>4 DEF pgtable_create, AndThen
<1>6. CASE ~q.ok
  BY <1>2, <1>5, <1>6
<1>7. CASE q.ok
  <2>1. kernel \in Frame /\ kernel # q.f /\ q.f \in Frame
    BY <1>3, <1>7 DEF Call
  <2>2. q.mem \in Memory /\ s.mem \in Memory
    BY <1>2 DEF Call
  <2>3. z \in [Word -> Int]
    BY <2>1, <2>2 DEF Memory
  <2>4. q.mem[kernel] = s.mem[kernel]
    BY <1>3, <1>7, <2>1
  <2>5. \A w \in Word : z[w] = IF w >= KERNEL_PML4_INDEX THEN s.mem[kernel][w] ELSE 0
    BY <2>4
  <2> HIDE DEF z
  <2>6. n \in Memory /\ n[q.f] = z /\ \A g \in Frame : g # q.f => n[g] = q.mem[g]
    BY <1>4, <2>1, <2>2, <2>3 DEF Memory
  <2>7. r = [q EXCEPT !.mem = n]
    BY <1>5, <1>7
  <2>8. r \in Call /\ Same(q, r) /\ r.ok = q.ok /\ r.t = q.t /\ r.f = q.f /\ r.taken = q.taken /\ r.mem = n
    BY <1>2, <2>6, <2>7 DEF Call, Same
  <2> QED BY <1>3, <1>7, <2>5, <2>6, <2>8 DEF Same
<1> QED BY <1>6, <1>7

\* One level down in pgtable_map, and its last step.
StepDown(r, i) ==
    AndThen(r, LAMBDA x : IF Present(x.mem[x.t][i]) THEN [x EXCEPT !.t = x.mem[x.t][i]]
                          ELSE AndThen(pgtable_alloc_table(x), LAMBDA q : [q EXCEPT !.mem[x.t][i] = q.f, !.t = q.f]))
PutLeaf(r, i, frame) ==
    AndThen(r, LAMBDA x : [x EXCEPT !.mem[x.t][i] = frame, !.leaked = @ \cup ({x.mem[x.t][i]} \ {0})])
Descends(s, root, vp, f) ==
    /\ f[0] = [s EXCEPT !.t = root]
    /\ \A k \in 1 .. LEVELS - 1 : f[k] = StepDown(f[k - 1], IndexAt(vp, LEVELS - k))

\* pgtable_map goes down level by level.
LEMMA DescentRuns ==
    ASSUME NEW s, NEW root, NEW vp, NEW frame
    PROVE  \E f : Descends(s, root, vp, f) /\ pgtable_map(s, root, vp, frame) = PutLeaf(f[LEVELS - 1], IndexAt(vp, 0), frame)
<1> DEFINE N == LEVELS - 1
           first == [s EXCEPT !.t = root]
           Put(i, p) == StepDown(p, IndexAt(vp, LEVELS - i))
           R(g) == [i \in 0 .. N |-> IF i = 0 THEN first ELSE Put(i, g[i - 1])]
           F == CHOOSE g : g = R(g)
           Upto(n, g) == g[0] = first /\ \A k \in 1 .. n : g[k] = Put(k, g[k - 1])
<1>1. pgtable_map(s, root, vp, frame) = PutLeaf(F[N], IndexAt(vp, 0), frame)
  BY DEF pgtable_map, StepDown, PutLeaf, AndThen
<1>2. N \in Nat
  BY Sizes
<1>3. Descends(s, root, vp, F) <=> Upto(N, F)
  BY DEF Descends
<1> HIDE DEF Put, N, first
<1>5. F = R(F)
  <2> DEFINE T == {n \in 0 .. N : \E g : Upto(n, g)}
  <2>1. 0 \in T
    <3>1. Upto(0, [k \in 0 .. 0 |-> first])
      OBVIOUS
    <3>2. \E g : Upto(0, g)
      BY <3>1
    <3> HIDE DEF Upto
    <3> QED BY <3>2, <1>2
  <2>2. ASSUME NEW n \in 1 .. N, n - 1 \in T PROVE n \in T
    <3>1. PICK g : Upto(n - 1, g)
      BY <2>2
    <3> DEFINE f == [k \in 0 .. n |-> IF k = n THEN Put(n, g[n - 1]) ELSE g[k]]
    <3>2. f[0] = first
      BY <3>1
    <3>3. ASSUME NEW k \in 1 .. n PROVE f[k] = Put(k, f[k - 1])
      <4>1. k - 1 \in 0 .. n /\ k - 1 # n /\ k \in 0 .. n /\ (k # n => k \in 1 .. n - 1)
        OBVIOUS
      <4>2. f[k - 1] = g[k - 1]
        BY <4>1
      <4>3. CASE k = n
        BY <4>1, <4>2, <4>3
      <4>4. CASE k # n
        <5>1. f[k] = g[k]
          BY <4>1, <4>4
        <5> QED BY <3>1, <4>1, <4>2, <4>4, <5>1
      <4> QED BY <4>3, <4>4
    <3> HIDE DEF f
    <3>4. Upto(n, f)
      BY <3>2, <3>3
    <3>5. \E e : Upto(n, e)
      BY <3>4
    <3> HIDE DEF Upto
    <3>6. n \in 0 .. N
      BY <1>2
    <3> QED BY <3>5, <3>6
  <2> HIDE DEF T
  <2>3. 0 .. N \subseteq T
    BY <2>1, <2>2, <1>2, IntervalInduction
  <2>4. N \in T
    BY <2>3, <1>2
  <2>5. PICK g : Upto(N, g)
    BY <2>4 DEF T
  <2> DEFINE u == [k \in 0 .. N |-> g[k]]
  <2>6. ASSUME NEW k \in 0 .. N PROVE u[k] = IF k = 0 THEN first ELSE Put(k, u[k - 1])
    <3>1. CASE k = 0
      BY <2>5, <3>1
    <3>2. CASE k # 0
      <4>1. k \in 1 .. N /\ k - 1 \in 0 .. N
        BY <3>2, <1>2
      <4>2. u[k] = g[k] /\ u[k - 1] = g[k - 1]
        BY <4>1
      <4> QED BY <2>5, <3>2, <4>1, <4>2
    <3> QED BY <3>1, <3>2
  <2>7. u = R(u)
    BY <2>6
  <2> HIDE DEF u
  <2>8. \E e : e = R(e)
    BY <2>7
  <2> QED BY <2>8, Zenon
<1> HIDE DEF F
<1>6. F[0] = first
  BY <1>2, <1>5
<1>7. ASSUME NEW k \in 1 .. N PROVE F[k] = Put(k, F[k - 1])
  <2>1. k \in 0 .. N /\ k # 0
    BY <1>2
  <2> QED BY <1>5, <2>1
<1>8. Upto(N, F)
  BY <1>6, <1>7
<1> QED BY <1>1, <1>3, <1>8 DEF N

-----------------------------------------------------------------------------
(* Address spaces: the descent of pgtable_map *)

\* A tree being worked on: the frames in use are those of the tree and of X.
Work(s, lev, low, end, root, X) ==
    /\ s \in Call /\ s.taken = X \cup DOMAIN lev /\ X \cap DOMAIN lev = {}
    /\ Tree(s.mem, lev, low, end, root)

\* What the descent leaves alone.
Grown(s, lev, end, root, r, new) ==
    /\ s.ok /\ Same(s, r) /\ DOMAIN lev \subseteq DOMAIN new /\ \A f \in DOMAIN lev : new[f] = lev[f]
    /\ \A f \in Frame : f \notin DOMAIN new => r.mem[f] = s.mem[f]
    /\ \A f \in DOMAIN lev : lev[f] <= 1 => r.mem[f] = s.mem[f]
    /\ \A f \in DOMAIN lev, w \in Word : s.mem[f][w] # 0 => r.mem[f][w] = s.mem[f][w]
    /\ \A w \in Word : w >= end => r.mem[root][w] = s.mem[root][w]
    /\ \A f \in DOMAIN new : f \in DOMAIN lev \/ new[f] >= 1

\* One level down.
LEMMA DownStep ==
    ASSUME NEW s, NEW lev, NEW low \in {0, 1}, NEW end \in Nat, NEW root, NEW X, Work(s, lev, low, end, root, X),
           s.t \in DOMAIN lev, lev[s.t] >= 2, NEW i \in Word, s.t = root => i < end,
           NEW r, r = StepDown(s, i), r.ok
    PROVE  \E new : /\ Work(r, new, low, end, root, X) /\ Grown(s, lev, end, root, r, new)
                    /\ r.t \in DOMAIN new /\ new[r.t] = lev[s.t] - 1 /\ r.mem[s.t][i] = r.t
<1>1. PICK m, t : m = s.mem /\ t = s.t
  OBVIOUS
<1>2. s \in Call /\ s.taken = X \cup DOMAIN lev /\ X \cap DOMAIN lev = {} /\ Tree(m, lev, low, end, root)
  BY <1>1 DEF Work
<1>3. DOMAIN lev \subseteq Frame /\ root \in DOMAIN lev /\ \A f \in DOMAIN lev : lev[f] \in low .. LEVELS /\ (lev[f] = LEVELS <=> f = root)
  BY <1>2 DEF Tree, Leveled
<1>4. t \in DOMAIN lev /\ t \in Frame /\ lev[t] \in Nat /\ lev[t] >= 2 /\ lev[t] > low /\ (t = root => i < end)
  BY <1>1, <1>3, Sizes
<1>5. m[t][i] \in Nat
  BY <1>2, <1>4 DEF Tree, Entries
<1>6. s.ok
  BY DEF StepDown, AndThen
<1>7. CASE m[t][i] > 0
  <2>1. PICK u : u = m[t][i]
    OBVIOUS
  <2>2. r = [s EXCEPT !.t = u]
    BY <1>1, <1>6, <1>7, <2>1 DEF StepDown, AndThen, Present
  <2>3. Cell(m, lev, low, end, root, t, i)
    BY <1>4, <1>7 DEF Cell
  <2>4. u \in DOMAIN lev /\ lev[u] = lev[t] - 1
    BY <1>2, <1>4, <2>1, <2>3 DEF Tree, Down
  <2>5. u \in Int
    BY <1>5, <2>1
  <2>6. r \in Call /\ Same(s, r) /\ r.mem = m /\ r.taken = s.taken /\ r.t = u
    BY <1>1, <1>2, <2>2, <2>5 DEF Call, Same
  <2>7. Work(r, lev, low, end, root, X)
    BY <1>2, <2>6 DEF Work
  <2>8. Grown(s, lev, end, root, r, lev)
    BY <1>1, <1>6, <2>6 DEF Grown
  <2> QED BY <1>1, <2>1, <2>4, <2>6, <2>7, <2>8
<1>8. CASE ~(m[t][i] > 0)
  <2>1. m[t][i] = 0
    BY <1>5, <1>8
  <2>2. PICK q : q = pgtable_alloc_table(s)
    OBVIOUS
  <2>3. PICK n : n = [q.mem EXCEPT ![t][i] = q.f]
    OBVIOUS
  <2>4. r = IF q.ok THEN [q EXCEPT !.mem = n, !.t = q.f] ELSE q
    BY <1>1, <1>6, <1>8, <2>2, <2>3 DEF StepDown, AndThen, Present
  <2>5. q.ok
    BY <2>4
  <2>6. /\ q \in Call /\ Same(s, q)
        /\ q.f \in Frame \ s.taken /\ q.taken = s.taken \cup {q.f}
        /\ \A g \in Frame : g # q.f => q.mem[g] = s.mem[g]
        /\ \A w \in Word : q.mem[q.f][w] = 0
    BY <1>2, <2>2, <2>5, AllocTable
  <2>7. PICK g : g = q.f
    OBVIOUS
  <2>8. g \in Frame /\ g \notin X /\ g \notin DOMAIN lev /\ g # t /\ g \in Int /\ g # 0
    BY <1>2, <1>4, <2>6, <2>7, Sizes DEF Frame
  <2>9. q.mem \in Memory /\ q.mem[t] = m[t] /\ m \in Memory
    BY <1>1, <1>2, <1>4, <2>6, <2>7, <2>8 DEF Call
  <2>10. PICK row : row = [q.mem[t] EXCEPT ![i] = g]
    OBVIOUS
  <2>11. n = [q.mem EXCEPT ![t] = row]
    BY <2>3, <2>7, <2>10
  <2>12. row \in [Word -> Int] /\ row[i] = g /\ \A w \in Word : w # i => row[w] = m[t][w]
    BY <1>4, <2>8, <2>9, <2>10 DEF Memory
  <2>13. n \in Memory /\ n[t] = row /\ \A f \in Frame : f # t => n[f] = q.mem[f]
    BY <1>4, <2>9, <2>11, <2>12 DEF Memory
  <2>14. r = [q EXCEPT !.mem = n, !.t = g]
    BY <2>4, <2>5, <2>7
  <2>15. r \in Call /\ Same(s, r) /\ r.mem = n /\ r.taken = s.taken \cup {g} /\ r.t = g
    BY <2>6, <2>7, <2>8, <2>13, <2>14 DEF Call, Same
  <2>16. \A f \in Frame : f # t /\ f # g => n[f] = m[f]
    BY <1>1, <2>6, <2>7, <2>13
  <2>17. \A w \in Word : n[g][w] = 0
    BY <2>6, <2>7, <2>8, <2>13
  <2> DEFINE new == Relevel(lev, m[t][i], g, lev[t] - 1)
  <2>18. Tree(n, new, low, end, root)
    <3>1. m[t][i] > 0 => lev[t] = 1
      BY <1>8
    <3>2. n[t][i] = g /\ \A w \in Word : w # i => n[t][w] = m[t][w]
      BY <2>12, <2>13
    <3>3. \A f \in DOMAIN lev : f # t /\ lev[f] >= 1 => n[f] = m[f]
      BY <1>3, <2>8, <2>16
    <3> HIDE DEF new
    <3>4. Tree(m, lev, low, end, root) /\ t \in DOMAIN lev /\ lev[t] > low /\ (t = root => i < end)
      BY <1>2, <1>4
    <3>5. g \in Frame /\ g \notin DOMAIN lev /\ (lev[t] >= 2 => \A w \in Word : n[g][w] = 0)
      BY <2>8, <2>17
    <3>6. Tree(n, Relevel(lev, m[t][i], g, lev[t] - 1), low, end, root)
      <4>1. SetsEntry(m, n, lev, low, end, root, t, i, g)
        BY <3>1, <3>2, <3>3, <3>4, <3>5 DEF SetsEntry
      <4> QED BY <4>1, SetEntry
    <3> QED BY <3>6 DEF new
  <2>19. /\ DOMAIN new = DOMAIN lev \cup {g} /\ new[g] = lev[t] - 1 /\ \A f \in DOMAIN lev : new[f] = lev[f]
    <3>1. 0 \notin DOMAIN lev
      BY <1>3, Sizes DEF Frame
    <3> QED BY <2>1, <2>8, <3>1 DEF Relevel
  <2> HIDE DEF new
  <2>20. Work(r, new, low, end, root, X)
    BY <1>2, <2>8, <2>15, <2>18, <2>19 DEF Work
  <2>21. Grown(s, lev, end, root, r, new)
    <3>1. ASSUME NEW f \in DOMAIN lev PROVE f \in Frame /\ f # g
      BY <1>3, <2>8
    <3>2. ASSUME NEW f \in Frame, f \notin DOMAIN new PROVE r.mem[f] = s.mem[f]
      BY <1>1, <1>4, <2>15, <2>16, <2>19, <3>2
    <3>3. ASSUME NEW f \in DOMAIN lev, lev[f] <= 1 PROVE r.mem[f] = s.mem[f]
      <4>1. f # t
        BY <1>4, <3>3
      <4> QED BY <1>1, <2>15, <2>16, <3>1, <4>1
    <3>4. ASSUME NEW f \in DOMAIN lev, NEW w \in Word, s.mem[f][w] # 0 PROVE r.mem[f][w] = s.mem[f][w]
      <4>1. CASE f = t
        <5>1. w # i
          BY <1>1, <2>1, <3>4, <4>1
        <5> QED BY <1>1, <2>12, <2>13, <2>15, <4>1, <5>1
      <4>2. CASE f # t
        BY <1>1, <2>15, <2>16, <3>1, <4>2
      <4> QED BY <4>1, <4>2
    <3>5. ASSUME NEW w \in Word, w >= end PROVE r.mem[root][w] = s.mem[root][w]
      <4>1. CASE root = t
        <5>1. w # i
          <6>1. i < end /\ i \in Int /\ w \in Int
            BY <1>4, <4>1, Sizes DEF Word
          <6> QED BY <3>5, <6>1
        <5> QED BY <1>1, <2>12, <2>13, <2>15, <4>1, <5>1
      <4>2. CASE root # t
        BY <1>1, <1>3, <2>15, <2>16, <3>1, <4>2
      <4> QED BY <4>1, <4>2
    <3>6. Same(s, r) /\ DOMAIN lev \subseteq DOMAIN new /\ \A f \in DOMAIN lev : new[f] = lev[f]
      BY <2>15, <2>19
    <3>7. ASSUME NEW f \in DOMAIN new PROVE f \in DOMAIN lev \/ new[f] >= 1
      BY <1>4, <2>19
    <3> QED BY <1>6, <3>2, <3>3, <3>4, <3>5, <3>6, <3>7 DEF Grown
  <2> QED BY <1>1, <2>12, <2>13, <2>15, <2>19, <2>20, <2>21
<1> QED BY <1>7, <1>8

\* Descents follow each other.
LEMMA GrownMore ==
    ASSUME NEW s, NEW lev, NEW end, NEW root, NEW r, NEW new, NEW q, NEW more,
           DOMAIN lev \subseteq Frame, root \in DOMAIN lev,
           Grown(s, lev, end, root, r, new), Grown(r, new, end, root, q, more)
    PROVE  Grown(s, lev, end, root, q, more)
<1>1. s.ok /\ Same(s, q) /\ DOMAIN lev \subseteq DOMAIN more /\ \A f \in DOMAIN lev : more[f] = lev[f]
  BY DEF Grown, Same
<1>2. ASSUME NEW f \in Frame, f \notin DOMAIN more PROVE q.mem[f] = s.mem[f]
  BY <1>2 DEF Grown
<1>3. ASSUME NEW f \in DOMAIN lev, lev[f] <= 1 PROVE q.mem[f] = s.mem[f]
  <2>1. f \in DOMAIN new /\ new[f] <= 1 /\ r.mem[f] = s.mem[f]
    BY <1>3 DEF Grown
  <2> QED BY <2>1 DEF Grown
<1>4. ASSUME NEW f \in DOMAIN lev, NEW w \in Word, s.mem[f][w] # 0 PROVE q.mem[f][w] = s.mem[f][w]
  <2>1. f \in DOMAIN new /\ r.mem[f][w] = s.mem[f][w]
    BY <1>4 DEF Grown
  <2> QED BY <1>4, <2>1 DEF Grown
<1>5. ASSUME NEW w \in Word, w >= end PROVE q.mem[root][w] = s.mem[root][w]
  BY <1>5 DEF Grown
<1>6. ASSUME NEW f \in DOMAIN more PROVE f \in DOMAIN lev \/ more[f] >= 1
  BY DEF Grown
<1> QED BY <1>1, <1>2, <1>3, <1>4, <1>5, <1>6 DEF Grown

\* Where the descent is after k levels: at the table of that level, with the
\* tables above it on the way.
Reached(s, lev, low, end, root, X, vp, f, k, new) ==
    /\ Work(f[k], new, low, end, root, X) /\ Grown(s, lev, end, root, f[k], new)
    /\ \A j \in 0 .. k : f[j].t \in DOMAIN new /\ new[f[j].t] = LEVELS - j
    /\ \A j \in 1 .. k : f[k].mem[f[j - 1].t][IndexAt(vp, LEVELS - j)] = f[j].t

\* The descent ends at a table of the last level.
LEMMA Descent ==
    ASSUME NEW s, NEW lev, NEW low \in {0, 1}, NEW end \in Nat, NEW root, NEW X, Work(s, lev, low, end, root, X),
           NEW vp \in Nat, IndexAt(vp, LEVELS - 1) < end, NEW f, Descends(s, root, vp, f), f[LEVELS - 1].ok
    PROVE  \E new : Reached(s, lev, low, end, root, X, vp, f, LEVELS - 1, new)
<1> DEFINE R(k, new) == Reached(s, lev, low, end, root, X, vp, f, k, new)
           T == {k \in 0 .. LEVELS - 1 : f[k].ok => \E new : R(k, new)}
<1>1. LEVELS \in Nat /\ LEVELS >= 2 /\ LEVELS - 1 \in Nat
  BY Sizes
<1>2. s \in Call /\ Tree(s.mem, lev, low, end, root)
  BY DEF Work
<1>3. DOMAIN lev \subseteq Frame /\ root \in DOMAIN lev /\ lev[root] = LEVELS /\ root \in Int
  BY <1>2, Sizes DEF Tree, Leveled, Frame
<1>4. 0 \in T
  <2> SUFFICES ASSUME f[0].ok PROVE \E new : R(0, new)
    BY <1>1
  <2>1. PICK r : r = f[0]
    OBVIOUS
  <2>2. r = [s EXCEPT !.t = root]
    BY <2>1 DEF Descends
  <2>3. r \in Call /\ Same(s, r) /\ r.mem = s.mem /\ r.taken = s.taken /\ r.t = root /\ r.ok = s.ok
    BY <1>2, <1>3, <2>2 DEF Call, Same
  <2>4. Work(r, lev, low, end, root, X)
    BY <2>3 DEF Work
  <2>5. Grown(s, lev, end, root, r, lev)
    BY <2>1, <2>3 DEF Grown
  <2>6. R(0, lev)
    <3>1. ASSUME NEW j \in 0 .. 0 PROVE f[j].t = root /\ LEVELS - j = LEVELS
      BY <1>1, <2>1, <2>3
    <3> QED BY <1>3, <2>1, <2>4, <2>5, <3>1 DEF Reached
  <2> QED BY <2>6
<1>5. ASSUME NEW k \in 1 .. LEVELS - 1, k - 1 \in T PROVE k \in T
  <2> SUFFICES ASSUME f[k].ok PROVE \E new : R(k, new)
    BY <1>1
  <2>1. PICK q, r, i : q = f[k - 1] /\ r = f[k] /\ i = IndexAt(vp, LEVELS - k)
    OBVIOUS
  <2>2. r = StepDown(q, i)
    BY <2>1 DEF Descends
  <2>3. r.ok /\ q.ok
    BY <2>1, <2>2 DEF StepDown, AndThen
  <2>4. PICK old : R(k - 1, old)
    BY <1>5, <2>1, <2>3
  <2>5. /\ Work(q, old, low, end, root, X) /\ Grown(s, lev, end, root, q, old)
        /\ \A j \in 0 .. k - 1 : f[j].t \in DOMAIN old /\ old[f[j].t] = LEVELS - j
        /\ \A j \in 1 .. k - 1 : q.mem[f[j - 1].t][IndexAt(vp, LEVELS - j)] = f[j].t
    BY <2>1, <2>4 DEF Reached
  <2>6. q.t \in DOMAIN old /\ old[q.t] = LEVELS - (k - 1) /\ old[q.t] >= 2
    <3>1. k - 1 \in 0 .. k - 1 /\ LEVELS - (k - 1) >= 2
      BY <1>1
    <3> QED BY <2>1, <2>5, <3>1
  <2>7. i \in Word
    <3>1. LEVELS - k \in 0 .. LEVELS
      BY <1>1
    <3> QED BY <2>1, <3>1, IndexInWord
  <2>8. DOMAIN old \subseteq Frame /\ root \in DOMAIN old /\ old[root] = LEVELS
    BY <2>5 DEF Work, Tree, Leveled
  <2>9. q.t = root => i < end
    <3> SUFFICES ASSUME q.t = root PROVE i < end
      OBVIOUS
    <3>1. LEVELS - (k - 1) = LEVELS
      BY <2>6, <2>8
    <3>2. k = 1
      BY <1>1, <3>1
    <3> QED BY <2>1, <3>2
  <2>10. PICK new : /\ Work(r, new, low, end, root, X) /\ Grown(q, old, end, root, r, new)
                    /\ r.t \in DOMAIN new /\ new[r.t] = old[q.t] - 1 /\ r.mem[q.t][i] = r.t
    BY <2>2, <2>3, <2>5, <2>6, <2>7, <2>9, DownStep
  <2>11. Grown(s, lev, end, root, r, new)
    BY <1>3, <2>5, <2>10, GrownMore
  <2>12. ASSUME NEW j \in 0 .. k PROVE f[j].t \in DOMAIN new /\ new[f[j].t] = LEVELS - j
    <3>1. CASE j = k
      <4>1. LEVELS - (k - 1) - 1 = LEVELS - k
        BY <1>1
      <4> QED BY <2>1, <2>6, <2>10, <3>1, <4>1
    <3>2. CASE j # k
      <4>1. j \in 0 .. k - 1
        BY <1>1, <3>2
      <4>2. f[j].t \in DOMAIN old /\ old[f[j].t] = LEVELS - j
        BY <2>5, <4>1
      <4> QED BY <2>10, <4>2 DEF Grown
    <3> QED BY <3>1, <3>2
  <2>13. ASSUME NEW j \in 1 .. k PROVE r.mem[f[j - 1].t][IndexAt(vp, LEVELS - j)] = f[j].t
    <3>1. CASE j = k
      BY <2>1, <2>10, <3>1
    <3>2. CASE j # k
      <4>1. j \in 1 .. k - 1 /\ j - 1 \in 0 .. k - 1 /\ j \in 0 .. k - 1 /\ LEVELS - j \in 0 .. LEVELS
        BY <1>1, <3>2
      <4>2. PICK h, u, w : h = f[j - 1].t /\ u = f[j].t /\ w = IndexAt(vp, LEVELS - j)
        OBVIOUS
      <4>3. q.mem[h][w] = u /\ h \in DOMAIN old /\ u \in DOMAIN old
        BY <2>5, <4>1, <4>2
      <4>4. w \in Word
        BY <4>1, <4>2, IndexInWord
      <4>5. u # 0
        BY <2>8, <4>3, Sizes DEF Frame
      <4>6. r.mem[h][w] = u
        BY <2>10, <4>3, <4>4, <4>5 DEF Grown
      <4> QED BY <4>2, <4>6
    <3> QED BY <3>1, <3>2
  <2>14. R(k, new)
    BY <2>1, <2>10, <2>11, <2>12, <2>13 DEF Reached
  <2> QED BY <2>14
<1> HIDE DEF T
<1>6. 0 .. LEVELS - 1 \subseteq T
  BY <1>1, <1>4, <1>5, IntervalInduction
<1>7. LEVELS - 1 \in T
  BY <1>1, <1>6
<1> QED BY <1>7 DEF T

\* The last step: the entry is overwritten.
LEMMA LeafSet ==
    ASSUME NEW s \in Call, s.ok, s.t \in Frame, NEW i \in Word, NEW v \in Int, NEW r, r = PutLeaf(s, i, v)
    PROVE  /\ r \in Call /\ r.ok /\ r.taken = s.taken /\ r.root = s.root /\ r.ks = s.ks /\ r.f = s.f
           /\ r.leaked = s.leaked \cup ({s.mem[s.t][i]} \ {0})
           /\ r.mem[s.t][i] = v /\ \A w \in Word : w # i => r.mem[s.t][w] = s.mem[s.t][w]
           /\ \A g \in Frame : g # s.t => r.mem[g] = s.mem[g]
<1>1. PICK t, m, old : t = s.t /\ m = s.mem /\ old = s.mem[s.t][i]
  OBVIOUS
<1>2. PICK row : row = [m[t] EXCEPT ![i] = v]
  OBVIOUS
<1>3. PICK n : n = [m EXCEPT ![t] = row]
  OBVIOUS
<1>4. PICK gone : gone = s.leaked \cup ({old} \ {0})
  OBVIOUS
<1>5. r = [s EXCEPT !.mem = n, !.leaked = gone]
  BY <1>1, <1>2, <1>3, <1>4 DEF PutLeaf, AndThen
<1>6. m \in Memory /\ s.leaked \in SUBSET Int /\ t \in Frame
  BY <1>1 DEF Call
<1>7. old \in Int
  BY <1>1, <1>6 DEF Memory
<1>8. gone \in SUBSET Int
  BY <1>4, <1>6, <1>7
<1>9. row \in [Word -> Int] /\ row[i] = v /\ \A w \in Word : w # i => row[w] = m[t][w]
  BY <1>2, <1>6 DEF Memory
<1>10. n \in Memory /\ n[t] = row /\ \A g \in Frame : g # t => n[g] = m[g]
  BY <1>3, <1>6, <1>9 DEF Memory
<1>11. r \in Call /\ r.ok /\ r.taken = s.taken /\ r.root = s.root /\ r.ks = s.ks /\ r.f = s.f /\ r.leaked = gone /\ r.mem = n
  BY <1>5, <1>8, <1>10 DEF Call
<1> QED BY <1>1, <1>4, <1>9, <1>10, <1>11

-----------------------------------------------------------------------------
(* Address spaces: mapping a page *)

\* A page of the user half now maps frame g of X; O has the frame it mapped.
UserMapped(s, r, g, root, X, new, O) ==
    /\ s.ok /\ Work(r, new, 0, KERNEL_PML4_INDEX, root, (X \ {g}) \cup O) /\ g \in DOMAIN new /\ new[g] = 0
    /\ r.leaked = s.leaked \cup O /\ O \cap X = {} /\ r.root = s.root /\ r.ks = s.ks
    /\ \A f \in X : f # g => r.mem[f] = s.mem[f]
    /\ \A w \in Word : w >= KERNEL_PML4_INDEX => r.mem[root][w] = s.mem[root][w]

\* pgtable_map in the user half.
LEMMA MapUser ==
    ASSUME NEW s, NEW lev, NEW root, NEW X, Work(s, lev, 0, KERNEL_PML4_INDEX, root, X),
           NEW g \in X, NEW vp \in 0 .. (NPages \div 2) - 1, NEW r, r = pgtable_map(s, root, vp, g), r.ok
    PROVE  \E new, O : UserMapped(s, r, g, root, X, new, O)
<1> DEFINE end == KERNEL_PML4_INDEX
<1>1. end \in Nat /\ LEVELS \in Nat /\ LEVELS >= 2 /\ LEVELS - 1 \in 0 .. LEVELS - 1 /\ 0 \in 0 .. LEVELS
  BY Sizes
<1>2. vp \in Nat /\ IndexAt(vp, LEVELS - 1) < end
  BY UserIndex
<1>3. PICK f : Descends(s, root, vp, f) /\ r = PutLeaf(f[LEVELS - 1], IndexAt(vp, 0), g)
  BY DescentRuns
<1>4. PICK q, i : q = f[LEVELS - 1] /\ i = IndexAt(vp, 0)
  OBVIOUS
<1>5. r = PutLeaf(q, i, g) /\ q.ok
  BY <1>3, <1>4 DEF PutLeaf, AndThen
<1>6. i \in Word
  BY <1>1, <1>2, <1>4, IndexInWord
<1>7. PICK mid : Reached(s, lev, 0, end, root, X, vp, f, LEVELS - 1, mid)
  <2>1. 0 \in {0, 1} /\ f[LEVELS - 1].ok
    BY <1>4, <1>5
  <2> HIDE DEF end
  <2>2. Work(s, lev, 0, end, root, X)
    BY DEF end
  <2> QED BY <1>1, <1>2, <1>3, <2>1, <2>2, Descent
<1>8. Work(q, mid, 0, end, root, X) /\ Grown(s, lev, end, root, q, mid) /\ q.t \in DOMAIN mid /\ mid[q.t] = 1
  <2>1. LEVELS - (LEVELS - 1) = 1
    BY <1>1
  <2> QED BY <1>1, <1>4, <1>7, <2>1 DEF Reached
<1>9. PICK m, n, t, old : m = q.mem /\ n = r.mem /\ t = q.t /\ old = m[t][i]
  OBVIOUS
<1>10. q \in Call /\ q.taken = X \cup DOMAIN mid /\ X \cap DOMAIN mid = {} /\ Tree(m, mid, 0, end, root) /\ X \subseteq Frame
  BY <1>8, <1>9 DEF Work, Call
<1>11. DOMAIN mid \subseteq Frame /\ root \in DOMAIN mid /\ mid[root] = LEVELS /\ 0 \notin Frame
  BY <1>10, Sizes DEF Tree, Leveled, Frame
<1>12. t \in DOMAIN mid /\ mid[t] = 1 /\ t \in Frame /\ t # root
  BY <1>1, <1>8, <1>9, <1>11
<1>13. g \in Frame /\ g \notin DOMAIN mid /\ g \in Int /\ t # g
  BY <1>10, <1>12, Sizes DEF Frame
<1>14. /\ r \in Call /\ r.taken = q.taken /\ r.root = q.root /\ r.ks = q.ks
       /\ r.leaked = q.leaked \cup ({old} \ {0})
       /\ n[t][i] = g /\ \A w \in Word : w # i => n[t][w] = m[t][w]
       /\ \A h \in Frame : h # t => n[h] = m[h]
  BY <1>5, <1>6, <1>9, <1>10, <1>12, <1>13, LeafSet
<1>15. old # 0 => old \in DOMAIN mid /\ mid[old] = 0
  <2> SUFFICES ASSUME old # 0 PROVE old \in DOMAIN mid /\ mid[old] = 0
    OBVIOUS
  <2>1. old \in Nat
    BY <1>6, <1>9, <1>10, <1>12 DEF Tree, Entries
  <2>2. Cell(m, mid, 0, end, root, t, i)
    BY <1>6, <1>9, <1>12, <2>1 DEF Cell
  <2>3. old \in DOMAIN mid /\ mid[old] = mid[t] - 1
    BY <1>6, <1>9, <1>10, <1>12, <2>2 DEF Tree, Down
  <2> QED BY <1>12, <2>3
<1> DEFINE new == Relevel(mid, m[t][i], g, mid[t] - 1)
           O == {old} \ {0}
<1>16. Tree(n, new, 0, end, root)
  <2>1. \A h \in DOMAIN mid : h # t /\ mid[h] >= 1 => n[h] = m[h]
    BY <1>11, <1>14
  <2>2. SetsEntry(m, n, mid, 0, end, root, t, i, g)
    BY <1>6, <1>10, <1>12, <1>13, <1>14, <2>1 DEF SetsEntry
  <2> HIDE DEF end
  <2> QED BY <2>2, SetEntry
<1>17. DOMAIN new = (DOMAIN mid \ {old}) \cup {g} /\ new[g] = 0
  BY <1>9, <1>12 DEF Relevel
<1> HIDE DEF new
<1>18. Work(r, new, 0, end, root, (X \ {g}) \cup O)
  <2>1. r.taken = ((X \ {g}) \cup O) \cup DOMAIN new
    BY <1>10, <1>11, <1>14, <1>15, <1>17
  <2>2. ((X \ {g}) \cup O) \cap DOMAIN new = {}
    BY <1>10, <1>13, <1>15, <1>17
  <2> QED BY <1>9, <1>14, <1>16, <2>1, <2>2 DEF Work
<1>19. ASSUME NEW h \in X, h # g PROVE r.mem[h] = s.mem[h]
  <2>1. h \in Frame /\ h # t /\ h \notin DOMAIN mid
    BY <1>10, <1>12
  <2> QED BY <1>8, <1>9, <1>14, <2>1 DEF Grown
<1>20. ASSUME NEW w \in Word, w >= end PROVE r.mem[root][w] = s.mem[root][w]
  <2>1. r.mem[root] = q.mem[root]
    BY <1>9, <1>11, <1>12, <1>14
  <2> QED BY <1>8, <1>20, <2>1 DEF Grown
<1>21. s.ok /\ r.leaked = s.leaked \cup O /\ r.root = s.root /\ r.ks = s.ks
  BY <1>8, <1>14 DEF Grown, Same
<1>22. O \cap X = {}
  BY <1>10, <1>15
<1>23. UserMapped(s, r, g, root, X, new, O)
  BY <1>17, <1>18, <1>19, <1>20, <1>21, <1>22 DEF UserMapped
<1> QED BY <1>23

\* A tree whose last tables get other entries stays one.
LEMMA LastKept ==
    ASSUME NEW m, NEW n, NEW lev, NEW end, NEW root, Tree(m, lev, 1, end, root),
           \A f \in DOMAIN lev : lev[f] >= 2 => n[f] = m[f], Entries(n, lev)
    PROVE  Tree(n, lev, 1, end, root)
<1>1. \A f \in DOMAIN lev : lev[f] \in 1 .. LEVELS
  BY DEF Tree, Leveled
<1>2. ASSUME NEW f \in DOMAIN lev, lev[f] > 1 PROVE n[f] = m[f]
  <2>1. lev[f] >= 2
    BY <1>1, <1>2, Sizes
  <2> QED BY <2>1
<1>3. ASSUME NEW f, NEW w PROVE Cell(n, lev, 1, end, root, f, w) <=> Cell(m, lev, 1, end, root, f, w)
  BY <1>2 DEF Cell
<1>4. ASSUME NEW f, NEW w, Cell(m, lev, 1, end, root, f, w) PROVE n[f][w] = m[f][w]
  BY <1>2, <1>4 DEF Cell
<1>6. Down(n, lev, 1, end, root)
  BY <1>3, <1>4 DEF Tree, Down
<1>7. Unique(n, lev, 1, end, root)
  BY <1>3, <1>4 DEF Tree, Unique
<1>8. Onto(n, lev, 1, end, root)
  BY <1>3, <1>4 DEF Tree, Onto
<1> QED BY <1>6, <1>7, <1>8 DEF Tree

\* A walk in the kernel's tables.
LEMMA WalkInKernel ==
    ASSUME NEW m, NEW lev, NEW root, Tree(m, lev, 1, FANOUT, root), NEW vp \in Nat, NEW f, Walks(m, root, vp, f)
    PROVE  \A k \in 0 .. LEVELS - 1 : f[k] = 0 \/ (f[k] \in DOMAIN lev /\ lev[f[k]] = LEVELS - k)
<1>2. LEVELS \in Nat /\ LEVELS >= 2 /\ LEVELS - 1 \in Nat
  BY Sizes
<1>3. root \in DOMAIN lev /\ lev[root] = LEVELS
  BY DEF Tree, Leveled
<1> DEFINE In(k, g) == g \in DOMAIN lev /\ lev[g] = LEVELS - k
           T == {k \in 0 .. LEVELS - 1 : f[k] = 0 \/ In(k, f[k])}
<1>4. 0 \in T
  BY <1>2, <1>3 DEF Walks
<1>5. ASSUME NEW k \in 1 .. LEVELS - 1, k - 1 \in T PROVE k \in T
  <2>1. k \in 0 .. LEVELS - 1 /\ k \in 1 .. LEVELS /\ (f[k - 1] = 0 \/ In(k - 1, f[k - 1])) /\ LEVELS - k \in 0 .. LEVELS
    BY <1>2, <1>5
  <2>2. CASE f[k - 1] = 0
    BY <2>1, <2>2 DEF Walks
  <2>3. CASE f[k - 1] # 0
    <3>1. PICK h, i : h = f[k - 1] /\ i = IndexAt(vp, LEVELS - k)
      OBVIOUS
    <3>2. i \in Word
      BY <2>1, <3>1, IndexInWord
    <3>3. f[k] = m[h][i] /\ h \in DOMAIN lev /\ lev[h] = LEVELS - (k - 1)
      BY <2>1, <2>3, <3>1 DEF Walks
    <3>4. i < FANOUT
      BY <3>2, Sizes DEF Word
    <3>5. lev[h] >= 1 /\ lev[h] > 1
      BY <1>2, <3>3
    <3>6. m[h][i] \in Nat
      BY <3>2, <3>3, <3>5 DEF Tree, Entries
    <3>7. CASE m[h][i] = 0
      BY <2>1, <3>3, <3>7
    <3>8. CASE m[h][i] # 0
      <4>1. m[h][i] > 0
        BY <3>6, <3>8
      <4>2. Cell(m, lev, 1, FANOUT, root, h, i)
        BY <3>2, <3>3, <3>4, <3>5, <4>1 DEF Cell
      <4>3. m[h][i] \in DOMAIN lev /\ lev[m[h][i]] = lev[h] - 1
        BY <3>2, <3>3, <4>2 DEF Tree, Down
      <4>4. lev[m[h][i]] = LEVELS - k
        BY <1>2, <3>3, <4>3
      <4> QED BY <2>1, <3>3, <4>3, <4>4
    <3> QED BY <3>7, <3>8
  <2> QED BY <2>2, <2>3
<1> HIDE DEF T
<1>6. 0 .. LEVELS - 1 \subseteq T
  BY <1>2, <1>4, <1>5, IntervalInduction
<1> QED BY <1>6 DEF T

\* A walk that finds something finds a table at each level.
LEMMA WalkFinds ==
    ASSUME NEW m, NEW root, NEW vp, NEW f, Walks(m, root, vp, f), f[LEVELS] # 0
    PROVE  \A k \in 0 .. LEVELS : f[k] # 0
<1>1. LEVELS \in Nat
  BY Sizes
<1> DEFINE T == {j \in 0 .. LEVELS : f[LEVELS - j] # 0}
<1>2. 0 \in T
  BY <1>1
<1>3. ASSUME NEW j \in 1 .. LEVELS, j - 1 \in T PROVE j \in T
  <2>1. PICK k \in 1 .. LEVELS : k = LEVELS - (j - 1) /\ k - 1 = LEVELS - j
    BY <1>1
  <2>2. f[k] # 0
    BY <1>3, <2>1
  <2>3. f[k - 1] # 0
    BY <2>2 DEF Walks
  <2> QED BY <1>1, <2>1, <2>3
<1> HIDE DEF T
<1>4. 0 .. LEVELS \subseteq T
  BY <1>1, <1>2, <1>3, IntervalInduction
<1>5. ASSUME NEW k \in 0 .. LEVELS PROVE f[k] # 0
  <2>1. LEVELS - k \in T /\ LEVELS - (LEVELS - k) = k
    BY <1>1, <1>4
  <2> QED BY <2>1 DEF T
<1> QED BY <1>5

-----------------------------------------------------------------------------
(* Address spaces: which page shows which frame *)

\* Dividing twice.
LEMMA DivDiv ==
    ASSUME NEW a \in Int, NEW d \in Nat \ {0}, NEW c \in Nat \ {0}
    PROVE  a \div d = c * (a \div (c * d)) + ((a \div d) % c)
<1>1. PICK q \in Int, r \in 0 .. d - 1, e \in Int : q = a \div d /\ e = d * q /\ a = e + r
  BY DivMod
<1>2. PICK p \in Int, s \in 0 .. c - 1 : p = q \div c /\ s = q % c /\ q = c * p + s
  BY DivMod
<1>3. PICK n \in Nat \ {0} : n = c * d
  BY SMT
<1>4. PICK x \in Int, y \in Int : x = d * s /\ y = n * p
  BY <1>2, <1>3
<1>5. e = y + x
  <2>1. d * (c * p + s) = (c * d) * p + d * s
    BY <1>2
  <2> QED BY <1>1, <1>2, <1>3, <1>4, <2>1
<1>6. x + d <= n /\ x >= 0
  <2>1. s \in Int /\ c \in Int /\ s < c /\ s >= 0
    BY <1>2
  <2>2. d * s + d <= d * c
    BY <2>1, ProductGap
  <2>3. d * c = c * d
    OBVIOUS
  <2>4. d * s >= 0
    BY <2>1
  <2> QED BY <1>3, <1>4, <2>2, <2>3, <2>4
<1>7. PICK z : z = x + r
  OBVIOUS
<1>8. z \in 0 .. n - 1 /\ a = n * p + z
  BY <1>1, <1>3, <1>4, <1>5, <1>6, <1>7
<1>9. a \div n = p
  BY <1>2, <1>3, <1>8, DivModUnique
<1> QED BY <1>1, <1>2, <1>3, <1>9

\* The indices of all levels tell the page.
LEMMA IndicesTell ==
    ASSUME NEW a \in 0 .. NPages - 1, NEW b \in 0 .. NPages - 1,
           \A l \in 0 .. LEVELS - 1 : IndexAt(a, l) = IndexAt(b, l)
    PROVE  a = b
<1>1. LEVELS \in Nat /\ LEVELS >= 2 /\ FANOUT \in Nat \ {0} /\ NPages \in Nat \ {0} /\ NPages = Reach[LEVELS]
  <2>1. LEVELS \in Nat /\ LEVELS >= 2 /\ FANOUT \in Nat \ {0}
    BY Sizes
  <2>2. Reach[LEVELS] \in Nat \ {0}
    BY <2>1, ReachIs
  <2> QED BY <2>1, <2>2 DEF NPages
<1>2. a \in Int /\ b \in Int
  BY <1>1
<1> DEFINE T == {j \in 0 .. LEVELS : a \div Reach[LEVELS - j] = b \div Reach[LEVELS - j]}
<1>3. 0 \in T
  <2>1. PICK n \in Nat \ {0} : n = NPages
    BY <1>1
  <2>2. ASSUME NEW x \in 0 .. n - 1 PROVE x \div n = 0
    <3>1. x \in Int /\ x = n * 0 + x
      OBVIOUS
    <3> QED BY <3>1, DivModUnique
  <2>3. a \div n = 0 /\ b \div n = 0
    BY <2>1, <2>2
  <2> QED BY <1>1, <2>1, <2>3
<1>4. ASSUME NEW j \in 1 .. LEVELS, j - 1 \in T PROVE j \in T
  <2>1. PICK l \in 0 .. LEVELS - 1 : l = LEVELS - j /\ l + 1 = LEVELS - (j - 1) /\ l + 1 \in 1 .. LEVELS /\ l \in 0 .. LEVELS
    BY <1>1
  <2>2. PICK d \in Nat \ {0} : d = Reach[l]
    BY <2>1, ReachIs
  <2>3. Reach[l + 1] = FANOUT * d
    <3>1. (l + 1) - 1 = l
      BY <2>1
    <3> QED BY <2>1, <2>2, <3>1, ReachIs
  <2>4. a \div (FANOUT * d) = b \div (FANOUT * d)
    BY <1>4, <2>1, <2>3
  <2>5. (a \div d) % FANOUT = (b \div d) % FANOUT
    BY <2>1, <2>2 DEF IndexAt
  <2>6. a \div d = FANOUT * (a \div (FANOUT * d)) + ((a \div d) % FANOUT)
    BY <1>1, <1>2, DivDiv
  <2>7. b \div d = FANOUT * (b \div (FANOUT * d)) + ((b \div d) % FANOUT)
    BY <1>1, <1>2, DivDiv
  <2>8. a \div d = b \div d
    BY <2>4, <2>5, <2>6, <2>7, Zenon
  <2>9. j \in 0 .. LEVELS
    BY <1>1
  <2> QED BY <2>1, <2>2, <2>8, <2>9
<1> HIDE DEF T
<1>5. 0 .. LEVELS \subseteq T
  BY <1>1, <1>3, <1>4, IntervalInduction
<1>6. LEVELS - LEVELS = 0 /\ LEVELS \in T
  BY <1>1, <1>5
<1>7. a \div 1 = b \div 1
  BY <1>6, ReachIs DEF T
<1> QED BY <1>2, <1>7

\* Two walks that meet have come the same way.
LEMMA SameWalk ==
    ASSUME NEW m, NEW lev, NEW root, Tree(m, lev, 0, KERNEL_PML4_INDEX, root),
           NEW up \in 0 .. (NPages \div 2) - 1, NEW vp \in 0 .. (NPages \div 2) - 1,
           NEW f, Walks(m, root, up, f), NEW g, Walks(m, root, vp, g),
           NEW n \in 0 .. LEVELS, f[n] = g[n], f[n] # 0
    PROVE  \A k \in 1 .. n : IndexAt(up, LEVELS - k) = IndexAt(vp, LEVELS - k)
<1>1. LEVELS \in Nat /\ n \in Nat
  BY Sizes
<1>2. /\ \A k \in 1 .. LEVELS : f[k] # 0 =>
             /\ IndexAt(up, LEVELS - k) \in Word /\ m[f[k - 1]][IndexAt(up, LEVELS - k)] = f[k]
             /\ Cell(m, lev, 0, KERNEL_PML4_INDEX, root, f[k - 1], IndexAt(up, LEVELS - k))
      /\ \A k \in 1 .. LEVELS : g[k] # 0 =>
             /\ IndexAt(vp, LEVELS - k) \in Word /\ m[g[k - 1]][IndexAt(vp, LEVELS - k)] = g[k]
             /\ Cell(m, lev, 0, KERNEL_PML4_INDEX, root, g[k - 1], IndexAt(vp, LEVELS - k))
  <2>1. \A k \in 1 .. LEVELS : f[k] # 0 =>
             /\ IndexAt(up, LEVELS - k) \in Word /\ m[f[k - 1]][IndexAt(up, LEVELS - k)] = f[k]
             /\ Cell(m, lev, 0, KERNEL_PML4_INDEX, root, f[k - 1], IndexAt(up, LEVELS - k))
    BY UserWalk
  <2>2. \A k \in 1 .. LEVELS : g[k] # 0 =>
             /\ IndexAt(vp, LEVELS - k) \in Word /\ m[g[k - 1]][IndexAt(vp, LEVELS - k)] = g[k]
             /\ Cell(m, lev, 0, KERNEL_PML4_INDEX, root, g[k - 1], IndexAt(vp, LEVELS - k))
    BY UserWalk
  <2> QED BY <2>1, <2>2
<1>3. ASSUME NEW k \in 1 .. LEVELS, f[k] = g[k], f[k] # 0
      PROVE  f[k - 1] = g[k - 1] /\ f[k - 1] # 0 /\ IndexAt(up, LEVELS - k) = IndexAt(vp, LEVELS - k)
  <2>1. PICK x, y, i, j : x = f[k - 1] /\ y = g[k - 1] /\ i = IndexAt(up, LEVELS - k) /\ j = IndexAt(vp, LEVELS - k)
    OBVIOUS
  <2>2. /\ i \in Word /\ j \in Word /\ m[x][i] = m[y][j]
        /\ Cell(m, lev, 0, KERNEL_PML4_INDEX, root, x, i) /\ Cell(m, lev, 0, KERNEL_PML4_INDEX, root, y, j)
    BY <1>2, <1>3, <2>1
  <2>3. x \in DOMAIN lev /\ y \in DOMAIN lev /\ DOMAIN lev \subseteq Frame /\ 0 \notin Frame
    BY <2>2, Sizes DEF Cell, Tree, Leveled, Frame
  <2>4. x = y /\ i = j
    BY <2>2, <2>3 DEF Tree, Unique
  <2> QED BY <2>1, <2>3, <2>4
<1> DEFINE T == {j \in 0 .. n : f[n - j] = g[n - j] /\ f[n - j] # 0}
<1>4. 0 \in T
  BY <1>1
<1>5. ASSUME NEW j \in 1 .. n, j - 1 \in T PROVE j \in T
  <2>1. PICK k \in 1 .. LEVELS : k = n - (j - 1) /\ k - 1 = n - j /\ j \in 0 .. n
    BY <1>1
  <2>2. f[k] = g[k] /\ f[k] # 0
    BY <1>5, <2>1
  <2> QED BY <1>3, <2>1, <2>2
<1> HIDE DEF T
<1>6. 0 .. n \subseteq T
  BY <1>1, <1>4, <1>5, IntervalInduction
<1> SUFFICES ASSUME NEW k \in 1 .. n PROVE IndexAt(up, LEVELS - k) = IndexAt(vp, LEVELS - k)
  OBVIOUS
<1>7. n - k \in T /\ n - (n - k) = k /\ k \in 1 .. LEVELS
  BY <1>1, <1>6
<1>8. f[k] = g[k] /\ f[k] # 0
  BY <1>7 DEF T
<1> QED BY <1>3, <1>7, <1>8

\* Pages below the kernel's half are pages.
LEMMA LowPages ==
    ASSUME NEW vp \in 0 .. (NPages \div 2) - 1
    PROVE  vp \in 0 .. NPages - 1
<1>1. PICK h \in Nat, n \in Nat : h = NPages \div 2 /\ n = NPages /\ n = 2 * h + (n % 2) /\ n % 2 \in 0 .. 1
  <2>1. PICK n \in Nat : n = NPages
    BY PageNumbers
  <2>2. n \div 2 \in Int /\ n % 2 \in 0 .. 2 - 1 /\ n = 2 * (n \div 2) + (n % 2)
    BY <2>1, DivMod
  <2>3. NPages \div 2 \in Nat
    BY PageNumbers
  <2> QED BY <2>1, <2>2, <2>3
<1>2. PICK x \in Nat : x = n % 2
  BY <1>1
<1> QED BY <1>1, <1>2

\* No frame shows at two pages.
LEMMA KvaOneToOne ==
    ASSUME NEW m, NEW lev, NEW root, Tree(m, lev, 0, KERNEL_PML4_INDEX, root),
           NEW up \in 0 .. (NPages \div 2) - 1, NEW vp \in 0 .. (NPages \div 2) - 1,
           pgtable_kva(m, root, up) = pgtable_kva(m, root, vp), pgtable_kva(m, root, up) # 0
    PROVE  up = vp
<1>1. PICK f : Walks(m, root, up, f) /\ pgtable_kva(m, root, up) = f[LEVELS]
  BY WalkRuns
<1>2. PICK g : Walks(m, root, vp, g) /\ pgtable_kva(m, root, vp) = g[LEVELS]
  BY WalkRuns
<1>3. LEVELS \in 0 .. LEVELS /\ LEVELS \in Nat
  BY Sizes
<1>4. \A k \in 1 .. LEVELS : IndexAt(up, LEVELS - k) = IndexAt(vp, LEVELS - k)
  <2>1. f[LEVELS] = g[LEVELS] /\ f[LEVELS] # 0 /\ Walks(m, root, up, f) /\ Walks(m, root, vp, g)
    BY <1>1, <1>2
  <2> QED BY <1>3, <2>1, SameWalk
<1>5. ASSUME NEW l \in 0 .. LEVELS - 1 PROVE IndexAt(up, l) = IndexAt(vp, l)
  <2>1. LEVELS - l \in 1 .. LEVELS /\ LEVELS - (LEVELS - l) = l
    BY <1>3
  <2> QED BY <1>4, <2>1
<1> QED BY <1>5, LowPages, IndicesTell

\* What a page shows depends on the tables only.
LEMMA KvaKept ==
    ASSUME NEW m, NEW lev, NEW root, Tree(m, lev, 0, KERNEL_PML4_INDEX, root),
           NEW n, \A f \in DOMAIN lev : lev[f] >= 1 => n[f] = m[f],
           NEW vp \in 0 .. (NPages \div 2) - 1
    PROVE  pgtable_kva(n, root, vp) = pgtable_kva(m, root, vp)
<1>1. PICK f : Walks(m, root, vp, f) /\ pgtable_kva(m, root, vp) = f[LEVELS]
  BY WalkRuns
<1>2. LEVELS \in Nat
  BY Sizes
<1>3. \A k \in 0 .. LEVELS : f[k] = 0 \/ (f[k] \in DOMAIN lev /\ lev[f[k]] = LEVELS - k)
  BY <1>1, UserWalk
<1>4. ASSUME NEW k \in 1 .. LEVELS PROVE f[k] = IF f[k - 1] = 0 THEN 0 ELSE n[f[k - 1]][IndexAt(vp, LEVELS - k)]
  <2>1. k - 1 \in 0 .. LEVELS /\ LEVELS - (k - 1) >= 1
    BY <1>2
  <2>2. f[k - 1] # 0 => n[f[k - 1]] = m[f[k - 1]]
    BY <1>3, <2>1
  <2> QED BY <1>1, <2>2 DEF Walks
<1>5. Walks(n, root, vp, f)
  BY <1>1, <1>4 DEF Walks
<1> QED BY <1>1, <1>5, WalkIsKva

\* Tables made on the way show nothing new.
LEMMA GrownShows ==
    ASSUME NEW s, NEW lev, NEW root, NEW X, Work(s, lev, 0, KERNEL_PML4_INDEX, root, X),
           NEW r, NEW new, Work(r, new, 0, KERNEL_PML4_INDEX, root, X),
           Grown(s, lev, KERNEL_PML4_INDEX, root, r, new), NEW vp \in 0 .. (NPages \div 2) - 1
    PROVE  pgtable_kva(r.mem, root, vp) = pgtable_kva(s.mem, root, vp)
<1>1. PICK m, n : m = s.mem /\ n = r.mem
  OBVIOUS
<1>2. Tree(m, lev, 0, KERNEL_PML4_INDEX, root) /\ Tree(n, new, 0, KERNEL_PML4_INDEX, root)
  BY <1>1 DEF Work
<1>3. PICK f : Walks(m, root, vp, f) /\ pgtable_kva(m, root, vp) = f[LEVELS]
  BY WalkRuns
<1>4. PICK g : Walks(n, root, vp, g) /\ pgtable_kva(n, root, vp) = g[LEVELS]
  BY WalkRuns
<1>5. LEVELS \in Nat /\ LEVELS \in 0 .. LEVELS
  BY Sizes
<1>6. /\ DOMAIN lev \subseteq DOMAIN new /\ \A h \in DOMAIN lev : new[h] = lev[h]
      /\ \A h \in DOMAIN lev, w \in Word : m[h][w] # 0 => n[h][w] = m[h][w]
      /\ \A h \in DOMAIN new : h \in DOMAIN lev \/ new[h] >= 1
  BY <1>1 DEF Grown
<1>7. CASE f[LEVELS] # 0
  <2>1. \A k \in 0 .. LEVELS : f[k] # 0
    BY <1>3, <1>7, WalkFinds
  <2>2. /\ \A k \in 0 .. LEVELS : f[k] = 0 \/ (f[k] \in DOMAIN lev /\ lev[f[k]] = LEVELS - k)
        /\ \A k \in 1 .. LEVELS : f[k] # 0 => IndexAt(vp, LEVELS - k) \in Word /\ m[f[k - 1]][IndexAt(vp, LEVELS - k)] = f[k]
    BY <1>2, <1>3, UserWalk
  <2>3. ASSUME NEW k \in 1 .. LEVELS PROVE f[k] = IF f[k - 1] = 0 THEN 0 ELSE n[f[k - 1]][IndexAt(vp, LEVELS - k)]
    <3>1. k - 1 \in 0 .. LEVELS /\ k \in 0 .. LEVELS
      BY <1>5
    <3>2. PICK h, w : h = f[k - 1] /\ w = IndexAt(vp, LEVELS - k)
      OBVIOUS
    <3>3. h # 0 /\ h \in DOMAIN lev /\ w \in Word /\ m[h][w] = f[k] /\ f[k] # 0
      BY <2>1, <2>2, <3>1, <3>2
    <3>4. n[h][w] = f[k]
      BY <1>6, <3>3
    <3> QED BY <3>2, <3>3, <3>4
  <2>4. Walks(n, root, vp, f)
    BY <1>3, <2>3 DEF Walks
  <2>5. pgtable_kva(n, root, vp) = f[LEVELS]
    BY <2>4, WalkIsKva
  <2> QED BY <1>1, <1>3, <2>5
<1>8. CASE g[LEVELS] # 0
  <2>1. \A k \in 0 .. LEVELS : g[k] # 0
    BY <1>4, <1>8, WalkFinds
  <2>2. /\ \A k \in 0 .. LEVELS : g[k] = 0 \/ (g[k] \in DOMAIN new /\ new[g[k]] = LEVELS - k)
        /\ \A k \in 1 .. LEVELS : g[k] # 0 =>
              /\ IndexAt(vp, LEVELS - k) \in Word /\ n[g[k - 1]][IndexAt(vp, LEVELS - k)] = g[k]
              /\ Cell(n, new, 0, KERNEL_PML4_INDEX, root, g[k - 1], IndexAt(vp, LEVELS - k))
    BY <1>2, <1>4, UserWalk
  <2>3. ASSUME NEW k \in 1 .. LEVELS, g[k] \in DOMAIN lev
        PROVE  g[k - 1] \in DOMAIN lev /\ m[g[k - 1]][IndexAt(vp, LEVELS - k)] = g[k]
    <3>1. k \in 0 .. LEVELS /\ LEVELS - k # LEVELS
      BY <1>5
    <3>2. PICK h, y, w : h = g[k - 1] /\ y = g[k] /\ w = IndexAt(vp, LEVELS - k)
      OBVIOUS
    <3>3. w \in Word /\ n[h][w] = y /\ Cell(n, new, 0, KERNEL_PML4_INDEX, root, h, w) /\ y # 0 /\ y \in DOMAIN lev
      BY <2>1, <2>2, <2>3, <3>1, <3>2
    <3>4. lev[y] = LEVELS - k
      BY <1>6, <2>1, <2>2, <3>1, <3>2, <3>3
    <3>5. y # root
      BY <1>2, <3>1, <3>4 DEF Tree, Leveled
    <3>6. PICK a \in DOMAIN lev, v \in Word : Cell(m, lev, 0, KERNEL_PML4_INDEX, root, a, v) /\ m[a][v] = y
      BY <1>2, <3>3, <3>5 DEF Tree, Onto
    <3>7. n[a][v] = y
      BY <1>6, <3>3, <3>6
    <3>8. Cell(n, new, 0, KERNEL_PML4_INDEX, root, a, v)
      BY <1>6, <3>6, <3>7 DEF Cell
    <3>9. h \in DOMAIN new /\ a \in DOMAIN new
      BY <3>3, <3>8 DEF Cell
    <3>10. h = a /\ w = v
      BY <1>2, <3>3, <3>6, <3>7, <3>8, <3>9 DEF Tree, Unique
    <3> QED BY <3>2, <3>6, <3>10
  <2> DEFINE T == {j \in 0 .. LEVELS : g[LEVELS - j] \in DOMAIN lev}
  <2>4. 0 \in T
    <3>1. g[LEVELS] \in DOMAIN new /\ new[g[LEVELS]] = LEVELS - LEVELS /\ LEVELS - LEVELS = 0
      BY <1>5, <2>1, <2>2
    <3>2. g[LEVELS] \in DOMAIN lev
      BY <1>6, <3>1
    <3> QED BY <1>5, <3>2
  <2>5. ASSUME NEW j \in 1 .. LEVELS, j - 1 \in T PROVE j \in T
    <3>1. PICK k \in 1 .. LEVELS : k = LEVELS - (j - 1) /\ k - 1 = LEVELS - j /\ j \in 0 .. LEVELS
      BY <1>5
    <3> QED BY <2>3, <2>5, <3>1
  <2> HIDE DEF T
  <2>6. 0 .. LEVELS \subseteq T
    BY <1>5, <2>4, <2>5, IntervalInduction
  <2>7. ASSUME NEW k \in 1 .. LEVELS PROVE g[k] = IF g[k - 1] = 0 THEN 0 ELSE m[g[k - 1]][IndexAt(vp, LEVELS - k)]
    <3>1. LEVELS - k \in T /\ LEVELS - (LEVELS - k) = k /\ k - 1 \in 0 .. LEVELS
      BY <1>5, <2>6
    <3>2. g[k] \in DOMAIN lev
      BY <3>1 DEF T
    <3> QED BY <2>1, <2>3, <3>1, <3>2
  <2>8. Walks(m, root, vp, g)
    BY <1>4, <2>7 DEF Walks
  <2>9. pgtable_kva(m, root, vp) = g[LEVELS]
    BY <2>8, WalkIsKva
  <2> QED BY <1>1, <1>4, <2>9
<1> QED BY <1>1, <1>3, <1>4, <1>7, <1>8

\* pgtable_map shows the frame at its page; the others show what they did, and
\* data is left alone.
LEMMA MapShows ==
    ASSUME NEW s, NEW lev, NEW root, NEW X, Work(s, lev, 0, KERNEL_PML4_INDEX, root, X),
           NEW g \in X, NEW vp \in 0 .. (NPages \div 2) - 1, NEW r, r = pgtable_map(s, root, vp, g), r.ok,
           NEW up \in 0 .. (NPages \div 2) - 1
    PROVE  /\ pgtable_kva(r.mem, root, up) = IF up = vp THEN g ELSE pgtable_kva(s.mem, root, up)
           /\ pgtable_kva(s.mem, root, up) # 0 => r.mem[pgtable_kva(s.mem, root, up)] = s.mem[pgtable_kva(s.mem, root, up)]
<1> DEFINE end == KERNEL_PML4_INDEX
<1>1. /\ end \in Nat /\ LEVELS \in Nat /\ LEVELS >= 2 /\ LEVELS - 1 \in 0 .. LEVELS - 1 /\ 0 \in 0 .. LEVELS
      /\ LEVELS - 1 \in Nat /\ LEVELS - 1 \in 0 .. LEVELS /\ LEVELS \in 1 .. LEVELS /\ LEVELS - LEVELS = 0
  BY Sizes
<1>2. vp \in Nat /\ IndexAt(vp, LEVELS - 1) < end
  BY UserIndex
<1>3. PICK f : Descends(s, root, vp, f) /\ r = PutLeaf(f[LEVELS - 1], IndexAt(vp, 0), g)
  BY DescentRuns
<1>4. PICK q, i : q = f[LEVELS - 1] /\ i = IndexAt(vp, 0)
  OBVIOUS
<1>5. r = PutLeaf(q, i, g) /\ q.ok
  BY <1>3, <1>4 DEF PutLeaf, AndThen
<1>6. i \in Word
  BY <1>1, <1>2, <1>4, IndexInWord
<1>7. PICK mid : Reached(s, lev, 0, end, root, X, vp, f, LEVELS - 1, mid)
  <2>1. 0 \in {0, 1} /\ f[LEVELS - 1].ok
    BY <1>4, <1>5
  <2> HIDE DEF end
  <2>2. Work(s, lev, 0, end, root, X)
    BY DEF end
  <2> QED BY <1>1, <1>2, <1>3, <2>1, <2>2, Descent
<1>8. /\ Work(q, mid, 0, end, root, X) /\ Grown(s, lev, end, root, q, mid) /\ q.t \in DOMAIN mid /\ mid[q.t] = 1
      /\ \A j \in 0 .. LEVELS - 1 : f[j].t \in DOMAIN mid /\ mid[f[j].t] = LEVELS - j
      /\ \A j \in 1 .. LEVELS - 1 : q.mem[f[j - 1].t][IndexAt(vp, LEVELS - j)] = f[j].t
  <2>1. LEVELS - (LEVELS - 1) = 1
    BY <1>1
  <2> QED BY <1>1, <1>4, <1>7, <2>1 DEF Reached
<1>9. PICK m, n, t : m = q.mem /\ n = r.mem /\ t = q.t
  OBVIOUS
<1>10. q \in Call /\ s \in Call /\ X \cap DOMAIN mid = {} /\ Tree(m, mid, 0, end, root) /\ X \subseteq Frame /\ Tree(s.mem, lev, 0, end, root)
  BY <1>8, <1>9 DEF Work, Call
<1>11. DOMAIN mid \subseteq Frame /\ 0 \notin Frame
  BY <1>10, Sizes DEF Tree, Leveled, Frame
<1>12. t \in DOMAIN mid /\ mid[t] = 1 /\ t \in Frame /\ t # 0
  BY <1>8, <1>9, <1>11
<1>13. g \in Int
  BY <1>10, Sizes DEF Frame
<1>14. /\ n[t][i] = g /\ \A w \in Word : w # i => n[t][w] = m[t][w]
       /\ \A h \in Frame : h # t => n[h] = m[h]
  BY <1>5, <1>6, <1>9, <1>10, <1>12, <1>13, LeafSet
<1>15. pgtable_kva(m, root, up) = pgtable_kva(s.mem, root, up)
  BY <1>8, <1>9, GrownShows
<1>16. PICK d : Walks(m, root, vp, d)
  BY WalkRuns
<1>17. d[LEVELS - 1] = t
  <2> DEFINE T == {k \in 0 .. LEVELS - 1 : d[k] = f[k].t}
  <2>2. 0 \in T
    <3>1. f[0].t = root
      BY <1>3, <1>10 DEF Descends, Call
    <3> QED BY <1>1, <1>16, <3>1 DEF Walks
  <2>3. ASSUME NEW k \in 1 .. LEVELS - 1, k - 1 \in T PROVE k \in T
    <3>1. PICK a, w : a = f[k - 1].t /\ w = IndexAt(vp, LEVELS - k)
      OBVIOUS
    <3>2. k - 1 \in 0 .. LEVELS - 1 /\ k \in 1 .. LEVELS /\ k \in 0 .. LEVELS - 1
      BY <1>1
    <3>3. a \in DOMAIN mid /\ m[a][w] = f[k].t /\ a # 0
      BY <1>8, <1>9, <1>11, <3>1, <3>2
    <3>4. d[k - 1] = a
      BY <2>3, <3>1
    <3>5. d[k] = m[a][w]
      BY <1>16, <3>1, <3>2, <3>3, <3>4 DEF Walks
    <3> QED BY <3>2, <3>3, <3>5
  <2> HIDE DEF T
  <2>4. 0 .. LEVELS - 1 \subseteq T
    BY <1>1, <2>2, <2>3, IntervalInduction
  <2> QED BY <1>1, <1>4, <1>9, <2>4 DEF T
<1>18. PICK e : Walks(m, root, up, e) /\ pgtable_kva(m, root, up) = e[LEVELS]
  BY WalkRuns
<1>19. PICK c : Walks(n, root, up, c) /\ pgtable_kva(n, root, up) = c[LEVELS]
  BY WalkRuns
<1>20. \A k \in 0 .. LEVELS : e[k] = 0 \/ (e[k] \in DOMAIN mid /\ mid[e[k]] = LEVELS - k)
  <2> HIDE DEF end
  <2>1. Tree(m, mid, 0, KERNEL_PML4_INDEX, root)
    BY <1>10 DEF end
  <2> QED BY <1>18, <2>1, UserWalk
<1>21. c[LEVELS - 1] = e[LEVELS - 1]
  <2> DEFINE T == {k \in 0 .. LEVELS - 1 : c[k] = e[k]}
  <2>1. 0 \in T
    BY <1>1, <1>18, <1>19 DEF Walks
  <2>2. ASSUME NEW k \in 1 .. LEVELS - 1, k - 1 \in T PROVE k \in T
    <3>1. k - 1 \in 0 .. LEVELS /\ k \in 1 .. LEVELS /\ k \in 0 .. LEVELS - 1 /\ LEVELS - (k - 1) # 1
      BY <1>1
    <3>2. PICK a, w : a = e[k - 1] /\ w = IndexAt(up, LEVELS - k)
      OBVIOUS
    <3>3. c[k - 1] = a
      BY <2>2, <3>2
    <3>4. a # 0 => n[a] = m[a]
      BY <1>11, <1>12, <1>14, <1>20, <3>1, <3>2
    <3>5. c[k] = IF a = 0 THEN 0 ELSE n[a][w]
      BY <1>19, <3>1, <3>2, <3>3 DEF Walks
    <3>6. e[k] = IF a = 0 THEN 0 ELSE m[a][w]
      BY <1>18, <3>1, <3>2 DEF Walks
    <3> QED BY <3>1, <3>4, <3>5, <3>6
  <2> HIDE DEF T
  <2>3. 0 .. LEVELS - 1 \subseteq T
    BY <1>1, <2>1, <2>2, IntervalInduction
  <2> QED BY <1>1, <2>3 DEF T
<1>22. PICK a, j : a = e[LEVELS - 1] /\ j = IndexAt(up, 0)
  OBVIOUS
<1>23. e[LEVELS] = IF a = 0 THEN 0 ELSE m[a][j]
  BY <1>1, <1>18, <1>22 DEF Walks
<1>24. c[LEVELS] = IF a = 0 THEN 0 ELSE n[a][j]
  BY <1>1, <1>19, <1>21, <1>22 DEF Walks
<1>25. j \in Word /\ (a = 0 \/ a \in Frame)
  <2>1. up \in Nat
    BY UserIndex
  <2> QED BY <1>1, <1>11, <1>20, <1>22, <2>1, IndexInWord
<1>26. pgtable_kva(n, root, up) = IF up = vp THEN g ELSE pgtable_kva(m, root, up)
  <2>1. CASE up = vp
    <3>1. a = t /\ j = i
      <4>1. pgtable_kva(m, root, up) = d[LEVELS] /\ e[LEVELS - 1] = d[LEVELS - 1]
        <5> DEFINE T == {k \in 0 .. LEVELS - 1 : e[k] = d[k]}
        <5>1. 0 \in T
          BY <1>1, <1>16, <1>18 DEF Walks
        <5>2. ASSUME NEW k \in 1 .. LEVELS - 1, k - 1 \in T PROVE k \in T
          <6>1. k \in 0 .. LEVELS - 1 /\ k \in 1 .. LEVELS /\ e[k - 1] = d[k - 1]
            BY <1>1, <5>2
          <6> QED BY <1>16, <1>18, <2>1, <6>1 DEF Walks
        <5> HIDE DEF T
        <5>3. 0 .. LEVELS - 1 \subseteq T
          BY <1>1, <5>1, <5>2, IntervalInduction
        <5>4. e[LEVELS - 1] = d[LEVELS - 1]
          BY <1>1, <5>3 DEF T
        <5> QED BY <1>16, <2>1, <5>4, WalkIsKva
      <4> QED BY <1>4, <1>17, <1>22, <2>1, <4>1
    <3> QED BY <1>12, <1>14, <1>19, <1>24, <2>1, <3>1
  <2>2. CASE up # vp
    <3>1. ~(a = t /\ j = i)
      <4> SUFFICES ASSUME a = t, j = i PROVE FALSE
        OBVIOUS
      <4>1. e[LEVELS - 1] = d[LEVELS - 1] /\ e[LEVELS - 1] # 0
        BY <1>12, <1>17, <1>22
      <4>2. \A k \in 1 .. LEVELS - 1 : IndexAt(up, LEVELS - k) = IndexAt(vp, LEVELS - k)
        <5> HIDE DEF end
        <5>1. Tree(m, mid, 0, KERNEL_PML4_INDEX, root)
          BY <1>10 DEF end
        <5> QED BY <1>1, <1>16, <1>18, <4>1, <5>1, SameWalk
      <4>3. ASSUME NEW l \in 0 .. LEVELS - 1 PROVE IndexAt(up, l) = IndexAt(vp, l)
        <5>1. CASE l = 0
          BY <1>4, <1>22, <5>1
        <5>2. CASE l # 0
          <6>1. LEVELS - l \in 1 .. LEVELS - 1 /\ LEVELS - (LEVELS - l) = l
            BY <1>1, <5>2
          <6> QED BY <4>2, <6>1
        <5> QED BY <5>1, <5>2
      <4> QED BY <2>2, <4>3, LowPages, IndicesTell
    <3>2. a # 0 => n[a][j] = m[a][j]
      BY <1>14, <1>25, <3>1
    <3> QED BY <1>18, <1>19, <1>23, <1>24, <2>2, <3>2
  <2> QED BY <2>1, <2>2
<1>27. ASSUME NEW x, x = pgtable_kva(s.mem, root, up), x # 0 PROVE n[x] = s.mem[x]
  <2>1. x \in DOMAIN lev /\ lev[x] = 0
    <3> HIDE DEF end
    <3>1. Tree(s.mem, lev, 0, KERNEL_PML4_INDEX, root)
      BY <1>10 DEF end
    <3>2. PICK o : o = s.mem /\ Tree(o, lev, 0, KERNEL_PML4_INDEX, root)
      BY <3>1
    <3> QED BY <1>27, <3>2, WalkInTree
  <2>2. m[x] = s.mem[x] /\ mid[x] = 0 /\ x \in DOMAIN mid
    BY <1>8, <1>9, <2>1 DEF Grown
  <2>3. x # t /\ x \in Frame
    BY <1>11, <1>12, <2>2
  <2> QED BY <1>14, <2>2, <2>3
<1> QED BY <1>9, <1>15, <1>26, <1>27

\* A kernel page is mapped, and another that was still is.
KernelPut(s, r, root, vp, v, new) ==
    /\ s.ok /\ Work(r, new, 1, FANOUT, root, {}) /\ pgtable_kva(r.mem, root, vp) = v
    /\ \A up \in KernelPage : up # vp /\ pgtable_kva(s.mem, root, up) # 0 =>
                                  pgtable_kva(r.mem, root, up) = pgtable_kva(s.mem, root, up)

\* pgtable_map for the kernel.
LEMMA MapKernel ==
    ASSUME NEW s, NEW lev, NEW root, Work(s, lev, 1, FANOUT, root, {}),
           NEW vp \in KernelPage, NEW v \in Nat, NEW r, r = pgtable_map(s, root, vp, v), r.ok
    PROVE  \E new : KernelPut(s, r, root, vp, v, new)
<1>1. /\ FANOUT \in Nat /\ LEVELS \in Nat /\ LEVELS >= 2 /\ LEVELS - 1 \in 0 .. LEVELS - 1 /\ 0 \in 0 .. LEVELS
      /\ LEVELS - 1 \in 0 .. LEVELS /\ LEVELS - 1 \in Nat
  BY Sizes
<1>2. vp \in Nat /\ IndexAt(vp, LEVELS - 1) < FANOUT
  <2>1. vp \in Nat
    BY KernelIndices
  <2>2. IndexAt(vp, LEVELS - 1) \in Word
    BY <1>1, <2>1, IndexInWord
  <2> QED BY <1>1, <2>1, <2>2 DEF Word
<1>3. PICK f : Descends(s, root, vp, f) /\ r = PutLeaf(f[LEVELS - 1], IndexAt(vp, 0), v)
  BY DescentRuns
<1>4. PICK q, i : q = f[LEVELS - 1] /\ i = IndexAt(vp, 0)
  OBVIOUS
<1>5. r = PutLeaf(q, i, v) /\ q.ok
  BY <1>3, <1>4 DEF PutLeaf, AndThen
<1>6. i \in Word
  BY <1>1, <1>2, <1>4, IndexInWord
<1>7. PICK mid : Reached(s, lev, 1, FANOUT, root, {}, vp, f, LEVELS - 1, mid)
  <2>1. 1 \in {0, 1} /\ f[LEVELS - 1].ok
    BY <1>4, <1>5
  <2> QED BY <1>1, <1>2, <1>3, <2>1, Descent
<1>8. /\ Work(q, mid, 1, FANOUT, root, {}) /\ Grown(s, lev, FANOUT, root, q, mid) /\ q.t \in DOMAIN mid /\ mid[q.t] = 1
      /\ \A j \in 0 .. LEVELS - 1 : f[j].t \in DOMAIN mid /\ mid[f[j].t] = LEVELS - j
      /\ \A j \in 1 .. LEVELS - 1 : q.mem[f[j - 1].t][IndexAt(vp, LEVELS - j)] = f[j].t
  <2>1. LEVELS - (LEVELS - 1) = 1
    BY <1>1
  <2> QED BY <1>1, <1>4, <1>7, <2>1 DEF Reached
<1>9. PICK m, n, t, o : m = q.mem /\ n = r.mem /\ t = q.t /\ o = s.mem
  OBVIOUS
<1>10. q \in Call /\ s \in Call /\ q.taken = DOMAIN mid /\ Tree(m, mid, 1, FANOUT, root) /\ Tree(o, lev, 1, FANOUT, root)
  BY <1>8, <1>9 DEF Work
<1>11. DOMAIN mid \subseteq Frame /\ DOMAIN lev \subseteq Frame /\ 0 \notin Frame
  BY <1>10, Sizes DEF Tree, Leveled, Frame
<1>12. t \in DOMAIN mid /\ mid[t] = 1 /\ t \in Frame
  BY <1>8, <1>9, <1>11
<1>13. v \in Int
  OBVIOUS
<1>14. /\ r \in Call /\ r.taken = q.taken
       /\ n[t][i] = v /\ \A w \in Word : w # i => n[t][w] = m[t][w]
       /\ \A h \in Frame : h # t => n[h] = m[h]
  BY <1>5, <1>6, <1>9, <1>10, <1>12, <1>13, LeafSet
<1>15. Tree(n, mid, 1, FANOUT, root)
  <2>1. \A h \in DOMAIN mid : mid[h] >= 2 => n[h] = m[h]
    BY <1>11, <1>12, <1>14
  <2>2. ASSUME NEW h \in DOMAIN mid, NEW w \in Word, mid[h] >= 1 PROVE n[h][w] \in Nat
    <3>1. m[h][w] \in Nat
      BY <1>10, <2>2 DEF Tree, Entries
    <3>2. CASE h # t
      BY <1>11, <1>14, <3>1, <3>2
    <3>3. CASE h = t /\ w = i
      BY <1>14, <3>3
    <3>4. CASE h = t /\ w # i
      BY <1>14, <3>1, <3>4
    <3> QED BY <3>2, <3>3, <3>4
  <2>3. Entries(n, mid)
    BY <2>2 DEF Entries
  <2> QED BY <1>10, <2>1, <2>3, LastKept
<1>16. Work(r, mid, 1, FANOUT, root, {})
  BY <1>9, <1>10, <1>14, <1>15 DEF Work
<1>17. pgtable_kva(n, root, vp) = v
  <2>1. PICK h : Walks(n, root, vp, h) /\ pgtable_kva(n, root, vp) = h[LEVELS]
    BY WalkRuns
  <2> DEFINE T == {k \in 0 .. LEVELS - 1 : h[k] = f[k].t}
  <2>2. 0 \in T
    <3>1. f[0].t = root
      BY <1>3, <1>10 DEF Descends, Call
    <3> QED BY <1>1, <2>1, <3>1 DEF Walks
  <2>3. ASSUME NEW k \in 1 .. LEVELS - 1, k - 1 \in T PROVE k \in T
    <3>1. PICK a, w : a = f[k - 1].t /\ w = IndexAt(vp, LEVELS - k)
      OBVIOUS
    <3>2. k - 1 \in 0 .. LEVELS - 1 /\ k \in 1 .. LEVELS /\ k \in 0 .. LEVELS - 1 /\ LEVELS - (k - 1) # 1
      BY <1>1
    <3>3. a \in DOMAIN mid /\ mid[a] = LEVELS - (k - 1) /\ m[a][w] = f[k].t
      BY <1>8, <1>9, <3>1, <3>2
    <3>4. a # t /\ a \in Frame /\ a # 0
      BY <1>11, <1>12, <3>2, <3>3
    <3>5. h[k - 1] = a
      BY <2>3, <3>1
    <3>6. h[k] = n[a][w]
      BY <2>1, <3>1, <3>2, <3>4, <3>5 DEF Walks
    <3>7. n[a] = m[a]
      BY <1>14, <3>4
    <3> QED BY <3>2, <3>3, <3>6, <3>7
  <2> HIDE DEF T
  <2>4. 0 .. LEVELS - 1 \subseteq T
    BY <1>1, <2>2, <2>3, IntervalInduction
  <2>5. h[LEVELS - 1] = t
    BY <1>1, <1>4, <1>9, <2>4 DEF T
  <2>6. h[LEVELS] = n[t][i]
    <3>1. LEVELS \in 1 .. LEVELS /\ LEVELS - LEVELS = 0 /\ t # 0
      BY <1>1, <1>11, <1>12
    <3> QED BY <1>4, <2>1, <2>5, <3>1 DEF Walks
  <2> QED BY <1>14, <2>1, <2>6
<1>18. ASSUME NEW up \in KernelPage, up # vp, pgtable_kva(o, root, up) # 0
       PROVE  pgtable_kva(n, root, up) = pgtable_kva(o, root, up)
  <2>1. PICK h : Walks(o, root, up, h) /\ pgtable_kva(o, root, up) = h[LEVELS]
    BY WalkRuns
  <2>2. up \in Nat
    BY KernelIndices
  <2>3. \A k \in 0 .. LEVELS - 1 : h[k] = 0 \/ (h[k] \in DOMAIN lev /\ lev[h[k]] = LEVELS - k)
    BY <1>10, <2>1, <2>2, WalkInKernel
  <2>4. \A k \in 0 .. LEVELS : h[k] # 0
    BY <1>18, <2>1, WalkFinds
  <2>5. ASSUME NEW k \in 1 .. LEVELS PROVE h[k] = IF h[k - 1] = 0 THEN 0 ELSE n[h[k - 1]][IndexAt(up, LEVELS - k)]
    <3>1. PICK a, w : a = h[k - 1] /\ w = IndexAt(up, LEVELS - k)
      OBVIOUS
    <3>2. k - 1 \in 0 .. LEVELS - 1 /\ k - 1 \in 0 .. LEVELS /\ k \in 0 .. LEVELS /\ LEVELS - k \in 0 .. LEVELS
      BY <1>1
    <3>3. a # 0 /\ a \in DOMAIN lev /\ lev[a] = LEVELS - (k - 1) /\ h[k] # 0
      BY <2>3, <2>4, <3>1, <3>2
    <3>4. h[k] = o[a][w]
      BY <2>1, <3>1, <3>3 DEF Walks
    <3>5. w \in Word
      BY <2>2, <3>1, <3>2, IndexInWord
    <3>6. m[a][w] = o[a][w] /\ a \in DOMAIN mid /\ mid[a] = lev[a]
      BY <1>8, <1>9, <3>3, <3>4, <3>5 DEF Grown
    <3>7. a = t => w # i
      <4> SUFFICES ASSUME a = t PROVE w # i
        OBVIOUS
      <4>1. LEVELS - (k - 1) = 1
        BY <1>12, <3>3, <3>6
      <4>2. LEVELS - k = 0
        BY <1>1, <4>1
      <4> QED BY <1>4, <1>18, <3>1, <4>2, KernelIndices
    <3>8. n[a][w] = m[a][w]
      BY <1>11, <1>14, <3>3, <3>5, <3>7
    <3> QED BY <3>1, <3>3, <3>4, <3>6, <3>8
  <2>6. Walks(n, root, up, h)
    BY <2>1, <2>5 DEF Walks
  <2>7. pgtable_kva(n, root, up) = h[LEVELS]
    BY <2>6, WalkIsKva
  <2> QED BY <2>1, <2>7
<1>19. s.ok
  BY <1>8 DEF Grown
<1> QED BY <1>9, <1>16, <1>17, <1>18, <1>19 DEF KernelPut

\* A space that shares the upper half of the kernel's root maps the kernel.
LEMMA KernelSeen ==
    ASSUME NEW m, NEW lev, NEW root, Tree(m, lev, 1, FANOUT, root), NEW n, NEW base \in Frame,
           \A f \in DOMAIN lev : n[f] = m[f],
           \A w \in Word : w >= KERNEL_PML4_INDEX => n[base][w] = m[root][w],
           NEW vp \in KernelPage
    PROVE  pgtable_kva(n, base, vp) = pgtable_kva(m, root, vp)
<1>1. LEVELS \in Nat /\ LEVELS >= 2 /\ 1 \in 1 .. LEVELS /\ LEVELS - 1 \in 0 .. LEVELS
  BY Sizes
<1>2. vp \in Nat /\ IndexAt(vp, LEVELS - 1) >= KERNEL_PML4_INDEX
  BY KernelIndices
<1>3. PICK f : Walks(m, root, vp, f) /\ pgtable_kva(m, root, vp) = f[LEVELS]
  BY WalkRuns
<1>4. PICK g : Walks(n, base, vp, g) /\ pgtable_kva(n, base, vp) = g[LEVELS]
  BY WalkRuns
<1>5. \A k \in 0 .. LEVELS - 1 : f[k] = 0 \/ f[k] \in DOMAIN lev
  BY <1>2, <1>3, WalkInKernel
<1>6. root \in DOMAIN lev /\ root # 0 /\ base # 0
  BY Sizes DEF Tree, Leveled, Frame
<1> DEFINE T == {k \in 0 .. LEVELS - 1 : g[k + 1] = f[k + 1]}
<1>7. 0 \in T
  <2>1. IndexAt(vp, LEVELS - 1) \in Word
    BY <1>1, <1>2, IndexInWord
  <2>2. f[0] = root /\ g[0] = base
    BY <1>3, <1>4 DEF Walks
  <2>3. f[1] = m[root][IndexAt(vp, LEVELS - 1)] /\ g[1] = n[base][IndexAt(vp, LEVELS - 1)]
    <3>1. 1 - 1 = 0
      OBVIOUS
    <3> QED BY <1>1, <1>3, <1>4, <1>6, <2>2, <3>1 DEF Walks
  <2>4. g[1] = f[1]
    BY <1>2, <2>1, <2>3
  <2>5. 0 \in 0 .. LEVELS - 1 /\ 0 + 1 = 1
    BY <1>1
  <2> QED BY <2>4, <2>5
<1>8. ASSUME NEW k \in 1 .. LEVELS - 1, k - 1 \in T PROVE k \in T
  <2>1. k + 1 \in 1 .. LEVELS /\ (k + 1) - 1 = k /\ (k - 1) + 1 = k /\ k \in 0 .. LEVELS - 1
    BY <1>1
  <2>2. g[k] = f[k]
    BY <1>8, <2>1
  <2>3. f[k + 1] = IF f[k] = 0 THEN 0 ELSE m[f[k]][IndexAt(vp, LEVELS - (k + 1))]
    BY <1>3, <2>1 DEF Walks
  <2>4. g[k + 1] = IF g[k] = 0 THEN 0 ELSE n[g[k]][IndexAt(vp, LEVELS - (k + 1))]
    BY <1>4, <2>1 DEF Walks
  <2>5. f[k] = 0 \/ n[f[k]] = m[f[k]]
    BY <1>5, <2>1
  <2> QED BY <2>1, <2>2, <2>3, <2>4, <2>5
<1> HIDE DEF T
<1>9. LEVELS - 1 \in Nat
  BY <1>1
<1>10. 0 .. LEVELS - 1 \subseteq T
  BY <1>7, <1>8, <1>9, IntervalInduction
<1>11. LEVELS - 1 \in T /\ (LEVELS - 1) + 1 = LEVELS
  BY <1>1, <1>9, <1>10
<1> QED BY <1>3, <1>4, <1>11 DEF T

-----------------------------------------------------------------------------
(* Address spaces: the kernel's tables *)

\* Out of memory once, out of memory for good.
LEMMA OkAlloc ==
    ASSUME NEW s, "ok" \in DOMAIN s, NEW r, r = buddy_alloc_frame(s) \/ r = pgtable_alloc_table(s)
    PROVE  "ok" \in DOMAIN r /\ (r.ok => s.ok)
<1>1. PICK q : q = buddy_alloc_frame(s)
  OBVIOUS
<1>2. "ok" \in DOMAIN q /\ (q.ok => s.ok)
  BY <1>1 DEF buddy_alloc_frame
<1>3. pgtable_alloc_table(s) = IF q.ok THEN Zeroed(q) ELSE q
  BY <1>1 DEF pgtable_alloc_table, AndThen
<1>4. PICK n : Zeroed(q) = [q EXCEPT !.mem = n]
  BY DEF Zeroed
<1> QED BY <1>1, <1>2, <1>3, <1>4

\* The same for a mapping.
LEMMA OkMap ==
    ASSUME NEW s, "ok" \in DOMAIN s, NEW root, NEW vp, NEW v, NEW r, r = pgtable_map(s, root, vp, v)
    PROVE  "ok" \in DOMAIN r /\ (r.ok => s.ok)
<1>1. PICK f : Descends(s, root, vp, f) /\ r = PutLeaf(f[LEVELS - 1], IndexAt(vp, 0), v)
  BY DescentRuns
<1>2. LEVELS - 1 \in Nat
  BY Sizes
<1> DEFINE T == {k \in 0 .. LEVELS - 1 : "ok" \in DOMAIN f[k] /\ (f[k].ok => s.ok)}
<1>3. 0 \in T
  BY <1>1, <1>2 DEF Descends
<1>4. ASSUME NEW k \in 1 .. LEVELS - 1, k - 1 \in T PROVE k \in T
  <2>1. PICK q, x, i : q = f[k - 1] /\ x = f[k] /\ i = IndexAt(vp, LEVELS - k)
    OBVIOUS
  <2>2. x = StepDown(q, i)
    BY <1>1, <2>1 DEF Descends
  <2>3. "ok" \in DOMAIN q /\ (q.ok => s.ok) /\ k \in 0 .. LEVELS - 1
    BY <1>2, <1>4, <2>1
  <2>4. PICK p : p = pgtable_alloc_table(q)
    OBVIOUS
  <2>5. "ok" \in DOMAIN p /\ (p.ok => q.ok)
    BY <2>3, <2>4, OkAlloc
  <2>6. PICK n, u : StepDown(q, i) = IF q.ok THEN IF Present(q.mem[q.t][i]) THEN [q EXCEPT !.t = u]
                                                ELSE IF p.ok THEN [p EXCEPT !.mem = n, !.t = p.f] ELSE p
                                   ELSE q
    BY <2>4 DEF StepDown, AndThen
  <2>7. "ok" \in DOMAIN x /\ (x.ok => q.ok)
    BY <2>2, <2>3, <2>5, <2>6
  <2> QED BY <2>1, <2>3, <2>7
<1> HIDE DEF T
<1>5. 0 .. LEVELS - 1 \subseteq T
  BY <1>2, <1>3, <1>4, IntervalInduction
<1>6. PICK q : q = f[LEVELS - 1] /\ "ok" \in DOMAIN q /\ (q.ok => s.ok)
  BY <1>2, <1>5 DEF T
<1>7. PICK n, x : r = IF q.ok THEN [q EXCEPT !.mem = n, !.leaked = x] ELSE q
  BY <1>1, <1>6 DEF PutLeaf, AndThen
<1> QED BY <1>6, <1>7

\* A root without entries.
LEMMA EmptyTree ==
    ASSUME NEW m, NEW low \in {0, 1}, NEW end, NEW root \in Frame,
           \A w \in Word : m[root][w] \in Nat /\ (w < end => m[root][w] = 0)
    PROVE  Tree(m, [x \in {root} |-> LEVELS], low, end, root)
<1> DEFINE lev == [x \in {root} |-> LEVELS]
<1>1. DOMAIN lev = {root} /\ lev[root] = LEVELS
  OBVIOUS
<1> HIDE DEF lev
<1>2. LEVELS \in low .. LEVELS
  BY Sizes
<1>3. ASSUME NEW f, NEW w PROVE ~Cell(m, lev, low, end, root, f, w)
  BY <1>1 DEF Cell
<1>4. Leveled(lev, low, root)
  BY <1>1, <1>2 DEF Leveled
<1>5. Entries(m, lev)
  BY <1>1 DEF Entries
<1>6. Down(m, lev, low, end, root) /\ Unique(m, lev, low, end, root)
  BY <1>3 DEF Down, Unique
<1>7. Onto(m, lev, low, end, root)
  BY <1>1 DEF Onto
<1>8. Tree(m, lev, low, end, root)
  BY <1>4, <1>5, <1>6, <1>7 DEF Tree
<1> QED BY <1>8 DEF lev

\* The pages of the kernel are mapped one by one.
Boots(kernel, f) ==
    /\ f[0] = pgtable_alloc_table(Blank)
    /\ \A p \in 1 .. NPages : f[p] = IF p - 1 \in KernelPage THEN pgtable_map(f[p - 1], kernel, p - 1, PhysOf(p - 1)) ELSE f[p - 1]

\* vmm_init maps them.
LEMMA BootRuns ==
    ASSUME NEW kernel, kernel = kernel_pml4
    PROVE  \E f : Boots(kernel, f) /\ vmm_init = f[NPages]
<1> DEFINE N == NPages
           first == pgtable_alloc_table(Blank)
           Put(i, p) == IF i - 1 \in KernelPage THEN pgtable_map(p, kernel, i - 1, PhysOf(i - 1)) ELSE p
           R(g) == [i \in 0 .. N |-> IF i = 0 THEN first ELSE Put(i, g[i - 1])]
           F == CHOOSE g : g = R(g)
           Upto(n, g) == g[0] = first /\ \A k \in 1 .. n : g[k] = Put(k, g[k - 1])
<1>1. vmm_init = F[N]
  BY DEF vmm_init
<1>2. N \in Nat
  BY PageNumbers
<1>3. Boots(kernel, F) <=> Upto(N, F)
  BY DEF Boots
<1> HIDE DEF Put, N, first
<1>5. F = R(F)
  <2> DEFINE T == {n \in 0 .. N : \E g : Upto(n, g)}
  <2>1. 0 \in T
    <3>1. Upto(0, [k \in 0 .. 0 |-> first])
      OBVIOUS
    <3>2. \E g : Upto(0, g)
      BY <3>1
    <3> HIDE DEF Upto
    <3> QED BY <3>2, <1>2
  <2>2. ASSUME NEW n \in 1 .. N, n - 1 \in T PROVE n \in T
    <3>1. PICK g : Upto(n - 1, g)
      BY <2>2
    <3> DEFINE f == [k \in 0 .. n |-> IF k = n THEN Put(n, g[n - 1]) ELSE g[k]]
    <3>2. f[0] = first
      BY <3>1
    <3>3. ASSUME NEW k \in 1 .. n PROVE f[k] = Put(k, f[k - 1])
      <4>1. k - 1 \in 0 .. n /\ k - 1 # n /\ k \in 0 .. n /\ (k # n => k \in 1 .. n - 1)
        OBVIOUS
      <4>2. f[k - 1] = g[k - 1]
        BY <4>1
      <4>3. CASE k = n
        BY <4>1, <4>2, <4>3
      <4>4. CASE k # n
        <5>1. f[k] = g[k]
          BY <4>1, <4>4
        <5> QED BY <3>1, <4>1, <4>2, <4>4, <5>1
      <4> QED BY <4>3, <4>4
    <3> HIDE DEF f
    <3>4. Upto(n, f)
      BY <3>2, <3>3
    <3>5. \E e : Upto(n, e)
      BY <3>4
    <3> HIDE DEF Upto
    <3>6. n \in 0 .. N
      BY <1>2
    <3> QED BY <3>5, <3>6
  <2> HIDE DEF T
  <2>3. 0 .. N \subseteq T
    BY <2>1, <2>2, <1>2, IntervalInduction
  <2>4. N \in T
    BY <2>3, <1>2
  <2>5. PICK g : Upto(N, g)
    BY <2>4 DEF T
  <2> DEFINE u == [k \in 0 .. N |-> g[k]]
  <2>6. ASSUME NEW k \in 0 .. N PROVE u[k] = IF k = 0 THEN first ELSE Put(k, u[k - 1])
    <3>1. CASE k = 0
      BY <2>5, <3>1
    <3>2. CASE k # 0
      <4>1. k \in 1 .. N /\ k - 1 \in 0 .. N
        BY <3>2, <1>2
      <4>2. u[k] = g[k] /\ u[k - 1] = g[k - 1]
        BY <4>1
      <4> QED BY <2>5, <3>2, <4>1, <4>2
    <3> QED BY <3>1, <3>2
  <2>7. u = R(u)
    BY <2>6
  <2> HIDE DEF u
  <2>8. \E e : e = R(e)
    BY <2>7
  <2> QED BY <2>8, Zenon
<1> HIDE DEF F
<1>6. F[0] = first
  BY <1>2, <1>5
<1>7. ASSUME NEW k \in 1 .. N PROVE F[k] = Put(k, F[k - 1])
  <2>1. k \in 0 .. N /\ k # 0
    BY <1>2
  <2> QED BY <1>5, <2>1
<1>8. Upto(N, F)
  BY <1>6, <1>7
<1> QED BY <1>1, <1>3, <1>8 DEF N

\* Boot starts with no frame taken.
LEMMA BlankCall ==
    Blank \in Call /\ Blank.taken = {} /\ Blank.ok
<1>1. PICK n : n = [f \in Frame |-> [w \in Word |-> DIRTY]]
  OBVIOUS
<1>2. n \in Memory
  BY <1>1 DEF Memory, DIRTY
<1>3. Blank = [mem |-> n, taken |-> {}, leaked |-> {}, ok |-> TRUE, f |-> 0, t |-> 0, root |-> 0, ks |-> 0, rc |-> 0, read |-> 0]
  BY <1>1 DEF Blank
<1> QED BY <1>2, <1>3 DEF Call

\* The kernel's tables: a tree of all frames taken so far, with the first p pages.
KernelUpTo(r, lev, p) ==
    /\ Work(r, lev, 1, FANOUT, kernel_pml4, {})
    /\ \A vp \in KernelPage : vp < p => pgtable_kva(r.mem, kernel_pml4, vp) = PhysOf(vp)

\* What vmm_init builds.
LEMMA KernelBuilt ==
    /\ vmm_init.ok /\ vmm_init \in Call
    /\ \E lev : /\ Tree(vmm_init.mem, lev, 1, FANOUT, kernel_pml4) /\ DOMAIN lev = KernelTables
                /\ \A vp \in KernelPage : pgtable_kva(vmm_init.mem, kernel_pml4, vp) = PhysOf(vp)
<1>1. PICK kernel : kernel = kernel_pml4
  OBVIOUS
<1>2. PICK f : Boots(kernel, f) /\ vmm_init = f[NPages]
  BY <1>1, BootRuns
<1>3. NPages \in Nat
  BY PageNumbers
<1> DEFINE T == {p \in 0 .. NPages : "ok" \in DOMAIN f[p] /\ (f[p].ok => \E lev : KernelUpTo(f[p], lev, p))}
<1>4. 0 \in T
  <2>1. PICK r : r = pgtable_alloc_table(Blank)
    OBVIOUS
  <2>2. f[0] = r
    BY <1>2, <2>1 DEF Boots
  <2>3. r \in Call
    BY <2>1, BlankCall, AllocTable
  <2>4. ASSUME r.ok PROVE \E lev : KernelUpTo(r, lev, 0)
    <3>1. kernel_pml4 = r.f
      BY <2>1 DEF kernel_pml4
    <3>2. r.f \in Frame /\ r.taken = {r.f} /\ \A w \in Word : r.mem[r.f][w] = 0
      BY <2>1, <2>4, BlankCall, AllocTable
    <3> DEFINE lev == [x \in {kernel_pml4} |-> LEVELS]
    <3>3. Tree(r.mem, lev, 1, FANOUT, kernel_pml4)
      <4>1. \A w \in Word : r.mem[kernel_pml4][w] \in Nat /\ (w < FANOUT => r.mem[kernel_pml4][w] = 0)
        BY <3>1, <3>2
      <4>2. kernel_pml4 \in Frame /\ 1 \in {0, 1}
        BY <3>1, <3>2
      <4> QED BY <4>1, <4>2, EmptyTree
    <3>4. DOMAIN lev = {kernel_pml4}
      OBVIOUS
    <3> HIDE DEF lev
    <3>5. Work(r, lev, 1, FANOUT, kernel_pml4, {})
      BY <2>3, <3>1, <3>2, <3>3, <3>4 DEF Work
    <3>6. \A vp \in KernelPage : ~(vp < 0)
      BY KernelIndices
    <3> QED BY <3>5, <3>6 DEF KernelUpTo
  <2>5. "ok" \in DOMAIN r
    BY <2>3 DEF Call
  <2> QED BY <1>3, <2>2, <2>4, <2>5
<1>5. ASSUME NEW p \in 1 .. NPages, p - 1 \in T PROVE p \in T
  <2>1. PICK s, r, vp : s = f[p - 1] /\ r = f[p] /\ vp = p - 1 /\ vp \in Nat
    BY <1>3
  <2>2. r = IF vp \in KernelPage THEN pgtable_map(s, kernel_pml4, vp, PhysOf(vp)) ELSE s
    BY <1>1, <1>2, <2>1 DEF Boots
  <2>3. "ok" \in DOMAIN s /\ (s.ok => \E lev : KernelUpTo(s, lev, vp))
    BY <1>5, <2>1
  <2>4. \A up \in KernelPage : up \in Nat /\ (up < p <=> up < vp \/ up = vp)
    BY <2>1, KernelIndices
  <2>5. CASE vp \notin KernelPage
    <3>1. ASSUME NEW lev, KernelUpTo(s, lev, vp) PROVE KernelUpTo(s, lev, p)
      BY <2>4, <2>5, <3>1 DEF KernelUpTo
    <3>2. p \in 0 .. NPages
      BY <1>3
    <3> QED BY <2>1, <2>2, <2>3, <2>5, <3>1, <3>2
  <2>6. CASE vp \in KernelPage
    <3>1. r = pgtable_map(s, kernel_pml4, vp, PhysOf(vp))
      BY <2>2, <2>6
    <3>2. "ok" \in DOMAIN r /\ (r.ok => s.ok)
      BY <2>3, <3>1, OkMap
    <3>3. \A up \in KernelPage : PhysOf(up) \in Nat /\ PhysOf(up) # 0
      BY <2>4, Sizes DEF PhysOf
    <3>4. ASSUME r.ok PROVE \E lev : KernelUpTo(r, lev, p)
      <4>1. PICK lev : KernelUpTo(s, lev, vp)
        BY <2>3, <3>2, <3>4
      <4>2. Work(s, lev, 1, FANOUT, kernel_pml4, {})
        BY <4>1 DEF KernelUpTo
      <4>3. PICK v \in Nat : v = PhysOf(vp)
        BY <2>6, <3>3
      <4>4. r = pgtable_map(s, kernel_pml4, vp, v)
        BY <3>1, <4>3
      <4>5. PICK new : KernelPut(s, r, kernel_pml4, vp, v, new)
        BY <2>6, <3>4, <4>2, <4>4, MapKernel
      <4>6. ASSUME NEW up \in KernelPage, up < p PROVE pgtable_kva(r.mem, kernel_pml4, up) = PhysOf(up)
        <5>1. CASE up = vp
          BY <4>3, <4>5, <5>1 DEF KernelPut
        <5>2. CASE up # vp
          <6>1. pgtable_kva(s.mem, kernel_pml4, up) = PhysOf(up)
            BY <2>4, <4>1, <4>6, <5>2 DEF KernelUpTo
          <6> QED BY <3>3, <4>5, <5>2, <6>1 DEF KernelPut
        <5> QED BY <5>1, <5>2
      <4>7. KernelUpTo(r, new, p)
        BY <4>5, <4>6 DEF KernelPut, KernelUpTo
      <4> QED BY <4>7
    <3>5. p \in 0 .. NPages
      BY <1>3
    <3> QED BY <2>1, <3>2, <3>4, <3>5
  <2> QED BY <2>5, <2>6
<1> HIDE DEF T
<1>6. 0 .. NPages \subseteq T
  BY <1>3, <1>4, <1>5, IntervalInduction
<1>7. "ok" \in DOMAIN vmm_init /\ (vmm_init.ok => \E lev : KernelUpTo(vmm_init, lev, NPages))
  BY <1>2, <1>3, <1>6 DEF T
<1>8. vmm_init.ok
  <2>1. PICK s, q, r, n : /\ s = vmm_init /\ q = pgtable_alloc_table(s) /\ r = pgtable_create(s, kernel_pml4)
                          /\ r = IF q.ok THEN [q EXCEPT !.mem = n] ELSE q
    BY DEF pgtable_create, AndThen
  <2>2. "ok" \in DOMAIN q /\ (q.ok => s.ok)
    BY <1>7, <2>1, OkAlloc
  <2>3. "ok" \in DOMAIN r /\ (r.ok => s.ok)
    BY <2>1, <2>2
  <2>4. buddy_alloc_frame(r).ok => r.ok
    BY <2>3, OkAlloc
  <2> QED BY <2>1, <2>3, <2>4, BootSpaceAssumption
<1>9. PICK lev : KernelUpTo(vmm_init, lev, NPages)
  BY <1>7, <1>8
<1>10. /\ vmm_init \in Call /\ Tree(vmm_init.mem, lev, 1, FANOUT, kernel_pml4) /\ vmm_init.taken = DOMAIN lev
       /\ \A vp \in KernelPage : vp < NPages => pgtable_kva(vmm_init.mem, kernel_pml4, vp) = PhysOf(vp)
  BY <1>9 DEF KernelUpTo, Work
<1>11. \A vp \in KernelPage : vp < NPages
  BY KernelIndices
<1> QED BY <1>8, <1>10, <1>11 DEF KernelTables

-----------------------------------------------------------------------------
(* Address spaces: a new program *)

\* A space under construction: its tree, and as they were the frames of B and the
\* kernel's half.
Built(r, lev, root, ks, B, m) ==
    /\ Work(r, lev, 0, KERNEL_PML4_INDEX, root, B \cup r.leaked) /\ B \cap r.leaked = {}
    /\ r.root = root /\ r.ks = ks
    /\ \A f \in B : r.mem[f] = m[f]
    /\ \A w \in Word : w >= KERNEL_PML4_INDEX => r.mem[root][w] = m[kernel_pml4][w]

\* vmm_alloc adds a page; the frame is data.
LEMMA PageAdded ==
    ASSUME NEW s, NEW lev, NEW root, NEW ks, NEW B, NEW m, Built(s, lev, root, ks, B, m),
           NEW vp \in 0 .. (NPages \div 2) - 1, NEW r, r = vmm_alloc(s, root, vp), r.ok
    PROVE  \E new : Built(r, new, root, ks, B, m) /\ r.f \in DOMAIN new /\ new[r.f] = 0
<1>1. PICK q : q = buddy_alloc_frame(s)
  OBVIOUS
<1>2. PICK g : g = q.f
  OBVIOUS
<1>3. PICK x : x = pgtable_map(q, root, vp, g)
  OBVIOUS
<1>4. r = IF q.ok THEN [x EXCEPT !.f = g] ELSE q
  BY <1>1, <1>2, <1>3 DEF vmm_alloc, AndThen
<1>5. q.ok
  BY <1>4
<1>6. /\ s \in Call /\ s.taken = (B \cup s.leaked) \cup DOMAIN lev /\ (B \cup s.leaked) \cap DOMAIN lev = {}
      /\ Tree(s.mem, lev, 0, KERNEL_PML4_INDEX, root)
      /\ B \cap s.leaked = {} /\ s.root = root /\ s.ks = ks
      /\ \A f \in B : s.mem[f] = m[f]
      /\ \A w \in Word : w >= KERNEL_PML4_INDEX => s.mem[root][w] = m[kernel_pml4][w]
  BY DEF Built, Work
<1>7. /\ q \in Call /\ Same(s, q) /\ q.mem = s.mem
      /\ g \in Frame \ s.taken /\ q.taken = s.taken \cup {g}
  BY <1>1, <1>2, <1>5, <1>6, AllocFrame
<1>8. PICK X : X = B \cup s.leaked \cup {g}
  OBVIOUS
<1>9. Work(q, lev, 0, KERNEL_PML4_INDEX, root, X) /\ g \in X
  <2>1. q.taken = X \cup DOMAIN lev /\ X \cap DOMAIN lev = {}
    BY <1>6, <1>7, <1>8
  <2> QED BY <1>6, <1>7, <1>8, <2>1 DEF Work
<1>10. "ok" \in DOMAIN q
  BY <1>7 DEF Call
<1>11. "ok" \in DOMAIN x
  BY <1>3, <1>10, OkMap
<1>12. r = [x EXCEPT !.f = g] /\ x.ok
  BY <1>4, <1>5, <1>11
<1>13. PICK new, O : UserMapped(q, x, g, root, X, new, O)
  BY <1>3, <1>9, <1>12, MapUser
<1>14. /\ x \in Call /\ x.taken = ((X \ {g}) \cup O) \cup DOMAIN new /\ ((X \ {g}) \cup O) \cap DOMAIN new = {}
       /\ Tree(x.mem, new, 0, KERNEL_PML4_INDEX, root)
       /\ g \in DOMAIN new /\ new[g] = 0
       /\ x.leaked = q.leaked \cup O /\ O \cap X = {} /\ x.root = q.root /\ x.ks = q.ks
       /\ \A f \in X : f # g => x.mem[f] = q.mem[f]
       /\ \A w \in Word : w >= KERNEL_PML4_INDEX => x.mem[root][w] = q.mem[root][w]
  BY <1>13 DEF UserMapped, Work
<1>15. g \in Int
  BY <1>7, Sizes DEF Frame
<1>16. r \in Call /\ r.taken = x.taken /\ r.mem = x.mem /\ r.leaked = x.leaked /\ r.root = x.root /\ r.ks = x.ks /\ r.f = g
  BY <1>12, <1>14, <1>15 DEF Call
<1>17. r.leaked = s.leaked \cup O /\ r.root = root /\ r.ks = ks
  BY <1>6, <1>7, <1>14, <1>16 DEF Same
<1>18. B \cup r.leaked = (X \ {g}) \cup O /\ B \cap r.leaked = {} /\ B \subseteq X /\ g \notin B
  BY <1>6, <1>7, <1>8, <1>14, <1>17
<1>19. Work(r, new, 0, KERNEL_PML4_INDEX, root, B \cup r.leaked)
  BY <1>14, <1>16, <1>18 DEF Work
<1>20. \A f \in B : r.mem[f] = m[f]
  BY <1>6, <1>7, <1>14, <1>16, <1>18
<1>21. \A w \in Word : w >= KERNEL_PML4_INDEX => r.mem[root][w] = m[kernel_pml4][w]
  BY <1>6, <1>7, <1>14, <1>16
<1>22. Built(r, new, root, ks, B, m)
  BY <1>17, <1>18, <1>19, <1>20, <1>21 DEF Built
<1> QED BY <1>14, <1>16, <1>22

\* Writing data.
LEMMA DataWritten ==
    ASSUME NEW s, NEW lev, NEW root, NEW ks, NEW B, NEW m, Built(s, lev, root, ks, B, m),
           NEW r \in Call, r.taken = s.taken, r.leaked = s.leaked, r.root = s.root, r.ks = s.ks,
           \A f \in Frame : (f \in DOMAIN lev /\ lev[f] = 0) \/ r.mem[f] = s.mem[f]
    PROVE  Built(r, lev, root, ks, B, m)
<1>1. /\ s \in Call /\ s.taken = (B \cup s.leaked) \cup DOMAIN lev /\ (B \cup s.leaked) \cap DOMAIN lev = {}
      /\ Tree(s.mem, lev, 0, KERNEL_PML4_INDEX, root)
      /\ B \cap s.leaked = {} /\ s.root = root /\ s.ks = ks
      /\ \A f \in B : s.mem[f] = m[f]
      /\ \A w \in Word : w >= KERNEL_PML4_INDEX => s.mem[root][w] = m[kernel_pml4][w]
  BY DEF Built, Work
<1>2. DOMAIN lev \subseteq Frame /\ root \in DOMAIN lev /\ lev[root] = LEVELS /\ LEVELS # 0
  BY <1>1, Sizes DEF Tree, Leveled
<1>3. \A f \in DOMAIN lev : lev[f] >= 1 => r.mem[f] = s.mem[f]
  BY <1>2
<1>4. Tree(r.mem, lev, 0, KERNEL_PML4_INDEX, root)
  <2>1. 0 \in {0, 1}
    OBVIOUS
  <2>2. PICK n, o : n = r.mem /\ o = s.mem
    OBVIOUS
  <2>3. Tree(o, lev, 0, KERNEL_PML4_INDEX, root) /\ \A f \in DOMAIN lev : lev[f] >= 1 => n[f] = o[f]
    BY <1>1, <1>3, <2>2
  <2>4. Tree(n, lev, 0, KERNEL_PML4_INDEX, root)
    BY <2>1, <2>3, TreeKept
  <2> QED BY <2>2, <2>4
<1>5. Work(r, lev, 0, KERNEL_PML4_INDEX, root, B \cup r.leaked)
  BY <1>1, <1>4 DEF Work
<1>6. B \subseteq Frame
  BY <1>1 DEF Call
<1>7. \A f \in B : r.mem[f] = m[f]
  BY <1>1, <1>6
<1>8. r.mem[root] = s.mem[root]
  BY <1>2
<1> QED BY <1>1, <1>5, <1>7, <1>8 DEF Built

\* The pages of the user half show C: word for word, and nothing elsewhere.
Shows(m, root, C) ==
    \A vp \in 0 .. (NPages \div 2) - 1 :
        IF vp \in DOMAIN C
        THEN pgtable_kva(m, root, vp) # 0 /\ \A w \in Word : m[pgtable_kva(m, root, vp)][w] = C[vp][w]
        ELSE pgtable_kva(m, root, vp) = 0
Given(C, vp, row) == [x \in DOMAIN C \cup {vp} |-> IF x = vp THEN row ELSE C[x]]

\* A page added by vmm_alloc shows what is written to its frame.
LEMMA PageShown ==
    ASSUME NEW s, NEW lev, NEW root, NEW ks, NEW B, NEW m, Built(s, lev, root, ks, B, m),
           NEW vp \in 0 .. (NPages \div 2) - 1, NEW r, r = vmm_alloc(s, root, vp), r.ok,
           NEW C, Shows(s.mem, root, C),
           NEW n, \A g \in Frame : g # r.f => n[g] = r.mem[g],
           NEW row, \A w \in Word : n[r.f][w] = row[w]
    PROVE  Shows(n, root, Given(C, vp, row))
<1>1. PICK q : q = buddy_alloc_frame(s)
  OBVIOUS
<1>2. PICK g : g = q.f
  OBVIOUS
<1>3. PICK x : x = pgtable_map(q, root, vp, g)
  OBVIOUS
<1>4. r = IF q.ok THEN [x EXCEPT !.f = g] ELSE q
  BY <1>1, <1>2, <1>3 DEF vmm_alloc, AndThen
<1>5. q.ok
  BY <1>4
<1>6. /\ s \in Call /\ s.taken = (B \cup s.leaked) \cup DOMAIN lev /\ (B \cup s.leaked) \cap DOMAIN lev = {}
      /\ Tree(s.mem, lev, 0, KERNEL_PML4_INDEX, root)
  BY DEF Built, Work
<1>7. /\ q \in Call /\ Same(s, q) /\ q.mem = s.mem
      /\ g \in Frame \ s.taken /\ q.taken = s.taken \cup {g}
  BY <1>1, <1>2, <1>5, <1>6, AllocFrame
<1>8. PICK X : X = B \cup s.leaked \cup {g}
  OBVIOUS
<1>9. Work(q, lev, 0, KERNEL_PML4_INDEX, root, X) /\ g \in X
  <2>1. q.taken = X \cup DOMAIN lev /\ X \cap DOMAIN lev = {}
    BY <1>6, <1>7, <1>8
  <2> QED BY <1>6, <1>7, <1>8, <2>1 DEF Work
<1>10. "ok" \in DOMAIN q
  BY <1>7 DEF Call
<1>11. "ok" \in DOMAIN x
  BY <1>3, <1>10, OkMap
<1>12. r = [x EXCEPT !.f = g] /\ x.ok
  BY <1>4, <1>5, <1>11
<1>13. PICK mid, O : UserMapped(q, x, g, root, X, mid, O)
  BY <1>3, <1>9, <1>12, MapUser
<1>14. x \in Call /\ g \in Int
  BY <1>7, <1>13, Sizes DEF UserMapped, Work, Frame
<1>15. r.mem = x.mem /\ r.f = g
  BY <1>12, <1>14 DEF Call
<1>16. PICK new : Built(r, new, root, ks, B, m) /\ r.f \in DOMAIN new /\ new[r.f] = 0
  BY PageAdded
<1>17. PICK o, p : o = r.mem /\ p = s.mem
  OBVIOUS
<1>18. Tree(o, new, 0, KERNEL_PML4_INDEX, root) /\ Tree(p, lev, 0, KERNEL_PML4_INDEX, root) /\ DOMAIN new \subseteq Frame
  BY <1>6, <1>16, <1>17 DEF Built, Work, Tree, Leveled
<1>19. ASSUME NEW up \in 0 .. (NPages \div 2) - 1
       PROVE  /\ pgtable_kva(o, root, up) = IF up = vp THEN g ELSE pgtable_kva(p, root, up)
              /\ pgtable_kva(p, root, up) # 0 => o[pgtable_kva(p, root, up)] = p[pgtable_kva(p, root, up)]
  <2>1. q.mem = p /\ x.mem = o
    BY <1>7, <1>15, <1>17
  <2>2. /\ pgtable_kva(x.mem, root, up) = IF up = vp THEN g ELSE pgtable_kva(q.mem, root, up)
        /\ pgtable_kva(q.mem, root, up) # 0 => x.mem[pgtable_kva(q.mem, root, up)] = q.mem[pgtable_kva(q.mem, root, up)]
    BY <1>3, <1>9, <1>12, MapShows
  <2> QED BY <2>1, <2>2
<1>20. ASSUME NEW up \in 0 .. (NPages \div 2) - 1 PROVE pgtable_kva(n, root, up) = pgtable_kva(o, root, up)
  <2>1. \A f \in DOMAIN new : new[f] >= 1 => n[f] = o[f]
    BY <1>16, <1>17, <1>18
  <2> QED BY <1>18, <2>1, KvaKept
<1>21. g # 0 /\ g \notin DOMAIN lev
  BY <1>6, <1>7, Sizes DEF Frame
<1> DEFINE D == Given(C, vp, row)
<1>22. DOMAIN D = DOMAIN C \cup {vp} /\ D[vp] = row /\ \A up \in DOMAIN C : up # vp => D[up] = C[up]
  BY DEF Given
<1> HIDE DEF D
<1>23. ASSUME NEW up \in 0 .. (NPages \div 2) - 1
       PROVE  IF up \in DOMAIN D
              THEN pgtable_kva(n, root, up) # 0 /\ \A w \in Word : n[pgtable_kva(n, root, up)][w] = D[up][w]
              ELSE pgtable_kva(n, root, up) = 0
  <2>1. CASE up = vp
    <3>1. pgtable_kva(n, root, up) = g
      BY <1>19, <1>20, <2>1
    <3> QED BY <1>15, <1>21, <1>22, <2>1, <3>1
  <2>2. CASE up # vp
    <3>1. PICK y : y = pgtable_kva(p, root, up) /\ pgtable_kva(n, root, up) = y
      BY <1>19, <1>20, <2>2
    <3>2. CASE up \notin DOMAIN C
      BY <1>17, <1>22, <2>2, <3>1, <3>2 DEF Shows
    <3>3. CASE up \in DOMAIN C
      <4>1. y # 0 /\ \A w \in Word : p[y][w] = C[up][w]
        BY <1>17, <3>1, <3>3 DEF Shows
      <4>2. y \in DOMAIN lev
        BY <1>18, <3>1, <4>1, WalkInTree
      <4>3. y # g /\ y \in Frame
        BY <1>18, <1>21, <4>2 DEF Tree, Leveled
      <4>4. n[y] = p[y]
        BY <1>15, <1>17, <1>19, <3>1, <4>1, <4>3
      <4> QED BY <1>22, <2>2, <3>1, <3>3, <4>1, <4>4
    <3> QED BY <3>2, <3>3
  <2> QED BY <2>1, <2>2
<1> QED BY <1>23 DEF Shows, D

\* The root and the kernel stack of a new space, and then its stack.
RootAndStack(s) == AndThen(pgtable_create(s, kernel_pml4), LAMBDA r : [buddy_alloc_frame(r) EXCEPT !.t = r.f])
PushPage(p, n) == AndThen(p, LAMBDA r : AndThen(vmm_alloc(r, r.root, StackBase + n - 1), Zeroed))
StackRows(n) == [vp \in StackBase .. StackBase + n - 1 |-> [w \in Word |-> 0]]
Stacks(k, f) ==
    /\ f[0] = [k EXCEPT !.root = k.t, !.ks = k.f]
    /\ \A n \in 1 .. STACK_PAGES : f[n] = PushPage(f[n - 1], n)

\* task_create_space pushes page after page.
LEMMA StackRuns ==
    ASSUME NEW s, NEW base, base = RootAndStack(s)
    PROVE  \E f : Stacks(base, f) /\ task_create_space(s) = f[STACK_PAGES]
<1> DEFINE N == STACK_PAGES
           first == [base EXCEPT !.root = base.t, !.ks = base.f]
           Put(i, p) == PushPage(p, i)
           R(g) == [i \in 0 .. N |-> IF i = 0 THEN first ELSE Put(i, g[i - 1])]
           F == CHOOSE g : g = R(g)
           Upto(n, g) == g[0] = first /\ \A k \in 1 .. n : g[k] = Put(k, g[k - 1])
<1>1. task_create_space(s) = F[N]
  BY DEF task_create_space, RootAndStack, PushPage, AndThen
<1>2. N \in Nat
  BY Sizes
<1>3. Stacks(base, F) <=> Upto(N, F)
  BY DEF Stacks
<1> HIDE DEF Put, N, first
<1>5. F = R(F)
  <2> DEFINE T == {n \in 0 .. N : \E g : Upto(n, g)}
  <2>1. 0 \in T
    <3>1. Upto(0, [k \in 0 .. 0 |-> first])
      OBVIOUS
    <3>2. \E g : Upto(0, g)
      BY <3>1
    <3> HIDE DEF Upto
    <3> QED BY <3>2, <1>2
  <2>2. ASSUME NEW n \in 1 .. N, n - 1 \in T PROVE n \in T
    <3>1. PICK g : Upto(n - 1, g)
      BY <2>2
    <3> DEFINE f == [k \in 0 .. n |-> IF k = n THEN Put(n, g[n - 1]) ELSE g[k]]
    <3>2. f[0] = first
      BY <3>1
    <3>3. ASSUME NEW k \in 1 .. n PROVE f[k] = Put(k, f[k - 1])
      <4>1. k - 1 \in 0 .. n /\ k - 1 # n /\ k \in 0 .. n /\ (k # n => k \in 1 .. n - 1)
        OBVIOUS
      <4>2. f[k - 1] = g[k - 1]
        BY <4>1
      <4>3. CASE k = n
        BY <4>1, <4>2, <4>3
      <4>4. CASE k # n
        <5>1. f[k] = g[k]
          BY <4>1, <4>4
        <5> QED BY <3>1, <4>1, <4>2, <4>4, <5>1
      <4> QED BY <4>3, <4>4
    <3> HIDE DEF f
    <3>4. Upto(n, f)
      BY <3>2, <3>3
    <3>5. \E e : Upto(n, e)
      BY <3>4
    <3> HIDE DEF Upto
    <3>6. n \in 0 .. N
      BY <1>2
    <3> QED BY <3>5, <3>6
  <2> HIDE DEF T
  <2>3. 0 .. N \subseteq T
    BY <2>1, <2>2, <1>2, IntervalInduction
  <2>4. N \in T
    BY <2>3, <1>2
  <2>5. PICK g : Upto(N, g)
    BY <2>4 DEF T
  <2> DEFINE u == [k \in 0 .. N |-> g[k]]
  <2>6. ASSUME NEW k \in 0 .. N PROVE u[k] = IF k = 0 THEN first ELSE Put(k, u[k - 1])
    <3>1. CASE k = 0
      BY <2>5, <3>1
    <3>2. CASE k # 0
      <4>1. k \in 1 .. N /\ k - 1 \in 0 .. N
        BY <3>2, <1>2
      <4>2. u[k] = g[k] /\ u[k - 1] = g[k - 1]
        BY <4>1
      <4> QED BY <2>5, <3>2, <4>1, <4>2
    <3> QED BY <3>1, <3>2
  <2>7. u = R(u)
    BY <2>6
  <2> HIDE DEF u
  <2>8. \E e : e = R(e)
    BY <2>7
  <2> QED BY <2>8, Zenon
<1> HIDE DEF F
<1>6. F[0] = first
  BY <1>2, <1>5
<1>7. ASSUME NEW k \in 1 .. N PROVE F[k] = Put(k, F[k - 1])
  <2>1. k \in 0 .. N /\ k # 0
    BY <1>2
  <2> QED BY <1>5, <2>1
<1>8. Upto(N, F)
  BY <1>6, <1>7
<1> QED BY <1>1, <1>3, <1>8 DEF N

\* The space of a new task: nothing in use changes hands.
LEMMA SpaceMade ==
    ASSUME NEW s \in Call, kernel_pml4 \in s.taken, s.leaked \subseteq s.taken,
           \A w \in Word : s.mem[kernel_pml4][w] \in Nat,
           NEW r, r = task_create_space(s), r.ok
    PROVE  \E lev, root, ks : /\ ks \in Frame \ s.taken /\ Built(r, lev, root, ks, (s.taken \ s.leaked) \cup {ks}, s.mem)
                              /\ Shows(r.mem, root, StackRows(STACK_PAGES))
<1>1. PICK k, a : k = RootAndStack(s) /\ a = pgtable_create(s, kernel_pml4)
  OBVIOUS
<1>2. PICK b : b = buddy_alloc_frame(a)
  OBVIOUS
<1>3. k = IF a.ok THEN [b EXCEPT !.t = a.f] ELSE a
  BY <1>1, <1>2 DEF RootAndStack, AndThen
<1>4. a \in Call
  BY <1>1, CreateTable
<1>5. a.ok => /\ Same(s, a) /\ a.f \in Frame \ s.taken /\ a.taken = s.taken \cup {a.f}
              /\ \A g \in Frame : g # a.f => a.mem[g] = s.mem[g]
              /\ \A w \in Word : a.mem[a.f][w] = IF w >= KERNEL_PML4_INDEX THEN s.mem[kernel_pml4][w] ELSE 0
  BY <1>1, CreateTable
<1>6. b \in Call /\ Same(a, b) /\ b.mem = a.mem /\ (b.ok => a.ok /\ b.f \in Frame \ a.taken /\ b.taken = a.taken \cup {b.f})
  BY <1>2, <1>4, AllocFrame
<1>7. k \in Call
  BY <1>3, <1>4, <1>6 DEF Call
<1>8. PICK f : Stacks(k, f) /\ r = f[STACK_PAGES]
  BY <1>1, StackRuns
<1>9. STACK_PAGES \in Nat
  BY Sizes
<1>10. PICK B, root, ks : root = a.f /\ ks = b.f /\ B = (s.taken \ s.leaked) \cup {ks}
  OBVIOUS
<1> DEFINE T == {n \in 0 .. STACK_PAGES : f[n].ok => /\ k.ok /\ Shows(f[n].mem, root, StackRows(n))
                                                     /\ \E lev : Built(f[n], lev, root, ks, B, s.mem)}
<1>11. 0 \in T
  <2> SUFFICES ASSUME f[0].ok PROVE k.ok /\ Shows(f[0].mem, root, StackRows(0)) /\ \E lev : Built(f[0], lev, root, ks, B, s.mem)
    BY <1>9
  <2>1. PICK x : x = f[0] /\ x = [k EXCEPT !.root = k.t, !.ks = k.f]
    BY <1>8 DEF Stacks
  <2>2. /\ x \in Call /\ x.ok = k.ok /\ x.mem = k.mem /\ x.taken = k.taken /\ x.leaked = k.leaked /\ x.root = k.t /\ x.ks = k.f
    <3>1. k.t \in Int /\ k.f \in Int
      BY <1>7 DEF Call
    <3>2. x = [k EXCEPT !.root = k.t, !.ks = k.f]
      BY <2>1
    <3>3. x \in Call
      BY <1>7, <3>1, <3>2 DEF Call
    <3>4. x.ok = k.ok /\ x.mem = k.mem /\ x.taken = k.taken /\ x.leaked = k.leaked
      BY <1>7, <3>2 DEF Call
    <3>5. x.root = k.t /\ x.ks = k.f
      BY <1>7, <3>2 DEF Call
    <3> QED BY <3>3, <3>4, <3>5
  <2>3. k.ok /\ a.ok /\ k = [b EXCEPT !.t = a.f]
    BY <1>3, <2>1, <2>2
  <2>4. a.f \in Int
    BY <1>4 DEF Call
  <2>5. k.ok = b.ok /\ k.mem = b.mem /\ k.taken = b.taken /\ k.leaked = b.leaked /\ k.t = a.f /\ k.f = b.f
    BY <1>6, <2>3, <2>4 DEF Call
  <2>6. /\ x.taken = s.taken \cup {root} \cup {ks} /\ root \in Frame \ s.taken /\ ks \in Frame \ (s.taken \cup {root})
        /\ x.leaked = s.leaked /\ x.mem = a.mem /\ x.root = root /\ x.ks = ks
    BY <1>5, <1>6, <1>10, <2>2, <2>3, <2>5 DEF Same
  <2> DEFINE lev == [y \in {root} |-> LEVELS]
  <2>7. DOMAIN lev = {root}
    OBVIOUS
  <2>8. Tree(x.mem, lev, 0, KERNEL_PML4_INDEX, root)
    <3>1. \A w \in Word : x.mem[root][w] \in Nat /\ (w < KERNEL_PML4_INDEX => x.mem[root][w] = 0)
      <4> SUFFICES ASSUME NEW w \in Word PROVE x.mem[root][w] \in Nat /\ (w < KERNEL_PML4_INDEX => x.mem[root][w] = 0)
        OBVIOUS
      <4>1. w \in Int /\ KERNEL_PML4_INDEX \in Int
        BY Sizes DEF Word
      <4>2. x.mem[root][w] = IF w >= KERNEL_PML4_INDEX THEN s.mem[kernel_pml4][w] ELSE 0
        BY <1>5, <1>10, <2>3, <2>6
      <4> QED BY <4>1, <4>2
    <3>2. PICK n : n = x.mem
      OBVIOUS
    <3>3. 0 \in {0, 1} /\ root \in Frame
      BY <2>6
    <3>4. Tree(n, [y \in {root} |-> LEVELS], 0, KERNEL_PML4_INDEX, root)
      BY <3>1, <3>2, <3>3, EmptyTree
    <3> QED BY <3>2, <3>4
  <2> HIDE DEF lev
  <2>9. Work(x, lev, 0, KERNEL_PML4_INDEX, root, B \cup x.leaked)
    <3>1. x.taken = (B \cup x.leaked) \cup DOMAIN lev /\ (B \cup x.leaked) \cap DOMAIN lev = {}
      BY <1>10, <2>6, <2>7
    <3> QED BY <2>2, <2>8, <3>1 DEF Work
  <2>10. B \cap x.leaked = {} /\ B \subseteq Frame /\ root \notin B
    BY <1>10, <2>6 DEF Call
  <2>11. \A g \in B : x.mem[g] = s.mem[g]
    BY <1>5, <1>10, <2>3, <2>6, <2>10
  <2>12. \A w \in Word : w >= KERNEL_PML4_INDEX => x.mem[root][w] = s.mem[kernel_pml4][w]
    BY <1>5, <1>10, <2>3, <2>6
  <2>13. Built(x, lev, root, ks, B, s.mem)
    BY <2>6, <2>9, <2>10, <2>11, <2>12 DEF Built
  <2>14. Shows(x.mem, root, StackRows(0))
    <3>1. PICK o : o = x.mem
      OBVIOUS
    <3>2. ASSUME NEW vp \in 0 .. (NPages \div 2) - 1 PROVE pgtable_kva(o, root, vp) = 0
      <4> SUFFICES ASSUME pgtable_kva(o, root, vp) # 0 PROVE FALSE
        OBVIOUS
      <4>1. PICK c : Walks(o, root, vp, c) /\ pgtable_kva(o, root, vp) = c[LEVELS]
        BY WalkRuns
      <4>2. 1 \in 0 .. LEVELS /\ 1 \in 1 .. LEVELS
        BY Sizes
      <4>3. c[1] # 0
        BY <4>1, <4>2, WalkFinds
      <4>4. PICK i : i = IndexAt(vp, LEVELS - 1) /\ i \in Word /\ i < KERNEL_PML4_INDEX
        BY UserIndex
      <4>5. c[1] = o[root][i]
        BY <4>1, <4>2, <4>3, <4>4 DEF Walks
      <4>6. i \in Int /\ KERNEL_PML4_INDEX \in Int
        BY <4>4, Sizes DEF Word
      <4>7. o[root][i] = IF i >= KERNEL_PML4_INDEX THEN s.mem[kernel_pml4][i] ELSE 0
        BY <1>5, <1>10, <2>3, <2>6, <3>1, <4>4
      <4> QED BY <4>3, <4>4, <4>5, <4>6, <4>7
    <3>3. StackBase \in Int
      BY PageNumbers, Sizes DEF StackBase
    <3>4. DOMAIN StackRows(0) = {}
      BY <3>3 DEF StackRows
    <3> QED BY <3>1, <3>2, <3>4 DEF Shows
  <2> QED BY <2>1, <2>3, <2>13, <2>14
<1>12. ASSUME NEW n \in 1 .. STACK_PAGES, n - 1 \in T PROVE n \in T
  <2> SUFFICES ASSUME f[n].ok PROVE k.ok /\ Shows(f[n].mem, root, StackRows(n)) /\ \E lev : Built(f[n], lev, root, ks, B, s.mem)
    BY <1>9
  <2>1. PICK x, y, vp : x = f[n - 1] /\ y = f[n] /\ vp = StackBase + n - 1
    OBVIOUS
  <2>2. y = PushPage(x, n)
    BY <1>8, <2>1 DEF Stacks
  <2>3. PICK q : q = vmm_alloc(x, x.root, vp)
    OBVIOUS
  <2>4. x.ok /\ q.ok /\ y = Zeroed(q)
    BY <2>1, <2>2, <2>3 DEF PushPage, AndThen
  <2>5. k.ok /\ Shows(x.mem, root, StackRows(n - 1)) /\ \E lev : Built(x, lev, root, ks, B, s.mem)
    BY <1>12, <2>1, <2>4
  <2>6. PICK old : Built(x, old, root, ks, B, s.mem)
    BY <2>5
  <2>7. x.root = root
    BY <2>6 DEF Built
  <2>8. vp \in 0 .. (NPages \div 2) - 1
    <3>1. PICK h \in Nat : h = NPages \div 2
      BY PageNumbers
    <3>2. STACK_PAGES <= h /\ StackBase = h - STACK_PAGES
      BY <3>1, UserHalfAssumption DEF StackBase
    <3> QED BY <1>9, <2>1, <3>1, <3>2
  <2>9. PICK lev : Built(q, lev, root, ks, B, s.mem) /\ q.f \in DOMAIN lev /\ lev[q.f] = 0
    BY <2>3, <2>4, <2>6, <2>7, <2>8, PageAdded
  <2>10. q \in Call /\ q.f \in Frame
    BY <2>9 DEF Built, Work, Tree, Leveled
  <2>11. /\ y \in Call /\ Same(q, y) /\ y.taken = q.taken
         /\ \A g \in Frame : g # q.f => y.mem[g] = q.mem[g]
         /\ \A w \in Word : y.mem[q.f][w] = 0
    BY <2>4, <2>10, ZeroFrame
  <2>12. Built(y, lev, root, ks, B, s.mem)
    <3>1. y.leaked = q.leaked /\ y.root = q.root /\ y.ks = q.ks
      BY <2>11 DEF Same
    <3>2. \A g \in Frame : (g \in DOMAIN lev /\ lev[g] = 0) \/ y.mem[g] = q.mem[g]
      BY <2>9, <2>11
    <3> QED BY <2>9, <2>11, <3>1, <3>2, DataWritten
  <2>13. Shows(y.mem, root, StackRows(n))
    <3>1. PICK C, o, z : C = StackRows(n - 1) /\ o = y.mem /\ z = [w \in Word |-> 0]
      OBVIOUS
    <3>2. Shows(o, root, Given(C, vp, z))
      <4>1. \A g \in Frame : g # q.f => o[g] = q.mem[g]
        BY <2>11, <3>1
      <4>2. \A w \in Word : o[q.f][w] = z[w]
        BY <2>11, <3>1
      <4>3. Shows(x.mem, root, C) /\ q = vmm_alloc(x, root, vp)
        BY <2>3, <2>5, <2>7, <3>1
      <4> QED BY <2>4, <2>6, <2>8, <4>1, <4>2, <4>3, PageShown
    <3>3. Given(C, vp, z) = StackRows(n)
      <4>1. PICK sb \in Int : sb = StackBase
        BY PageNumbers, Sizes DEF StackBase
      <4>2. C = [v \in sb .. sb + (n - 1) - 1 |-> z] /\ vp = sb + n - 1
        BY <2>1, <3>1, <4>1 DEF StackRows
      <4>3. (sb .. sb + (n - 1) - 1) \cup {vp} = sb .. sb + n - 1
        BY <1>9, <4>1, <4>2
      <4>4. Given(C, vp, z) = [v \in sb .. sb + n - 1 |-> z]
        BY <4>2, <4>3 DEF Given
      <4> QED BY <3>1, <4>1, <4>4 DEF StackRows
    <3> QED BY <3>1, <3>2, <3>3
  <2> QED BY <2>1, <2>5, <2>12, <2>13
<1> HIDE DEF T
<1>13. 0 .. STACK_PAGES \subseteq T
  BY <1>9, <1>11, <1>12, IntervalInduction
<1>14. k.ok /\ Shows(r.mem, root, StackRows(STACK_PAGES)) /\ \E lev : Built(r, lev, root, ks, B, s.mem)
  BY <1>8, <1>9, <1>13 DEF T
<1>15. ks \in Frame \ s.taken
  <2>1. a.ok /\ k = [b EXCEPT !.t = a.f]
    BY <1>3, <1>14
  <2>2. b.ok
    BY <1>6, <1>14, <2>1 DEF Call
  <2> QED BY <1>5, <1>6, <1>10, <2>1, <2>2
<1> QED BY <1>10, <1>14, <1>15

\* The pages of one segment.
SegmentPages(seg) ==
    IF ~seg.load \/ seg.memsz = 0 THEN <<>>
    ELSE IF seg.va % FANOUT # 0 THEN <<[vp |-> 0, from |-> 0, fill |-> 0, bad |-> TRUE]>>
    ELSE [j \in 1 .. (seg.memsz + FANOUT - 1) \div FANOUT |->
             [vp |-> (seg.va \div FANOUT) + (j - 1), from |-> seg.offset + (j - 1) * FANOUT,
              fill |-> seg.filesz - (j - 1) * FANOUT, bad |-> FALSE]]
Lists(img, f) ==
    /\ f[0] = <<>>
    /\ \A i \in 1 .. Len(img) : f[i] = f[i - 1] \o SegmentPages(img[i])
Segment == [load : BOOLEAN, va : Nat, memsz : Nat, filesz : Nat, offset : Nat]
UserPage == {p \in [vp : Int, from : Int, fill : Int, bad : BOOLEAN] : ~p.bad => p.vp \in 0 .. (NPages \div 2) - 1}

\* PagesOf lists segment after segment.
LEMMA PageRuns ==
    ASSUME NEW img \in Seq(Segment)
    PROVE  \E f : Lists(img, f) /\ PagesOf(img) = f[Len(img)]
<1> DEFINE N == Len(img)
           first == <<>>
           Put(i, p) == p \o SegmentPages(img[i])
           R(g) == [i \in 0 .. N |-> IF i = 0 THEN first ELSE Put(i, g[i - 1])]
           F == CHOOSE g : g = R(g)
           Upto(n, g) == g[0] = first /\ \A k \in 1 .. n : g[k] = Put(k, g[k - 1])
<1>1. PagesOf(img) = F[N]
  BY DEF PagesOf, SegmentPages
<1>2. N \in Nat
  OBVIOUS
<1>3. Lists(img, F) <=> Upto(N, F)
  BY DEF Lists
<1> HIDE DEF Put, N, first
<1>5. F = R(F)
  <2> DEFINE T == {n \in 0 .. N : \E g : Upto(n, g)}
  <2>1. 0 \in T
    <3>1. Upto(0, [k \in 0 .. 0 |-> first])
      OBVIOUS
    <3>2. \E g : Upto(0, g)
      BY <3>1
    <3> HIDE DEF Upto
    <3> QED BY <3>2, <1>2
  <2>2. ASSUME NEW n \in 1 .. N, n - 1 \in T PROVE n \in T
    <3>1. PICK g : Upto(n - 1, g)
      BY <2>2
    <3> DEFINE f == [k \in 0 .. n |-> IF k = n THEN Put(n, g[n - 1]) ELSE g[k]]
    <3>2. f[0] = first
      BY <3>1
    <3>3. ASSUME NEW k \in 1 .. n PROVE f[k] = Put(k, f[k - 1])
      <4>1. k - 1 \in 0 .. n /\ k - 1 # n /\ k \in 0 .. n /\ (k # n => k \in 1 .. n - 1)
        OBVIOUS
      <4>2. f[k - 1] = g[k - 1]
        BY <4>1
      <4>3. CASE k = n
        BY <4>1, <4>2, <4>3
      <4>4. CASE k # n
        <5>1. f[k] = g[k]
          BY <4>1, <4>4
        <5> QED BY <3>1, <4>1, <4>2, <4>4, <5>1
      <4> QED BY <4>3, <4>4
    <3> HIDE DEF f
    <3>4. Upto(n, f)
      BY <3>2, <3>3
    <3>5. \E e : Upto(n, e)
      BY <3>4
    <3> HIDE DEF Upto
    <3>6. n \in 0 .. N
      BY <1>2
    <3> QED BY <3>5, <3>6
  <2> HIDE DEF T
  <2>3. 0 .. N \subseteq T
    BY <2>1, <2>2, <1>2, IntervalInduction
  <2>4. N \in T
    BY <2>3, <1>2
  <2>5. PICK g : Upto(N, g)
    BY <2>4 DEF T
  <2> DEFINE u == [k \in 0 .. N |-> g[k]]
  <2>6. ASSUME NEW k \in 0 .. N PROVE u[k] = IF k = 0 THEN first ELSE Put(k, u[k - 1])
    <3>1. CASE k = 0
      BY <2>5, <3>1
    <3>2. CASE k # 0
      <4>1. k \in 1 .. N /\ k - 1 \in 0 .. N
        BY <3>2, <1>2
      <4>2. u[k] = g[k] /\ u[k - 1] = g[k - 1]
        BY <4>1
      <4> QED BY <2>5, <3>2, <4>1, <4>2
    <3> QED BY <3>1, <3>2
  <2>7. u = R(u)
    BY <2>6
  <2> HIDE DEF u
  <2>8. \E e : e = R(e)
    BY <2>7
  <2> QED BY <2>8, Zenon
<1> HIDE DEF F
<1>6. F[0] = first
  BY <1>2, <1>5
<1>7. ASSUME NEW k \in 1 .. N PROVE F[k] = Put(k, F[k - 1])
  <2>1. k \in 0 .. N /\ k # 0
    BY <1>2
  <2> QED BY <1>5, <2>1
<1>8. Upto(N, F)
  BY <1>6, <1>7
<1> QED BY <1>1, <1>3, <1>8 DEF N

\* The pages of a segment below the kernel's half are.
LEMMA SegmentFits ==
    ASSUME NEW seg \in Segment, seg.va + seg.memsz <= (NPages \div 2) * FANOUT
    PROVE  SegmentPages(seg) \in Seq(UserPage)
<1>1. PICK va \in Nat, sz \in Nat, off \in Nat, fsz \in Nat : va = seg.va /\ sz = seg.memsz /\ off = seg.offset /\ fsz = seg.filesz
  BY DEF Segment
<1>2. PICK F \in Nat \ {0}, h \in Nat : F = FANOUT /\ h = NPages \div 2
  <2>1. FANOUT \in Nat \ {0}
    BY Sizes
  <2>2. NPages \div 2 \in Nat
    BY PageNumbers
  <2> QED BY <2>1, <2>2
<1>3. va + sz <= h * F
  BY <1>1, <1>2
<1>4. CASE ~seg.load \/ seg.memsz = 0
  BY <1>4 DEF SegmentPages
<1>5. CASE ~(~seg.load \/ seg.memsz = 0) /\ seg.va % FANOUT # 0
  <2>1. PICK p : p = [vp |-> 0, from |-> 0, fill |-> 0, bad |-> TRUE]
    OBVIOUS
  <2>2. p \in UserPage
    BY <2>1 DEF UserPage
  <2>3. SegmentPages(seg) = <<p>>
    BY <1>5, <2>1 DEF SegmentPages
  <2> QED BY <2>2, <2>3
<1>6. CASE ~(~seg.load \/ seg.memsz = 0) /\ seg.va % FANOUT = 0
  <2>1. PICK q \in Int : q = va \div F /\ va = F * q
    <3>1. va \in Int
      OBVIOUS
    <3>2. va \div F \in Int /\ va % F \in 0 .. F - 1 /\ va = F * (va \div F) + (va % F)
      BY <3>1, DivMod
    <3>3. va % F = 0
      BY <1>1, <1>2, <1>6
    <3>4. PICK q \in Int, d \in Int : q = va \div F /\ d = F * q
      BY <3>2
    <3>5. va = d
      BY <3>2, <3>3, <3>4
    <3> QED BY <3>4, <3>5
  <2>2. PICK n \in Int : n = (sz + F - 1) \div F /\ F * n <= sz + F - 1
    <3>1. PICK e \in Int : e = sz + F - 1
      OBVIOUS
    <3>2. e \div F \in Int /\ e % F \in 0 .. F - 1 /\ e = F * (e \div F) + (e % F)
      BY <3>1, DivMod
    <3>3. PICK n \in Int, x \in Nat, d \in Int : n = e \div F /\ x = e % F /\ d = F * n /\ e = d + x
      BY <3>2
    <3>4. d <= e
      BY <3>3
    <3> QED BY <3>1, <3>3, <3>4
  <2>3. PICK N \in Nat : 1 .. n = 1 .. N
    <3>1. CASE n >= 0
      BY <3>1
    <3>2. CASE n < 0
      <4>1. 1 .. n = 1 .. 0
        BY <3>2
      <4> QED BY <4>1
    <3> QED BY <3>1, <3>2
  <2>4. q >= 0
    <3> SUFFICES ASSUME q < 0 PROVE FALSE
      OBVIOUS
    <3>1. F * q + F <= F * 0
      BY <1>2, <2>1, ProductGap
    <3> QED BY <1>2, <2>1, <3>1
  <2> DEFINE page(j) == [vp |-> (seg.va \div FANOUT) + (j - 1), from |-> seg.offset + (j - 1) * FANOUT,
                         fill |-> seg.filesz - (j - 1) * FANOUT, bad |-> FALSE]
  <2>5. ASSUME NEW j \in 1 .. n PROVE page(j) \in UserPage
    <3>1. PICK k \in Nat, d \in Int : k = j - 1 /\ d = k * F /\ k < n
      BY <2>2
    <3>2. page(j) = [vp |-> q + k, from |-> off + d, fill |-> fsz - d, bad |-> FALSE]
      BY <1>1, <1>2, <2>1, <3>1
    <3>3. q + k < h
      <4> SUFFICES ASSUME h <= q + k PROVE FALSE
        BY <1>2, <2>1, <3>1
      <4>1. h < q + n
        BY <1>2, <2>1, <2>2, <3>1
      <4>2. F * h + F <= F * (q + n)
        <5>1. h \in Int /\ q + n \in Int
          BY <1>2, <2>1, <2>2
        <5> QED BY <1>2, <4>1, <5>1, ProductGap
      <4>3. F * (q + n) = F * q + F * n /\ h * F = F * h
        BY <1>2, <2>1, <2>2
      <4>4. PICK a \in Int, b \in Int, c \in Int : a = F * h /\ b = F * q /\ c = F * n
        BY <1>2, <2>1, <2>2
      <4>5. a + F <= b + c /\ va + sz <= a /\ va = b /\ c <= sz + F - 1
        BY <1>3, <2>1, <2>2, <4>2, <4>3, <4>4
      <4> QED BY <1>1, <1>2, <4>4, <4>5
    <3>4. q + k \in 0 .. h - 1 /\ off + d \in Int /\ fsz - d \in Int /\ q + k \in Int
      BY <1>1, <1>2, <2>1, <2>4, <3>1, <3>3
    <3>5. PICK a, b, c : a = q + k /\ b = off + d /\ c = fsz - d
      OBVIOUS
    <3>6. [vp |-> a, from |-> b, fill |-> c, bad |-> FALSE] \in UserPage
      BY <1>2, <3>4, <3>5 DEF UserPage
    <3> QED BY <3>2, <3>5, <3>6
  <2>6. SegmentPages(seg) = [j \in 1 .. n |-> page(j)]
    BY <1>1, <1>2, <1>6, <2>2 DEF SegmentPages
  <2> HIDE DEF page
  <2>7. [j \in 1 .. n |-> page(j)] \in [1 .. N -> UserPage]
    BY <2>3, <2>5
  <2>8. [1 .. N -> UserPage] \subseteq Seq(UserPage)
    BY <2>3
  <2> QED BY <2>6, <2>7, <2>8
<1> QED BY <1>4, <1>5, <1>6

\* The pages of a program are.
LEMMA PagesFit ==
    ASSUME NEW img \in Images
    PROVE  PagesOf(img) \in Seq(UserPage)
<1>1. img \in Seq(Segment) /\ Len(img) \in Nat
  BY AddrSpaceAssumption DEF Segment
<1>2. PICK f : Lists(img, f) /\ PagesOf(img) = f[Len(img)]
  BY <1>1, PageRuns
<1> DEFINE D == Seq(UserPage)
           T == {i \in 0 .. Len(img) : f[i] \in D}
<1>3. 0 \in T
  <2>1. f[0] = <<>> /\ 0 \in 0 .. Len(img)
    BY <1>1, <1>2 DEF Lists
  <2>2. <<>> \in D
    OBVIOUS
  <2> HIDE DEF D
  <2> QED BY <2>1, <2>2
<1>4. ASSUME NEW i \in 1 .. Len(img), i - 1 \in T PROVE i \in T
  <2>1. PICK seg : seg = img[i] /\ seg \in Segment
    BY <1>1
  <2>2. i \in DOMAIN img
    BY <1>1
  <2>3. seg.va + seg.memsz <= (NPages \div 2) * FANOUT
    BY <2>1, <2>2, UserHalfAssumption
  <2>4. SegmentPages(seg) \in Seq(UserPage)
    BY <2>1, <2>3, SegmentFits
  <2>5. PICK a, b : a = f[i - 1] /\ b = SegmentPages(seg) /\ a \in Seq(UserPage) /\ b \in Seq(UserPage)
    <3> HIDE DEF D
    <3>1. f[i - 1] \in D
      BY <1>4
    <3> QED BY <2>4, <3>1 DEF D
  <2>6. f[i] = a \o b
    BY <1>2, <2>1, <2>5 DEF Lists
  <2>7. a \o b \in D
    BY <2>5
  <2>8. i \in 0 .. Len(img)
    BY <1>1
  <2> HIDE DEF D
  <2> QED BY <2>6, <2>7, <2>8
<1> HIDE DEF T, D
<1>5. 0 .. Len(img) \subseteq T
  BY <1>1, <1>3, <1>4, IntervalInduction
<1> QED BY <1>1, <1>2, <1>5 DEF T, D

\* One page of a program, and what it shows.
FileRow(p) == [w \in Word |-> IF w < p.fill THEN FileWord(p.from + w) ELSE 0]

\* Loading it.
LEMMA PageLoaded ==
    ASSUME NEW s, NEW lev, NEW root, NEW ks, NEW B, NEW m, Built(s, lev, root, ks, B, m),
           NEW p \in UserPage, ~p.bad, NEW r, r = LoadPage(s, root, p), r.ok
    PROVE  /\ \E new : Built(r, new, root, ks, B, m)
           /\ r.rc = 0 => \A C : Shows(s.mem, root, C) => Shows(r.mem, root, Given(C, p.vp, FileRow(p)))
<1>1. PICK q, z : q = vmm_alloc(s, root, p.vp) /\ z = Zeroed(q)
  OBVIOUS
<1>2. PICK n, row : n = [z.mem EXCEPT ![z.f] = row] /\ row = [w \in Word |-> IF w < p.fill THEN FileWord(p.from + w) ELSE 0]
  OBVIOUS
<1>3. r = IF q.ok THEN IF p.fill <= 0 THEN z
                       ELSE IF s.read = 1 THEN [z EXCEPT !.rc = -1]
                       ELSE [z EXCEPT !.mem = n, !.read = z.read - 1]
          ELSE q
  BY <1>1, <1>2 DEF LoadPage, AndThen
<1>4. q.ok
  BY <1>3
<1>5. p.vp \in 0 .. (NPages \div 2) - 1 /\ p.from \in Int /\ p.fill \in Int
  BY DEF UserPage
<1>6. PICK new : Built(q, new, root, ks, B, m) /\ q.f \in DOMAIN new /\ new[q.f] = 0
  BY <1>1, <1>4, <1>5, PageAdded
<1>7. q \in Call /\ q.f \in Frame
  BY <1>6 DEF Built, Work, Tree, Leveled
<1>8. /\ z \in Call /\ Same(q, z) /\ z.taken = q.taken /\ z.f = q.f
      /\ \A g \in Frame : g # q.f => z.mem[g] = q.mem[g]
      /\ \A w \in Word : z.mem[q.f][w] = 0
  BY <1>1, <1>7, ZeroFrame
<1>9. n \in Memory /\ n[z.f] = row /\ \A g \in Frame : g # z.f => n[g] = z.mem[g]
  <2>1. \A w \in Word : w \in Int
    BY Sizes DEF Word
  <2>2. row \in [Word -> Int]
    BY <1>2, <1>5, <2>1 DEF FileWord
  <2>3. z.mem \in Memory
    BY <1>8 DEF Call
  <2> QED BY <1>2, <1>7, <1>8, <2>2, <2>3 DEF Memory
<1>10. /\ r \in Call /\ r.taken = z.taken /\ r.leaked = z.leaked /\ r.root = z.root /\ r.ks = z.ks
       /\ r.mem = z.mem \/ r.mem = n
       /\ r.rc = 0 => \A w \in Word : r.mem[q.f][w] = row[w]
  <2>1. CASE p.fill <= 0
    <3>1. r = z
      BY <1>3, <1>4, <2>1
    <3>2. ASSUME NEW w \in Word PROVE row[w] = 0
      <4>1. w \in Int /\ w >= 0
        BY Sizes DEF Word
      <4> QED BY <1>2, <1>5, <2>1, <4>1
    <3> QED BY <1>8, <3>1, <3>2
  <2>2. CASE ~(p.fill <= 0) /\ s.read = 1
    <3>1. r = [z EXCEPT !.rc = -1]
      BY <1>3, <1>4, <2>2
    <3>2. r.rc = -1
      BY <1>8, <3>1 DEF Call
    <3> QED BY <1>8, <3>1, <3>2 DEF Call
  <2>3. CASE ~(p.fill <= 0) /\ s.read # 1
    <3>1. PICK x : x = z.read - 1 /\ x \in Int
      BY <1>8 DEF Call
    <3>2. r = [z EXCEPT !.mem = n, !.read = x]
      BY <1>3, <1>4, <2>3, <3>1
    <3>3. /\ r \in Call /\ r.taken = z.taken /\ r.leaked = z.leaked /\ r.root = z.root /\ r.ks = z.ks /\ r.mem = n
      BY <1>8, <1>9, <3>1, <3>2 DEF Call
    <3> QED BY <1>8, <1>9, <3>3
  <2> QED BY <2>1, <2>2, <2>3
<1>11. r.taken = q.taken /\ r.leaked = q.leaked /\ r.root = q.root /\ r.ks = q.ks
  BY <1>8, <1>10 DEF Same
<1>12. \A g \in Frame : (g \in DOMAIN new /\ new[g] = 0) \/ r.mem[g] = q.mem[g]
  BY <1>6, <1>8, <1>9, <1>10
<1>13. Built(r, new, root, ks, B, m)
  BY <1>6, <1>10, <1>11, <1>12, DataWritten
<1>14. ASSUME r.rc = 0, NEW C, Shows(s.mem, root, C) PROVE Shows(r.mem, root, Given(C, p.vp, FileRow(p)))
  <2>1. PICK o : o = r.mem
    OBVIOUS
  <2>2. \A g \in Frame : g # q.f => o[g] = q.mem[g]
    BY <1>8, <1>9, <1>10, <2>1
  <2>3. \A w \in Word : o[q.f][w] = row[w]
    BY <1>10, <1>14, <2>1
  <2>4. Shows(o, root, Given(C, p.vp, row))
    BY <1>1, <1>4, <1>5, <1>14, <2>2, <2>3, PageShown
  <2> QED BY <1>2, <2>1, <2>4 DEF FileRow
<1> QED BY <1>13, <1>14


\* What a segment says of a page it covers.
PageOf(seg, p) ==
    /\ p.from = seg.offset + (p.vp * FANOUT - seg.va)
    /\ p.fill = seg.filesz - (p.vp * FANOUT - seg.va)
Finds(b, vp, k) == k \in 1 .. Len(b) /\ b[k].vp = vp /\ \A l \in 1 .. Len(b) : l > k => b[l].vp # vp
Lacks(b, vp) == \A k \in 1 .. Len(b) : b[k].vp # vp

\* A segment lists the pages it covers.
LEMMA SegmentCovers ==
    ASSUME NEW seg \in Segment, NEW b, b = SegmentPages(seg), \A k \in 1 .. Len(b) : ~b[k].bad, NEW vp \in Nat
    PROVE  IF Covers(seg, vp) THEN \E k : Finds(b, vp, k) /\ PageOf(seg, b[k]) ELSE Lacks(b, vp)
<1>1. PICK va \in Nat, sz \in Nat, off \in Nat, fsz \in Nat : va = seg.va /\ sz = seg.memsz /\ off = seg.offset /\ fsz = seg.filesz
  BY DEF Segment
<1>2. PICK F \in Nat \ {0} : F = FANOUT
  BY Sizes
<1>3. CASE ~seg.load \/ seg.memsz = 0
  <2>1. b = <<>> /\ ~Covers(seg, vp)
    BY <1>1, <1>3 DEF SegmentPages, Covers
  <2>2. Lacks(b, vp)
    BY <2>1 DEF Lacks
  <2> QED BY <2>1, <2>2
<1>4. CASE ~(~seg.load \/ seg.memsz = 0) /\ seg.va % FANOUT # 0
  <2>1. PICK p : p = [vp |-> 0, from |-> 0, fill |-> 0, bad |-> TRUE]
    OBVIOUS
  <2>2. b = <<p>> /\ p.bad
    BY <1>4, <2>1 DEF SegmentPages
  <2>3. Len(b) = 1 /\ b[1] = p
    BY <2>2
  <2> QED BY <2>2, <2>3
<1>5. CASE ~(~seg.load \/ seg.memsz = 0) /\ seg.va % FANOUT = 0
  <2>1. PICK q \in Int : q = va \div F /\ va = F * q
    <3>1. va \in Int
      OBVIOUS
    <3>2. va \div F \in Int /\ va % F \in 0 .. F - 1 /\ va = F * (va \div F) + (va % F)
      BY <3>1, DivMod
    <3>3. va % F = 0
      BY <1>1, <1>2, <1>5
    <3>4. PICK q \in Int, d \in Int : q = va \div F /\ d = F * q
      BY <3>2
    <3>5. va = d
      BY <3>2, <3>3, <3>4
    <3> QED BY <3>4, <3>5
  <2>2. PICK n \in Int, y \in Int : n = (sz + F - 1) \div F /\ y = F * n /\ y <= sz + F - 1 /\ sz <= y
    <3>1. PICK e \in Int : e = sz + F - 1
      OBVIOUS
    <3>2. e \div F \in Int /\ e % F \in 0 .. F - 1 /\ e = F * (e \div F) + (e % F)
      BY <3>1, DivMod
    <3>3. PICK n \in Int, x \in 0 .. F - 1, d \in Int : n = e \div F /\ x = e % F /\ d = F * n /\ e = d + x
      BY <3>2
    <3>4. d <= e /\ sz <= d
      BY <3>1, <3>3
    <3> QED BY <3>1, <3>3, <3>4
  <2>3. sz > 0 /\ seg.load
    BY <1>1, <1>5
  <2>4. n \in Nat
    <3> SUFFICES ASSUME n < 0 PROVE FALSE
      OBVIOUS
    <3>1. F * n + F <= F * 0
      BY <1>2, <2>2, ProductGap
    <3> QED BY <1>2, <2>2, <2>3, <3>1
  <2> DEFINE page(j) == [vp |-> q + (j - 1), from |-> off + (j - 1) * F, fill |-> fsz - (j - 1) * F, bad |-> FALSE]
  <2>5. b = [j \in 1 .. n |-> page(j)]
    BY <1>1, <1>2, <1>5, <2>1, <2>2 DEF SegmentPages
  <2>6. Len(b) = n /\ \A j \in 1 .. n : b[j] = page(j)
    BY <2>4, <2>5
  <2>7. \A j \in 1 .. n : b[j].vp = q + (j - 1) /\ b[j].from = off + (j - 1) * F /\ b[j].fill = fsz - (j - 1) * F
    BY <2>6
  <2> HIDE DEF page
  <2>8. PICK d \in Int : d = F * (vp - q) /\ vp * F = d + va
    <3>1. F * (vp - q) = F * vp - F * q /\ F * vp = vp * F
      BY <1>2, <2>1
    <3>2. F * (vp - q) \in Int /\ F * vp \in Int
      BY <1>2, <2>1
    <3>3. PICK d \in Int, x \in Int : d = F * (vp - q) /\ x = F * vp
      BY <3>2
    <3> QED BY <2>1, <3>1, <3>3
  <2>9. Covers(seg, vp) <=> q <= vp /\ d < sz
    <3>1. Covers(seg, vp) <=> va \div F <= vp /\ vp * F < va + sz
      BY <1>1, <1>2, <2>3 DEF Covers
    <3> QED BY <2>1, <2>8, <3>1
  <2>10. d < sz <=> vp - q < n
    <3>1. CASE vp - q < n
      <4>1. F * (vp - q) + F <= F * n
        BY <1>2, <2>1, <2>4, <3>1, ProductGap
      <4> QED BY <1>2, <2>2, <2>8, <3>1, <4>1
    <3>2. CASE vp - q = n
      BY <2>2, <2>8, <3>2
    <3>3. CASE n < vp - q
      <4>1. F * n + F <= F * (vp - q)
        BY <1>2, <2>1, <2>4, <3>3, ProductGap
      <4> QED BY <1>2, <2>2, <2>8, <3>3, <4>1
    <3> QED BY <2>1, <2>4, <3>1, <3>2, <3>3
  <2>11. CASE Covers(seg, vp)
    <3>1. PICK k \in 1 .. n : k = vp - q + 1
      BY <2>1, <2>4, <2>9, <2>10, <2>11
    <3>2. b[k].vp = vp
      <4>1. b[k].vp = q + (k - 1)
        BY <2>7
      <4>2. q + (k - 1) = vp
        BY <3>1
      <4> QED BY <4>1, <4>2
    <3>3. \A l \in 1 .. n : l > k => b[l].vp # vp
      BY <2>1, <2>7, <3>1
    <3>4. (k - 1) * F = d
      BY <1>2, <2>1, <2>8, <3>1
    <3>5. PageOf(seg, b[k])
      <4>1. b[k].from = off + d /\ b[k].fill = fsz - d
        BY <2>7, <3>4
      <4>2. vp * FANOUT - seg.va = d
        BY <1>1, <1>2, <2>8
      <4> QED BY <1>1, <3>2, <4>1, <4>2 DEF PageOf
    <3>6. Finds(b, vp, k)
      BY <2>6, <3>2, <3>3 DEF Finds
    <3> QED BY <2>11, <3>5, <3>6
  <2>12. CASE ~Covers(seg, vp)
    <3>1. ASSUME NEW k \in 1 .. n, b[k].vp = vp PROVE FALSE
      <4>1. vp = q + (k - 1)
        BY <2>7, <3>1
      <4>2. q <= vp /\ vp - q < n
        BY <2>1, <2>4, <4>1
      <4> QED BY <2>9, <2>10, <2>12, <4>2
    <3> QED BY <2>6, <2>12, <3>1 DEF Lacks
  <2> QED BY <2>11, <2>12
<1> QED BY <1>3, <1>4, <1>5

\* The last page of the list for vp is the one of the last segment that covers it.
Matches(img, i, pages) ==
    \A vp \in Nat :
        \/ (\A j \in 1 .. i : ~Covers(img[j], vp)) /\ Lacks(pages, vp)
        \/ \E j \in 1 .. i, k \in Nat :
               /\ Covers(img[j], vp) /\ \A l \in 1 .. i : l > j => ~Covers(img[l], vp)
               /\ Finds(pages, vp, k) /\ PageOf(img[j], pages[k])

\* PagesOf is such a list.
LEMMA PagesMatch ==
    ASSUME NEW img \in Images, NEW pages, pages = PagesOf(img), \A k \in 1 .. Len(pages) : ~pages[k].bad
    PROVE  Matches(img, Len(img), pages)
<1>1. img \in Seq(Segment) /\ Len(img) \in Nat
  BY AddrSpaceAssumption DEF Segment
<1>2. PICK f : Lists(img, f) /\ pages = f[Len(img)]
  BY <1>1, PageRuns
<1>3. PICK N \in Nat : N = Len(img)
  BY <1>1
<1> DEFINE Good(a) == \A k \in 1 .. Len(a) : ~a[k].bad
           T == {i \in 0 .. N : f[i] \in Seq(UserPage) /\ (Good(f[i]) => Matches(img, i, f[i]))}
<1>4. 0 \in T
  <2>1. f[0] = <<>>
    BY <1>2 DEF Lists
  <2>2. <<>> \in Seq(UserPage)
    OBVIOUS
  <2>3. Matches(img, 0, <<>>)
    BY DEF Matches, Lacks
  <2>4. f[0] \in Seq(UserPage) /\ Matches(img, 0, f[0]) /\ 0 \in 0 .. N
    BY <1>3, <2>1, <2>2, <2>3
  <2> HIDE DEF Good
  <2> QED BY <2>4
<1>5. ASSUME NEW i \in 1 .. N, i - 1 \in T PROVE i \in T
  <2>1. PICK seg : seg = img[i] /\ seg \in Segment
    BY <1>1, <1>3
  <2>2. i \in DOMAIN img
    BY <1>1, <1>3
  <2>3. seg.va + seg.memsz <= (NPages \div 2) * FANOUT
    BY <2>1, <2>2, UserHalfAssumption
  <2>4. SegmentPages(seg) \in Seq(UserPage)
    BY <2>1, <2>3, SegmentFits
  <2>5. f[i - 1] \in Seq(UserPage) /\ (Good(f[i - 1]) => Matches(img, i - 1, f[i - 1]))
    BY <1>5
  <2>6. PICK a \in Seq(UserPage), b \in Seq(UserPage) : a = f[i - 1] /\ b = SegmentPages(seg)
    BY <2>4, <2>5
  <2>7. PICK c : c = f[i] /\ c = a \o b
    BY <1>2, <1>3, <2>1, <2>6 DEF Lists
  <2>8. c \in Seq(UserPage) /\ i \in 0 .. N
    BY <1>3, <2>7
  <2>9. PICK x \in Nat, y \in Nat : x = Len(a) /\ y = Len(b) /\ Len(c) = x + y
    BY <2>7
  <2>10. /\ \A k \in 1 .. x : c[k] = a[k]
         /\ \A k \in 1 .. y : c[x + k] = b[k] /\ x + k \in 1 .. x + y
         /\ \A k \in x + 1 .. x + y : k - x \in 1 .. y /\ c[k] = b[k - x]
    <3>1. \A k \in 1 .. x : c[k] = a[k]
      BY <2>7, <2>9
    <3>2. ASSUME NEW k \in x + 1 .. x + y PROVE k - x \in 1 .. y /\ c[k] = b[k - x]
      BY <2>7, <2>9
    <3>3. ASSUME NEW k \in 1 .. y PROVE c[x + k] = b[k] /\ x + k \in 1 .. x + y
      <4>1. x + k \in x + 1 .. x + y /\ (x + k) - x = k /\ x + k \in 1 .. x + y
        OBVIOUS
      <4> QED BY <3>2, <4>1
    <3> QED BY <3>1, <3>2, <3>3
  <2>11. ASSUME Good(c) PROVE Matches(img, i, c)
    <3>1. Good(a) /\ Good(b)
      <4>1. \A k \in 1 .. x : ~a[k].bad
        BY <2>9, <2>10, <2>11
      <4>2. \A k \in 1 .. y : ~b[k].bad
        BY <2>9, <2>10, <2>11
      <4> QED BY <2>9, <4>1, <4>2
    <3>2. Matches(img, i - 1, a)
      BY <2>5, <2>6, <3>1
    <3> SUFFICES ASSUME NEW vp \in Nat
                 PROVE  \/ (\A j \in 1 .. i : ~Covers(img[j], vp)) /\ Lacks(c, vp)
                        \/ \E j \in 1 .. i, k \in Nat :
                               /\ Covers(img[j], vp) /\ \A l \in 1 .. i : l > j => ~Covers(img[l], vp)
                               /\ Finds(c, vp, k) /\ PageOf(img[j], c[k])
      BY DEF Matches
    <3>3. IF Covers(seg, vp) THEN \E k : Finds(b, vp, k) /\ PageOf(seg, b[k]) ELSE Lacks(b, vp)
      BY <2>1, <2>6, <3>1, SegmentCovers
    <3>4. CASE Covers(seg, vp)
      <4>1. PICK k : Finds(b, vp, k) /\ PageOf(seg, b[k])
        BY <3>3, <3>4
      <4>2. k \in 1 .. y /\ b[k].vp = vp /\ \A l \in 1 .. y : l > k => b[l].vp # vp
        BY <2>9, <4>1 DEF Finds
      <4>3. PICK z \in Nat : z = x + k /\ z \in 1 .. x + y /\ c[z] = b[k]
        BY <2>10, <4>2
      <4>4. ASSUME NEW l \in 1 .. x + y, l > z PROVE c[l].vp # vp
        <5>1. l \in x + 1 .. x + y /\ l - x > k
          BY <4>2, <4>3, <4>4
        <5> QED BY <2>10, <4>2, <5>1
      <4>5. Finds(c, vp, z)
        BY <2>9, <4>2, <4>3, <4>4 DEF Finds
      <4>6. i \in 1 .. i /\ \A l \in 1 .. i : ~(l > i)
        OBVIOUS
      <4>7. Covers(img[i], vp) /\ PageOf(img[i], c[z])
        BY <2>1, <3>4, <4>1, <4>3
      <4> QED BY <4>3, <4>5, <4>6, <4>7
    <3>5. CASE ~Covers(seg, vp)
      <4>1. \A k \in 1 .. y : b[k].vp # vp
        BY <2>9, <3>3, <3>5 DEF Lacks
      <4>2. CASE (\A j \in 1 .. i - 1 : ~Covers(img[j], vp)) /\ Lacks(a, vp)
        <5>1. ASSUME NEW j \in 1 .. i PROVE ~Covers(img[j], vp)
          <6>1. j = i \/ j \in 1 .. i - 1
            OBVIOUS
          <6> QED BY <2>1, <3>5, <4>2, <6>1
        <5>2. ASSUME NEW k \in 1 .. x + y PROVE c[k].vp # vp
          <6>1. k \in 1 .. x \/ k \in x + 1 .. x + y
            OBVIOUS
          <6> QED BY <2>9, <2>10, <4>1, <4>2, <6>1 DEF Lacks
        <5> QED BY <2>9, <5>1, <5>2 DEF Lacks
      <4>3. CASE \E j \in 1 .. i - 1, k \in Nat :
                     /\ Covers(img[j], vp) /\ \A l \in 1 .. i - 1 : l > j => ~Covers(img[l], vp)
                     /\ Finds(a, vp, k) /\ PageOf(img[j], a[k])
        <5>1. PICK j \in 1 .. i - 1, k \in Nat :
                     /\ Covers(img[j], vp) /\ \A l \in 1 .. i - 1 : l > j => ~Covers(img[l], vp)
                     /\ Finds(a, vp, k) /\ PageOf(img[j], a[k])
          BY <4>3
        <5>2. k \in 1 .. x /\ a[k].vp = vp /\ \A l \in 1 .. x : l > k => a[l].vp # vp
          BY <2>9, <5>1 DEF Finds
        <5>3. c[k] = a[k] /\ k \in 1 .. x + y
          BY <2>10, <5>2
        <5>4. ASSUME NEW l \in 1 .. x + y, l > k PROVE c[l].vp # vp
          <6>1. l \in 1 .. x \/ l \in x + 1 .. x + y
            OBVIOUS
          <6> QED BY <2>10, <4>1, <5>2, <5>4, <6>1
        <5>5. Finds(c, vp, k)
          BY <2>9, <5>2, <5>3, <5>4 DEF Finds
        <5>6. ASSUME NEW l \in 1 .. i, l > j PROVE ~Covers(img[l], vp)
          <6>1. l = i \/ l \in 1 .. i - 1
            OBVIOUS
          <6> QED BY <2>1, <3>5, <5>1, <5>6, <6>1
        <5>7. j \in 1 .. i
          OBVIOUS
        <5> QED BY <5>1, <5>3, <5>5, <5>6, <5>7
      <4> QED BY <3>2, <4>2, <4>3 DEF Matches
    <3> QED BY <3>4, <3>5
  <2> QED BY <2>7, <2>8, <2>11
<1> HIDE DEF T
<1>6. 0 .. N \subseteq T
  BY <1>3, <1>4, <1>5, IntervalInduction
<1>7. N \in T
  BY <1>3, <1>6
<1> QED BY <1>2, <1>3, <1>7 DEF T

\* What the first n pages of a list, and the stack, make a space show.
UserVp == 0 .. (NPages \div 2) - 1
LastAt(pages, n, vp, i) == i \in 1 .. n /\ pages[i].vp = vp /\ \A l \in 1 .. n : l > i => pages[l].vp # vp
Listed(C, pages, n) ==
    \A vp \in UserVp :
        \/ \E i \in Nat : LastAt(pages, n, vp, i) /\ vp \in DOMAIN C /\ C[vp] = FileRow(pages[i])
        \/ /\ \A i \in 1 .. n : pages[i].vp # vp
           /\ vp \in DOMAIN C <=> vp >= StackBase
           /\ vp \in DOMAIN C => C[vp] = [w \in Word |-> 0]

\* The stack alone.
LEMMA ListedNone ==
    ASSUME NEW pages
    PROVE  Listed(StackRows(STACK_PAGES), pages, 0)
<1>1. PICK h \in Nat, P \in Nat, b \in Nat : h = NPages \div 2 /\ P = STACK_PAGES /\ b = h - P /\ StackBase = b
  BY PageNumbers, Sizes, UserHalfAssumption DEF StackBase
<1>2. PICK C : C = StackRows(STACK_PAGES) /\ C = [vp \in b .. b + P - 1 |-> [w \in Word |-> 0]]
  BY <1>1 DEF StackRows
<1>3. DOMAIN C = b .. h - 1 /\ \A vp \in b .. h - 1 : C[vp] = [w \in Word |-> 0]
  BY <1>1, <1>2
<1>4. ASSUME NEW vp \in UserVp
      PROVE  /\ \A i \in 1 .. 0 : pages[i].vp # vp
             /\ vp \in DOMAIN C <=> vp >= StackBase
             /\ vp \in DOMAIN C => C[vp] = [w \in Word |-> 0]
  <2>1. vp \in Nat /\ vp <= h - 1
    BY <1>1 DEF UserVp
  <2> QED BY <1>1, <1>3, <2>1
<1> QED BY <1>2, <1>4 DEF Listed

\* One more page.
LEMMA ListedNext ==
    ASSUME NEW C, NEW pages, NEW n \in Nat \ {0}, Listed(C, pages, n - 1)
    PROVE  Listed(Given(C, pages[n].vp, FileRow(pages[n])), pages, n)
<1>1. PICK p, D : p = pages[n].vp /\ D = Given(C, p, FileRow(pages[n]))
  OBVIOUS
<1>2. DOMAIN D = DOMAIN C \cup {p} /\ D[p] = FileRow(pages[n]) /\ \A x \in DOMAIN C : x # p => D[x] = C[x]
  BY <1>1 DEF Given
<1> SUFFICES ASSUME NEW vp \in UserVp
             PROVE  \/ \E i \in Nat : LastAt(pages, n, vp, i) /\ vp \in DOMAIN D /\ D[vp] = FileRow(pages[i])
                    \/ /\ \A i \in 1 .. n : pages[i].vp # vp
                       /\ vp \in DOMAIN D <=> vp >= StackBase
                       /\ vp \in DOMAIN D => D[vp] = [w \in Word |-> 0]
  BY <1>1 DEF Listed
<1>3. CASE vp = p
  <2>1. LastAt(pages, n, vp, n)
    BY <1>1, <1>3 DEF LastAt
  <2> QED BY <1>2, <1>3, <2>1
<1>4. CASE vp # p
  <2>1. \A i \in 1 .. n : i = n \/ i \in 1 .. n - 1
    OBVIOUS
  <2>2. vp \in DOMAIN D <=> vp \in DOMAIN C
    BY <1>2, <1>4
  <2>3. vp \in DOMAIN C => D[vp] = C[vp]
    BY <1>2, <1>4
  <2>4. CASE \E i \in Nat : LastAt(pages, n - 1, vp, i) /\ vp \in DOMAIN C /\ C[vp] = FileRow(pages[i])
    <3>1. PICK i \in Nat : LastAt(pages, n - 1, vp, i) /\ vp \in DOMAIN C /\ C[vp] = FileRow(pages[i])
      BY <2>4
    <3>2. i \in 1 .. n /\ pages[i].vp = vp
      BY <3>1 DEF LastAt
    <3>3. \A l \in 1 .. n : l > i => pages[l].vp # vp
      BY <1>1, <1>4, <2>1, <3>1 DEF LastAt
    <3>4. LastAt(pages, n, vp, i)
      BY <3>2, <3>3 DEF LastAt
    <3> QED BY <2>2, <2>3, <3>1, <3>4
  <2>5. CASE /\ \A i \in 1 .. n - 1 : pages[i].vp # vp
             /\ vp \in DOMAIN C <=> vp >= StackBase
             /\ vp \in DOMAIN C => C[vp] = [w \in Word |-> 0]
    <3>1. \A i \in 1 .. n : pages[i].vp # vp
      BY <1>1, <1>4, <2>1, <2>5
    <3> QED BY <2>2, <2>3, <2>5, <3>1
  <2> QED BY <2>4, <2>5 DEF Listed
<1> QED BY <1>3, <1>4

\* The argument block over it.
WithArgs(C, k) == [vp \in DOMAIN C |-> [w \in Word |-> IF vp * FANOUT + w >= StackTop - k THEN ARG ELSE C[vp][w]]]

\* The list and the arguments are what the file asks for.
LEMMA ExactFromList ==
    ASSUME NEW img \in Images, NEW pages, Matches(img, Len(img), pages), NEW C, Listed(C, pages, Len(pages)),
           NEW args, NEW m, NEW root, Shows(m, root, WithArgs(C, args))
    PROVE  Exact(m, root, img, args)
<1>1. img \in Seq(Segment) /\ Len(img) \in Nat
  BY AddrSpaceAssumption DEF Segment
<1>2. PICK N \in Nat : N = Len(img) /\ DOMAIN img = 1 .. N
  BY <1>1
<1>3. FANOUT \in Nat
  BY Sizes
<1> SUFFICES ASSUME NEW vp \in UserVp
             PROVE  LET frame == pgtable_kva(m, root, vp)
                    IN  IF Over(img, vp) = {} /\ vp < StackBase THEN frame = 0
                        ELSE frame # 0 /\ \A w \in Word : m[frame][w] = Due(img, args, vp, w)
  BY DEF Exact, UserVp
<1>4. vp \in Nat
  BY PageNumbers DEF UserVp
<1>5. PICK frame : frame = pgtable_kva(m, root, vp)
  OBVIOUS
<1>6. IF vp \in DOMAIN C THEN frame # 0 /\ \A w \in Word : m[frame][w] = WithArgs(C, args)[vp][w] ELSE frame = 0
  <2>1. DOMAIN WithArgs(C, args) = DOMAIN C
    BY DEF WithArgs
  <2> QED BY <1>5, <2>1 DEF Shows, UserVp
<1>7. StackBase \in Int
  BY PageNumbers, Sizes DEF StackBase
<1>8. ASSUME NEW w \in Word, vp \in DOMAIN C
      PROVE  WithArgs(C, args)[vp][w] = IF vp * FANOUT + w >= StackTop - args THEN ARG ELSE C[vp][w]
  BY <1>8 DEF WithArgs
<1>9. CASE (\A j \in 1 .. N : ~Covers(img[j], vp)) /\ Lacks(pages, vp)
  <2>1. Over(img, vp) = {}
    BY <1>2, <1>9 DEF Over
  <2>2. (vp \in DOMAIN C <=> vp >= StackBase) /\ (vp \in DOMAIN C => C[vp] = [w \in Word |-> 0])
    <3>1. ~\E i \in Nat : LastAt(pages, Len(pages), vp, i)
      BY <1>9 DEF LastAt, Lacks
    <3> QED BY <3>1 DEF Listed
  <2>3. CASE vp < StackBase
    BY <1>4, <1>5, <1>6, <1>7, <2>1, <2>2, <2>3
  <2>4. CASE ~(vp < StackBase)
    <3>1. vp \in DOMAIN C /\ C[vp] = [w \in Word |-> 0]
      BY <1>4, <1>7, <2>2, <2>4
    <3>2. ASSUME NEW w \in Word PROVE m[frame][w] = Due(img, args, vp, w)
      <4>1. Due(img, args, vp, w) = IF vp * FANOUT + w >= StackTop - args THEN ARG ELSE 0
        BY <2>1 DEF Due
      <4>2. C[vp][w] = 0
        BY <3>1
      <4> QED BY <1>6, <1>8, <3>1, <4>1, <4>2
    <3> QED BY <1>5, <1>6, <2>4, <3>1, <3>2
  <2> QED BY <2>3, <2>4
<1>10. CASE \E j \in 1 .. N, k \in Nat :
               /\ Covers(img[j], vp) /\ \A l \in 1 .. N : l > j => ~Covers(img[l], vp)
               /\ Finds(pages, vp, k) /\ PageOf(img[j], pages[k])
  <2>1. PICK j \in 1 .. N, k \in Nat :
               /\ Covers(img[j], vp) /\ \A l \in 1 .. N : l > j => ~Covers(img[l], vp)
               /\ Finds(pages, vp, k) /\ PageOf(img[j], pages[k])
    BY <1>10
  <2>2. PICK seg : seg = img[j] /\ seg \in Segment
    BY <1>1, <1>2
  <2>3. PICK va \in Nat, off \in Nat, fsz \in Nat : va = seg.va /\ off = seg.offset /\ fsz = seg.filesz
    BY <2>2 DEF Segment
  <2>4. PICK O : O = Over(img, vp) /\ j \in O /\ O \subseteq 1 .. N /\ \A l \in O : l <= j
    <3>1. PICK O : O = Over(img, vp)
      OBVIOUS
    <3>2. \A l : l \in O <=> l \in 1 .. N /\ Covers(img[l], vp)
      BY <1>2, <3>1 DEF Over
    <3>3. ASSUME NEW l \in O PROVE l <= j
      <4>1. l \in 1 .. N /\ Covers(img[l], vp)
        BY <3>2
      <4>2. ~(l > j)
        BY <2>1, <4>1
      <4> QED BY <4>1, <4>2
    <3> QED BY <2>1, <3>1, <3>2, <3>3
  <2>5. (CHOOSE x \in O : \A l \in O : l <= x) = j
    <3>1. PICK i : i = CHOOSE x \in O : \A l \in O : l <= x
      OBVIOUS
    <3>2. i \in O /\ \A l \in O : l <= i
      BY <2>4, <3>1
    <3>3. i \in Int /\ j \in Int /\ i <= j /\ j <= i
      BY <2>4, <3>2
    <3> QED BY <3>1, <3>3
  <2>6. PICK p : p = pages[k]
    OBVIOUS
  <2>7. vp \in DOMAIN C /\ C[vp] = FileRow(p)
    <3>1. k \in 1 .. Len(pages) /\ p.vp = vp /\ \A l \in 1 .. Len(pages) : l > k => pages[l].vp # vp
      BY <2>1, <2>6 DEF Finds
    <3>2. PICK i \in Nat : LastAt(pages, Len(pages), vp, i) /\ vp \in DOMAIN C /\ C[vp] = FileRow(pages[i])
      BY <2>6, <3>1 DEF Listed
    <3>3. i \in 1 .. Len(pages) /\ pages[i].vp = vp /\ \A l \in 1 .. Len(pages) : l > i => pages[l].vp # vp
      BY <3>2 DEF LastAt
    <3>4. ~(i > k) /\ ~(k > i)
      BY <2>6, <3>1, <3>3
    <3>5. i = k
      BY <3>4
    <3> QED BY <2>6, <3>2, <3>5
  <2>8. PICK at \in Int : at = vp * FANOUT
    BY <1>3, <1>4
  <2>9. p.from = off + (at - va) /\ p.fill = fsz - (at - va)
    <3>1. p.vp = vp
      BY <2>1, <2>6 DEF Finds
    <3> QED BY <2>1, <2>2, <2>3, <2>6, <2>8, <3>1 DEF PageOf
  <2>10. ASSUME NEW w \in Word PROVE m[frame][w] = Due(img, args, vp, w)
    <3>1. w \in Int
      BY Sizes DEF Word
    <3>2. Due(img, args, vp, w) = IF at + w >= StackTop - args THEN ARG
                                  ELSE IF (at + w) - va < fsz THEN FileWord(off + (at + w) - va) ELSE 0
      BY <2>2, <2>3, <2>4, <2>5, <2>8 DEF Due
    <3>3. C[vp][w] = IF w < p.fill THEN FileWord(p.from + w) ELSE 0
      BY <2>7 DEF FileRow
    <3>4. (w < p.fill <=> (at + w) - va < fsz) /\ p.from + w = off + (at + w) - va
      BY <2>9, <3>1
    <3>5. C[vp][w] = IF (at + w) - va < fsz THEN FileWord(off + (at + w) - va) ELSE 0
      BY <3>3, <3>4
    <3> QED BY <1>6, <1>8, <2>7, <2>8, <3>2, <3>5
  <2> QED BY <1>5, <1>6, <2>4, <2>7, <2>10
<1> QED BY <1>2, <1>4, <1>9, <1>10 DEF Matches

\* The argument block, word by word from the top.
PutArg(p, s, root, k) ==
    LET va == StackTop - k IN [p EXCEPT !.mem[pgtable_kva(s.mem, root, va \div FANOUT)][va % FANOUT] = ARG]
Puts(s, root, args, f) ==
    /\ f[0] = s
    /\ \A k \in 1 .. args : f[k] = PutArg(f[k - 1], s, root, k)

\* setup_user_stack writes word after word.
LEMMA ArgRuns ==
    ASSUME NEW s, NEW root, NEW args \in Nat
    PROVE  \E f : Puts(s, root, args, f) /\ setup_user_stack(s, root, args) = f[args]
<1> DEFINE N == args
           first == s
           Put(i, p) == PutArg(p, s, root, i)
           R(g) == [i \in 0 .. N |-> IF i = 0 THEN first ELSE Put(i, g[i - 1])]
           F == CHOOSE g : g = R(g)
           Upto(n, g) == g[0] = first /\ \A k \in 1 .. n : g[k] = Put(k, g[k - 1])
<1>1. setup_user_stack(s, root, args) = F[N]
  BY DEF setup_user_stack, PutArg
<1>2. N \in Nat
  OBVIOUS
<1>3. Puts(s, root, args, F) <=> Upto(N, F)
  BY DEF Puts
<1> HIDE DEF Put, N, first
<1>5. F = R(F)
  <2> DEFINE T == {n \in 0 .. N : \E g : Upto(n, g)}
  <2>1. 0 \in T
    <3>1. Upto(0, [k \in 0 .. 0 |-> first])
      OBVIOUS
    <3>2. \E g : Upto(0, g)
      BY <3>1
    <3> HIDE DEF Upto
    <3> QED BY <3>2, <1>2
  <2>2. ASSUME NEW n \in 1 .. N, n - 1 \in T PROVE n \in T
    <3>1. PICK g : Upto(n - 1, g)
      BY <2>2
    <3> DEFINE f == [k \in 0 .. n |-> IF k = n THEN Put(n, g[n - 1]) ELSE g[k]]
    <3>2. f[0] = first
      BY <3>1
    <3>3. ASSUME NEW k \in 1 .. n PROVE f[k] = Put(k, f[k - 1])
      <4>1. k - 1 \in 0 .. n /\ k - 1 # n /\ k \in 0 .. n /\ (k # n => k \in 1 .. n - 1)
        OBVIOUS
      <4>2. f[k - 1] = g[k - 1]
        BY <4>1
      <4>3. CASE k = n
        BY <4>1, <4>2, <4>3
      <4>4. CASE k # n
        <5>1. f[k] = g[k]
          BY <4>1, <4>4
        <5> QED BY <3>1, <4>1, <4>2, <4>4, <5>1
      <4> QED BY <4>3, <4>4
    <3> HIDE DEF f
    <3>4. Upto(n, f)
      BY <3>2, <3>3
    <3>5. \E e : Upto(n, e)
      BY <3>4
    <3> HIDE DEF Upto
    <3>6. n \in 0 .. N
      BY <1>2
    <3> QED BY <3>5, <3>6
  <2> HIDE DEF T
  <2>3. 0 .. N \subseteq T
    BY <2>1, <2>2, <1>2, IntervalInduction
  <2>4. N \in T
    BY <2>3, <1>2
  <2>5. PICK g : Upto(N, g)
    BY <2>4 DEF T
  <2> DEFINE u == [k \in 0 .. N |-> g[k]]
  <2>6. ASSUME NEW k \in 0 .. N PROVE u[k] = IF k = 0 THEN first ELSE Put(k, u[k - 1])
    <3>1. CASE k = 0
      BY <2>5, <3>1
    <3>2. CASE k # 0
      <4>1. k \in 1 .. N /\ k - 1 \in 0 .. N
        BY <3>2, <1>2
      <4>2. u[k] = g[k] /\ u[k - 1] = g[k - 1]
        BY <4>1
      <4> QED BY <2>5, <3>2, <4>1, <4>2
    <3> QED BY <3>1, <3>2
  <2>7. u = R(u)
    BY <2>6
  <2> HIDE DEF u
  <2>8. \E e : e = R(e)
    BY <2>7
  <2> QED BY <2>8, Zenon
<1> HIDE DEF F
<1>6. F[0] = first
  BY <1>2, <1>5
<1>7. ASSUME NEW k \in 1 .. N PROVE F[k] = Put(k, F[k - 1])
  <2>1. k \in 0 .. N /\ k # 0
    BY <1>2
  <2> QED BY <1>5, <2>1
<1>8. Upto(N, F)
  BY <1>6, <1>7
<1> QED BY <1>1, <1>3, <1>8 DEF N

\* The block is on the stack's pages.
LEMMA ArgPages ==
    ASSUME NEW args \in ArgWords, NEW k \in 1 .. args
    PROVE  /\ args \in Nat /\ StackTop - k \in Int /\ (StackTop - k) \div FANOUT \in 0 .. (NPages \div 2) - 1
           /\ (StackTop - k) % FANOUT \in Word
           /\ StackTop - k = FANOUT * ((StackTop - k) \div FANOUT) + ((StackTop - k) % FANOUT)
<1>1. FANOUT \in Nat \ {0} /\ STACK_PAGES \in Nat /\ args \in Nat
  BY Sizes, AddrSpaceAssumption
<1>2. NPages \div 2 \in Nat
  BY PageNumbers
<1>3. PICK F \in Nat \ {0}, h \in Nat, P \in Nat : F = FANOUT /\ h = NPages \div 2 /\ P = STACK_PAGES
  BY <1>1, <1>2
<1>4. StackTop = h * F /\ P <= h /\ args <= P * F
  <2>1. (StackBase + STACK_PAGES) = h
    BY <1>3 DEF StackBase
  <2>2. args <= STACK_PAGES * FANOUT
    BY AddrSpaceAssumption
  <2> QED BY <1>3, <2>1, <2>2, UserHalfAssumption DEF StackTop
<1>5. P * F <= h * F
  <2>1. CASE P = h
    BY <2>1, <1>3
  <2>2. CASE P < h
    <3>1. P \in Int /\ h \in Int
      BY <1>3
    <3>2. F * P + F <= F * h
      BY <1>3, <2>2, <3>1, ProductGap
    <3>3. PICK a \in Int, b \in Int : a = F * P /\ b = F * h /\ a = P * F /\ b = h * F
      BY <1>3
    <3> QED BY <1>3, <3>2, <3>3
  <2> QED BY <1>3, <1>4, <2>1, <2>2
<1>6. PICK va \in Nat, e \in Int : va = StackTop - k /\ e = F * h /\ va < e
  <2>1. PICK a \in Int, b \in Int : a = P * F /\ b = h * F /\ b = F * h
    BY <1>3
  <2>2. k <= a /\ a <= b /\ StackTop = b /\ k \in Nat /\ k >= 1
    BY <1>1, <1>4, <1>5, <2>1
  <2> QED BY <2>1, <2>2
<1>7. va \div F \in Int /\ va % F \in 0 .. F - 1 /\ va = F * (va \div F) + (va % F)
  <2>1. va \in Int
    OBVIOUS
  <2> QED BY <2>1, DivMod
<1>8. PICK q \in Int, x \in 0 .. F - 1, d \in Int : q = va \div F /\ x = va % F /\ d = F * q /\ va = d + x
  BY <1>7
<1>9. q >= 0
  <2> SUFFICES ASSUME q < 0 PROVE FALSE
    OBVIOUS
  <2>1. F * q + F <= F * 0
    BY <1>3, <1>8, ProductGap
  <2> QED BY <1>3, <1>6, <1>8, <2>1
<1>10. q < h
  <2> SUFFICES ASSUME h <= q PROVE FALSE
    BY <1>3, <1>8
  <2>1. e <= d
    <3>1. CASE h = q
      BY <1>6, <1>8, <3>1
    <3>2. CASE h < q
      <4>1. h \in Int
        OBVIOUS
      <4>2. F * h + F <= F * q
        BY <1>3, <1>8, <3>2, <4>1, ProductGap
      <4> QED BY <1>3, <1>6, <1>8, <4>2
    <3> QED BY <1>3, <1>8, <3>1, <3>2
  <2> QED BY <1>3, <1>6, <1>8, <2>1
<1>11. q \in 0 .. h - 1
  BY <1>3, <1>8, <1>9, <1>10
<1>12. va = F * (va \div F) + (va % F)
  BY <1>7
<1> QED BY <1>1, <1>3, <1>6, <1>8, <1>11, <1>12 DEF Word

\* No word of a user page is above the stack.
LEMMA BelowTop ==
    ASSUME NEW vp \in UserVp, NEW w \in Word
    PROVE  /\ vp * FANOUT + w \in Int /\ StackTop \in Int /\ vp * FANOUT + w < StackTop
           /\ vp * FANOUT + w = FANOUT * vp + w
<1>1. PICK F \in Nat \ {0}, h \in Nat : F = FANOUT /\ h = NPages \div 2 /\ StackBase + STACK_PAGES = h
  <2>1. PICK F \in Nat \ {0} : F = FANOUT
    BY Sizes
  <2>2. PICK h \in Nat : h = NPages \div 2
    BY PageNumbers
  <2>3. StackBase + STACK_PAGES = h
    BY <2>2, Sizes DEF StackBase
  <2> QED BY <2>1, <2>2, <2>3
<1>2. StackTop = h * F /\ vp \in Int /\ vp < h /\ w \in Int /\ w < F
  BY <1>1 DEF StackTop, UserVp, Word
<1>3. F * vp + F <= F * h
  BY <1>1, <1>2, ProductGap
<1>4. PICK a \in Int, b \in Int : a = F * vp /\ b = F * h /\ a = vp * F /\ b = h * F
  <2>1. F * vp \in Int /\ F * h \in Int /\ F * vp = vp * F /\ F * h = h * F
    BY <1>1, <1>2
  <2> QED BY <2>1
<1> QED BY <1>1, <1>2, <1>3, <1>4

\* The words of the pages of C after k words of arguments.
Written(n, m, root, C, k) ==
    \A vp \in UserVp : vp \in DOMAIN C =>
        \A w \in Word : n[pgtable_kva(m, root, vp)][w] = IF vp * FANOUT + w >= StackTop - k THEN ARG ELSE C[vp][w]

\* The arguments show on top of what was there.
LEMMA ArgsShown ==
    ASSUME NEW s \in Call, NEW lev, NEW root, Tree(s.mem, lev, 0, KERNEL_PML4_INDEX, root),
           NEW C, Shows(s.mem, root, C), NEW args \in ArgWords, NEW r, r = setup_user_stack(s, root, args)
    PROVE  Shows(r.mem, root, WithArgs(C, args))
<1>1. args \in Nat
  BY AddrSpaceAssumption
<1>2. PICK f : Puts(s, root, args, f) /\ r = f[args]
  BY <1>1, ArgRuns
<1>3. PICK m : m = s.mem /\ Tree(m, lev, 0, KERNEL_PML4_INDEX, root) /\ Shows(m, root, C)
  OBVIOUS
<1>4. DOMAIN lev \subseteq Frame /\ 0 \notin Frame
  BY <1>3, Sizes DEF Tree, Leveled, Frame
<1>5. ASSUME NEW vp \in UserVp
      PROVE  /\ vp \in DOMAIN C <=> pgtable_kva(m, root, vp) # 0
             /\ pgtable_kva(m, root, vp) # 0 => pgtable_kva(m, root, vp) \in DOMAIN lev /\ lev[pgtable_kva(m, root, vp)] = 0
             /\ vp \in DOMAIN C => \A w \in Word : m[pgtable_kva(m, root, vp)][w] = C[vp][w]
  <2>1. vp \in 0 .. (NPages \div 2) - 1
    BY DEF UserVp
  <2>2. PICK g : g = pgtable_kva(m, root, vp)
    OBVIOUS
  <2>3. g # 0 => g \in DOMAIN lev /\ lev[g] = 0
    BY <1>3, <2>1, <2>2, WalkInTree
  <2>4. IF vp \in DOMAIN C THEN g # 0 /\ \A w \in Word : m[g][w] = C[vp][w] ELSE g = 0
    BY <1>3, <2>1, <2>2 DEF Shows
  <2> QED BY <2>2, <2>3, <2>4
<1> DEFINE T == {k \in 0 .. args : /\ f[k] \in Call /\ \A g \in DOMAIN lev : lev[g] >= 1 => f[k].mem[g] = m[g]
                                  /\ Written(f[k].mem, m, root, C, k)}
<1>6. 0 \in T
  <2>1. f[0] = s /\ 0 \in 0 .. args
    BY <1>1, <1>2 DEF Puts
  <2>2. ASSUME NEW vp \in UserVp, vp \in DOMAIN C, NEW w \in Word
        PROVE  m[pgtable_kva(m, root, vp)][w] = IF vp * FANOUT + w >= StackTop - 0 THEN ARG ELSE C[vp][w]
    <3>1. ~(vp * FANOUT + w >= StackTop - 0)
      BY BelowTop
    <3> QED BY <1>5, <2>2, <3>1
  <2>3. Written(m, m, root, C, 0)
    BY <2>2 DEF Written
  <2> QED BY <1>3, <2>1, <2>3
<1>7. ASSUME NEW k \in 1 .. args, k - 1 \in T PROVE k \in T
  <2>1. PICK p, x, va, up, w, h : /\ p = f[k - 1] /\ x = f[k] /\ va = StackTop - k /\ up = va \div FANOUT
                                  /\ w = va % FANOUT /\ h = pgtable_kva(m, root, up)
    OBVIOUS
  <2>2. x = PutArg(p, s, root, k)
    BY <1>2, <2>1 DEF Puts
  <2>3. /\ p \in Call /\ k \in 0 .. args /\ \A g \in DOMAIN lev : lev[g] >= 1 => p.mem[g] = m[g]
        /\ Written(p.mem, m, root, C, k - 1)
    BY <1>1, <1>7, <2>1
  <2>4. up \in UserVp /\ w \in Word /\ va \in Int /\ va = FANOUT * up + w
    BY <2>1, ArgPages DEF UserVp
  <2>5. PICK o, row, n : o = p.mem /\ row = [o[h] EXCEPT ![w] = ARG] /\ n = [o EXCEPT ![h] = row]
    OBVIOUS
  <2>6. x = [p EXCEPT !.mem = n]
    BY <1>3, <2>1, <2>2, <2>5 DEF PutArg
  <2>7. o \in Memory
    BY <2>3, <2>5 DEF Call
  <2>8. /\ n \in Memory /\ \A g \in Frame : g # h => n[g] = o[g]
        /\ h \in Frame => n[h][w] = ARG /\ \A v \in Word : v # w => n[h][v] = o[h][v]
    <3>1. h \in Frame => row \in [Word -> Int] /\ row[w] = ARG /\ \A v \in Word : v # w => row[v] = o[h][v]
      BY <2>4, <2>5, <2>7 DEF Memory, ARG
    <3>2. n \in Memory /\ (h \in Frame => n[h] = row) /\ \A g \in Frame : g # h => n[g] = o[g]
      BY <2>5, <2>7, <3>1 DEF Memory
    <3> QED BY <3>1, <3>2
  <2>9. x \in Call /\ x.mem = n
    BY <2>3, <2>6, <2>8 DEF Call
  <2>10. ASSUME NEW g \in DOMAIN lev, lev[g] >= 1 PROVE n[g] = m[g]
    <3>1. g # h
      BY <1>4, <1>5, <2>1, <2>4, <2>10
    <3> QED BY <1>4, <2>3, <2>5, <2>8, <2>10, <3>1
  <2>11. ASSUME NEW vp \in UserVp, vp \in DOMAIN C, NEW v \in Word
         PROVE  n[pgtable_kva(m, root, vp)][v] = IF vp * FANOUT + v >= StackTop - k THEN ARG ELSE C[vp][v]
    <3>0. PICK at \in Int : at = vp * FANOUT + v /\ at = FANOUT * vp + v
      BY BelowTop
    <3>1. PICK g : g = pgtable_kva(m, root, vp) /\ at = vp * FANOUT + v /\ at = FANOUT * vp + v
      BY <3>0
    <3>2. g # 0 /\ g \in Frame
      BY <1>4, <1>5, <2>11, <3>1
    <3>3. o[g][v] = IF at >= StackTop - (k - 1) THEN ARG ELSE C[vp][v]
      BY <2>3, <2>5, <2>11, <3>1 DEF Written
    <3>4. g = h => vp = up
      <4> SUFFICES ASSUME g = h PROVE vp = up
        OBVIOUS
      <4>1. vp \in 0 .. (NPages \div 2) - 1 /\ up \in 0 .. (NPages \div 2) - 1
        BY <2>4 DEF UserVp
      <4>2. pgtable_kva(m, root, vp) = pgtable_kva(m, root, up) /\ pgtable_kva(m, root, vp) # 0
        BY <2>1, <3>1, <3>2
      <4> QED BY <1>3, <4>1, <4>2, KvaOneToOne
    <3>5. at = va <=> vp = up /\ v = w
      <4>1. PICK F \in Nat \ {0} : F = FANOUT
        BY Sizes
      <4>2. vp \in Int /\ v \in 0 .. F - 1 /\ up \in Int /\ w \in 0 .. F - 1
        BY <2>4, <4>1 DEF UserVp, Word
      <4>3. at % F = v /\ at \div F = vp
        BY <3>1, <4>1, <4>2, DivModUnique
      <4>4. va % F = w /\ va \div F = up
        BY <2>4, <4>1, <4>2, DivModUnique
      <4> QED BY <2>4, <3>1, <4>3, <4>4
    <3>6. StackTop \in Int
      BY BelowTop
    <3>7. CASE vp = up /\ v = w
      <4>1. g = h /\ at >= StackTop - k
        BY <2>1, <2>4, <3>1, <3>5, <3>6, <3>7
      <4> QED BY <2>8, <3>1, <3>2, <3>7, <4>1
    <3>8. CASE ~(vp = up /\ v = w)
      <4>1. n[g][v] = o[g][v]
        BY <2>8, <3>2, <3>4, <3>8
      <4>2. at >= StackTop - k <=> at >= StackTop - (k - 1)
        BY <2>1, <3>1, <3>5, <3>6, <3>8
      <4> QED BY <3>1, <3>3, <4>1, <4>2
    <3> QED BY <3>7, <3>8
  <2>12. Written(n, m, root, C, k)
    BY <2>11 DEF Written
  <2> QED BY <2>1, <2>3, <2>9, <2>10, <2>12
<1> HIDE DEF T
<1>8. 0 .. args \subseteq T
  BY <1>1, <1>6, <1>7, IntervalInduction
<1>9. PICK n : n = r.mem /\ (\A g \in DOMAIN lev : lev[g] >= 1 => n[g] = m[g]) /\ Written(n, m, root, C, args)
  BY <1>1, <1>2, <1>8 DEF T
<1>10. PICK D : D = WithArgs(C, args) /\ DOMAIN D = DOMAIN C
  <2>1. DOMAIN WithArgs(C, args) = DOMAIN C
    BY DEF WithArgs
  <2> QED BY <2>1
<1>11. ASSUME NEW vp \in UserVp
       PROVE  IF vp \in DOMAIN D
              THEN pgtable_kva(n, root, vp) # 0 /\ \A w \in Word : n[pgtable_kva(n, root, vp)][w] = D[vp][w]
              ELSE pgtable_kva(n, root, vp) = 0
  <2>1. vp \in 0 .. (NPages \div 2) - 1
    BY DEF UserVp
  <2>2. pgtable_kva(n, root, vp) = pgtable_kva(m, root, vp)
    BY <1>3, <1>9, <2>1, KvaKept
  <2>3. vp \in DOMAIN D => \A w \in Word : D[vp][w] = IF vp * FANOUT + w >= StackTop - args THEN ARG ELSE C[vp][w]
    BY <1>10 DEF WithArgs
  <2> QED BY <1>5, <1>9, <1>10, <2>2, <2>3 DEF Written
<1>12. Shows(n, root, D)
  BY <1>11 DEF Shows, UserVp
<1> QED BY <1>9, <1>10, <1>12

\* The arguments are data of the new space.
LEMMA ArgsPut ==
    ASSUME NEW s, NEW lev, NEW root, NEW ks, NEW B, NEW m, Built(s, lev, root, ks, B, m),
           NEW args \in ArgWords, NEW r, r = setup_user_stack(s, root, args)
    PROVE  Built(r, lev, root, ks, B, m)
<1>1. args \in Nat
  BY AddrSpaceAssumption
<1>2. PICK f : Puts(s, root, args, f) /\ r = f[args]
  BY <1>1, ArgRuns
<1>3. Tree(s.mem, lev, 0, KERNEL_PML4_INDEX, root)
  BY DEF Built, Work
<1> DEFINE T == {k \in 0 .. args : Built(f[k], lev, root, ks, B, m)}
<1>4. 0 \in T
  BY <1>1, <1>2 DEF Puts
<1>5. ASSUME NEW k \in 1 .. args, k - 1 \in T PROVE k \in T
  <2>1. PICK p, x, vp, w, h : /\ p = f[k - 1] /\ x = f[k] /\ vp = (StackTop - k) \div FANOUT
                              /\ w = (StackTop - k) % FANOUT /\ h = pgtable_kva(s.mem, root, vp)
    OBVIOUS
  <2>2. x = PutArg(p, s, root, k)
    BY <1>2, <2>1 DEF Puts
  <2>3. Built(p, lev, root, ks, B, m) /\ k \in 0 .. args
    BY <1>1, <1>5, <2>1
  <2>4. vp \in 0 .. (NPages \div 2) - 1 /\ w \in Word
    BY <2>1, ArgPages
  <2>5. h # 0 => h \in DOMAIN lev /\ lev[h] = 0
    BY <1>3, <2>1, <2>4, WalkInTree
  <2>6. p \in Call /\ DOMAIN lev \subseteq Frame /\ 0 \notin Frame
    BY <2>3, Sizes DEF Built, Work, Tree, Leveled, Frame
  <2>7. PICK row, n : row = [p.mem[h] EXCEPT ![w] = ARG] /\ n = [p.mem EXCEPT ![h] = row]
    OBVIOUS
  <2>8. x = [p EXCEPT !.mem = n]
    BY <2>1, <2>2, <2>7 DEF PutArg
  <2>9. p.mem \in Memory
    BY <2>6 DEF Call
  <2>10. n \in Memory /\ \A g \in Frame : g # h => n[g] = p.mem[g]
    <3>1. h \in Frame => row \in [Word -> Int]
      BY <2>4, <2>7, <2>9 DEF Memory, ARG
    <3> HIDE <2>5
    <3> QED BY <2>7, <2>9, <3>1 DEF Memory
  <2>11. x \in Call /\ x.taken = p.taken /\ x.leaked = p.leaked /\ x.root = p.root /\ x.ks = p.ks /\ x.mem = n
    BY <2>6, <2>8, <2>10 DEF Call
  <2>12. \A g \in Frame : (g \in DOMAIN lev /\ lev[g] = 0) \/ x.mem[g] = p.mem[g]
    BY <2>5, <2>6, <2>10, <2>11
  <2>13. Built(x, lev, root, ks, B, m)
    BY <2>3, <2>11, <2>12, DataWritten
  <2> QED BY <2>1, <2>3, <2>13
<1> HIDE DEF T
<1>6. 0 .. args \subseteq T
  BY <1>1, <1>4, <1>5, IntervalInduction
<1> QED BY <1>1, <1>2, <1>6 DEF T

\* The pages of a file, one after the other.
NextPage(p, root, page) ==
    IF ~p.ok \/ p.rc # 0 THEN p ELSE IF page.bad THEN [p EXCEPT !.rc = -1] ELSE LoadPage(p, root, page)
Loads(s, root, pages, f) ==
    /\ f[0] = [s EXCEPT !.read = @ - 2, !.rc = IF s.read \in {1, 2} THEN -1 ELSE 0]
    /\ \A n \in 1 .. Len(pages) : f[n] = NextPage(f[n - 1], root, pages[n])
Finish(p, root, args) == IF p.ok /\ p.rc = 0 THEN setup_user_stack(p, root, args) ELSE p

\* load_elf takes them in order.
LEMMA LoadRuns ==
    ASSUME NEW s, NEW root, NEW img, NEW args, NEW pages, pages = PagesOf(img), Len(pages) \in Nat
    PROVE  \E f : Loads(s, root, pages, f) /\ load_elf(s, root, img, args) = Finish(f[Len(pages)], root, args)
<1> DEFINE N == Len(pages)
           first == [s EXCEPT !.read = @ - 2, !.rc = IF s.read \in {1, 2} THEN -1 ELSE 0]
           Put(i, p) == NextPage(p, root, pages[i])
           R(g) == [i \in 0 .. N |-> IF i = 0 THEN first ELSE Put(i, g[i - 1])]
           F == CHOOSE g : g = R(g)
           Upto(n, g) == g[0] = first /\ \A k \in 1 .. n : g[k] = Put(k, g[k - 1])
<1>1. load_elf(s, root, img, args) = Finish(F[N], root, args)
  BY DEF load_elf, NextPage, Finish
<1>2. N \in Nat
  OBVIOUS
<1>3. Loads(s, root, pages, F) <=> Upto(N, F)
  BY DEF Loads
<1> HIDE DEF Put, N, first
<1>5. F = R(F)
  <2> DEFINE T == {n \in 0 .. N : \E g : Upto(n, g)}
  <2>1. 0 \in T
    <3>1. Upto(0, [k \in 0 .. 0 |-> first])
      OBVIOUS
    <3>2. \E g : Upto(0, g)
      BY <3>1
    <3> HIDE DEF Upto
    <3> QED BY <3>2, <1>2
  <2>2. ASSUME NEW n \in 1 .. N, n - 1 \in T PROVE n \in T
    <3>1. PICK g : Upto(n - 1, g)
      BY <2>2
    <3> DEFINE f == [k \in 0 .. n |-> IF k = n THEN Put(n, g[n - 1]) ELSE g[k]]
    <3>2. f[0] = first
      BY <3>1
    <3>3. ASSUME NEW k \in 1 .. n PROVE f[k] = Put(k, f[k - 1])
      <4>1. k - 1 \in 0 .. n /\ k - 1 # n /\ k \in 0 .. n /\ (k # n => k \in 1 .. n - 1)
        OBVIOUS
      <4>2. f[k - 1] = g[k - 1]
        BY <4>1
      <4>3. CASE k = n
        BY <4>1, <4>2, <4>3
      <4>4. CASE k # n
        <5>1. f[k] = g[k]
          BY <4>1, <4>4
        <5> QED BY <3>1, <4>1, <4>2, <4>4, <5>1
      <4> QED BY <4>3, <4>4
    <3> HIDE DEF f
    <3>4. Upto(n, f)
      BY <3>2, <3>3
    <3>5. \E e : Upto(n, e)
      BY <3>4
    <3> HIDE DEF Upto
    <3>6. n \in 0 .. N
      BY <1>2
    <3> QED BY <3>5, <3>6
  <2> HIDE DEF T
  <2>3. 0 .. N \subseteq T
    BY <2>1, <2>2, <1>2, IntervalInduction
  <2>4. N \in T
    BY <2>3, <1>2
  <2>5. PICK g : Upto(N, g)
    BY <2>4 DEF T
  <2> DEFINE u == [k \in 0 .. N |-> g[k]]
  <2>6. ASSUME NEW k \in 0 .. N PROVE u[k] = IF k = 0 THEN first ELSE Put(k, u[k - 1])
    <3>1. CASE k = 0
      BY <2>5, <3>1
    <3>2. CASE k # 0
      <4>1. k \in 1 .. N /\ k - 1 \in 0 .. N
        BY <3>2, <1>2
      <4>2. u[k] = g[k] /\ u[k - 1] = g[k - 1]
        BY <4>1
      <4> QED BY <2>5, <3>2, <4>1, <4>2
    <3> QED BY <3>1, <3>2
  <2>7. u = R(u)
    BY <2>6
  <2> HIDE DEF u
  <2>8. \E e : e = R(e)
    BY <2>7
  <2> QED BY <2>8, Zenon
<1> HIDE DEF F
<1>6. F[0] = first
  BY <1>2, <1>5
<1>7. ASSUME NEW k \in 1 .. N PROVE F[k] = Put(k, F[k - 1])
  <2>1. k \in 0 .. N /\ k # 0
    BY <1>2
  <2> QED BY <1>5, <2>1
<1>8. Upto(N, F)
  BY <1>6, <1>7
<1> QED BY <1>1, <1>3, <1>8 DEF N

\* A load so far: with no error, the space shows the pages listed so far.
Going(p, pages, n, root) ==
    p.rc = 0 => /\ \A i \in 1 .. n : ~pages[i].bad
                /\ \E C : Shows(p.mem, root, C) /\ Listed(C, pages, n)

\* A loaded space, whether the load went well or not; if it did, the program is
\* all there.
LEMMA ImageLoaded ==
    ASSUME NEW s, NEW lev, NEW root, NEW ks, NEW B, NEW m, Built(s, lev, root, ks, B, m),
           Shows(s.mem, root, StackRows(STACK_PAGES)),
           NEW img \in Images, NEW args \in ArgWords, NEW r, r = load_elf(s, root, img, args), r.ok
    PROVE  /\ \E new : Built(r, new, root, ks, B, m)
           /\ r.rc = 0 => Exact(r.mem, root, img, args)
<1>1. PICK pages : pages = PagesOf(img) /\ pages \in Seq(UserPage)
  BY PagesFit
<1>2. Len(pages) \in Nat /\ \A n \in 1 .. Len(pages) : pages[n] \in UserPage
  BY <1>1
<1>3. PICK f : Loads(s, root, pages, f) /\ r = Finish(f[Len(pages)], root, args)
  BY <1>1, <1>2, LoadRuns
<1>4. PICK N \in Nat : N = Len(pages)
  BY <1>2
<1> DEFINE T == {n \in 0 .. N : f[n].ok => Going(f[n], pages, n, root) /\ \E new : Built(f[n], new, root, ks, B, m)}
<1>5. 0 \in T
  <2>1. PICK x, c, a : /\ a = f[0] /\ x = s.read - 2 /\ c = (IF s.read \in {1, 2} THEN -1 ELSE 0)
                       /\ a = [s EXCEPT !.read = x, !.rc = c]
    BY <1>3 DEF Loads
  <2>2. s \in Call
    BY DEF Built, Work
  <2>3. x \in Int /\ c \in Int
    BY <2>1, <2>2 DEF Call
  <2>4. a \in Call /\ a.taken = s.taken /\ a.leaked = s.leaked /\ a.root = s.root /\ a.ks = s.ks /\ a.mem = s.mem
    <3>1. a = [s EXCEPT !.read = x, !.rc = c]
      BY <2>1
    <3> QED BY <2>2, <2>3, <3>1 DEF Call
  <2>5. \A g \in Frame : (g \in DOMAIN lev /\ lev[g] = 0) \/ a.mem[g] = s.mem[g]
    BY <2>4
  <2>6. Built(a, lev, root, ks, B, m)
    BY <2>4, <2>5, DataWritten
  <2>7. Going(a, pages, 0, root)
    <3>1. Shows(a.mem, root, StackRows(STACK_PAGES))
      BY <2>4
    <3>2. Listed(StackRows(STACK_PAGES), pages, 0)
      BY ListedNone
    <3> QED BY <3>1, <3>2 DEF Going
  <2>8. Going(f[0], pages, 0, root) /\ \E new : Built(f[0], new, root, ks, B, m)
    <3>1. f[0] = a
      BY <2>1
    <3> QED BY <2>6, <2>7, <3>1
  <2>9. 0 \in 0 .. N
    OBVIOUS
  <2> QED BY <2>8, <2>9
<1>6. ASSUME NEW n \in 1 .. N, n - 1 \in T PROVE n \in T
  <2> SUFFICES ASSUME f[n].ok PROVE Going(f[n], pages, n, root) /\ \E new : Built(f[n], new, root, ks, B, m)
    BY <1>4
  <2>1. PICK p, x, page : p = f[n - 1] /\ x = f[n] /\ page = pages[n] /\ page \in UserPage
    BY <1>2, <1>4
  <2>2. x = NextPage(p, root, page)
    BY <1>3, <1>4, <2>1 DEF Loads
  <2>3. p.ok
    BY <2>1, <2>2 DEF NextPage
  <2>4. PICK old : Built(p, old, root, ks, B, m) /\ Going(p, pages, n - 1, root)
    BY <1>6, <2>1, <2>3
  <2>5. CASE p.rc # 0
    <3>1. x = p
      BY <2>2, <2>5 DEF NextPage
    <3>2. Going(x, pages, n, root)
      BY <2>5, <3>1 DEF Going
    <3> QED BY <2>1, <2>4, <3>1, <3>2
  <2>6. CASE p.rc = 0 /\ page.bad
    <3>1. x = [p EXCEPT !.rc = -1]
      BY <2>2, <2>3, <2>6 DEF NextPage
    <3>2. p \in Call
      BY <2>4 DEF Built, Work
    <3>3. x \in Call /\ x.taken = p.taken /\ x.leaked = p.leaked /\ x.root = p.root /\ x.ks = p.ks /\ x.mem = p.mem /\ x.rc = -1
      BY <3>1, <3>2 DEF Call
    <3>4. \A g \in Frame : (g \in DOMAIN old /\ old[g] = 0) \/ x.mem[g] = p.mem[g]
      BY <3>3
    <3>5. Built(x, old, root, ks, B, m)
      BY <2>4, <3>3, <3>4, DataWritten
    <3>6. Going(x, pages, n, root)
      BY <3>3 DEF Going
    <3> QED BY <2>1, <3>5, <3>6
  <2>7. CASE p.rc = 0 /\ ~page.bad
    <3>1. x = LoadPage(p, root, page) /\ x.ok
      BY <2>1, <2>2, <2>3, <2>7 DEF NextPage
    <3>2. /\ \E new : Built(x, new, root, ks, B, m)
          /\ x.rc = 0 => \A C : Shows(p.mem, root, C) => Shows(x.mem, root, Given(C, page.vp, FileRow(page)))
      BY <2>1, <2>4, <2>7, <3>1, PageLoaded
    <3>3. PICK C : Shows(p.mem, root, C) /\ Listed(C, pages, n - 1)
      BY <2>4, <2>7 DEF Going
    <3>4. n \in Nat \ {0}
      BY <1>4
    <3>5. Listed(Given(C, page.vp, FileRow(page)), pages, n)
      BY <2>1, <3>3, <3>4, ListedNext
    <3>6. ASSUME NEW i \in 1 .. n PROVE ~pages[i].bad
      <4>1. i = n \/ i \in 1 .. n - 1
        BY <1>4
      <4> QED BY <2>1, <2>4, <2>7, <4>1 DEF Going
    <3>7. Going(x, pages, n, root)
      BY <3>2, <3>3, <3>5, <3>6 DEF Going
    <3> QED BY <2>1, <3>2, <3>7
  <2> QED BY <2>5, <2>6, <2>7
<1> HIDE DEF T
<1>7. 0 .. N \subseteq T
  BY <1>5, <1>6, IntervalInduction
<1>8. PICK e : e = f[Len(pages)] /\ (e.ok => Going(e, pages, Len(pages), root) /\ \E new : Built(e, new, root, ks, B, m))
  BY <1>4, <1>7 DEF T
<1>9. CASE e.ok /\ e.rc = 0
  <2>1. PICK new : Built(e, new, root, ks, B, m)
    BY <1>8, <1>9
  <2>2. r = setup_user_stack(e, root, args)
    BY <1>3, <1>8, <1>9 DEF Finish
  <2>3. Built(r, new, root, ks, B, m)
    BY <2>1, <2>2, ArgsPut
  <2>4. PICK C : Shows(e.mem, root, C) /\ Listed(C, pages, Len(pages))
    BY <1>8, <1>9 DEF Going
  <2>5. Shows(r.mem, root, WithArgs(C, args))
    <3>1. e \in Call /\ Tree(e.mem, new, 0, KERNEL_PML4_INDEX, root)
      BY <2>1 DEF Built, Work
    <3> QED BY <2>2, <2>4, <3>1, ArgsShown
  <2>6. Matches(img, Len(img), pages)
    <3>1. \A k \in 1 .. Len(pages) : ~pages[k].bad
      BY <1>8, <1>9 DEF Going
    <3> QED BY <1>1, <3>1, PagesMatch
  <2>7. Exact(r.mem, root, img, args)
    BY <2>4, <2>5, <2>6, ExactFromList
  <2> QED BY <2>3, <2>7
<1>10. CASE ~(e.ok /\ e.rc = 0)
  <2>1. r = e
    BY <1>3, <1>8, <1>10 DEF Finish
  <2>2. r.rc # 0
    BY <1>10, <2>1
  <2> QED BY <1>8, <2>1, <2>2
<1> QED BY <1>9, <1>10

-----------------------------------------------------------------------------
(* Address spaces: every frame has one owner *)

\* The inductive invariant.  L[t] gives the levels of the frames of task t's tree:
\* its frames are those and its kernel stack, no two tasks share one, none is a
\* kernel table or lost, and the kernel's tables are as vmm_init left them.
FramesOf(L, kst, t) == DOMAIN L[t] \cup {kst[t]}
SpaceTree(L, m, pm, kst, t) ==
    /\ Tree(m, L[t], 0, KERNEL_PML4_INDEX, pm[t]) /\ kst[t] \in Frame /\ kst[t] \notin DOMAIN L[t]
    /\ \A w \in Word : w >= KERNEL_PML4_INDEX => m[pm[t]][w] = vmm_init.mem[kernel_pml4][w]
SpaceTyped ==
    /\ mem \in Memory /\ taken \subseteq Frame /\ leaked \subseteq Frame
    /\ pml4 \in [TaskId -> Nat] /\ kstack \in [TaskId -> Nat] /\ tstate \in [TaskId -> {"none", "new", "ran", "dead"}]
    /\ current \in TaskId /\ pml4[current] # 0 /\ pml4[0] # 0
    /\ \A t \in TaskId : tstate[t] = "none" <=> pml4[t] = 0
SpaceOwned(L, m, tk, lk, pm, kst) ==
    /\ \A f \in KernelTables : m[f] = vmm_init.mem[f]
    /\ \A t \in TaskId : pm[t] # 0 => SpaceTree(L, m, pm, kst, t)
    /\ \A t, u \in TaskId : pm[t] # 0 /\ pm[u] # 0 /\ t # u => FramesOf(L, kst, t) \cap FramesOf(L, kst, u) = {}
    /\ \A t \in TaskId : pm[t] # 0 => FramesOf(L, kst, t) \cap (KernelTables \cup lk) = {}
    /\ KernelTables \cap lk = {}
    /\ \A f : f \in tk <=> f \in KernelTables \/ f \in lk \/ \E t \in TaskId : pm[t] # 0 /\ f \in FramesOf(L, kst, t)
SpaceInv == SpaceTyped /\ \E L : SpaceOwned(L, mem, taken, leaked, pml4, kstack)

\* The kernel's root is one of its tables, and has only entries.
LEMMA KernelRoot ==
    /\ kernel_pml4 \in KernelTables /\ KernelTables \subseteq Frame /\ vmm_init.taken = KernelTables
    /\ \A w \in Word : vmm_init.mem[kernel_pml4][w] \in Nat
<1>1. PICK lev : Tree(vmm_init.mem, lev, 1, FANOUT, kernel_pml4) /\ DOMAIN lev = KernelTables
  BY KernelBuilt
<1>2. PICK m, k : m = vmm_init.mem /\ k = kernel_pml4 /\ Tree(m, lev, 1, FANOUT, k)
  BY <1>1
<1>3. k \in DOMAIN lev /\ DOMAIN lev \subseteq Frame /\ lev[k] = LEVELS /\ LEVELS >= 1
  BY <1>2, Sizes DEF Tree, Leveled
<1>4. \A w \in Word : m[k][w] \in Nat
  BY <1>2, <1>3 DEF Tree, Entries
<1> QED BY <1>1, <1>2, <1>3, <1>4 DEF KernelTables

\* The frames teardown frees, and those a program writes.
LEMMA SpaceFrames ==
    ASSUME NEW L, NEW m, NEW pm, NEW kst, NEW t, SpaceTree(L, m, pm, kst, t)
    PROVE  /\ pgtable_free_tree(m, pm[t]) \cup {kst[t]} = FramesOf(L, kst, t)
           /\ {m[c[1]][c[2]] : c \in CellsBelow(m, pm[t], KERNEL_PML4_INDEX)} \cup {pm[t], kst[t]} = FramesOf(L, kst, t)
           /\ Cardinality(FramesOf(L, kst, t)) = Cardinality(CellsBelow(m, pm[t], KERNEL_PML4_INDEX)) + 2
           /\ pm[t] \in FramesOf(L, kst, t) /\ pm[t] \in Frame /\ FramesOf(L, kst, t) \subseteq Frame
           /\ \A f \in UserFrames(m, pm[t]) : f \in DOMAIN L[t] /\ L[t][f] = 0
<1>1. PICK lev, root, k : lev = L[t] /\ root = pm[t] /\ k = kst[t]
  OBVIOUS
<1>2. Tree(m, lev, 0, KERNEL_PML4_INDEX, root) /\ k \in Frame /\ k \notin DOMAIN lev
  BY <1>1 DEF SpaceTree
<1>3. FramesOf(L, kst, t) = DOMAIN lev \cup {k}
  BY <1>1 DEF FramesOf
<1>4. root \in DOMAIN lev /\ DOMAIN lev \subseteq Frame
  BY <1>2 DEF Tree, Leveled
<1>5. PICK C : C = CellsBelow(m, root, KERNEL_PML4_INDEX)
  OBVIOUS
<1>6. {m[c[1]][c[2]] : c \in C} = DOMAIN lev \ {root} /\ pgtable_free_tree(m, root) = DOMAIN lev
  BY <1>2, <1>5, TreeFrames
<1>7. IsFiniteSet(C) /\ IsFiniteSet(DOMAIN lev) /\ Cardinality(DOMAIN lev) = Cardinality(C) + 1
  BY <1>2, <1>5, CellsCounted
<1>8. Cardinality(DOMAIN lev \cup {k}) = Cardinality(DOMAIN lev) + 1
  BY <1>2, <1>7, FS_AddElement
<1>9. Cardinality(DOMAIN lev \cup {k}) = Cardinality(C) + 2
  <2>1. Cardinality(C) \in Nat
    BY <1>7, FS_CardinalityType
  <2> QED BY <1>7, <1>8, <2>1
<1>10. ASSUME NEW f \in UserFrames(m, root) PROVE f \in DOMAIN lev /\ lev[f] = 0
  <2>1. PICK vp \in 0 .. (NPages \div 2) - 1 : f = pgtable_kva(m, root, vp) /\ f # 0
    BY DEF UserFrames
  <2> QED BY <1>2, <2>1, WalkInTree
<1>11. {m[c[1]][c[2]] : c \in C} \cup {root, k} = DOMAIN lev \cup {k}
  BY <1>4, <1>6
<1>12. pgtable_free_tree(m, pm[t]) \cup {kst[t]} = FramesOf(L, kst, t)
  BY <1>1, <1>3, <1>6
<1>13. {m[c[1]][c[2]] : c \in CellsBelow(m, pm[t], KERNEL_PML4_INDEX)} \cup {pm[t], kst[t]} = FramesOf(L, kst, t)
  BY <1>1, <1>3, <1>5, <1>11
<1>14. Cardinality(FramesOf(L, kst, t)) = Cardinality(CellsBelow(m, pm[t], KERNEL_PML4_INDEX)) + 2
  BY <1>1, <1>3, <1>5, <1>9
<1>15. pm[t] \in FramesOf(L, kst, t) /\ pm[t] \in Frame /\ FramesOf(L, kst, t) \subseteq Frame
  BY <1>1, <1>2, <1>3, <1>4
<1>16. \A f \in UserFrames(m, pm[t]) : f \in DOMAIN L[t] /\ L[t][f] = 0
  BY <1>1, <1>10
<1> QED BY <1>12, <1>13, <1>14, <1>15, <1>16

\* The invariant says that every frame is accounted for ...
LEMMA InvAccounts ==
    ASSUME SpaceInv PROVE FramesAccounted
<1>1. SpaceTyped
  BY DEF SpaceInv
<1>2. PICK L : SpaceOwned(L, mem, taken, leaked, pml4, kstack)
  BY DEF SpaceInv
<1>3. ASSUME NEW t \in LiveSpaces
      PROVE  /\ t \in TaskId /\ pml4[t] # 0 /\ Owned(t) = FramesOf(L, kstack, t)
             /\ Cardinality(FramesOf(L, kstack, t)) = Cardinality(CellsOf(t)) + 2
  <2>1. t \in TaskId /\ pml4[t] # 0
    BY DEF LiveSpaces
  <2>2. SpaceTree(L, mem, pml4, kstack, t)
    BY <1>2, <2>1 DEF SpaceOwned
  <2>3. /\ {mem[c[1]][c[2]] : c \in CellsBelow(mem, pml4[t], KERNEL_PML4_INDEX)} \cup {pml4[t], kstack[t]} = FramesOf(L, kstack, t)
        /\ Cardinality(FramesOf(L, kstack, t)) = Cardinality(CellsBelow(mem, pml4[t], KERNEL_PML4_INDEX)) + 2
    BY <2>2, SpaceFrames
  <2> QED BY <2>1, <2>3 DEF Owned, CellsOf
<1>4. \A t \in TaskId : pml4[t] # 0 => t \in LiveSpaces
  BY DEF LiveSpaces
<1>5. taken = KernelTables \cup leaked \cup UNION {Owned(t) : t \in LiveSpaces}
  <2>1. ASSUME NEW f PROVE f \in taken <=> f \in KernelTables \/ f \in leaked \/ \E t \in LiveSpaces : f \in Owned(t)
    <3>1. f \in taken <=> f \in KernelTables \/ f \in leaked \/ \E t \in TaskId : pml4[t] # 0 /\ f \in FramesOf(L, kstack, t)
      BY <1>2 DEF SpaceOwned
    <3>2. (\E t \in TaskId : pml4[t] # 0 /\ f \in FramesOf(L, kstack, t)) <=> \E t \in LiveSpaces : f \in Owned(t)
      BY <1>3, <1>4
    <3> QED BY <3>1, <3>2
  <2> QED BY <2>1
<1>6. \A t \in LiveSpaces : Cardinality(Owned(t)) = Cardinality(CellsOf(t)) + 2
  BY <1>3
<1>7. \A t, u \in LiveSpaces : t # u => Owned(t) \cap Owned(u) = {}
  BY <1>2, <1>3 DEF SpaceOwned
<1>8. \A t \in LiveSpaces : Owned(t) \cap KernelTables = {}
  BY <1>2, <1>3 DEF SpaceOwned
<1> QED BY <1>5, <1>6, <1>7, <1>8 DEF FramesAccounted

\* ... and that every space maps the kernel.
LEMMA InvMaps ==
    ASSUME SpaceInv PROVE KernelMapped
<1>1. SpaceTyped
  BY DEF SpaceInv
<1>2. PICK L : SpaceOwned(L, mem, taken, leaked, pml4, kstack)
  BY DEF SpaceInv
<1>3. PICK m, k : m = vmm_init.mem /\ k = kernel_pml4
  OBVIOUS
<1>4. PICK lev : /\ Tree(m, lev, 1, FANOUT, k) /\ DOMAIN lev = KernelTables
                 /\ \A vp \in KernelPage : pgtable_kva(m, k, vp) = PhysOf(vp)
  BY <1>3, KernelBuilt
<1>5. ASSUME NEW t \in TaskId, pml4[t] # 0
      PROVE  /\ pml4[t] \in Frame /\ pml4[t] \in FramesOf(L, kstack, t)
             /\ \A w \in Word : w >= KERNEL_PML4_INDEX => mem[pml4[t]][w] = m[k][w]
  <2>1. SpaceTree(L, mem, pml4, kstack, t)
    BY <1>2, <1>5 DEF SpaceOwned
  <2>2. pml4[t] \in Frame /\ pml4[t] \in FramesOf(L, kstack, t)
    BY <2>1, SpaceFrames
  <2> QED BY <1>3, <2>1, <2>2 DEF SpaceTree
<1>6. ASSUME NEW t \in LiveSpaces, NEW vp \in KernelPage PROVE pgtable_kva(mem, pml4[t], vp) = PhysOf(vp)
  <2>1. t \in TaskId /\ pml4[t] # 0
    BY DEF LiveSpaces
  <2>2. PICK base \in Frame : base = pml4[t] /\ \A w \in Word : w >= KERNEL_PML4_INDEX => mem[base][w] = m[k][w]
    BY <1>5, <2>1
  <2>3. \A f \in DOMAIN lev : mem[f] = m[f]
    BY <1>2, <1>3, <1>4 DEF SpaceOwned
  <2>4. pgtable_kva(mem, base, vp) = pgtable_kva(m, k, vp)
    BY <1>4, <2>2, <2>3, KernelSeen
  <2> QED BY <1>4, <2>2, <2>4
<1>7. pml4[current] \in taken
  <2>1. current \in TaskId /\ pml4[current] # 0
    BY <1>1 DEF SpaceTyped
  <2>2. pml4[current] \in FramesOf(L, kstack, current)
    BY <1>5, <2>1
  <2> QED BY <1>2, <2>1, <2>2 DEF SpaceOwned
<1>8. KernelTables \subseteq taken
  BY <1>2 DEF SpaceOwned
<1> QED BY <1>6, <1>7, <1>8 DEF KernelMapped

\* Boot: idle's space.
LEMMA SpaceInitInv ==
    ASSUME SpaceInit PROVE SpaceInv
<1>1. PICK v, s, k : v = vmm_init /\ s = pgtable_create(v, kernel_pml4) /\ k = buddy_alloc_frame(s)
  OBVIOUS
<1>2. /\ mem = s.mem /\ taken = k.taken /\ leaked = {}
      /\ pml4 = [t \in TaskId |-> IF t = 0 THEN s.f ELSE 0]
      /\ kstack = [t \in TaskId |-> IF t = 0 THEN k.f ELSE 0]
      /\ tstate = [t \in TaskId |-> IF t = 0 THEN "ran" ELSE "none"]
      /\ current = 0
  BY <1>1 DEF SpaceInit
<1>3. v \in Call /\ v.taken = KernelTables /\ kernel_pml4 \in v.taken /\ KernelTables \subseteq Frame
  BY <1>1, KernelBuilt, KernelRoot
<1>4. s \in Call
  BY <1>1, <1>3, CreateTable
<1>5. k \in Call /\ (k.ok => s.ok /\ k.f \in Frame \ s.taken /\ k.taken = s.taken \cup {k.f})
  BY <1>1, <1>4, AllocFrame
<1>6. k.ok
  BY <1>1, BootSpaceAssumption
<1>7. s.ok /\ k.f \in Frame \ s.taken /\ k.taken = s.taken \cup {k.f}
  BY <1>5, <1>6
<1>8. /\ s.f \in Frame \ v.taken /\ s.taken = v.taken \cup {s.f}
      /\ \A g \in Frame : g # s.f => s.mem[g] = v.mem[g]
      /\ \A w \in Word : s.mem[s.f][w] = IF w >= KERNEL_PML4_INDEX THEN v.mem[kernel_pml4][w] ELSE 0
  BY <1>1, <1>3, <1>7, CreateTable
<1>9. PICK root, ks : root = s.f /\ ks = k.f
  OBVIOUS
<1>10. /\ root \in Frame /\ root \in Nat /\ root # 0 /\ root \notin KernelTables /\ ks \in Frame /\ ks \in Nat
       /\ ks # root /\ ks \notin KernelTables /\ taken = KernelTables \cup {root, ks} /\ 0 \in TaskId
  BY <1>2, <1>3, <1>7, <1>8, <1>9, Sizes DEF Frame, TaskId
<1>11. /\ pml4 \in [TaskId -> Nat] /\ kstack \in [TaskId -> Nat] /\ pml4[0] = root /\ kstack[0] = ks
       /\ \A t \in TaskId : pml4[t] # 0 <=> t = 0
  BY <1>2, <1>9, <1>10
<1>12. SpaceTyped
  <2>1. mem \in Memory
    BY <1>2, <1>4 DEF Call
  <2>2. taken \subseteq Frame
    BY <1>3, <1>10
  <2>3. tstate \in [TaskId -> {"none", "new", "ran", "dead"}] /\ \A t \in TaskId : tstate[t] = "none" <=> t # 0
    BY <1>2
  <2> QED BY <1>2, <1>10, <1>11, <2>1, <2>2, <2>3 DEF SpaceTyped
<1> DEFINE lev == [x \in {root} |-> LEVELS]
           L == [t \in TaskId |-> lev]
<1>13. DOMAIN lev = {root}
  OBVIOUS
<1>14. Tree(mem, lev, 0, KERNEL_PML4_INDEX, root)
  <2>1. ASSUME NEW w \in Word PROVE mem[root][w] \in Nat /\ (w < KERNEL_PML4_INDEX => mem[root][w] = 0)
    <3>1. w \in Int /\ KERNEL_PML4_INDEX \in Int
      BY Sizes DEF Word
    <3>2. mem[root][w] = IF w >= KERNEL_PML4_INDEX THEN v.mem[kernel_pml4][w] ELSE 0
      BY <1>2, <1>8, <1>9
    <3>3. v.mem[kernel_pml4][w] \in Nat
      BY <1>1, KernelRoot
    <3> QED BY <3>1, <3>2, <3>3
  <2>2. 0 \in {0, 1}
    OBVIOUS
  <2> QED BY <1>10, <2>1, <2>2, EmptyTree
<1> HIDE DEF lev
<1>15. L[0] = lev
  BY <1>10
<1> HIDE DEF L
<1>16. FramesOf(L, kstack, 0) = {root, ks}
  BY <1>11, <1>13, <1>15 DEF FramesOf
<1>17. SpaceTree(L, mem, pml4, kstack, 0)
  <2>1. \A w \in Word : w >= KERNEL_PML4_INDEX => mem[root][w] = vmm_init.mem[kernel_pml4][w]
    BY <1>1, <1>2, <1>8, <1>9
  <2> QED BY <1>10, <1>11, <1>13, <1>14, <1>15, <2>1 DEF SpaceTree
<1>18. \A f \in KernelTables : mem[f] = vmm_init.mem[f]
  BY <1>1, <1>2, <1>3, <1>8, <1>9, <1>10
<1>19. SpaceOwned(L, mem, taken, leaked, pml4, kstack)
  <2>1. \A t \in TaskId : pml4[t] # 0 => SpaceTree(L, mem, pml4, kstack, t)
    BY <1>11, <1>17
  <2>2. \A t, u \in TaskId : pml4[t] # 0 /\ pml4[u] # 0 /\ t # u => FramesOf(L, kstack, t) \cap FramesOf(L, kstack, u) = {}
    BY <1>11
  <2>3. \A t \in TaskId : pml4[t] # 0 => FramesOf(L, kstack, t) \cap (KernelTables \cup leaked) = {}
    BY <1>2, <1>10, <1>11, <1>16
  <2>4. ASSUME NEW f
        PROVE  f \in taken <=> f \in KernelTables \/ f \in leaked \/ \E t \in TaskId : pml4[t] # 0 /\ f \in FramesOf(L, kstack, t)
    BY <1>2, <1>10, <1>11, <1>16
  <2>5. KernelTables \cap leaked = {}
    BY <1>2
  <2> QED BY <1>18, <2>1, <2>2, <2>3, <2>4, <2>5 DEF SpaceOwned
<1> QED BY <1>12, <1>19 DEF SpaceInv

\* What a spawn that finds memory makes.
Spawned(r, lev, root, ks, img, args) ==
    /\ ks \in Frame /\ ks \notin taken /\ Built(r, lev, root, ks, (taken \ leaked) \cup {ks}, mem)
    /\ r.rc = 0 => Exact(r.mem, root, img, args)

\* task_create and load_elf make it.
LEMMA SpawnMakes ==
    ASSUME SpaceInv, NEW img \in Images, NEW args \in ArgWords, NEW read \in 0 .. MaxReads,
           NEW s, s = [Blank EXCEPT !.mem = mem, !.taken = taken, !.leaked = leaked, !.read = read],
           NEW made, made = task_create_space(s),
           NEW r, r = (IF made.ok THEN load_elf(made, made.root, img, args) ELSE made), r.ok
    PROVE  \E lev, root, ks : Spawned(r, lev, root, ks, img, args)
<1>1. mem \in Memory /\ taken \subseteq Frame /\ leaked \subseteq Frame
  BY DEF SpaceInv, SpaceTyped
<1>2. PICK L : SpaceOwned(L, mem, taken, leaked, pml4, kstack)
  BY DEF SpaceInv
<1>3. s \in Call /\ s.mem = mem /\ s.taken = taken /\ s.leaked = leaked
  <2>1. Frame \subseteq Int /\ read \in Int
    BY Sizes DEF Frame
  <2>2. PICK b : b = Blank /\ b \in Call
    BY BlankCall
  <2>3. s = [b EXCEPT !.mem = mem, !.taken = taken, !.leaked = leaked, !.read = read]
    BY <2>2
  <2>4. leaked \subseteq Int
    BY <1>1, <2>1
  <2> QED BY <1>1, <2>1, <2>2, <2>3, <2>4 DEF Call
<1>4. kernel_pml4 \in s.taken /\ s.leaked \subseteq s.taken
  BY <1>2, <1>3, KernelRoot DEF SpaceOwned
<1>5. \A w \in Word : s.mem[kernel_pml4][w] \in Nat
  <2>1. mem[kernel_pml4] = vmm_init.mem[kernel_pml4]
    BY <1>2, KernelRoot DEF SpaceOwned
  <2> QED BY <1>3, <2>1, KernelRoot
<1>6. made.ok /\ r = load_elf(made, made.root, img, args)
  OBVIOUS
<1>7. PICK first, root, ks : /\ ks \in Frame \ s.taken /\ Built(made, first, root, ks, (s.taken \ s.leaked) \cup {ks}, s.mem)
                             /\ Shows(made.mem, root, StackRows(STACK_PAGES))
  BY <1>3, <1>4, <1>5, <1>6, SpaceMade
<1>8. PICK B : B = (taken \ leaked) \cup {ks}
  OBVIOUS
<1>9. Built(made, first, root, ks, B, mem) /\ ks \in Frame /\ ks \notin taken
  BY <1>3, <1>7, <1>8
<1>10. made.root = root
  BY <1>9 DEF Built
<1>11. (\E lev : Built(r, lev, root, ks, B, mem)) /\ (r.rc = 0 => Exact(r.mem, root, img, args))
  BY <1>6, <1>7, <1>9, <1>10, ImageLoaded
<1> QED BY <1>8, <1>9, <1>11 DEF Spawned

\* A spawn that finds memory: the new space owns what was free, or what its own
\* load took and lost.
LEMMA SpawnInv ==
    ASSUME SpaceInv, NEW t \in Slots, NEW img \in Images, NEW args \in ArgWords, NEW read \in 0 .. MaxReads,
           spawn(t, img, args, read)
    PROVE  SpaceInv'
<1>1. SpaceTyped
  BY DEF SpaceInv
<1>2. PICK L : SpaceOwned(L, mem, taken, leaked, pml4, kstack)
  BY DEF SpaceInv
<1>3. PICK s : s = [Blank EXCEPT !.mem = mem, !.taken = taken, !.leaked = leaked, !.read = read]
  OBVIOUS
<1>4. PICK made, r : made = task_create_space(s) /\ r = IF made.ok THEN load_elf(made, made.root, img, args) ELSE made
  OBVIOUS
<1>5. /\ tstate[t] = "none"
      /\ \/ /\ r.ok
            /\ mem' = r.mem /\ taken' = r.taken /\ leaked' = r.leaked
            /\ pml4' = [pml4 EXCEPT ![t] = r.root]
            /\ kstack' = [kstack EXCEPT ![t] = r.ks]
            /\ tstate' = [tstate EXCEPT ![t] = IF r.rc = 0 THEN "new" ELSE "dead"]
            /\ UNCHANGED <<current, halted>>
         \/ UNCHANGED <<mem, taken, leaked, pml4, kstack, tstate, loaded, current>>
  BY <1>3, <1>4 DEF spawn, AndThen
<1>6. CASE UNCHANGED <<mem, taken, leaked, pml4, kstack, tstate, loaded, current>>
  <2>1. SpaceTyped'
    BY <1>1, <1>6 DEF SpaceTyped
  <2>2. SpaceOwned(L, mem, taken, leaked, pml4, kstack)'
    BY <1>2, <1>6
  <2> QED BY <2>1, <2>2 DEF SpaceInv
<1>7. CASE /\ r.ok
           /\ mem' = r.mem /\ taken' = r.taken /\ leaked' = r.leaked
           /\ pml4' = [pml4 EXCEPT ![t] = r.root]
           /\ kstack' = [kstack EXCEPT ![t] = r.ks]
           /\ tstate' = [tstate EXCEPT ![t] = IF r.rc = 0 THEN "new" ELSE "dead"]
           /\ UNCHANGED <<current, halted>>
  <2>1. /\ mem \in Memory /\ taken \subseteq Frame /\ leaked \subseteq Frame
        /\ pml4 \in [TaskId -> Nat] /\ kstack \in [TaskId -> Nat] /\ tstate \in [TaskId -> {"none", "new", "ran", "dead"}]
        /\ current \in TaskId /\ pml4[current] # 0 /\ pml4[0] # 0
        /\ \A u \in TaskId : tstate[u] = "none" <=> pml4[u] = 0
    BY <1>1 DEF SpaceTyped
  <2>3. KernelTables \subseteq taken \ leaked
    BY <1>2 DEF SpaceOwned
  <2>4. mem[kernel_pml4] = vmm_init.mem[kernel_pml4]
    BY <1>2, KernelRoot DEF SpaceOwned
  <2>7. PICK lev, root, ks : Spawned(r, lev, root, ks, img, args)
    BY <1>3, <1>4, <1>7, SpawnMakes
  <2>8. PICK B : B = (taken \ leaked) \cup {ks}
    OBVIOUS
  <2>9. ks \in Frame /\ ks \notin taken
    BY <2>7 DEF Spawned
  <2>11. Built(r, lev, root, ks, B, mem)
    BY <2>7, <2>8 DEF Spawned
  <2>12. /\ r \in Call /\ r.taken = (B \cup r.leaked) \cup DOMAIN lev /\ (B \cup r.leaked) \cap DOMAIN lev = {}
         /\ Tree(r.mem, lev, 0, KERNEL_PML4_INDEX, root)
         /\ B \cap r.leaked = {} /\ r.root = root /\ r.ks = ks
         /\ \A f \in B : r.mem[f] = mem[f]
         /\ \A w \in Word : w >= KERNEL_PML4_INDEX => r.mem[root][w] = mem[kernel_pml4][w]
    BY <2>11 DEF Built, Work
  <2>13. root \in DOMAIN lev /\ root \in Frame /\ root \in Nat /\ root # 0 /\ ks \in Nat /\ t \in TaskId
    BY <2>9, <2>12, Sizes DEF Tree, Leveled, Frame, TaskId
  <2>14. pml4[t] = 0 /\ current # t /\ t # 0
    BY <1>5, <2>1, <2>13
  <2>15. /\ pml4' \in [TaskId -> Nat] /\ pml4'[t] = root /\ \A u \in TaskId : u # t => pml4'[u] = pml4[u]
         /\ kstack' \in [TaskId -> Nat] /\ kstack'[t] = ks /\ \A u \in TaskId : u # t => kstack'[u] = kstack[u]
    BY <1>7, <2>1, <2>12, <2>13
  <2>16. SpaceTyped'
    <3>1. mem' \in Memory /\ taken' \subseteq Frame
      BY <1>7, <2>12 DEF Call
    <3>2. leaked' \subseteq Frame
      BY <1>7, <2>12, <3>1
    <3>3. /\ tstate' \in [TaskId -> {"none", "new", "ran", "dead"}] /\ tstate'[t] # "none"
          /\ \A u \in TaskId : u # t => tstate'[u] = tstate[u]
      BY <1>7, <2>1, <2>13
    <3>4. \A u \in TaskId : tstate'[u] = "none" <=> pml4'[u] = 0
      BY <2>1, <2>13, <2>15, <3>3
    <3>5. current' \in TaskId /\ pml4'[current'] # 0 /\ pml4'[0] # 0
      <4>1. current' = current
        BY <1>7
      <4>2. 0 \in TaskId
        BY DEF TaskId
      <4> QED BY <2>1, <2>14, <2>15, <4>1, <4>2
    <3> QED BY <2>15, <3>1, <3>2, <3>3, <3>4, <3>5 DEF SpaceTyped
  <2> DEFINE M == [u \in TaskId |-> IF u = t THEN lev ELSE L[u]]
  <2>17. M[t] = lev /\ \A u \in TaskId : u # t => M[u] = L[u]
    BY <2>13
  <2> HIDE DEF M
  <2>18. /\ FramesOf(M, kstack', t) = DOMAIN lev \cup {ks}
         /\ \A u \in TaskId : u # t => FramesOf(M, kstack', u) = FramesOf(L, kstack, u)
    BY <2>15, <2>17 DEF FramesOf
  <2>19. ASSUME NEW u \in TaskId, u # t, pml4'[u] # 0
         PROVE  /\ pml4[u] # 0 /\ SpaceTree(L, mem, pml4, kstack, u) /\ FramesOf(L, kstack, u) \subseteq B
                /\ FramesOf(L, kstack, u) \cap KernelTables = {} /\ ks \notin FramesOf(L, kstack, u)
    <3>1. pml4[u] # 0
      BY <2>15, <2>19
    <3>2. SpaceTree(L, mem, pml4, kstack, u) /\ FramesOf(L, kstack, u) \cap (KernelTables \cup leaked) = {}
      BY <1>2, <3>1 DEF SpaceOwned
    <3>3. FramesOf(L, kstack, u) \subseteq taken
      BY <1>2, <3>1 DEF SpaceOwned
    <3> QED BY <2>8, <2>9, <3>1, <3>2, <3>3
  <2>20. ASSUME NEW u \in TaskId, pml4'[u] # 0 PROVE SpaceTree(M, mem', pml4', kstack', u)
    <3>1. CASE u = t
      <4>1. Tree(mem', M[u], 0, KERNEL_PML4_INDEX, pml4'[u])
        BY <1>7, <2>12, <2>15, <2>17, <3>1
      <4>2. kstack'[u] \in Frame /\ kstack'[u] \notin DOMAIN M[u]
        BY <2>8, <2>9, <2>12, <2>15, <2>17, <3>1
      <4>3. \A w \in Word : w >= KERNEL_PML4_INDEX => mem'[pml4'[u]][w] = vmm_init.mem[kernel_pml4][w]
        BY <1>7, <2>4, <2>12, <2>15, <3>1
      <4> QED BY <4>1, <4>2, <4>3 DEF SpaceTree
    <3>2. CASE u # t
      <4>1. PICK lu, ru : lu = L[u] /\ ru = pml4[u]
        OBVIOUS
      <4>2. pml4'[u] = ru /\ kstack'[u] = kstack[u] /\ M[u] = lu
        BY <2>15, <2>17, <3>2, <4>1
      <4>3. /\ Tree(mem, lu, 0, KERNEL_PML4_INDEX, ru) /\ kstack[u] \in Frame /\ kstack[u] \notin DOMAIN lu
            /\ \A w \in Word : w >= KERNEL_PML4_INDEX => mem[ru][w] = vmm_init.mem[kernel_pml4][w]
        BY <2>19, <2>20, <3>2, <4>1 DEF SpaceTree
      <4>4. DOMAIN lu \subseteq B
        BY <2>19, <2>20, <3>2, <4>1 DEF FramesOf
      <4>5. \A f \in DOMAIN lu : mem'[f] = mem[f]
        BY <1>7, <2>12, <4>4
      <4>6. ru \in DOMAIN lu
        BY <4>3 DEF Tree, Leveled
      <4>7. Tree(mem', lu, 0, KERNEL_PML4_INDEX, ru)
        <5>1. PICK n : n = mem'
          OBVIOUS
        <5>2. 0 \in {0, 1} /\ \A f \in DOMAIN lu : lu[f] >= 1 => n[f] = mem[f]
          BY <4>5, <5>1
        <5>3. Tree(n, lu, 0, KERNEL_PML4_INDEX, ru)
          BY <4>3, <5>2, TreeKept
        <5> QED BY <5>1, <5>3
      <4> QED BY <4>2, <4>3, <4>5, <4>6, <4>7 DEF SpaceTree
    <3> QED BY <3>1, <3>2
  <2>21. \A f \in KernelTables : mem'[f] = vmm_init.mem[f]
    <3>1. \A f \in KernelTables : mem[f] = vmm_init.mem[f] /\ f \in B
      BY <1>2, <2>3, <2>8 DEF SpaceOwned
    <3> QED BY <1>7, <2>12, <3>1
  <2>22. ASSUME NEW u \in TaskId, NEW x \in TaskId, pml4'[u] # 0, pml4'[x] # 0, u # x
         PROVE  FramesOf(M, kstack', u) \cap FramesOf(M, kstack', x) = {}
    <3>1. ASSUME NEW y \in TaskId, y # t, pml4'[y] # 0 PROVE FramesOf(M, kstack', t) \cap FramesOf(M, kstack', y) = {}
      <4>1. FramesOf(L, kstack, y) \subseteq B /\ ks \notin FramesOf(L, kstack, y)
        BY <2>19, <3>1
      <4> QED BY <2>12, <2>18, <3>1, <4>1
    <3>2. CASE u = t
      BY <2>22, <3>1, <3>2
    <3>3. CASE x = t
      BY <2>22, <3>1, <3>3
    <3>4. CASE u # t /\ x # t
      <4>1. pml4[u] # 0 /\ pml4[x] # 0
        BY <2>19, <2>22, <3>4
      <4>2. FramesOf(L, kstack, u) \cap FramesOf(L, kstack, x) = {}
        BY <1>2, <2>22, <4>1 DEF SpaceOwned
      <4> QED BY <2>18, <3>4, <4>2
    <3> QED BY <3>2, <3>3, <3>4
  <2>23. ASSUME NEW u \in TaskId, pml4'[u] # 0 PROVE FramesOf(M, kstack', u) \cap (KernelTables \cup leaked') = {}
    <3>1. KernelTables \subseteq B /\ ks \in B /\ ks \notin KernelTables
      BY <2>3, <2>8, <2>9
    <3>2. CASE u = t
      BY <1>7, <2>12, <2>18, <3>1, <3>2
    <3>3. CASE u # t
      <4>1. FramesOf(L, kstack, u) \subseteq B /\ FramesOf(L, kstack, u) \cap KernelTables = {}
        BY <2>19, <2>23, <3>3
      <4> QED BY <1>7, <2>12, <2>18, <3>3, <4>1
    <3> QED BY <3>2, <3>3
  <2>24. KernelTables \cap leaked' = {}
    BY <1>7, <2>3, <2>8, <2>12
  <2>25. ASSUME NEW f
         PROVE  f \in taken' <=> f \in KernelTables \/ f \in leaked' \/ \E u \in TaskId : pml4'[u] # 0 /\ f \in FramesOf(M, kstack', u)
    <3>1. f \in taken' <=> f \in taken \ leaked \/ f = ks \/ f \in leaked' \/ f \in DOMAIN lev
      BY <1>7, <2>8, <2>12
    <3>2. f \in taken \ leaked <=> f \in KernelTables \/ \E u \in TaskId : pml4[u] # 0 /\ f \in FramesOf(L, kstack, u)
      BY <1>2 DEF SpaceOwned
    <3>3. (\E u \in TaskId : pml4'[u] # 0 /\ f \in FramesOf(M, kstack', u)) <=>
          (f \in DOMAIN lev \cup {ks} \/ \E u \in TaskId : pml4[u] # 0 /\ f \in FramesOf(L, kstack, u))
      <4>1. \A u \in TaskId : u # t => (pml4'[u] # 0 /\ f \in FramesOf(M, kstack', u) <=> pml4[u] # 0 /\ f \in FramesOf(L, kstack, u))
        BY <2>15, <2>18
      <4>2. pml4'[t] # 0 /\ pml4[t] = 0 /\ t \in TaskId
        BY <2>13, <2>14, <2>15
      <4> QED BY <2>18, <4>1, <4>2
    <3> QED BY <3>1, <3>2, <3>3
  <2>26. SpaceOwned(M, mem', taken', leaked', pml4', kstack')
    BY <2>20, <2>21, <2>22, <2>23, <2>24, <2>25 DEF SpaceOwned
  <2> QED BY <2>16, <2>26 DEF SpaceInv
<1> QED BY <1>5, <1>6, <1>7

\* The scheduler: the reaper frees what only the dead own, and the next program
\* writes what only it owns.
LEMMA ScheduleInv ==
    ASSUME SpaceInv, NEW next \in TaskId, schedule(next)
    PROVE  SpaceInv'
<1>1. SpaceTyped
  BY DEF SpaceInv
<1>2. PICK L : SpaceOwned(L, mem, taken, leaked, pml4, kstack)
  BY DEF SpaceInv
<1>3. PICK dead : dead = {t \in Slots \ {current} : tstate[t] = "dead"}
  OBVIOUS
<1>4. PICK gone : gone = UNION {pgtable_free_tree(mem, pml4[t]) \cup {kstack[t]} : t \in dead}
  OBVIOUS
<1>5. PICK user : user = IF next = 0 THEN {} ELSE UserFrames(mem, pml4[next])
  OBVIOUS
<1>6. /\ next = 0 \/ tstate[next] \in {"new", "ran"}
      /\ taken' = taken \ gone
      /\ mem' = [f \in Frame |-> IF f \in user THEN [w \in Word |-> DIRTY] ELSE mem[f]]
      /\ pml4' = [t \in TaskId |-> IF t \in dead THEN 0 ELSE pml4[t]]
      /\ kstack' = [t \in TaskId |-> IF t \in dead THEN 0 ELSE kstack[t]]
      /\ tstate' = [t \in TaskId |-> IF t \in dead THEN "none" ELSE IF t = next /\ t # 0 THEN "ran" ELSE tstate[t]]
      /\ current' = next /\ leaked' = leaked
  BY <1>3, <1>4, <1>5 DEF schedule
<1>7. /\ mem \in Memory /\ taken \subseteq Frame /\ leaked \subseteq Frame
      /\ pml4 \in [TaskId -> Nat] /\ kstack \in [TaskId -> Nat] /\ tstate \in [TaskId -> {"none", "new", "ran", "dead"}]
      /\ current \in TaskId /\ pml4[current] # 0 /\ pml4[0] # 0
      /\ \A u \in TaskId : tstate[u] = "none" <=> pml4[u] = 0
  BY <1>1 DEF SpaceTyped
<1>8. 0 \in TaskId /\ 0 \notin dead /\ dead \subseteq TaskId /\ next \notin dead /\ pml4[next] # 0
  <2>1. 0 \in TaskId /\ 0 \notin Slots /\ Slots \subseteq TaskId
    BY AddrSpaceAssumption DEF TaskId
  <2> QED BY <1>3, <1>6, <1>7, <2>1
<1>9. \A u \in dead : pml4[u] # 0
  BY <1>3, <1>7, <1>8
<1>10. /\ pml4' \in [TaskId -> Nat] /\ kstack' \in [TaskId -> Nat]
       /\ \A u \in TaskId : pml4'[u] # 0 <=> u \notin dead /\ pml4[u] # 0
       /\ \A u \in TaskId : u \notin dead => pml4'[u] = pml4[u] /\ kstack'[u] = kstack[u]
  BY <1>6, <1>7
<1>11. ASSUME NEW u \in TaskId, pml4[u] # 0
       PROVE  /\ SpaceTree(L, mem, pml4, kstack, u) /\ FramesOf(L, kstack, u) \subseteq Frame
              /\ pgtable_free_tree(mem, pml4[u]) \cup {kstack[u]} = FramesOf(L, kstack, u)
              /\ \A f \in UserFrames(mem, pml4[u]) : f \in DOMAIN L[u] /\ L[u][f] = 0
              /\ FramesOf(L, kstack, u) \cap (KernelTables \cup leaked) = {}
  <2>1. SpaceTree(L, mem, pml4, kstack, u) /\ FramesOf(L, kstack, u) \cap (KernelTables \cup leaked) = {}
    BY <1>2, <1>11 DEF SpaceOwned
  <2> QED BY <2>1, SpaceFrames
<1>12. \A f : f \in gone <=> \E u \in dead : f \in FramesOf(L, kstack, u)
  <2>1. \A u \in dead : pgtable_free_tree(mem, pml4[u]) \cup {kstack[u]} = FramesOf(L, kstack, u)
    BY <1>8, <1>9, <1>11
  <2>2. gone = UNION {FramesOf(L, kstack, u) : u \in dead}
    BY <1>4, <2>1
  <2> QED BY <2>2
<1>13. \A f \in user : f \in DOMAIN L[next] /\ L[next][f] = 0 /\ f \in FramesOf(L, kstack, next)
  BY <1>5, <1>8, <1>11 DEF FramesOf
<1>14. mem' \in Memory /\ \A f \in Frame : f \notin user => mem'[f] = mem[f]
  <2>1. PICK z : z = [w \in Word |-> DIRTY] /\ z \in [Word -> Int]
    <3>1. DIRTY \in Int
      BY DEF DIRTY
    <3>2. [w \in Word |-> DIRTY] \in [Word -> Int]
      BY <3>1
    <3> QED BY <3>2
  <2>2. mem' = [f \in Frame |-> IF f \in user THEN z ELSE mem[f]]
    BY <1>6, <2>1
  <2> QED BY <1>7, <2>1, <2>2 DEF Memory
<1>15. SpaceTyped'
  <2>1. taken' \subseteq Frame /\ leaked' \subseteq Frame
    BY <1>6, <1>7
  <2>2. tstate' \in [TaskId -> {"none", "new", "ran", "dead"}]
    BY <1>6, <1>7
  <2>3. ASSUME NEW u \in TaskId PROVE tstate'[u] = "none" <=> pml4'[u] = 0
    <3>1. CASE u \in dead
      BY <1>6, <1>10, <3>1
    <3>2. CASE u \notin dead /\ u = next /\ u # 0
      BY <1>6, <1>8, <1>10, <3>2
    <3>3. CASE u \notin dead /\ ~(u = next /\ u # 0)
      BY <1>6, <1>7, <1>10, <3>3
    <3> QED BY <3>1, <3>2, <3>3
  <2>4. current' \in TaskId /\ pml4'[current'] # 0 /\ pml4'[0] # 0
    BY <1>6, <1>7, <1>8, <1>10
  <2> QED BY <1>10, <1>14, <2>1, <2>2, <2>3, <2>4 DEF SpaceTyped
<1>16. \A u \in TaskId : pml4'[u] # 0 => pml4[u] # 0 /\ u \notin dead /\ FramesOf(L, kstack', u) = FramesOf(L, kstack, u)
  BY <1>10 DEF FramesOf
<1>17. ASSUME NEW u \in TaskId, pml4'[u] # 0 PROVE SpaceTree(L, mem', pml4', kstack', u)
  <2>1. PICK lu, ru : lu = L[u] /\ ru = pml4[u]
    OBVIOUS
  <2>2. pml4[u] # 0 /\ pml4'[u] = ru /\ kstack'[u] = kstack[u]
    BY <1>10, <1>16, <1>17, <2>1
  <2>3. /\ Tree(mem, lu, 0, KERNEL_PML4_INDEX, ru) /\ kstack[u] \in Frame /\ kstack[u] \notin DOMAIN lu
        /\ \A w \in Word : w >= KERNEL_PML4_INDEX => mem[ru][w] = vmm_init.mem[kernel_pml4][w]
    BY <1>11, <2>1, <2>2 DEF SpaceTree
  <2>4. ru \in DOMAIN lu /\ lu[ru] = LEVELS /\ LEVELS >= 1 /\ DOMAIN lu \subseteq Frame
    BY <2>3, Sizes DEF Tree, Leveled
  <2>5. ASSUME NEW f \in DOMAIN lu, lu[f] >= 1 PROVE mem'[f] = mem[f]
    <3>1. f \notin user
      <4> SUFFICES ASSUME f \in user PROVE FALSE
        OBVIOUS
      <4>1. f \in FramesOf(L, kstack, next) /\ L[next][f] = 0
        BY <1>13
      <4>2. f \in FramesOf(L, kstack, u)
        BY <2>1 DEF FramesOf
      <4>3. u # next => FramesOf(L, kstack, u) \cap FramesOf(L, kstack, next) = {}
        BY <1>2, <1>8, <2>2 DEF SpaceOwned
      <4>4. u = next
        BY <4>1, <4>2, <4>3
      <4> QED BY <2>1, <2>5, <4>1, <4>4
    <3> QED BY <1>14, <2>4, <3>1
  <2>6. Tree(mem', lu, 0, KERNEL_PML4_INDEX, ru)
    <3>1. PICK n : n = mem'
      OBVIOUS
    <3>2. 0 \in {0, 1} /\ \A f \in DOMAIN lu : lu[f] >= 1 => n[f] = mem[f]
      BY <2>5, <3>1
    <3>3. Tree(n, lu, 0, KERNEL_PML4_INDEX, ru)
      BY <2>3, <3>2, TreeKept
    <3> QED BY <3>1, <3>3
  <2>7. mem'[ru] = mem[ru]
    BY <2>4, <2>5
  <2> QED BY <2>1, <2>2, <2>3, <2>6, <2>7 DEF SpaceTree
<1>18. \A f \in KernelTables : mem'[f] = vmm_init.mem[f]
  <2>1. FramesOf(L, kstack, next) \cap KernelTables = {}
    BY <1>8, <1>11
  <2>2. \A f \in KernelTables : mem[f] = vmm_init.mem[f]
    BY <1>2 DEF SpaceOwned
  <2> QED BY <1>13, <1>14, <2>1, <2>2, KernelRoot
<1>19. \A u, x \in TaskId : pml4'[u] # 0 /\ pml4'[x] # 0 /\ u # x => FramesOf(L, kstack', u) \cap FramesOf(L, kstack', x) = {}
  BY <1>2, <1>16 DEF SpaceOwned
<1>20. \A u \in TaskId : pml4'[u] # 0 => FramesOf(L, kstack', u) \cap (KernelTables \cup leaked') = {}
  BY <1>6, <1>11, <1>16
<1>21. KernelTables \cap leaked' = {}
  BY <1>2, <1>6 DEF SpaceOwned
<1>22. ASSUME NEW f
       PROVE  f \in taken' <=> f \in KernelTables \/ f \in leaked' \/ \E u \in TaskId : pml4'[u] # 0 /\ f \in FramesOf(L, kstack', u)
  <2>1. f \in taken <=> f \in KernelTables \/ f \in leaked \/ \E u \in TaskId : pml4[u] # 0 /\ f \in FramesOf(L, kstack, u)
    BY <1>2 DEF SpaceOwned
  <2>2. f \in taken' <=> f \in taken /\ ~\E u \in dead : f \in FramesOf(L, kstack, u)
    BY <1>6, <1>12
  <2>3. ASSUME NEW u \in dead, f \in FramesOf(L, kstack, u)
        PROVE  f \notin KernelTables /\ f \notin leaked /\ \A x \in TaskId : x # u /\ pml4[x] # 0 => f \notin FramesOf(L, kstack, x)
    <3>1. u \in TaskId /\ pml4[u] # 0
      BY <1>8, <1>9
    <3>2. FramesOf(L, kstack, u) \cap (KernelTables \cup leaked) = {}
      BY <1>11, <3>1
    <3>3. \A x \in TaskId : x # u /\ pml4[x] # 0 => FramesOf(L, kstack, u) \cap FramesOf(L, kstack, x) = {}
      BY <1>2, <3>1 DEF SpaceOwned
    <3> QED BY <2>3, <3>2, <3>3
  <2>4. \A u \in TaskId : pml4'[u] # 0 /\ f \in FramesOf(L, kstack', u) <=> u \notin dead /\ pml4[u] # 0 /\ f \in FramesOf(L, kstack, u)
    BY <1>10, <1>16
  <2>5. CASE \E u \in dead : f \in FramesOf(L, kstack, u)
    <3>1. PICK u \in dead : f \in FramesOf(L, kstack, u)
      BY <2>5
    <3>2. f \notin taken'
      BY <2>2, <2>5
    <3>3. f \notin KernelTables /\ f \notin leaked' /\ \A x \in TaskId : x # u /\ pml4[x] # 0 => f \notin FramesOf(L, kstack, x)
      BY <1>6, <2>3, <3>1
    <3> QED BY <2>4, <3>1, <3>2, <3>3
  <2>6. CASE ~\E u \in dead : f \in FramesOf(L, kstack, u)
    <3>1. f \in taken' <=> f \in taken
      BY <2>2, <2>6
    <3> QED BY <1>6, <2>1, <2>4, <2>6, <3>1
  <2> QED BY <2>5, <2>6
<1>23. SpaceOwned(L, mem', taken', leaked', pml4', kstack')
  BY <1>17, <1>18, <1>19, <1>20, <1>21, <1>22 DEF SpaceOwned
<1> QED BY <1>15, <1>23 DEF SpaceInv

\* Every step keeps the invariant.
LEMMA SpaceStep ==
    ASSUME SpaceInv, [SpaceNext]_spaceVars PROVE SpaceInv'
<1>1. CASE UNCHANGED spaceVars
  <2>1. SpaceTyped'
    BY <1>1 DEF SpaceInv, SpaceTyped, spaceVars
  <2>2. PICK L : SpaceOwned(L, mem, taken, leaked, pml4, kstack)
    BY DEF SpaceInv
  <2>3. SpaceOwned(L, mem', taken', leaked', pml4', kstack')
    BY <1>1, <2>2 DEF spaceVars
  <2> QED BY <2>1, <2>3 DEF SpaceInv
<1>2. CASE \E t \in Slots, img \in Images, args \in ArgWords, read \in 0 .. MaxReads : spawn(t, img, args, read)
  BY <1>2, SpawnInv
<1>3. CASE exit_task
  <2>1. /\ tstate[current] = "ran" /\ tstate' = [tstate EXCEPT ![current] = "dead"]
        /\ UNCHANGED <<mem, taken, leaked, pml4, kstack, current>>
    BY <1>3 DEF exit_task
  <2>2. SpaceTyped'
    <3>1. SpaceTyped
      BY DEF SpaceInv
    <3>2. tstate' \in [TaskId -> {"none", "new", "ran", "dead"}] /\ \A u \in TaskId : tstate'[u] = "none" <=> tstate[u] = "none"
      BY <2>1, <3>1 DEF SpaceTyped
    <3> QED BY <2>1, <3>1, <3>2 DEF SpaceTyped
  <2>3. PICK L : SpaceOwned(L, mem, taken, leaked, pml4, kstack)
    BY DEF SpaceInv
  <2>4. SpaceOwned(L, mem', taken', leaked', pml4', kstack')
    BY <2>1, <2>3
  <2> QED BY <2>2, <2>4 DEF SpaceInv
<1>4. CASE \E t \in TaskId : schedule(t)
  BY <1>4, ScheduleInv
<1> QED BY <1>1, <1>2, <1>3, <1>4 DEF SpaceNext

\* The invariant holds throughout.
LEMMA SpaceInvariant == SpaceSpec => []SpaceInv
<1>1. SpaceInit => SpaceInv
  BY SpaceInitInv
<1>2. SpaceInv /\ [SpaceNext]_spaceVars => SpaceInv'
  BY SpaceStep
<1> QED BY <1>1, <1>2, PTL DEF SpaceSpec

\* Every frame in use has one owner: loads that fail half way, reaping and reuse
\* lose nothing but the frames that overlapping segments replace, free nothing
\* that is mapped, and put no frame into two spaces (task_create, load_elf,
\* vmm_alloc, pgtable_free_tree), for any table size, depth, number of tasks and
\* program files.
THEOREM FramesStayAccounted == SpaceSpec => []FramesAccounted
<1>1. SpaceInv => FramesAccounted
  BY InvAccounts
<1> QED BY <1>1, SpaceInvariant, PTL

\* Every space, the one the processor runs in among them, maps the kernel's pages
\* all the time: creating, loading, running and reaping spaces neither frees nor
\* changes the shared tables (pgtable_create, pgtable_free_tree, vmm_init).
THEOREM KernelStaysMapped == SpaceSpec => []KernelMapped
<1>1. SpaceInv => KernelMapped
  BY InvMaps
<1> QED BY <1>1, SpaceInvariant, PTL

-----------------------------------------------------------------------------
(* Address spaces: a program starts with what its file says *)

\* A space whose frames are left alone shows what it did.
LEMMA ExactKept ==
    ASSUME NEW m, NEW lev, NEW root, Tree(m, lev, 0, KERNEL_PML4_INDEX, root),
           NEW n, \A f \in DOMAIN lev : n[f] = m[f], NEW img, NEW args, Exact(m, root, img, args)
    PROVE  Exact(n, root, img, args)
<1> SUFFICES ASSUME NEW vp \in 0 .. (NPages \div 2) - 1
             PROVE  LET frame == pgtable_kva(n, root, vp)
                    IN  IF Over(img, vp) = {} /\ vp < StackBase THEN frame = 0
                        ELSE frame # 0 /\ \A w \in Word : n[frame][w] = Due(img, args, vp, w)
  BY DEF Exact
<1>1. pgtable_kva(n, root, vp) = pgtable_kva(m, root, vp)
  BY KvaKept
<1>2. PICK g : g = pgtable_kva(m, root, vp)
  OBVIOUS
<1>3. g # 0 => g \in DOMAIN lev
  BY <1>2, WalkInTree
<1>4. IF Over(img, vp) = {} /\ vp < StackBase THEN g = 0
      ELSE g # 0 /\ \A w \in Word : m[g][w] = Due(img, args, vp, w)
  BY <1>2 DEF Exact
<1> QED BY <1>1, <1>2, <1>3, <1>4

\* The files of the tasks are known.
ImageInv == SpaceInv /\ ImageExact /\ loaded = [t \in Slots |-> loaded[t]]

\* A spawn: the new program is exact, those that wait are left alone.
LEMMA SpawnImage ==
    ASSUME ImageInv, NEW t \in Slots, NEW img \in Images, NEW args \in ArgWords, NEW read \in 0 .. MaxReads,
           spawn(t, img, args, read)
    PROVE  ImageExact' /\ (loaded = [x \in Slots |-> loaded[x]])'
<1>1. SpaceInv /\ ImageExact /\ loaded = [x \in Slots |-> loaded[x]]
  BY DEF ImageInv
<1>2. PICK L : SpaceOwned(L, mem, taken, leaked, pml4, kstack)
  BY <1>1 DEF SpaceInv
<1>3. PICK s : s = [Blank EXCEPT !.mem = mem, !.taken = taken, !.leaked = leaked, !.read = read]
  OBVIOUS
<1>4. PICK made, r : made = task_create_space(s) /\ r = IF made.ok THEN load_elf(made, made.root, img, args) ELSE made
  OBVIOUS
<1>5. \/ /\ r.ok
         /\ mem' = r.mem
         /\ pml4' = [pml4 EXCEPT ![t] = r.root]
         /\ tstate' = [tstate EXCEPT ![t] = IF r.rc = 0 THEN "new" ELSE "dead"]
         /\ loaded' = [loaded EXCEPT ![t] = [img |-> img, args |-> args]]
      \/ UNCHANGED <<mem, pml4, tstate, loaded>>
  BY <1>3, <1>4 DEF spawn, AndThen
<1>6. CASE UNCHANGED <<mem, pml4, tstate, loaded>>
  BY <1>1, <1>6 DEF ImageExact
<1>7. CASE /\ r.ok
           /\ mem' = r.mem
           /\ pml4' = [pml4 EXCEPT ![t] = r.root]
           /\ tstate' = [tstate EXCEPT ![t] = IF r.rc = 0 THEN "new" ELSE "dead"]
           /\ loaded' = [loaded EXCEPT ![t] = [img |-> img, args |-> args]]
  <2>1. PICK lev, root, ks : Spawned(r, lev, root, ks, img, args)
    BY <1>1, <1>3, <1>4, <1>7, SpawnMakes
  <2>2. PICK B : B = (taken \ leaked) \cup {ks}
    OBVIOUS
  <2>3. /\ r.root = root /\ (r.rc = 0 => Exact(r.mem, root, img, args)) /\ \A f \in B : r.mem[f] = mem[f]
    BY <2>1, <2>2 DEF Spawned, Built
  <2>4. /\ pml4 \in [TaskId -> Nat] /\ tstate \in [TaskId -> {"none", "new", "ran", "dead"}] /\ Slots \subseteq TaskId
        /\ \A u \in TaskId : tstate[u] = "none" <=> pml4[u] = 0
    BY <1>1 DEF SpaceInv, SpaceTyped, TaskId
  <2>5. PICK l : l = [img |-> img, args |-> args] /\ l.img = img /\ l.args = args
    <3>1. PICK l : l = [img |-> img, args |-> args]
      OBVIOUS
    <3>2. l.img = img /\ l.args = args
      BY <3>1
    <3> QED BY <3>1, <3>2
  <2>6. /\ pml4'[t] = root /\ \A u \in Slots : u # t => pml4'[u] = pml4[u]
        /\ tstate'[t] = "new" => r.rc = 0
        /\ \A u \in Slots : u # t => tstate'[u] = tstate[u]
    BY <1>7, <2>3, <2>4
  <2>7. loaded'[t] = l /\ (\A u \in Slots : u # t => loaded'[u] = loaded[u]) /\ loaded' = [x \in Slots |-> loaded'[x]]
    <3>1. loaded' = [loaded EXCEPT ![t] = l]
      BY <1>7, <2>5
    <3> QED BY <1>1, <3>1
  <2>8. ASSUME NEW u \in Slots, tstate'[u] = "new" PROVE Exact(mem', pml4'[u], loaded'[u].img, loaded'[u].args)
    <3>1. CASE u = t
      <4>1. r.rc = 0 /\ Exact(r.mem, root, img, args)
        BY <2>3, <2>6, <2>8, <3>1
      <4>2. mem' = r.mem /\ pml4'[u] = root /\ loaded'[u].img = img /\ loaded'[u].args = args
        BY <1>7, <2>5, <2>6, <2>7, <3>1
      <4> QED BY <4>1, <4>2
    <3>2. CASE u # t
      <4>1. tstate[u] = "new" /\ pml4'[u] = pml4[u] /\ loaded'[u] = loaded[u] /\ u \in TaskId
        BY <2>4, <2>6, <2>7, <2>8, <3>2
      <4>2. PICK ru, lu, m, n, i, a : ru = pml4[u] /\ lu = L[u] /\ m = mem /\ n = mem' /\ i = loaded[u].img /\ a = loaded[u].args
        OBVIOUS
      <4>3. ru # 0
        BY <2>4, <4>1, <4>2
      <4>4. Exact(m, ru, i, a)
        BY <1>1, <4>1, <4>2 DEF ImageExact
      <4>5. Tree(m, lu, 0, KERNEL_PML4_INDEX, ru)
        BY <1>2, <4>1, <4>2, <4>3 DEF SpaceOwned, SpaceTree
      <4>6. DOMAIN lu \subseteq taken \ leaked
        BY <1>2, <4>1, <4>2, <4>3 DEF SpaceOwned, FramesOf
      <4>7. \A f \in DOMAIN lu : n[f] = m[f]
        BY <1>7, <2>2, <2>3, <4>2, <4>6
      <4>8. Exact(n, ru, i, a)
        BY <4>4, <4>5, <4>7, ExactKept
      <4> QED BY <4>1, <4>2, <4>8
    <3> QED BY <3>1, <3>2
  <2> QED BY <2>7, <2>8 DEF ImageExact
<1> QED BY <1>5, <1>6, <1>7

\* The scheduler: the program that runs is no longer new, and it writes its own
\* frames only.
LEMMA ScheduleImage ==
    ASSUME ImageInv, NEW next \in TaskId, schedule(next)
    PROVE  ImageExact' /\ (loaded = [x \in Slots |-> loaded[x]])'
<1>1. SpaceInv /\ ImageExact
  BY DEF ImageInv
<1>2. PICK L : SpaceOwned(L, mem, taken, leaked, pml4, kstack)
  BY <1>1 DEF SpaceInv
<1>3. PICK dead : dead = {t \in Slots \ {current} : tstate[t] = "dead"}
  OBVIOUS
<1>4. PICK user : user = IF next = 0 THEN {} ELSE UserFrames(mem, pml4[next])
  OBVIOUS
<1>5. /\ next = 0 \/ tstate[next] \in {"new", "ran"}
      /\ mem' = [f \in Frame |-> IF f \in user THEN [w \in Word |-> DIRTY] ELSE mem[f]]
      /\ pml4' = [t \in TaskId |-> IF t \in dead THEN 0 ELSE pml4[t]]
      /\ tstate' = [t \in TaskId |-> IF t \in dead THEN "none" ELSE IF t = next /\ t # 0 THEN "ran" ELSE tstate[t]]
      /\ loaded' = [t \in Slots |-> IF t \in dead THEN NoImage ELSE loaded[t]]
  BY <1>3, <1>4 DEF schedule
<1>6. Slots \subseteq TaskId /\ 0 \notin Slots /\ pml4[0] # 0 /\ \A u \in TaskId : tstate[u] = "none" <=> pml4[u] = 0
  BY <1>1, AddrSpaceAssumption DEF SpaceInv, SpaceTyped, TaskId
<1>7. pml4[next] # 0
  BY <1>5, <1>6
<1>8. \A f \in user : f \in FramesOf(L, kstack, next)
  <2>1. SpaceTree(L, mem, pml4, kstack, next)
    BY <1>2, <1>7 DEF SpaceOwned
  <2>2. \A f \in UserFrames(mem, pml4[next]) : f \in DOMAIN L[next] /\ L[next][f] = 0
    BY <2>1, SpaceFrames
  <2> QED BY <1>4, <2>2 DEF FramesOf
<1>9. loaded' = [x \in Slots |-> loaded'[x]]
  BY <1>5
<1>10. ASSUME NEW u \in Slots, tstate'[u] = "new" PROVE Exact(mem', pml4'[u], loaded'[u].img, loaded'[u].args)
  <2>1. u \in TaskId /\ u # 0
    BY <1>6
  <2>2. u \notin dead /\ u # next /\ tstate[u] = "new"
    BY <1>5, <1>10, <2>1
  <2>3. pml4'[u] = pml4[u] /\ loaded'[u] = loaded[u] /\ pml4[u] # 0
    BY <1>5, <1>6, <2>1, <2>2
  <2>4. PICK ru, lu, m, n, i, a : ru = pml4[u] /\ lu = L[u] /\ m = mem /\ n = mem' /\ i = loaded[u].img /\ a = loaded[u].args
    OBVIOUS
  <2>5. Exact(m, ru, i, a)
    BY <1>1, <2>2, <2>4 DEF ImageExact
  <2>6. Tree(m, lu, 0, KERNEL_PML4_INDEX, ru)
    BY <1>2, <2>1, <2>3, <2>4 DEF SpaceOwned, SpaceTree
  <2>7. FramesOf(L, kstack, u) \cap FramesOf(L, kstack, next) = {}
    BY <1>2, <1>7, <2>1, <2>2, <2>3 DEF SpaceOwned
  <2>8. ASSUME NEW f \in DOMAIN lu PROVE n[f] = m[f]
    <3>1. f \in FramesOf(L, kstack, u) /\ f \in Frame
      BY <2>4, <2>6 DEF FramesOf, Tree, Leveled
    <3>2. f \notin user
      BY <1>8, <2>7, <3>1
    <3> QED BY <1>5, <2>4, <3>1, <3>2
  <2>9. Exact(n, ru, i, a)
    BY <2>5, <2>6, <2>8, ExactKept
  <2> QED BY <2>3, <2>4, <2>9
<1> QED BY <1>9, <1>10 DEF ImageExact

\* Every step keeps the programs.
LEMMA ImageStep ==
    ASSUME ImageInv, [SpaceNext]_spaceVars PROVE ImageInv'
<1>1. SpaceInv'
  BY SpaceStep DEF ImageInv
<1>2. ImageExact' /\ (loaded = [x \in Slots |-> loaded[x]])'
  <2>1. CASE UNCHANGED spaceVars
    BY <2>1 DEF ImageInv, ImageExact, spaceVars
  <2>2. CASE \E t \in Slots, img \in Images, args \in ArgWords, read \in 0 .. MaxReads : spawn(t, img, args, read)
    BY <2>2, SpawnImage
  <2>3. CASE exit_task
    <3>1. tstate' = [tstate EXCEPT ![current] = "dead"] /\ UNCHANGED <<mem, pml4, loaded>>
      BY <2>3 DEF exit_task
    <3>2. tstate \in [TaskId -> {"none", "new", "ran", "dead"}] /\ Slots \subseteq TaskId
      BY DEF ImageInv, SpaceInv, SpaceTyped, TaskId
    <3>3. \A u \in Slots : tstate'[u] = "new" => tstate[u] = "new"
      BY <3>1, <3>2
    <3> QED BY <3>1, <3>3 DEF ImageInv, ImageExact
  <2>4. CASE \E t \in TaskId : schedule(t)
    BY <2>4, ScheduleImage
  <2> QED BY <2>1, <2>2, <2>3, <2>4 DEF SpaceNext
<1> QED BY <1>1, <1>2 DEF ImageInv

\* A program starts with what its file says, whatever ran in its frames before:
\* each word of a page that a segment covers is the file's or 0 (of overlapping
\* segments the last one's), the stack is 0 below the arguments, no other user page
\* is mapped; and neither a later load nor a program that runs meanwhile touches it
\* (load_elf, vmm_alloc, setup_user_stack).
THEOREM ImagesStayExact == SpaceSpec => []ImageExact
<1>1. SpaceInit => ImageInv
  <2> SUFFICES ASSUME SpaceInit PROVE ImageInv
    OBVIOUS
  <2>1. SpaceInv
    BY SpaceInitInv
  <2>2. tstate = [t \in TaskId |-> IF t = 0 THEN "ran" ELSE "none"] /\ loaded = [t \in Slots |-> NoImage]
    BY DEF SpaceInit
  <2>3. \A t \in Slots : tstate[t] # "new"
    BY <2>2 DEF TaskId
  <2> QED BY <2>1, <2>2, <2>3 DEF ImageInv, ImageExact
<1>2. ImageInv /\ [SpaceNext]_spaceVars => ImageInv'
  BY ImageStep
<1>3. ImageInv => ImageExact
  BY DEF ImageInv
<1> QED BY <1>1, <1>2, <1>3, PTL DEF SpaceSpec

=============================================================================
