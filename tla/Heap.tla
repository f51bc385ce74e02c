-------------------------------- MODULE Heap --------------------------------
(***************************************************************************)
(* The kernel heap: lizard/slab.c and lizard/kmalloc.c on top of the page- *)
(* frame allocator, of which only the promise of FramePool is used.  Every *)
(* call is one step, as it is for system calls, interrupts and boot.       *)
(*                                                                         *)
(* A slab lives at the start of its block, so the block names it.  A slab  *)
(* is on one list at a time, list_move taking it off the old one: on[b]    *)
(* says which.  The freelist of a slab is the set of its free objects.     *)
(* kmalloc_init has run: the caches exist, and have no slab yet.           *)
(***************************************************************************)
EXTENDS Integers, FiniteSets

CONSTANTS
    Cache,              \* the caches of kmalloc_cache_list
    object_size,        \* object_size[c]: the size a cache is for
    objects_per_slab,   \* objects_per_slab[c]
    FrameBlock,         \* the blocks of the page-frame allocator
    span,               \* span[b]: the pages of block b
    slab_blocks,        \* slab_blocks[c]: the blocks of order cache->order
    Request,            \* the sizes callers ask kmalloc for
    MAX_FREE_SLABS,
    NULL

ASSUME HeapAssumption ==
    /\ IsFiniteSet(FrameBlock)
    /\ object_size \in [Cache -> Nat]
    /\ objects_per_slab \in [Cache -> Nat \ {0}]
    /\ slab_blocks \in [Cache -> SUBSET FrameBlock]
    /\ MAX_FREE_SLABS \in Nat
    /\ NULL \notin Cache
    /\ \A b \in FrameBlock : span[b] # {}
    /\ Request \subseteq Nat

VARIABLES
    pool, frames,       \* the page-frame allocator: its pages, the blocks in use
    cache,              \* slab->cache while slab->magic is valid, NULL otherwise
    on,                 \* the list a slab is on
    freelist,           \* slab->freelist
    in_use, free,       \* slab->in_use, slab->free
    free_slab_count,    \* cache->free_slab_count
    objects             \* the objects callers have and have not freed

slabVars == <<cache, on, freelist, in_use, free, free_slab_count, objects>>
heapVars == <<pool, frames, slabVars>>

Frames == INSTANCE FramePool WITH Block <- FrameBlock, held <- frames

Slabs(c, list) == {b \in FrameBlock : cache[b] = c /\ on[b] = list}
Objects(c) == 0..(objects_per_slab[c] - 1)

-----------------------------------------------------------------------------
(* Allocation *)

\* Mutation: the object handed out stays on the freelist.
Take_again(b, room, used, left) ==
    \E o \in room :
        /\ freelist' = [freelist EXCEPT ![b] = room]
        /\ in_use' = [in_use EXCEPT ![b] = used + 1]
        /\ free' = [free EXCEPT ![b] = left - 1]
        /\ on' = [on EXCEPT ![b] = IF left - 1 = 0 THEN "full" ELSE "partial"]
        /\ objects' = objects \cup {<<b, o>>}

\* The end of kmemcache_alloc: slab b, with `room' on its freelist, `used'
\* objects in use and `left' free ones, gives one.
Take(b, room, used, left) ==
    \E o \in room :
        /\ freelist' = [freelist EXCEPT ![b] = room \ {o}]
        /\ in_use' = [in_use EXCEPT ![b] = used + 1]
        /\ free' = [free EXCEPT ![b] = left - 1]
        /\ on' = [on EXCEPT ![b] = IF left - 1 = 0 THEN "full" ELSE "partial"]
        /\ objects' = objects \cup {<<b, o>>}

TakeFrom(b) == Take(b, freelist[b], in_use[b], free[b])

AllocPartial(c) ==
    /\ \E b \in Slabs(c, "partial") : TakeFrom(b)
    /\ UNCHANGED <<pool, frames, cache, free_slab_count>>

\* Mutation: the counter is not told that a free slab is used again.
AllocFree_uncounted(c) ==
    /\ Slabs(c, "partial") = {}
    /\ \E b \in Slabs(c, "free") : TakeFrom(b)
    /\ UNCHANGED <<pool, frames, cache, free_slab_count>>

AllocFree(c) ==
    /\ Slabs(c, "partial") = {}
    /\ \E b \in Slabs(c, "free") : TakeFrom(b)
    /\ free_slab_count' = [free_slab_count EXCEPT ![c] = @ - 1]
    /\ UNCHANGED <<pool, frames, cache>>

\* slab_create; a failing buddy_alloc makes the call return NULL, a
\* stuttering step.
slab_create(c) ==
    /\ Slabs(c, "partial") = {} /\ Slabs(c, "free") = {}
    /\ \E b \in slab_blocks[c] :
         /\ Frames!Give(b)
         /\ cache' = [cache EXCEPT ![b] = c]
         /\ Take(b, Objects(c), 0, objects_per_slab[c])
    /\ UNCHANGED free_slab_count

kmemcache_alloc(c) == AllocPartial(c) \/ AllocFree(c) \/ slab_create(c)

\* The smallest cache that fits.  (kmalloc panics when there is none.)
best(c, size) ==
    /\ object_size[c] >= size
    /\ \A d \in Cache : object_size[d] >= size => object_size[c] <= object_size[d]

kmalloc(size) == \E c \in Cache : best(c, size) /\ kmemcache_alloc(c)

-----------------------------------------------------------------------------
(* Release *)

\* Mutation: the slab is taken for unused while its last object is live.
Unused_early(used) == used <= 2
\* slab->in_use == 0, after the decrement.
Unused(used) == used - 1 = 0

KeepsSlab(c) == free_slab_count[c] < MAX_FREE_SLABS

\* Mutation: a full slab stays on the full list.
FreedList_stuck(b) == on[b]
\* The list of a slab that has one more free object and stays in use.
FreedList(b) == IF free[b] + 1 = 1 THEN "partial" ELSE on[b]

\* kmemcache_free of object o of slab b; an unused slab is kept, up to the
\* limit, or destroyed: slab_destroy clears the magic and frees the block.
kmemcache_free(b, o) ==
    LET c == cache[b]
        keeps == ~Unused(in_use[b]) \/ KeepsSlab(c)
    IN  /\ <<b, o>> \in objects
        /\ objects' = objects \ {<<b, o>>}
        /\ freelist' = [freelist EXCEPT ![b] = IF keeps THEN @ \cup {o} ELSE {}]
        /\ in_use' = [in_use EXCEPT ![b] = IF keeps THEN @ - 1 ELSE 0]
        /\ free' = [free EXCEPT ![b] = IF keeps THEN @ + 1 ELSE 0]
        /\ on' = [on EXCEPT ![b] = IF ~keeps THEN "none"
                                   ELSE IF Unused(in_use[b]) THEN "free"
                                   ELSE FreedList(b)]
        /\ cache' = [cache EXCEPT ![b] = IF keeps THEN @ ELSE NULL]
        /\ free_slab_count' = [free_slab_count EXCEPT
                                 ![c] = IF Unused(in_use[b]) /\ keeps THEN @ + 1 ELSE @]
        /\ IF keeps THEN UNCHANGED <<pool, frames>> ELSE Frames!TakeBack(b)

\* kfree: the magic of the slab tells a heap object.  (Otherwise it panics.)
kfree(b, o) == cache[b] # NULL /\ kmemcache_free(b, o)

-----------------------------------------------------------------------------
\* The other users of buddy_alloc and buddy_free: stacks, tables, images.
OtherAlloc(b) == Frames!Give(b) /\ UNCHANGED slabVars
OtherFree(b) == cache[b] = NULL /\ Frames!TakeBack(b) /\ UNCHANGED slabVars

HeapInit ==
    /\ pool = UNION {span[b] : b \in FrameBlock}
    /\ frames = {}
    /\ cache = [b \in FrameBlock |-> NULL]
    /\ on = [b \in FrameBlock |-> "none"]
    /\ freelist = [b \in FrameBlock |-> {}]
    /\ in_use = [b \in FrameBlock |-> 0]
    /\ free = [b \in FrameBlock |-> 0]
    /\ free_slab_count = [c \in Cache |-> 0]
    /\ objects = {}

HeapNext ==
    \/ \E size \in Request : kmalloc(size)
    \/ \E b \in FrameBlock : \E o \in 0..in_use[b] + free[b] : kfree(b, o)
    \/ \E b \in FrameBlock : OtherAlloc(b) \/ OtherFree(b)

HeapSpec == HeapInit /\ [][HeapNext]_heapVars

-----------------------------------------------------------------------------
(* Properties *)

HeapTypeOK ==
    /\ frames \in SUBSET FrameBlock
    /\ cache \in [FrameBlock -> Cache \cup {NULL}]
    /\ on \in [FrameBlock -> {"none", "full", "partial", "free"}]
    /\ freelist \in [FrameBlock -> SUBSET Nat]
    /\ in_use \in [FrameBlock -> Nat] /\ free \in [FrameBlock -> Nat]
    /\ free_slab_count \in [Cache -> 0..MAX_FREE_SLABS]
    /\ objects \in SUBSET (FrameBlock \X Nat)

Used(b, c) == {o \in Objects(c) : <<b, o>> \in objects}

\* No object is lost and none has two users: the objects of a live slab are
\* split between its freelist and its callers, and the two counters agree
\* with that split (kmemcache_alloc, kmemcache_free).
ObjectsSplit ==
    \A b \in FrameBlock : cache[b] # NULL =>
        /\ freelist[b] = Objects(cache[b]) \ Used(b, cache[b])
        /\ in_use[b] = Cardinality(Used(b, cache[b]))
        /\ free[b] = objects_per_slab[cache[b]] - in_use[b]

\* A slab is on the list its objects call for, so an allocation never finds a
\* partial slab without a free object nor overlooks one that has some.
SlabsListed ==
    \A b \in FrameBlock :
        on[b] = IF cache[b] = NULL THEN "none"
                ELSE IF free[b] = 0 THEN "full"
                ELSE IF in_use[b] = 0 THEN "free"
                ELSE "partial"

\* The memory of a live object belongs to a live slab (so kfree does not
\* panic) and to nobody else: slab_destroy never gives away a block in use.
ObjectsPrivate ==
    \A x \in objects :
        /\ cache[x[1]] # NULL /\ x[2] \in Objects(cache[x[1]])
        /\ x[1] \in frames
        /\ \A f \in frames : f # x[1] => span[f] \cap span[x[1]] = {}

\* free_slab_count is the length of slabs_free: were it to drift, the limit
\* would let slabs pile up or destroy them needlessly.
FreeSlabsCounted ==
    \A c \in Cache : free_slab_count[c] = Cardinality(Slabs(c, "free"))

-----------------------------------------------------------------------------
(* The inductive invariant behind the safety properties. *)

\* The blocks in use share no page, and live slabs are among them.
FramesDisjoint ==
    /\ \A f, g \in frames : f # g => span[f] \cap span[g] = {}
    /\ \A b \in FrameBlock : cache[b] # NULL => b \in frames

HeapInv ==
    /\ HeapTypeOK /\ ObjectsSplit /\ SlabsListed /\ ObjectsPrivate
    /\ FreeSlabsCounted /\ FramesDisjoint
=============================================================================
