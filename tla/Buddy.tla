-------------------------------- MODULE Buddy --------------------------------
(***************************************************************************)
(* The page-frame allocator lizard/buddy.c, as its callers that run with   *)
(* interrupts off use it: the boot code, system calls and the reaper.  A   *)
(* call is one step.  (BuddyPreempt lets the init task be interrupted      *)
(* inside a call.)                                                         *)
(*                                                                         *)
(* A block is <<pfn, order>>, the pages pfn .. pfn + 2^order - 1.  A free  *)
(* list is kept as the set of the first pages of its blocks: its order     *)
(* only decides which of them the next allocation takes.  page->order and  *)
(* free_count are written and never read, and are left out.                *)
(***************************************************************************)
EXTENDS Integers, FiniteSets

CONSTANTS
    page_count,     \* detect_page_count(): the pages 0 .. page_count - 1
    MAX_ORDER,
    Size,           \* Size[k] = 1UL << k
    BootMaps,       \* the sets of usable pages that buddy_init may find
    InitPages       \* __init_start .. __init_end: freed when boot is over

Page  == 0..(page_count - 1)
Order == 0..MAX_ORDER
Block == Page \X Order

ASSUME SizeAssumption ==
    /\ page_count \in Nat /\ MAX_ORDER \in Nat
    /\ Size \in [Order -> Nat \ {0}]
    /\ Size[0] = 1
    /\ \A k \in Order : k + 1 \in Order => Size[k + 1] = 2 * Size[k]
    /\ \A j, k \in Order : j < k => 2 * Size[j] <= Size[k]
    /\ \A n \in 1..(Size[MAX_ORDER] - 1) :
          \E j \in Order : Size[j] <= n /\ n < 2 * Size[j]

\* The kernel image is reserved, its init sections with it.
ASSUME BootAssumption ==
    /\ InitPages \subseteq Page
    /\ \A m \in BootMaps : m \subseteq Page /\ m \cap InitPages = {}

VARIABLES
    flags,          \* buddy.pages[p].flags
    free_list,      \* buddy.free_areas[k].free_list
    cursor,         \* i of buddy_init's grouping loop
    init_freed,     \* free_init_sections has run
    held            \* the blocks callers have and have not given back

vars == <<flags, free_list, cursor, init_freed, held>>

Span(p, k) == p..(p + Size[k] - 1)

-----------------------------------------------------------------------------
(* buddy_init *)

\* Mutation: the alignment test is dropped.
Groups_unaligned(p, k) ==
    p + Size[k] <= page_count /\ \A q \in Span(p, k) : flags[q] = "FREE"

\* The order the grouping loop settles on is the largest of these.
Groups(p, k) ==
    \/ k = 0
    \/ /\ p % Size[k] = 0
       /\ p + Size[k] <= page_count
       /\ \A q \in Span(p, k) : flags[q] = "FREE"

\* buddy_add_block(&buddy.pages[p], k)
buddy_add_block(p, k) == [free_list EXCEPT ![k] = @ \cup {p}]

GroupBlock(k) ==
    /\ free_list' = buddy_add_block(cursor, k)
    /\ cursor' = cursor + Size[k]

\* One turn of the loop that groups free pages into the largest blocks.
buddy_init ==
    /\ cursor < page_count
    /\ \/ /\ flags[cursor] # "FREE"
          /\ cursor' = cursor + 1
          /\ UNCHANGED free_list
       \/ /\ flags[cursor] = "FREE"
          /\ \E k \in Order : /\ Groups(cursor, k)
                              /\ \A j \in Order : Groups(cursor, j) => j <= k
                              /\ GroupBlock(k)
    /\ UNCHANGED <<flags, init_freed, held>>

Booted == cursor = page_count

-----------------------------------------------------------------------------
(* Allocation and release *)

\* The first order, from k up, whose list is not empty.
FitOrder(k, i) ==
    /\ k <= i /\ free_list[i] # {}
    /\ \A j \in Order : k <= j /\ j < i => free_list[j] = {}

\* Mutation: the block is handed out and stays on its list.
Split_keeps(p, k, i) ==
    [j \in Order |->
        IF j >= k /\ j < i THEN free_list[j] \cup {p + Size[j]}
        ELSE free_list[j]]

\* Mutation: the halves that are not needed are forgotten.
Split_leaks(p, k, i) == [free_list EXCEPT ![i] = @ \ {p}]

\* Mutation: the half is taken before the order is lowered.
Split_high(p, k, i) ==
    [j \in Order |->
        IF j = i THEN free_list[j] \ {p}
        ELSE IF j >= k /\ j < i THEN free_list[j] \cup {p + 2 * Size[j]}
        ELSE free_list[j]]

\* The free lists after block p of order i was cut down to order k: the upper
\* half of each cut goes to the list of its order.
Split(p, k, i) ==
    [j \in Order |->
        IF j = i THEN free_list[j] \ {p}
        ELSE IF j >= k /\ j < i THEN free_list[j] \cup {p + Size[j]}
        ELSE free_list[j]]

\* The pages of block <<p, k>> get flag f.
Mark(p, k, f) == [q \in Page |-> IF q \in Span(p, k) THEN f ELSE flags[q]]

\* buddy_alloc_vaddr(k); a call that finds no block returns 0, a stuttering step.
buddy_alloc(k) ==
    /\ Booted
    /\ \E i \in Order : FitOrder(k, i) /\ \E p \in free_list[i] :
         /\ free_list' = Split(p, k, i)
         /\ flags' = Mark(p, k, "ALLOCATED")
         /\ held' = held \cup {<<p, k>>}
    /\ UNCHANGED <<cursor, init_freed>>

\* buddy_free of a block the caller holds: it goes back as it is, unmerged.
buddy_free(p, k) ==
    /\ Booted
    /\ <<p, k>> \in held
    /\ flags' = Mark(p, k, "FREE")
    /\ free_list' = buddy_add_block(p, k)
    /\ held' = held \ {<<p, k>>}
    /\ UNCHANGED <<cursor, init_freed>>

\* free_init_sections: buddy_free(page, 0) for every page of the section.
free_init_sections ==
    /\ Booted /\ ~init_freed
    /\ flags' = [q \in Page |-> IF q \in InitPages THEN "FREE" ELSE flags[q]]
    /\ free_list' = [free_list EXCEPT ![0] = @ \cup InitPages]
    /\ init_freed' = TRUE
    /\ UNCHANGED <<cursor, held>>

-----------------------------------------------------------------------------
\* buddy_init has marked the pages, and the grouping loop begins.
Init ==
    /\ \E m \in BootMaps :
         flags = [p \in Page |-> IF p \in m THEN "FREE" ELSE "RESERVED"]
    /\ free_list = [k \in Order |-> {}]
    /\ cursor = 0
    /\ init_freed = FALSE
    /\ held = {}

Next ==
    \/ buddy_init
    \/ \E k \in Order : buddy_alloc(k)
    \/ \E p \in Page, k \in Order : buddy_free(p, k)
    \/ free_init_sections

Spec == Init /\ [][Next]_vars

-----------------------------------------------------------------------------
(* Properties *)

TypeOK ==
    /\ flags \in [Page -> {"FREE", "RESERVED", "ALLOCATED"}]
    /\ free_list \in [Order -> SUBSET Page]
    /\ cursor \in 0..page_count
    /\ init_freed \in BOOLEAN
    /\ held \in SUBSET Block

Listed(p, k) == <<p, k>> \in Block /\ p \in free_list[k]
InUse(p, k) == <<p, k>> \in held
Known(p, k) == Listed(p, k) \/ InUse(p, k)

\* No page is in two blocks, whether they are on a free list or handed out,
\* and none reaches past the end of the page array: the splits of
\* buddy_alloc_vaddr, the groups of buddy_init, the unmerged buddy_free and
\* free_init_sections never produce a block twice.
NoOverlap ==
    /\ \A p \in Page, k \in Order : Known(p, k) => p + Size[k] <= page_count
    /\ \A p, q \in Page : \A k, j \in Order :
          Known(p, k) /\ Known(q, j) /\ <<p, k>> # <<q, j>>
              => p + Size[k] <= q \/ q + Size[j] <= p
    /\ \A p \in Page, k \in Order : ~(Listed(p, k) /\ InUse(p, k))

\* No page is lost: once boot is over a page flagged FREE is in a block an
\* allocation can find, and a page flagged ALLOCATED is in a block somebody
\* can give back (the flags are never read after boot, so nothing else in the
\* code would notice a leak).
NoPageLost ==
    \A q \in Page :
        /\ q < cursor => (flags[q] = "FREE" <=>
              \E p \in Page, k \in Order : Listed(p, k) /\ q \in Span(p, k))
        /\ flags[q] = "ALLOCATED" <=>
              \E p \in Page, k \in Order : InUse(p, k) /\ q \in Span(p, k)

\* Every block starts at a multiple of its size, as the "buddy" arithmetic
\* page[1UL << i] takes for granted.
Aligned == \A p \in Page, k \in Order : Known(p, k) => p % Size[k] = 0

-----------------------------------------------------------------------------
(* The inductive invariant behind NoOverlap and NoPageLost. *)

\* While buddy_init groups, no block reaches past the cursor and nothing is
\* handed out; the init sections stay reserved until they are freed.
Booting ==
    /\ cursor < page_count => held = {} /\ ~init_freed
    /\ \A p \in Page, k \in Order : Known(p, k) => p + Size[k] <= cursor
    /\ ~init_freed => \A q \in InitPages : flags[q] = "RESERVED"

IInv == TypeOK /\ NoOverlap /\ NoPageLost /\ Booting

-----------------------------------------------------------------------------
Pool == INSTANCE FramePool WITH
    span <- [b \in Block |-> Span(b[1], b[2])],
    pool <- {p \in Page : flags[p] # "RESERVED"}

\* buddy.c keeps the promise of FramePool: a block is handed out only while no
\* page of it is somebody's.  (Handing out the same block twice would not change
\* held; NoOverlap excludes it, a block in use being on no list.)
ImplementsPool == Pool!Spec
=============================================================================
