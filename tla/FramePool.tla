------------------------------ MODULE FramePool ------------------------------
(***************************************************************************)
(* What the page-frame allocator promises its callers: a block that is     *)
(* handed out belongs to the pool and shares no page with a block somebody *)
(* else still holds.  Which block is handed out, and when an allocation    *)
(* fails, is left open.                                                    *)
(***************************************************************************)
CONSTANTS
    Block,      \* names of blocks
    span        \* span[b]: the pages of block b

VARIABLES
    pool,       \* the pages the allocator manages
    held        \* the blocks callers hold

vars == <<pool, held>>

Init == held = {}

Give(b) ==
    /\ span[b] \subseteq pool
    /\ \A h \in held : span[h] \cap span[b] = {}
    /\ held' = held \cup {b}
    /\ UNCHANGED pool

TakeBack(b) ==
    /\ b \in held
    /\ held' = held \ {b}
    /\ UNCHANGED pool

\* Memory that was in use since boot joins the pool.
Grow == pool \subseteq pool' /\ UNCHANGED held

Next == (\E b \in Block : Give(b) \/ TakeBack(b)) \/ Grow

Spec == Init /\ [][Next]_vars
=============================================================================
