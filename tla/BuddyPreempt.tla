---------------------------- MODULE BuddyPreempt ----------------------------
(***************************************************************************)
(* buddy.c as the init task calls it: load_elf -> vmm_alloc -> buddy_alloc *)
(* with interrupts on.  buddy_alloc_vaddr has no lock, so a timer tick may *)
(* come between any two of its instructions; the reaper's buddy_free runs  *)
(* in the tick, and when the quantum is up another task runs and allocates *)
(* from its system calls.  One such point is enough to show what that      *)
(* does: after list_del has loaded the page and its two neighbours and     *)
(* before it stores to them.                                               *)
(***************************************************************************)
EXTENDS Buddy

VARIABLES
    found,      \* the <<page, list>> that init's call has read, <<>> for none
    frame       \* the frames load_elf has got so far

preemptVars == <<vars, found, frame>>

\* init's buddy_alloc(0) reads the first block of the first list that has one.
InitFind ==
    /\ Booted /\ found = <<>>
    /\ \E i \in Order : FitOrder(0, i) /\ \E p \in free_list[i] : found' = <<p, i>>
    /\ UNCHANGED <<vars, frame>>

\* ... takes it off the list, splits it and marks the page.  When the page has
\* left the list in between, list_del's stores join the two neighbours it had
\* there, which changes nothing while those are still neighbours (the case kept
\* here; otherwise the list itself is damaged).
InitTake ==
    /\ found # <<>>
    /\ free_list' = Split(found[1], 0, found[2])
    /\ flags' = Mark(found[1], 0, "ALLOCATED")
    /\ frame' = frame \cup {found[1]}
    /\ found' = <<>>
    /\ UNCHANGED <<cursor, init_freed, held>>

PreemptInit == Init /\ found = <<>> /\ frame = {}

PreemptNext ==
    \/ Next /\ UNCHANGED <<found, frame>>
    \/ InitFind
    \/ InitTake

PreemptSpec == PreemptInit /\ [][PreemptNext]_preemptVars

\* loader.c:140-143 says of the way load_elf fills the frames it allocates:
\* "This keeps load preemption-safe".  So a frame that load_elf got is nobody
\* else's.
LoadFramesPrivate ==
    \A p \in frame : \A q \in Page, k \in Order : InUse(q, k) => p \notin Span(q, k)
=============================================================================
