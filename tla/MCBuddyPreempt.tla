--------------------------- MODULE MCBuddyPreempt ---------------------------
(* Four free pages, the init task inside buddy_alloc, and everybody else. *)
EXTENDS BuddyPreempt

MCSize == [k \in Order |-> 2^k]
MCPreemptMaps == {0..3}
=============================================================================
