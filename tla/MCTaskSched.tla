---------------------------- MODULE MCTaskSched ----------------------------
(* Small instances of TaskSched: idle, init and a few user tasks. *)
EXTENDS TaskSched, TLC

CONSTANTS Heap    \* the heap-allocated task structures

MCTask == {idle, init} \cup Heap
\* The user tasks are interchangeable (only for runs without liveness).
Symmetry == Permutations(Heap)
=============================================================================
