------------------------------ MODULE MCConsole ------------------------------
(* Small instances of Console: rings of a few elements, indices that wrap. *)
EXTENDS Console, TLC

Symmetry == Permutations(Task)
=============================================================================
