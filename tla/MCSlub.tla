------------------------------- MODULE MCSlub -------------------------------
(* One cache of small slabs on a small memory. *)
EXTENDS Kmalloc, TLC

Symmetry == Permutations(Task)
Memory == 0..3
=============================================================================
