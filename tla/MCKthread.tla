----------------------------- MODULE MCKthread -----------------------------
(* Small instances of kernel thread creation for TLC. *)
EXTENDS Kthread, TLC

Symmetry == Permutations(Creator) \cup Permutations(Child)
=============================================================================
