---------------------------- MODULE MCCompletion ----------------------------
(* Small instances of completions for TLC. *)
EXTENDS Completion, TLC

Symmetry == Permutations(Task \ {Idle})
=============================================================================
