----------------------------- MODULE MCProcess -----------------------------
(* A small instance of fork and exit for TLC. *)
EXTENDS Process, TLC

Symmetry ==
    Permutations(Task \ {Idle, Initd, Kthreadd}) \cup Permutations(Files) \cup Permutations(Fs)
=============================================================================
