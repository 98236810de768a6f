----------------------------- MODULE MCDevtmpfs -----------------------------
(* A small instance of thread creation and devtmpfs for TLC. *)
EXTENDS Devtmpfs, TLC

Symmetry == Permutations(Child) \cup Permutations(Req)

\* Bound: nodes are requested once every creator has its thread or its error.
CreationFirst == requests = <<>> \/ \A c \in Creator : pc[c] \notin {"c_add", "c_wake", "c_wait", "c_result"}
=============================================================================
