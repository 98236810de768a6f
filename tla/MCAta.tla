------------------------------- MODULE MCAta -------------------------------
(* Small instances of disk transfers for TLC. *)
EXTENDS Ata, TLC

Symmetry == Permutations(Requester)

\* Bound: a second interrupt on one stack is one above the disk's handler.
NestedInHandler == \A t \in Task : irqs[t] > 1 => ending # NoTask /\ ender = <<t, 1>>
=============================================================================
