---------------------------- MODULE MCLockedList ----------------------------
(***************************************************************************)
(* Tasks on two processors, and an interrupt handler on the first, share a *)
(* list and its lock.                                                      *)
(***************************************************************************)
EXTENDS LockedList

CONSTANTS task1, task2, irq1

MCCtx == {task1, task2, irq1}
MCAbove == [c \in MCCtx |-> IF c = task1 THEN {irq1} ELSE {}]
=============================================================================
