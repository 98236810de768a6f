------------------------------ MODULE FifoLock ------------------------------
(***************************************************************************)
(* What a fair spinlock promises: the lock is held by one user at a time,  *)
(* and the others get it in the order in which they asked for it.          *)
(***************************************************************************)
EXTENDS Sequences, Functions

CONSTANT Proc       \* the users of the lock

VARIABLE q          \* the holder, then the others in the order they came

FifoInit == q = <<>>

Ask(p) == p \notin Range(q) /\ q' = Append(q, p)

Release(p) == q # <<>> /\ Head(q) = p /\ q' = Tail(q)

FifoNext == \E p \in Proc : Ask(p) \/ Release(p)

FifoSpec == FifoInit /\ [][FifoNext]_q
=============================================================================
