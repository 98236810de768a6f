------------------------------- MODULE Deque -------------------------------
(***************************************************************************)
(* What a List_hdr_s promises its users: a sequence of distinct nodes that *)
(* grows and shrinks at both ends and gives up any node on request.  The   *)
(* run queue, the wait queues, the request lists and the free lists are    *)
(* modelled as such sequences.                                             *)
(***************************************************************************)
EXTENDS Naturals, Sequences, Functions

CONSTANT Node

VARIABLE q

DequeInit == q = <<>>

\* From sequence s to sequence r by one operation.
AddHead(s, r) == \E x \in Node : x \notin Range(s) /\ r = <<x>> \o s
AddTail(s, r) == \E x \in Node : x \notin Range(s) /\ r = Append(s, x)
Delete(s, r)  == \E i \in DOMAIN s : r = SubSeq(s, 1, i - 1) \o SubSeq(s, i + 1, Len(s))

\* RemoveHead and RemoveTail delete the first and the last node.
Operation(s, r) == AddHead(s, r) \/ AddTail(s, r) \/ Delete(s, r)

DequeNext == Operation(q, q')

DequeSpec == DequeInit /\ [][DequeNext]_q
=============================================================================
