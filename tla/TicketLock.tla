----------------------------- MODULE TicketLock -----------------------------
(***************************************************************************)
(* arch_spinlock_t: a ticket lock of two u32 counters.  xaddl on head      *)
(* draws a ticket, the holder's incl on tail serves the next one.          *)
(***************************************************************************)
EXTENDS Naturals, FiniteSets

CONSTANTS
    Proc,       \* execution contexts that may contend: at most one per CPU and
                \* interrupt level, since preemption is off while one spins
    M           \* 2^32: the counters wrap around

ASSUME TicketAssumption ==
    /\ M \in Nat \ {0}
    /\ IsFiniteSet(Proc) /\ Cardinality(Proc) < M

VARIABLES
    head, tail, \* arch_spinlock_t
    ticket,     \* %eax of a context inside arch_spin_lock()
    pc          \* "out", "spin": in arch_spin_lock(), "cs": holds the lock

lockVars == <<head, tail, ticket, pc>>

TicketInit ==
    /\ head = 0 /\ tail = 0
    /\ ticket = [p \in Proc |-> 0]
    /\ pc = [p \in Proc |-> "out"]

\* incl and xaddl on a u32.
Inc(n) == IF n + 1 = M THEN 0 ELSE n + 1

\* arch_spin_lock(): lock xaddl ...
arch_spin_lock_xadd(p) ==
    /\ pc[p] = "out"
    /\ ticket' = [ticket EXCEPT ![p] = head]
    /\ head' = Inc(head)
    /\ pc' = [pc EXCEPT ![p] = "spin"]
    /\ UNCHANGED tail

\* Mutant: any ticket not served yet is let in.
arch_spin_lock_le(p) ==
    /\ pc[p] = "spin" /\ tail <= ticket[p]
    /\ pc' = [pc EXCEPT ![p] = "cs"]
    /\ UNCHANGED <<head, tail, ticket>>

\* Mutant: takes a lock that is free, whoever is next.
arch_spin_lock_barge(p) ==
    /\ pc[p] = "spin" /\ \A r \in Proc : pc[r] # "cs"
    /\ pc' = [pc EXCEPT ![p] = "cs"]
    /\ UNCHANGED <<head, tail, ticket>>

\* ... then spin until tail shows the ticket.
arch_spin_lock_wait(p) ==
    /\ pc[p] = "spin" /\ tail = ticket[p]
    /\ pc' = [pc EXCEPT ![p] = "cs"]
    /\ UNCHANGED <<head, tail, ticket>>

arch_spin_unlock(p) ==
    /\ pc[p] = "cs"
    /\ tail' = Inc(tail)
    /\ pc' = [pc EXCEPT ![p] = "out"]
    /\ UNCHANGED <<head, ticket>>

TicketNext ==
    \E p \in Proc : arch_spin_lock_xadd(p) \/ arch_spin_lock_wait(p) \/ arch_spin_unlock(p)

TicketSpec == TicketInit /\ [][TicketNext]_lockVars

\* A context in arch_spin_lock() or in its critical section keeps running.
TicketFairness ==
    \A p \in Proc : WF_lockVars(arch_spin_lock_wait(p)) /\ WF_lockVars(arch_spin_unlock(p))

FairTicketSpec == TicketSpec /\ TicketFairness

-----------------------------------------------------------------------------
(* Properties *)

\* Type correctness; the counters stay within their width.
TicketTypeOK ==
    /\ head \in 0..(M - 1) /\ tail \in 0..(M - 1)
    /\ ticket \in [Proc -> 0..(M - 1)]
    /\ pc \in [Proc -> {"out", "spin", "cs"}]

\* At most one context holds the lock, also while the counters wrap around.
MutualExclusion == \A p, r \in Proc : pc[p] = "cs" /\ pc[r] = "cs" => p = r

\* How far a ticket is behind the one being served.
Distance(n) == IF n >= tail THEN n - tail ELSE n + M - tail

\* The tickets between tail and head belong to exactly the contexts that hold or
\* wait for the lock: arch_spin_is_locked() tells the truth.
LockedIffOwned == (head # tail) <=> \E p \in Proc : pc[p] # "out"

\* The contexts with a ticket, in the order of their tickets.
Holders == {p \in Proc : pc[p] # "out"}
Before(p) == {r \in Holders : Distance(ticket[r]) < Distance(ticket[p])}
TicketQueue ==
    [i \in 1..Cardinality(Holders) |-> CHOOSE p \in Holders : Cardinality(Before(p)) = i - 1]

Fifo == INSTANCE FifoLock WITH q <- TicketQueue

\* arch_spin_lock() and arch_spin_unlock() implement a FIFO lock: contexts hold the
\* lock one at a time in the order of their xaddl, across the wrap-around.
FifoOrder == Fifo!FifoSpec

\* Whoever draws a ticket gets the lock.
LockGranted == \A p \in Proc : (pc[p] = "spin") ~> (pc[p] = "cs")
=============================================================================
