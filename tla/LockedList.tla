----------------------------- MODULE LockedList -----------------------------
(***************************************************************************)
(* A list below a spinlock, as the waiters of a completion: tasks of       *)
(* several processors and the interrupt handlers of those take the ticket  *)
(* lock with raw_spin_lock_irqsave(), work on the ring of pointers and     *)
(* release it.                                                             *)
(***************************************************************************)
EXTENDS DoubleList, TicketLock

ASSUME LockedAssumption == Ctx = Proc

lockedVars == <<listVars, lockVars>>

LockedInit == ListInit /\ TicketInit

\* No handler runs on the processor of c; it masks interrupts before it draws its
\* ticket, and a handler runs with interrupts off.
OnCpu(c) == \A h \in Above[c] : pc[h] = "out"
IrqsOn(c) == \A d \in Ctx : c \in Above[d] => pc[d] = "out"

spin_lock_irqsave(c) == OnCpu(c) /\ IrqsOn(c) /\ arch_spin_lock_xadd(c) /\ UNCHANGED listVars

\* The lock is taken, and the list operation begins.
spin_lock_taken(c) ==
    /\ OnCpu(c) /\ arch_spin_lock_wait(c)
    /\ \E o \in Ops, x \in Node : start(c, o, x)

locked_step(c) == OnCpu(c) /\ pc[c] = "cs" /\ ListStep(c) /\ UNCHANGED lockVars

spin_unlock_irqrestore(c) ==
    OnCpu(c) /\ at[c] = "idle" /\ arch_spin_unlock(c) /\ UNCHANGED listVars

LockedNext ==
    \E c \in Ctx : spin_lock_irqsave(c) \/ spin_lock_taken(c) \/ locked_step(c) \/ spin_unlock_irqrestore(c)

\* A processor keeps running the context it is in.
LockedFairness ==
    \A c \in Ctx : WF_lockedVars(spin_lock_taken(c) \/ locked_step(c) \/ spin_unlock_irqrestore(c))

LockedSpec == LockedInit /\ [][LockedNext]_lockedVars /\ LockedFairness
=============================================================================
