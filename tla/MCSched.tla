------------------------------ MODULE MCSched ------------------------------
(* Small instances of the scheduler for TLC. *)
EXTENDS Sched, TLC

Symmetry == Permutations(Task \ {Idle})

\* Tasks that only compute: after the forks, nothing but timer interrupts.
CpuBoundNext ==
    \/ \E p \in Task \ {Idle} : curr = Idle /\ wake_up_new_task(p)
    \/ local_irq_enable \/ HPET_handler \/ excep_hwint_return
    \/ rest_init \/ do_idle

CpuBoundSpec == SchedInit /\ [][CpuBoundNext]_schedVars /\ SchedFairness
=============================================================================
