------------------------------- MODULE Sched -------------------------------
(***************************************************************************)
(* The process scheduler of CPU 0: the run queue rq->myos.running_lhdr,    *)
(* pick_next_task_myos, __schedule and its callers, the wake-up functions, *)
(* and the interrupt return path, which calls schedule() after every       *)
(* interrupt taken with preempt_count = 0 (interrupt.c:128).               *)
(*                                                                         *)
(* Every wake-up and every fork puts the task on the run queue of CPU 0    *)
(* (scheduler_core.c:268 and :625), so this one queue is all the           *)
(* scheduling there is.  What a task does between its calls into the       *)
(* scheduler is left open: any task may do any of them at any time its     *)
(* preempt_count allows.  List operations are atomic here.                 *)
(***************************************************************************)
EXTENDS Naturals, Sequences, Functions

CONSTANTS
    Task,           \* the task_s structures, allocated or not
    Idle,           \* init_task: boot code, then the idle loop of CPU 0
    TimeSlice,      \* sched_rt_entity_s.time_slice (2 jiffies, init_task.c)
    MaxJiffies,     \* bound: a count of jiffies this large or larger
    MaxNest         \* bound: interrupt frames on one kernel stack

ASSUME SchedAssumption ==
    /\ Idle \in Task
    /\ TimeSlice \in Nat \ {0}
    /\ MaxJiffies \in Nat /\ MaxJiffies >= TimeSlice
    /\ MaxNest \in Nat

VARIABLES
    curr,           \* rq->curr
    runq,           \* rq->myos.running_lhdr, head first
    state,          \* task_s.__state
    vruntime,       \* task_s.se.vruntime
    used,           \* jiffies - rq->myos.last_jiffies
    preempt_count,  \* pcpu_hot.preempt_count without PREEMPT_NEED_RESCHED
    need_resched,   \* that bit of pcpu_hot.preempt_count, stored inverted
    irq_on,         \* the interrupt flag of the CPU
    irqs,           \* interrupt frames on the kernel stack of each task
    frame,          \* the caller of __schedule a switched-out task returns to
    idle_pc         \* where the idle task is in rest_init() / do_idle()

queueVars == <<curr, runq, state, vruntime, used>>
cpuVars   == <<preempt_count, need_resched, irq_on, irqs, frame, idle_pc>>
schedVars == <<queueVars, cpuVars>>

\* "NEW" also stands for a task_s that has not been allocated yet.
SleepState == {"INTERRUPTIBLE", "UNINTERRUPTIBLE"}
State      == SleepState \cup {"RUNNING", "DEAD", "NEW"}

\* ret_from_fork(), schedule(), schedule_idle() and do_task_dead().
Frame == {"fork", "schedule", "idle", "dead"}

\* rest_init(): "boot", "sched" and "disable" are before, between and after the
\* calls of schedule_preempt_disabled(); do_idle(): "poll" and "resched".
IdlePc == {"boot", "sched", "disable", "poll", "resched"}

\* init_task's vruntime is -1, the largest u64.
IdleVruntime == MaxJiffies + 1

\* used and vruntime count jiffies without a limit: MaxJiffies is any larger count.
Saturate(n) == IF n > MaxJiffies THEN MaxJiffies ELSE n

Queued == Range(runq)

\* sched_init() -> init_idle(): boot code runs as the idle task with
\* INIT_PREEMPT_COUNT, the need-resched bit still zero, and an empty queue.
SchedInit ==
    /\ curr = Idle
    /\ runq = <<>>
    /\ state = [t \in Task |-> IF t = Idle THEN "RUNNING" ELSE "NEW"]
    /\ vruntime = [t \in Task |-> IF t = Idle THEN IdleVruntime ELSE 0]
    /\ used = 0
    /\ preempt_count = 1
    /\ need_resched = TRUE
    /\ irq_on = TRUE
    /\ irqs = [t \in Task |-> 0]
    /\ frame = [t \in Task |-> IF t = Idle THEN "idle" ELSE "fork"]
    /\ idle_pc = "boot"

-----------------------------------------------------------------------------
(* pick_next_task_myos *)

\* Mutant: a forgotten state test.
MustSwitch_no_state(st, u) == (curr = Idle \/ u >= TimeSlice) /\ runq # <<>>

\* Does the current task, in state st[curr], give up the CPU after u jiffies?
MustSwitch(st, u) ==
    /\ curr = Idle \/ u >= TimeSlice \/ st[curr] # "RUNNING"
    /\ runq # <<>>

\* Can vruntime[p] > vruntime[q] be TRUE, FALSE?  Two saturated ones can be either.
Exceeds(p, q) ==
    IF p # q /\ vruntime[p] = MaxJiffies /\ vruntime[q] = MaxJiffies
    THEN BOOLEAN ELSE {vruntime[p] > vruntime[q]}

\* Mutant: the idle task is not put back.
Reinsert_no_idle(q) == runq' = IF curr = Idle THEN q ELSE <<curr>> \o q

\* The current task goes back into q, the rest of the queue.  The insertion
\* loop moves tmp_list on but keeps comparing with the first entry
\* (tmp_rt is never updated): the task goes before the first entry or to the end.
Reinsert(q) ==
    \/ /\ curr # Idle => q # <<>> /\ TRUE \in Exceeds(curr, Head(q))
       /\ runq' = Append(q, curr)
    \/ /\ curr # Idle /\ (q # <<>> => FALSE \in Exceeds(curr, Head(q)))
       /\ runq' = <<curr>> \o q

\* Mutant: the current task is put back even when it sleeps.
pick_next_requeue_sleeper(st, u) ==
    IF MustSwitch(st, u)
    THEN curr' = Head(runq) /\ Reinsert(Tail(runq)) /\ used' = 0 /\ UNCHANGED vruntime
    ELSE UNCHANGED <<curr, runq, vruntime, used>>

pick_next_task_myos(st, u) ==
    IF MustSwitch(st, u)
    THEN /\ curr' = Head(runq)
         /\ IF st[curr] = "RUNNING" THEN Reinsert(Tail(runq)) ELSE runq' = Tail(runq)
         /\ vruntime' = IF curr = Idle THEN vruntime
                        ELSE [vruntime EXCEPT ![curr] = Saturate(@ + u)]
         /\ used' = 0
    ELSE UNCHANGED <<curr, runq, vruntime, used>>

-----------------------------------------------------------------------------
(* __schedule and its callers *)

\* Mutant: schedule_idle() enables preemption too.
ResumeCount_idle(f) == 0

\* preempt_count once a task has returned from __schedule into frame f:
\* __schedule runs with 1, schedule() and schedule_tail() then lower it.
ResumeCount(f) == IF f \in {"schedule", "fork"} THEN 0 ELSE 1

\* __schedule(), entered through caller f with the current task in state
\* st[curr].  The next task resumes in its own frame.  __switch_to_asm does not
\* save the flags and only the end of __schedule turns interrupts on again, so
\* a forked task starts with interrupts off.
__schedule(st, f) ==
    /\ pick_next_task_myos(st, used)
    /\ frame' = [frame EXCEPT ![curr] = f]
    /\ preempt_count' = ResumeCount(frame'[curr'])
    /\ irq_on' = (frame'[curr'] # "fork")
    /\ need_resched' = FALSE

\* The current task runs its own code: no interrupt frame is above it.
InTask == irqs[curr] = 0

\* ... and is an ordinary task.
InThread == InTask /\ curr # Idle

schedule ==
    /\ InThread /\ preempt_count = 0
    /\ __schedule(state, "schedule")
    /\ UNCHANGED <<state, irqs, idle_pc>>

\* do_exit(): preempt_disable(), then do_task_dead().
do_task_dead ==
    /\ InThread /\ preempt_count = 0
    /\ state' = [state EXCEPT ![curr] = "DEAD"]
    /\ __schedule(state', "dead")
    /\ UNCHANGED <<irqs, idle_pc>>

\* The outermost preempt_disable() of a nest, spin_lock() included.
preempt_disable ==
    /\ InThread /\ preempt_count = 0
    /\ preempt_count' = 1
    /\ UNCHANGED <<queueVars, need_resched, irq_on, irqs, frame, idle_pc>>

\* preempt_schedule() runs when the count drops to 0 with the bit set.
preempt_enable ==
    /\ InThread /\ preempt_count = 1
    /\ IF need_resched /\ irq_on
       THEN __schedule(state, "schedule") /\ UNCHANGED state
       ELSE /\ preempt_count' = 0
            /\ UNCHANGED <<queueVars, need_resched, irq_on, frame>>
    /\ UNCHANGED <<irqs, idle_pc>>

\* raw_spin_unlock_irq(), sysret and the like: interrupts on again.
local_irq_enable ==
    /\ InThread /\ ~irq_on
    /\ irq_on' = TRUE
    /\ UNCHANGED <<queueVars, preempt_count, need_resched, irqs, frame, idle_pc>>

-----------------------------------------------------------------------------
(* States, wake-ups and forks *)

\* set_current_state() of a wait loop, alone or below a lock that is released
\* with raw_spin_unlock_irq().
set_current_state(s) ==
    /\ InThread
    /\ state' = [state EXCEPT ![curr] = s]
    /\ irq_on' \in {irq_on, TRUE}
    /\ UNCHANGED <<curr, runq, vruntime, used, preempt_count, need_resched, irqs, frame, idle_pc>>

\* Mutant: no list_header_contains() test.
try_to_wake_up_twice(p) ==
    /\ state' = [state EXCEPT ![p] = "RUNNING"]
    /\ runq' = IF p = curr THEN runq ELSE <<p>> \o runq

\* try_to_wake_up() -> set_task_cpu(): the state argument is not looked at.
try_to_wake_up(p) ==
    /\ state' = [state EXCEPT ![p] = "RUNNING"]
    /\ runq' = IF p = curr \/ p \in Queued THEN runq ELSE <<p>> \o runq

\* Tasks somebody still has a reason to wake: every caller of wake_up_process()
\* holds a pointer to a started task that has not exited.
Wakeable == {t \in Task \ {Idle} : state[t] \notin {"NEW", "DEAD"}}

wake_up_process(p) ==
    /\ InTask
    /\ curr = Idle => idle_pc = "boot"
    /\ try_to_wake_up(p)
    /\ UNCHANGED <<curr, vruntime, used, cpuVars>>

\* kernel_clone(): sched_fork() and wake_up_new_task(), which adds to the head.
wake_up_new_task(p) ==
    /\ InTask
    /\ curr = Idle => idle_pc = "boot"
    /\ state[p] = "NEW"
    /\ state' = [state EXCEPT ![p] = "RUNNING"]
    /\ vruntime' = [vruntime EXCEPT ![p] = 0]
    /\ runq' = <<p>> \o runq
    /\ UNCHANGED <<curr, used, cpuVars>>

-----------------------------------------------------------------------------
(* Interrupts *)

\* sa_entintr_retp turns interrupts on before it calls the handler, so handlers
\* nest; hwint_irq_handler() runs, excep_hwint_context() has yet to schedule.
hwint_irq_handler ==
    /\ irq_on /\ irqs[curr] < MaxNest
    /\ irqs' = [irqs EXCEPT ![curr] = @ + 1]

\* HPET_handler: jiffies++.
HPET_handler ==
    /\ hwint_irq_handler
    /\ used' = Saturate(used + 1)
    /\ UNCHANGED <<curr, runq, state, vruntime,
                   preempt_count, need_resched, irq_on, frame, idle_pc>>

\* A device handler that completes a request wakes the task that waits for it.
device_handler(p) ==
    /\ hwint_irq_handler
    /\ try_to_wake_up(p)
    /\ UNCHANGED <<curr, vruntime, used,
                   preempt_count, need_resched, irq_on, frame, idle_pc>>

\* ... and one with nobody to wake.
quiet_handler ==
    /\ hwint_irq_handler
    /\ UNCHANGED <<queueVars, preempt_count, need_resched, irq_on, frame, idle_pc>>

\* The tail of excep_hwint_context(): if (!in_atomic()) schedule();
excep_hwint_return ==
    /\ ~InTask
    /\ irqs' = [irqs EXCEPT ![curr] = @ - 1]
    /\ IF preempt_count = 0
       THEN __schedule(state, "schedule")
       ELSE UNCHANGED <<curr, runq, vruntime, used,
                        preempt_count, need_resched, irq_on, frame>>
    /\ UNCHANGED <<state, idle_pc>>

-----------------------------------------------------------------------------
(* The idle task *)

IdleAt(pc) == InTask /\ curr = Idle /\ idle_pc = pc

\* rest_init() -> schedule_preempt_disabled(), first half ...
rest_init_enable ==
    /\ IdleAt("boot") /\ idle_pc' = "sched"
    /\ preempt_count' = 0
    /\ UNCHANGED <<queueVars, need_resched, irq_on, irqs, frame>>

\* ... its call of schedule() ...
rest_init_schedule ==
    /\ IdleAt("sched") /\ idle_pc' = "disable"
    /\ __schedule(state, "schedule")
    /\ UNCHANGED <<state, irqs>>

\* ... and its preempt_disable(); then cpu_startup_entry().
rest_init_disable ==
    /\ IdleAt("disable") /\ idle_pc' = "poll"
    /\ preempt_count' = preempt_count + 1
    /\ UNCHANGED <<queueVars, need_resched, irq_on, irqs, frame>>

\* do_idle(): set_preempt_need_resched() ...
do_idle_poll ==
    /\ IdleAt("poll") /\ idle_pc' = "resched"
    /\ need_resched' = TRUE
    /\ UNCHANGED <<queueVars, preempt_count, irq_on, irqs, frame>>

\* ... then schedule_idle().
schedule_idle ==
    /\ IdleAt("resched") /\ idle_pc' = "poll"
    /\ __schedule(state, "idle")
    /\ UNCHANGED <<state, irqs>>

do_idle == do_idle_poll \/ schedule_idle
rest_init == rest_init_enable \/ rest_init_schedule \/ rest_init_disable

-----------------------------------------------------------------------------
ThreadStep ==
    \/ schedule \/ do_task_dead
    \/ preempt_disable \/ preempt_enable \/ local_irq_enable
    \/ \E s \in SleepState \cup {"RUNNING"} : set_current_state(s)
    \/ \E p \in Wakeable : wake_up_process(p)
    \/ \E p \in Task \ {Idle} : wake_up_new_task(p)

IrqStep ==
    \/ HPET_handler \/ quiet_handler \/ excep_hwint_return
    \/ \E p \in Wakeable : device_handler(p)

SchedNext == ThreadStep \/ IrqStep \/ rest_init \/ do_idle

SchedSpec == SchedInit /\ [][SchedNext]_schedVars

\* The timer ticks and not always inside a preemption-off section, handlers
\* return, the code a task runs between two interrupts makes progress, and no
\* task keeps preemption or interrupts off for ever.
SchedFairness ==
    /\ SF_schedVars(HPET_handler /\ preempt_count = 0)
    /\ SF_schedVars(excep_hwint_return /\ preempt_count = 0)
    /\ WF_schedVars(excep_hwint_return)
    /\ SF_schedVars(rest_init) /\ SF_schedVars(do_idle)
    /\ SF_schedVars(preempt_enable) /\ SF_schedVars(local_irq_enable)

FairSchedSpec == SchedSpec /\ SchedFairness

-----------------------------------------------------------------------------
(* Properties *)

\* The variables have their types.
SchedTypeOK ==
    /\ curr \in Task
    /\ runq \in Seq(Task)
    /\ state \in [Task -> State]
    /\ vruntime \in [Task -> 0..IdleVruntime]
    /\ used \in 0..MaxJiffies
    /\ preempt_count \in {0, 1}
    /\ need_resched \in BOOLEAN
    /\ irq_on \in BOOLEAN
    /\ irqs \in [Task -> 0..MaxNest]
    /\ frame \in [Task -> Frame]
    /\ idle_pc \in IdlePc

\* The run queue holds no task twice and never the running one: an entry linked
\* twice would corrupt the list (try_to_wake_up's p == current test, the
\* list_header_contains test of set_task_cpu, the requeueing of the picked task).
QueueExclusive ==
    /\ IsInjective(runq)
    /\ curr \notin Queued

\* Exactly the TASK_RUNNING tasks compete for the CPU: a task that is neither
\* running nor queued is really asleep, new or dead (nobody is lost by the
\* scheduler), and everything on the queue may run.
RunnableIffQueued ==
    \A t \in Task \ {curr} : t \in Queued <=> state[t] = "RUNNING"

\* Whenever another task runs, the idle task is on the queue, so a task that
\* blocks always finds a successor: the BUG_ON and the "while (next_lp == NULL);"
\* of pick_next_task_myos are never hit, and do_task_dead never reaches BUG().
IdleAvailable == curr # Idle => Idle \in Queued

\* A dead task never gets the CPU again, or do_task_dead would return into BUG().
DeadStaysOff == \A t \in Task : state[t] = "DEAD" => t # curr /\ t \notin Queued

\* preempt_count is a property of the CPU, not saved with a task.  It is
\* nevertheless what each task left behind: the idle loop always runs with 1 (it
\* is never preempted from an interrupt), a switched-in task starts at 0.
PreemptBalanced ==
    curr = Idle => preempt_count = IF idle_pc \in {"sched", "disable"} THEN 0 ELSE 1

\* After boot the need-resched bit is only ever set while preemption is off, so
\* preempt_enable() never enters preempt_schedule(): the interrupt return path is
\* the only involuntary entry into the scheduler.
NoPreemptSchedule ==
    need_resched => curr = Idle /\ (preempt_count = 1 \/ idle_pc = "sched")

\* A task that is not TASK_RUNNING loses the CPU when it enters the scheduler,
\* by its own call or from an interrupt: it never runs on because the queue was
\* empty or its time slice not used up.
SleeperLeaves ==
    [][(schedule \/ (excep_hwint_return /\ preempt_count = 0)) /\ state[curr] # "RUNNING"
        => curr' # curr]_schedVars

\* Under the fairness above, a task on the queue gets the CPU.
NoStarvation == \A t \in Task \ {Idle} : (t \in Queued) ~> (curr = t)
=============================================================================
