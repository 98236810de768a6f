----------------------------- MODULE Completion -----------------------------
(***************************************************************************)
(* Completions and the simple wait queues below them, on top of the        *)
(* scheduler.  x->wait.lock is taken with interrupts and preemption off,   *)
(* so on the one CPU that schedules tasks each critical section is a step. *)
(***************************************************************************)
EXTENDS Sched, FiniteSets

CONSTANTS
    Completion,     \* the completion_s objects
    NoCompletion,   \* not waiting
    UINT_MAX        \* the largest value of completion_s.done

ASSUME CompletionAssumption ==
    /\ NoCompletion \notin Completion
    /\ UINT_MAX \in Nat \ {0}

VARIABLES
    done,           \* completion_s.done
    task_list,      \* completion_s.wait.task_list_hdr, head first: the waiters
    wpc,            \* where a task is in do_wait_for_common()
    wobj            \* ... and which completion it waits for

completionVars == <<done, task_list, wpc, wobj>>

\* "run": not in it; "sleep": before action(timeout); "again": after it.
WaitPc == {"run", "sleep", "again"}

CompletionInit ==
    /\ done = [x \in Completion |-> 0]
    /\ task_list = [x \in Completion |-> <<>>]
    /\ wpc = [t \in Task |-> "run"]
    /\ wobj = [t \in Task |-> NoCompletion]

Linked(x) == Range(task_list[x])

-----------------------------------------------------------------------------
\* Mutants: nobody is woken; the woken task goes on the run queue once more.
swake_up_locked_lost(x) == UNCHANGED <<state, runq, task_list>>
swake_up_locked_requeue(x) ==
    LET list == task_list[x] IN
    IF list = <<>>
    THEN UNCHANGED <<state, runq, task_list>>
    ELSE /\ task_list' = [task_list EXCEPT ![x] = SubSeq(list, 1, Len(list) - 1)]
         /\ state' = [state EXCEPT ![list[Len(list)]] = "RUNNING"]
         /\ runq' = Append(runq, list[Len(list)])

\* Takes the last entry of the list off and wakes its task.
swake_up_locked(x) ==
    LET list == task_list[x] IN
    IF list = <<>>
    THEN UNCHANGED <<state, runq, task_list>>
    ELSE /\ task_list' = [task_list EXCEPT ![x] = SubSeq(list, 1, Len(list) - 1)]
         /\ try_to_wake_up(list[Len(list)])

\* complete(), below the lock.
complete(x) ==
    /\ done' = [done EXCEPT ![x] = IF @ # UINT_MAX THEN @ + 1 ELSE @]
    /\ swake_up_locked(x)

\* list_header_delete_node()
DeleteNode(list, t) ==
    IF t \notin Range(list) THEN list
    ELSE LET i == CHOOSE i \in DOMAIN list : list[i] = t
         IN  [j \in 1..(Len(list) - 1) |-> IF j < i THEN list[j] ELSE list[j + 1]]

\* Mutant: __finish_swait() leaves the entry of a waiter nobody has unlinked.
take_done_linked(x) ==
    /\ done' = [done EXCEPT ![x] = IF @ # UINT_MAX THEN @ - 1 ELSE @]
    /\ state' = [state EXCEPT ![curr] = "RUNNING"]
    /\ wpc' = [wpc EXCEPT ![curr] = "run"]
    /\ wobj' = [wobj EXCEPT ![curr] = NoCompletion]
    /\ UNCHANGED task_list

\* do_wait_for_common() once done is set: __finish_swait(), then done--.
take_done(x) ==
    /\ done' = [done EXCEPT ![x] = IF @ # UINT_MAX THEN @ - 1 ELSE @]
    /\ task_list' = [task_list EXCEPT ![x] = DeleteNode(@, curr)]
    /\ state' = [state EXCEPT ![curr] = "RUNNING"]
    /\ wpc' = [wpc EXCEPT ![curr] = "run"]
    /\ wobj' = [wobj EXCEPT ![curr] = NoCompletion]

\* Mutant: the entry is linked before the first sleep only.
prepare_to_swait_once(x) ==
    /\ task_list' = [task_list EXCEPT ![x] = IF wpc[curr] = "run" THEN Append(@, curr) ELSE @]
    /\ state' = [state EXCEPT ![curr] = "UNINTERRUPTIBLE"]
    /\ wpc' = [wpc EXCEPT ![curr] = "sleep"]
    /\ wobj' = [wobj EXCEPT ![curr] = x]
    /\ UNCHANGED done

\* The body of its loop up to the unlock: __prepare_to_swait(), the new state.
prepare_to_swait(x) ==
    /\ task_list' = [task_list EXCEPT ![x] = IF curr \in Range(@) THEN @ ELSE Append(@, curr)]
    /\ state' = [state EXCEPT ![curr] = "UNINTERRUPTIBLE"]
    /\ wpc' = [wpc EXCEPT ![curr] = "sleep"]
    /\ wobj' = [wobj EXCEPT ![curr] = x]
    /\ UNCHANGED done

do_wait_for_common(x) == IF done[x] = 0 THEN prepare_to_swait(x) ELSE take_done(x)

-----------------------------------------------------------------------------
(* Steps of the tasks *)

\* The current task is at place pc of a wait.
Waiting(pc) == InThread /\ preempt_count = 0 /\ wpc[curr] = pc

\* A critical section of wait_for_common(): raw_spin_unlock_irq() turns
\* interrupts on whatever they were before.
WaitSection(x) ==
    /\ do_wait_for_common(x)
    /\ irq_on' = TRUE
    /\ UNCHANGED <<curr, runq, vruntime, used,
                   preempt_count, need_resched, irqs, frame, idle_pc>>

wait_for_completion(x) == Waiting("run") /\ WaitSection(x)

\* action(timeout): schedule_timeout(MAX_SCHEDULE_TIMEOUT) is schedule().
schedule_timeout ==
    /\ Waiting("sleep")
    /\ schedule
    /\ wpc' = [wpc EXCEPT ![curr] = "again"]
    /\ UNCHANGED <<done, task_list, wobj>>

wait_again == Waiting("again") /\ WaitSection(wobj[curr])

\* complete() called by a task, or by boot code.
complete_in_task(x) ==
    /\ InTask /\ wpc[curr] = "run"
    /\ curr = Idle => idle_pc = "boot"
    /\ complete(x)
    /\ UNCHANGED <<curr, vruntime, used, cpuVars, wpc, wobj>>

\* ... and by the handler of a device.
complete_in_irq(x) ==
    /\ hwint_irq_handler
    /\ complete(x)
    /\ UNCHANGED <<curr, vruntime, used, preempt_count, need_resched, irq_on, frame, idle_pc, wpc, wobj>>

\* The other things tasks do.
OtherThreadStep ==
    /\ \/ \E p \in Wakeable : wake_up_process(p)
       \/ \E p \in Task \ {Idle} : wake_up_new_task(p)
       \/ local_irq_enable
       \/ schedule /\ state[curr] = "RUNNING"
       \/ do_task_dead
    /\ wpc[curr] = "run"
    /\ UNCHANGED completionVars

\* Interrupts and the idle task.
Background ==
    /\ HPET_handler \/ excep_hwint_return \/ rest_init \/ do_idle
    /\ UNCHANGED completionVars

CompletionStep ==
    \/ \E x \in Completion :
           wait_for_completion(x) \/ complete_in_task(x) \/ complete_in_irq(x)
    \/ schedule_timeout
    \/ wait_again

CompletionNext == CompletionStep \/ OtherThreadStep \/ Background

CompletionSpec ==
    SchedInit /\ CompletionInit /\ [][CompletionNext]_<<schedVars, completionVars>>

-----------------------------------------------------------------------------
(* Properties *)

\* Type correctness; done never passes UINT_MAX (complete() saturates).
CompletionTypeOK ==
    /\ done \in [Completion -> 0..UINT_MAX]
    /\ task_list \in [Completion -> Seq(Task)]
    /\ wpc \in [Task -> WaitPc]
    /\ wobj \in [Task -> Completion \cup {NoCompletion}]

Waiters(x) == {t \in Task : wobj[t] = x}

\* The list of a completion holds each task at most once, and only tasks that are
\* inside wait_for_completion() of that completion: entries live on the stack of
\* the waiter, so one left behind would dangle once it returns.
ListHoldsWaiters ==
    \A x \in Completion : IsInjective(task_list[x]) /\ Linked(x) \subseteq Waiters(x)

\* No lost wake-up: a waiter that is off the list has been woken, and stays awake
\* until it has looked at done again.
UnlinkedAwake ==
    \A x \in Completion : \A t \in Waiters(x) \ Linked(x) : state[t] = "RUNNING"

\* Nobody sleeps through a completion: as long as somebody is on the list, every
\* completion not taken yet has a woken waiter on its way to take it.
CompletionsHaveTakers ==
    \A x \in Completion :
        task_list[x] # <<>> =>
            done[x] <= Cardinality(Waiters(x) \ Linked(x)) \/ done[x] = UINT_MAX

\* "Threads will be awakened in the same order in which they were queued."
FifoWakeup ==
    [][\A x \in Completion :
           complete(x) /\ task_list[x] # <<>> => task_list'[x] = Tail(task_list[x])
      ]_<<schedVars, completionVars>>
=============================================================================
