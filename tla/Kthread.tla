------------------------------ MODULE Kthread ------------------------------
(***************************************************************************)
(* Creation of kernel threads: kthread_create(), the kthreadd daemon and   *)
(* the first steps of the new thread, with the completion on the creator's *)
(* stack.  spin_lock(&kthread_create_lock) only turns preemption off, but  *)
(* no interrupt handler uses the list, so its sections are single steps.   *)
(***************************************************************************)
EXTENDS Completion

CONSTANTS
    Kthreadd,       \* kthreadd_task
    Creator,        \* tasks that call kthread_run(); each has its own completion
    Child,          \* task_s of the new kernel threads
    None, Error     \* create->result: not set, ERR_PTR

ASSUME KthreadAssumption ==
    /\ Kthreadd \in Task \ {Idle}
    /\ Creator \subseteq (Task \ {Idle, Kthreadd}) \cap Completion
    /\ Child \subseteq Task \ ({Idle, Kthreadd} \cup Creator)
    /\ {None, Error} \cap Task = {} /\ None # Error

VARIABLES
    pc,                     \* the place of each task in its code
    kthread_create_list,    \* the requests, named by their creators
    creating,               \* the request kthreadd has taken off the list
    arg,                    \* the request a new thread was created for
    result                  \* kthd_create_info_s.result, by creator

kthreadVars == <<pc, kthread_create_list, creating, arg, result>>

\* "d_": kthreadd(); "c_": kthread_run(); "t_": kthread().
KthreadPc ==
    {"d_set", "d_test", "d_running", "d_loop", "d_create",
     "c_add", "c_wake", "c_wait", "c_result", "c_end",
     "t_start", "t_disable", "t_complete", "t_enable", "t_schedule", "t_fn", "none"}

KthreadInit ==
    /\ pc = [t \in Task |-> CASE t = Kthreadd -> "d_set"
                              [] t \in Creator -> "c_add"
                              [] t \in Child -> "t_start"
                              [] OTHER -> "none"]
    /\ kthread_create_list = <<>>
    /\ creating = None
    /\ arg = [t \in Child |-> None]
    /\ result = [c \in Creator |-> None]

\* The current task is at p and goes to q.
Goto(p, q) == /\ wpc[curr] = "run" /\ pc[curr] = p
              /\ pc' = [pc EXCEPT ![curr] = q]

-----------------------------------------------------------------------------
(* kthreadd() *)

kthreadd_set ==
    /\ Goto("d_set", "d_test")
    /\ set_current_state("INTERRUPTIBLE") /\ irq_on' = irq_on
    /\ UNCHANGED <<completionVars, kthread_create_list, creating, arg, result>>

\* if (list_header_is_empty(&kthread_create_list)) schedule();
kthreadd_test ==
    /\ Goto("d_test", "d_running")
    /\ InThread
    /\ IF kthread_create_list = <<>> THEN schedule ELSE UNCHANGED schedVars
    /\ UNCHANGED <<completionVars, kthread_create_list, creating, arg, result>>

kthreadd_running ==
    /\ Goto("d_running", "d_loop")
    /\ set_current_state("RUNNING") /\ irq_on' = irq_on
    /\ UNCHANGED <<completionVars, kthread_create_list, creating, arg, result>>

\* Mutant: the request stays on the list.
kthreadd_loop_keep ==
    /\ InThread
    /\ IF kthread_create_list = <<>>
       THEN Goto("d_loop", "d_set") /\ UNCHANGED creating
       ELSE /\ Goto("d_loop", "d_create")
            /\ creating' = kthread_create_list[Len(kthread_create_list)]
    /\ UNCHANGED <<schedVars, completionVars, kthread_create_list, arg, result>>

\* The head of the inner loop: the last request is taken.
kthreadd_loop ==
    /\ InThread
    /\ LET list == kthread_create_list IN
       IF list = <<>>
       THEN Goto("d_loop", "d_set") /\ UNCHANGED <<kthread_create_list, creating>>
       ELSE /\ Goto("d_loop", "d_create")
            /\ creating' = list[Len(list)]
            /\ kthread_create_list' = SubSeq(list, 1, Len(list) - 1)
    /\ UNCHANGED <<schedVars, completionVars, arg, result>>

\* Mutant: kthreadd tells the creator whatever kernel_thread() returned.
create_kthread_eager ==
    /\ Goto("d_create", "d_loop")
    /\ creating' = None
    /\ \E t \in Child :
           /\ wake_up_new_task(t)
           /\ arg' = [arg EXCEPT ![t] = creating]
    /\ done' = [done EXCEPT ![creating] = 1]
    /\ UNCHANGED <<kthread_create_list, result, task_list, wpc, wobj>>

\* create_kthread(): kernel_thread() succeeds, or fails and the creator is told.
create_kthread ==
    /\ Goto("d_create", "d_loop")
    /\ creating' = None
    /\ \/ \E t \in Child :
              /\ wake_up_new_task(t)
              /\ arg' = [arg EXCEPT ![t] = creating]
              /\ UNCHANGED <<completionVars, result>>
       \/ /\ complete_in_task(creating)
          /\ result' = [result EXCEPT ![creating] = Error]
          /\ UNCHANGED arg
    /\ UNCHANGED kthread_create_list

kthreadd == kthreadd_set \/ kthreadd_test \/ kthreadd_running \/ kthreadd_loop \/ create_kthread

-----------------------------------------------------------------------------
(* kthread_run(), with __kthread_create_on_node() *)

\* kthreadd_done makes init wait until kthreadd exists.
kthread_create_add ==
    /\ Goto("c_add", "c_wake")
    /\ InThread /\ state[Kthreadd] # "NEW"
    /\ kthread_create_list' = Append(kthread_create_list, curr)
    /\ UNCHANGED <<schedVars, completionVars, creating, arg, result>>

kthread_create_wake ==
    /\ Goto("c_wake", "c_wait")
    /\ wake_up_process(Kthreadd)
    /\ UNCHANGED <<completionVars, kthread_create_list, creating, arg, result>>

kthread_create_wait ==
    /\ Goto("c_wait", "c_result")
    /\ wait_for_completion(curr)
    /\ UNCHANGED <<kthread_create_list, creating, arg, result>>

\* The other steps of wait_for_completion().
kthread_create_waiting ==
    /\ schedule_timeout \/ wait_again
    /\ UNCHANGED kthreadVars

\* kfree(create), then kthread_run() starts the thread.
kthread_run_result ==
    /\ Goto("c_result", "c_end")
    /\ IF result[curr] \in Child THEN wake_up_process(result[curr]) ELSE UNCHANGED schedVars
    /\ InThread
    /\ UNCHANGED <<completionVars, kthread_create_list, creating, arg, result>>

kthread_run ==
    \/ kthread_create_add \/ kthread_create_wake \/ kthread_create_wait
    \/ kthread_create_waiting \/ kthread_run_result

-----------------------------------------------------------------------------
(* kthread(): interrupts are off until its first schedule() *)

\* Mutants: the result is not set; the state is not set.
kthread_start_no_result ==
    /\ Goto("t_start", "t_disable")
    /\ InThread
    /\ state' = [state EXCEPT ![curr] = "UNINTERRUPTIBLE"]
    /\ UNCHANGED <<curr, runq, vruntime, used, cpuVars, completionVars, kthread_create_list, creating, arg, result>>
kthread_start_running ==
    /\ Goto("t_start", "t_disable")
    /\ InThread
    /\ result' = [result EXCEPT ![arg[curr]] = curr]
    /\ UNCHANGED <<schedVars, completionVars, kthread_create_list, creating, arg>>

kthread_start ==
    /\ Goto("t_start", "t_disable")
    /\ InThread
    /\ state' = [state EXCEPT ![curr] = "UNINTERRUPTIBLE"]
    /\ result' = [result EXCEPT ![arg[curr]] = curr]
    /\ UNCHANGED <<curr, runq, vruntime, used, cpuVars, completionVars, kthread_create_list, creating, arg>>

kthread_disable ==
    /\ Goto("t_disable", "t_complete")
    /\ preempt_disable
    /\ UNCHANGED <<completionVars, kthread_create_list, creating, arg, result>>

kthread_complete ==
    /\ Goto("t_complete", "t_enable")
    /\ complete_in_task(arg[curr])
    /\ UNCHANGED <<kthread_create_list, creating, arg, result>>

\* schedule_preempt_disabled(): sched_preempt_enable_no_resched(), then
\* schedule(); its preempt_disable() and the following preempt_enable() cancel.
kthread_enable ==
    /\ Goto("t_enable", "t_schedule")
    /\ InThread /\ preempt_count = 1
    /\ preempt_count' = 0
    /\ UNCHANGED <<queueVars, need_resched, irq_on, irqs, frame, idle_pc,
                   completionVars, kthread_create_list, creating, arg, result>>

kthread_schedule ==
    /\ Goto("t_schedule", "t_fn")
    /\ schedule
    /\ UNCHANGED <<completionVars, kthread_create_list, creating, arg, result>>

kthread == kthread_start \/ kthread_disable \/ kthread_complete \/ kthread_enable \/ kthread_schedule

\* threadfn returns, or the creator has nothing more to do: do_exit().
kthread_exit ==
    /\ wpc[curr] = "run" /\ pc[curr] \in {"t_fn", "c_end"}
    /\ do_task_dead
    /\ UNCHANGED <<completionVars, kthreadVars>>

-----------------------------------------------------------------------------
\* rest_init() creates init and kthreadd.
Boot ==
    /\ curr = Idle
    /\ \E t \in {Kthreadd} \cup Creator : wake_up_new_task(t)
    /\ UNCHANGED <<completionVars, kthreadVars>>

\* A task is forked with interrupts off.  Init has waited for kthreadd_done before
\* it creates threads, and kernel_thread() takes locks with spin_lock_irq(), which
\* turns them on; kthread() does neither before its first schedule().
KthreadIrq ==
    /\ \/ HPET_handler \/ excep_hwint_return
       \/ pc[curr] \in {"c_add", "d_create"} /\ local_irq_enable
    /\ UNCHANGED <<completionVars, kthreadVars>>

IdleStep == (rest_init \/ do_idle) /\ UNCHANGED <<completionVars, kthreadVars>>

KthreadNext ==
    kthreadd \/ kthread_run \/ kthread \/ kthread_exit \/ Boot \/ KthreadIrq \/ IdleStep

vars == <<schedVars, completionVars, kthreadVars>>

KthreadSpec == SchedInit /\ CompletionInit /\ KthreadInit /\ [][KthreadNext]_vars

\* The scheduler's fairness, and code that has the CPU makes progress between
\* interrupts.
Tick == HPET_handler /\ preempt_count = 0 /\ UNCHANGED <<completionVars, kthreadVars>>
Return == excep_hwint_return /\ UNCHANGED <<completionVars, kthreadVars>>

KthreadFairness ==
    /\ SF_vars(Tick) /\ SF_vars(Return)
    /\ SF_vars(kthreadd) /\ SF_vars(kthread_run) /\ SF_vars(kthread) /\ SF_vars(kthread_exit)
    /\ SF_vars(IdleStep)

FairKthreadSpec == KthreadSpec /\ KthreadFairness

-----------------------------------------------------------------------------
(* Properties *)

\* Type correctness; a result is a new thread or an error, never a request.
KthreadTypeOK ==
    /\ pc \in [Task -> KthreadPc]
    /\ kthread_create_list \in Seq(Creator)
    /\ creating \in Creator \cup {None}
    /\ arg \in [Child -> Creator \cup {None}]
    /\ result \in [Creator -> Child \cup {None, Error}]

\* Where a request can be: on the list, with kthreadd, with the new thread until
\* it has called complete(), or answered.
OnList(c)   == c \in Range(kthread_create_list)
InHand(c)   == creating = c
WithChild(c) == \E t \in Child : arg[t] = c /\ pc[t] \in {"t_start", "t_disable", "t_complete"}
Answered(c) == done[c] > 0 \/ (pc[c] = "c_result" /\ wpc[c] = "run")

\* The creator is between its kmalloc() and its kfree() of create, and its stack
\* still holds the completion.
Outstanding(c) == pc[c] \in {"c_wake", "c_wait", "c_result"}

\* A request is neither lost nor served twice: while its creator is in
\* kthread_create() it is in exactly one place.
RequestInOnePlace ==
    \A c \in Creator : Outstanding(c) =>
        Cardinality({i \in 1..4 : <<OnList(c), InHand(c), WithChild(c), Answered(c)>>[i]}) = 1

\* kthreadd and the new thread use create and the completion on the creator's
\* stack only while the creator still waits for them.
CreateAlive ==
    \A c \in Creator : OnList(c) \/ InHand(c) \/ WithChild(c) =>
        Outstanding(c) /\ ~Answered(c)

\* When wait_for_completion() returns, create->result has been set.
ResultReady ==
    \A c \in Creator : pc[c] = "c_result" /\ wpc[c] = "run" => result[c] # None

\* "The thread will be stopped: use wake_up_process() to start it": threadfn does
\* not run before the creator has called wake_up_process().
StoppedUntilWoken ==
    \A t \in Child : curr = t /\ pc[t] = "t_fn" => ~Outstanding(arg[t])

\* A request kthreadd has taken off the list is answered.
TakenIsAnswered == \A c \in Creator : (creating = c) ~> (pc[c] = "c_end")

\* "kthreadd (or new kernel thread) will call complete() shortly."
CreatorReturns == \A c \in Creator : (pc[c] = "c_wait") ~> (pc[c] = "c_end")
=============================================================================
