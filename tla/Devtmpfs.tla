------------------------------ MODULE Devtmpfs ------------------------------
(***************************************************************************)
(* The devtmpfs daemon, composed with the creation of its thread:          *)
(* devtmpfs_init() starts devtmpfsd() with kthread_run() and waits for its *)
(* set-up; device_add() then hands it a request per device node and waits. *)
(* The sections of req_lock are single steps, as in Kthread.               *)
(***************************************************************************)
EXTENDS Kthread

CONSTANTS
    Init,           \* the task that runs devtmpfs_init(), a creator
    Submitter,      \* tasks that call devtmpfs_create_node()
    setup_done,     \* the completion devtmpfs_init() waits for
    Req             \* memory for req_s objects, named like their req->done

ASSUME DevtmpfsAssumption ==
    /\ Init \in Creator /\ Submitter \subseteq Creator /\ Init \in Submitter
    /\ Req \subseteq Completion \ Creator
    /\ setup_done \in Completion \ (Creator \cup Req)
    /\ None \notin Completion

VARIABLES
    thread,         \* kdevtmpfs, once devtmpfs_init() has stored it
    requests,       \* the list of requests, newest first
    batch,          \* the part of it devtmpfs_work_loop() has detached, with its place
    req,            \* the req_s of each submitter
    allocated,      \* req_s objects between kzalloc() and kfree()
    broken          \* a req_s has been allocated again under a submitter that still uses it

devtmpfsVars == <<thread, requests, batch, req, allocated, broken>>

\* "s_": devtmpfs_create_node(); "w_": devtmpfs_work_loop().
DevtmpfsPc == KthreadPc \cup
    {"i_hang", "s_wake", "s_wait", "s_err",
     "w_lock", "w_handle", "w_free", "w_sched"}

DevtmpfsInit ==
    /\ SchedInit /\ CompletionInit /\ KthreadInit
    /\ thread = None
    /\ requests = <<>> /\ batch = <<>>
    /\ req = [c \in Submitter |-> None]
    /\ allocated = {} /\ broken = FALSE

-----------------------------------------------------------------------------
(* devtmpfs_init() after kthread_run() *)

\* "while (err);" when the thread could not be created.
devtmpfs_init ==
    /\ curr = Init /\ thread = None
    /\ IF result[Init] = Error
       THEN /\ Goto("c_end", "i_hang") /\ InThread
            /\ UNCHANGED <<schedVars, completionVars, thread>>
       ELSE /\ Goto("c_end", "c_end")
            /\ thread' = result[Init]
            /\ wait_for_completion(setup_done)
    /\ UNCHANGED <<kthread_create_list, creating, arg, result, requests, batch, req, allocated, broken>>

\* do_basic_setup() has called driver_init(): devices can be added.
driver_init_done == thread # None /\ wobj[Init] # setup_done

-----------------------------------------------------------------------------
(* devtmpfs_create_node() and devtmpfs_submit_req() *)

devtmpfs_submit_req ==
    /\ curr \in Submitter /\ driver_init_done
    /\ Goto("c_end", "s_wake") /\ InThread
    /\ \E r \in Req \ allocated :
           /\ allocated' = allocated \cup {r}
           /\ broken' = \E c \in Submitter : req[c] = r
           /\ req' = [req EXCEPT ![curr] = r]
           /\ requests' = <<r>> \o requests
           /\ done' = [done EXCEPT ![r] = 0]
           /\ task_list' = [task_list EXCEPT ![r] = <<>>]
    /\ UNCHANGED <<schedVars, wpc, wobj, kthread_create_list, creating, arg, result, thread, batch>>

submit_wake ==
    /\ Goto("s_wake", "s_wait")
    /\ wake_up_process(thread)
    /\ UNCHANGED <<completionVars, kthread_create_list, creating, arg, result, devtmpfsVars>>

submit_wait ==
    /\ Goto("s_wait", "s_err")
    /\ wait_for_completion(req[curr])
    /\ UNCHANGED <<kthread_create_list, creating, arg, result, devtmpfsVars>>

\* return req->err
submit_return ==
    /\ Goto("s_err", "c_end") /\ InThread
    /\ req' = [req EXCEPT ![curr] = None]
    /\ UNCHANGED <<schedVars, completionVars, kthread_create_list, creating, arg, result,
                   thread, requests, batch, allocated, broken>>

devtmpfs_create_node == devtmpfs_submit_req \/ submit_wake \/ submit_wait \/ submit_return

-----------------------------------------------------------------------------
(* devtmpfsd(): if init_mount() fails the thread exits without complete() *)

devtmpfsd ==
    /\ curr \in Child /\ arg[curr] = Init
    /\ Goto("t_fn", "w_lock")
    /\ complete_in_task(setup_done)
    /\ UNCHANGED <<kthread_create_list, creating, arg, result, devtmpfsVars>>

\* Mutant: the list is not emptied.
work_loop_lock_keep ==
    /\ InThread /\ requests # <<>>
    /\ Goto("w_lock", "w_handle")
    /\ batch' = requests
    /\ UNCHANGED <<schedVars, completionVars, kthread_create_list, creating, arg, result,
                   thread, requests, req, allocated, broken>>

\* One turn of the loop below req_lock: the whole list is detached, or, when it is
\* empty, the thread gets ready to sleep before it drops the lock.
work_loop_lock ==
    /\ InThread
    /\ IF requests # <<>>
       THEN /\ Goto("w_lock", "w_handle")
            /\ batch' = requests /\ requests' = <<>>
            /\ UNCHANGED schedVars
       ELSE /\ Goto("w_lock", "w_sched")
            /\ set_current_state("INTERRUPTIBLE") /\ irq_on' = irq_on
            /\ UNCHANGED <<requests, batch>>
    /\ UNCHANGED <<completionVars, kthread_create_list, creating, arg, result, thread, req, allocated, broken>>

\* req->err = handle(...) and complete(&req->done)
work_loop_complete ==
    /\ Goto("w_handle", "w_free")
    /\ complete_in_task(Head(batch))
    /\ UNCHANGED <<kthread_create_list, creating, arg, result, devtmpfsVars>>

work_loop_free ==
    /\ InThread
    /\ Goto("w_free", IF Len(batch) = 1 THEN "w_lock" ELSE "w_handle")
    /\ allocated' = allocated \ {Head(batch)}
    /\ batch' = Tail(batch)
    /\ UNCHANGED <<schedVars, completionVars, kthread_create_list, creating, arg, result,
                   thread, requests, req, broken>>

\* Mutant: the thread gets ready to sleep only after it has dropped the lock.
work_loop_sched_late ==
    /\ Goto("w_sched", "w_lock")
    /\ InThread /\ preempt_count = 0
    /\ state' = [state EXCEPT ![curr] = "INTERRUPTIBLE"]
    /\ __schedule(state', "schedule")
    /\ UNCHANGED <<irqs, idle_pc, completionVars, kthread_create_list, creating, arg, result, devtmpfsVars>>

work_loop_sched ==
    /\ Goto("w_sched", "w_lock")
    /\ schedule
    /\ UNCHANGED <<completionVars, kthread_create_list, creating, arg, result, devtmpfsVars>>

devtmpfs_work_loop ==
    work_loop_lock \/ work_loop_complete \/ work_loop_free \/ work_loop_sched

-----------------------------------------------------------------------------
\* A thread returns from its function; devtmpfsd() does only when init_mount() fails.
thread_exit == curr \in Child /\ kthread_exit

\* rest_init() creates init first and then kthreadd; the other tasks follow.
BootInOrder ==
    /\ Boot
    /\ state[Init] = "NEW" => state'[Init] # "NEW"
    /\ state'[Kthreadd] = "NEW" => \A c \in Creator \ {Init} : state'[c] = "NEW"

DevtmpfsStep ==
    \/ devtmpfs_init \/ devtmpfs_create_node
    \/ devtmpfsd \/ devtmpfs_work_loop
    \/ /\ kthreadd \/ kthread_run \/ kthread \/ thread_exit \/ BootInOrder \/ KthreadIrq \/ IdleStep
       /\ UNCHANGED devtmpfsVars

\* What happens after the memory of a request has two users is left open.
DevtmpfsNext == ~broken /\ DevtmpfsStep

allVars == <<vars, devtmpfsVars>>

DevtmpfsSpec == DevtmpfsInit /\ [][DevtmpfsNext]_allVars

-----------------------------------------------------------------------------
(* Properties *)

\* Where a request can be: on the list, with the daemon until complete(), answered.
Listed(r)   == r \in Range(requests)
Detached(r) == r \in Range(batch) /\ ~(r = Head(batch) /\ pc[thread] = "w_free")
Done(c)     == done[req[c]] > 0 \/ (pc[c] = "s_err" /\ wpc[c] = "run")

\* A node request is neither lost nor handled twice: while its submitter is in
\* devtmpfs_submit_req() it is in exactly one place, and in allocated memory until
\* it is answered.  After that the daemon frees it whether or not the submitter has
\* read the answer, so this holds until the memory gets another user.
NodeRequestInOnePlace ==
    ~broken =>
    \A c \in Submitter : req[c] # None =>
        /\ Cardinality({i \in 1..3 : <<Listed(req[c]), Detached(req[c]), Done(c)>>[i]}) = 1
        /\ ~Done(c) => req[c] \in allocated

\* No lost wake-up: whenever requests wait, the daemon is awake or a submitter is
\* about to wake it.  It gets ready to sleep and tests the list below one lock, so
\* unlike kthreadd() it cannot be preempted between the two.
NoRequestStranded ==
    ~broken /\ requests # <<>> =>
        \/ state[thread] = "RUNNING"
        \/ \E c \in Submitter : pc[c] = "s_wake" /\ Listed(req[c])

\* The memory of a request gets no other user before devtmpfs_submit_req() has
\* seen the completion in it and returned its err.
RequestOutlivesUse == ~broken
=============================================================================
