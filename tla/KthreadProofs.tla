---------------------------- MODULE KthreadProofs ----------------------------
(***************************************************************************)
(* Creation of kernel threads for any number of creators and threads: no   *)
(* request is lost, served twice or used after its creator has freed it,   *)
(* no thread runs before it is started, and the scheduler is only driven   *)
(* through its interface.  Then the devtmpfs daemon on top of it, for any  *)
(* number of submitters and requests, up to the point where the memory of  *)
(* a request has two users.                                                *)
(***************************************************************************)
EXTENDS Devtmpfs, SchedProofs

DaemonPc  == {"d_set", "d_test", "d_running", "d_loop", "d_create"}
CreatePc  == {"c_add", "c_wake", "c_wait", "c_result"}
ThreadPc  == {"t_start", "t_disable", "t_complete", "t_enable", "t_schedule", "t_fn"}

\* Places of the code around it: of a creator once kthread_run() has returned, of a
\* thread in its function.  In KthreadSpec nobody gets there.
SubmitPc  == {"s_wake", "s_wait", "s_err"}
AfterPc   == {"c_end", "i_hang"} \cup SubmitPc
LoopPc    == {"w_lock", "w_handle", "w_free", "w_sched"}

CreatorPc == CreatePc \cup AfterPc
ChildPc   == ThreadPc \cup LoopPc

\* Each task stays in its own code.
RolesOK ==
    /\ pc \in [Task -> DevtmpfsPc]
    /\ pc[Kthreadd] \in DaemonPc
    /\ \A c \in Creator : pc[c] \in CreatorPc
    /\ \A t \in Child : pc[t] \in ChildPc
    /\ \A t \in Task \ ({Kthreadd} \cup Creator \cup Child) : pc[t] = "none"

RequestTypeOK ==
    /\ kthread_create_list \in Seq(Creator) /\ IsInjective(kthread_create_list)
    /\ creating \in Creator \cup {None}
    /\ arg \in [Child -> Creator \cup {None}]
    /\ result \in [Creator -> Child \cup {None, Error}]

\* Completions that do not belong to a creator.
Others == Completion \ Creator

\* Only creators wait, in kthread_create() for their own completion and later for
\* others.
WaitOK(t) ==
    /\ t \in Creator
    /\ \/ pc[t] = "c_result" /\ wobj[t] = t
       \/ pc[t] \in AfterPc /\ wobj[t] \in Others

\* kthreadd has a request in hand where it creates a thread, lives for ever and
\* exists before the first request.
TasksOK ==
    /\ \A t \in Task : wpc[t] # "run" => WaitOK(t)
    /\ \A t \in Task : state[t] = "DEAD" => pc[t] \in {"t_fn", "c_end"}
    /\ \A c \in Creator : pc[c] # "c_add" => state[Kthreadd] # "NEW"
    /\ creating # None <=> pc[Kthreadd] = "d_create"

\* The request of c is in one place, which agrees with what there is of a thread.
RequestOK(c) ==
    /\ pc[c] = "c_add" => done[c] = 0
    /\ OnList(c) \/ InHand(c) \/ WithChild(c) => Outstanding(c) /\ ~Answered(c)
    /\ Outstanding(c) => OnList(c) \/ InHand(c) \/ WithChild(c) \/ Answered(c)
    /\ ~(OnList(c) /\ InHand(c))
    /\ OnList(c) \/ InHand(c) \/ pc[c] = "c_add" => \A t \in Child : arg[t] # c
    /\ Answered(c) \/ pc[c] \in AfterPc => result[c] # None
    /\ result[c] \in Child => arg[result[c]] = c /\ pc[result[c]] # "t_start"

\* A thread belongs to one request, and sleeps until its creator starts it.
ThreadOK(t) ==
    /\ arg[t] = None <=> state[t] = "NEW"
    /\ arg[t] = None => pc[t] = "t_start"
    /\ \A u \in Child : arg[u] = arg[t] /\ arg[t] # None => u = t
    /\ pc[t] # "t_start" => result[arg[t]] = t
    /\ pc[t] # "t_start" /\ Outstanding(arg[t]) => state[t] = "UNINTERRUPTIBLE"
    /\ pc[t] = "t_fn" /\ Outstanding(arg[t]) => curr # t
    /\ pc[t] \in LoopPc => ~Outstanding(arg[t])

KthreadInv ==
    /\ RolesOK /\ RequestTypeOK /\ TasksOK
    /\ \A c \in Creator : RequestOK(c)
    /\ \A t \in Child : ThreadOK(t)

\* How much of request c and of thread t a step that is not about them keeps.
Kept(c) ==
    /\ OnList(c)' <=> OnList(c)
    /\ InHand(c)' <=> InHand(c)
    /\ Outstanding(c)' <=> Outstanding(c)
    /\ Answered(c)' <=> Answered(c)
    /\ pc'[c] = "c_add" => pc[c] = "c_add" /\ done'[c] = done[c]
    /\ pc'[c] \in AfterPc => pc[c] \in AfterPc
    /\ result'[c] = result[c]

KeptThread(t) ==
    /\ arg'[t] = arg[t]
    /\ pc'[t] = "t_start" <=> pc[t] = "t_start"
    /\ pc'[t] \in {"t_start", "t_disable", "t_complete"} <=>
           pc[t] \in {"t_start", "t_disable", "t_complete"}
    /\ state'[t] = "NEW" <=> state[t] = "NEW"
    /\ Outstanding(arg[t]) => state'[t] = state[t]
    /\ pc'[t] = "t_fn" /\ Outstanding(arg[t]) => curr' # t
    /\ pc'[t] \in LoopPc => ~Outstanding(arg[t])

\* ... and what a step about request x may do to thread t.
Moved(t, x) ==
    \/ KeptThread(t) /\ (arg[t] = x => x = None)
    \/ arg'[t] = x /\ arg[t] \in {x, None} /\ ThreadOK(t)'

-----------------------------------------------------------------------------
(* Roles and frames *)

\* The place of a task tells its role.
LEMMA RoleOf ==
    ASSUME RolesOK, NEW t \in Task
    PROVE  /\ pc[t] \in DaemonPc => t = Kthreadd
           /\ pc[t] \in CreatorPc => t \in Creator
           /\ pc[t] \in ChildPc => t \in Child
BY Zenon DEF RolesOK, DaemonPc, CreatorPc, CreatePc, AfterPc, SubmitPc, ChildPc, ThreadPc, LoopPc

\* A task that goes on within its code keeps its role.
LEMMA MovePc ==
    ASSUME RolesOK, NEW t \in Task, NEW q, pc' = [pc EXCEPT ![t] = q],
           \/ pc[t] \in DaemonPc /\ q \in DaemonPc
           \/ pc[t] \in CreatorPc /\ q \in CreatorPc
           \/ pc[t] \in ChildPc /\ q \in ChildPc
    PROVE  RolesOK' /\ pc'[t] = q /\ \A u \in Task \ {t} : pc'[u] = pc[u]
<1>1. q \in DevtmpfsPc
  BY Zenon DEF DaemonPc, CreatorPc, CreatePc, AfterPc, SubmitPc, ChildPc, ThreadPc, LoopPc,
               DevtmpfsPc, KthreadPc
<1>2. pc \in [Task -> DevtmpfsPc]
  BY Zenon DEF RolesOK
<1>3. pc' \in [Task -> DevtmpfsPc] /\ pc'[t] = q /\ \A u \in Task \ {t} : pc'[u] = pc[u]
  BY <1>1, <1>2, Zenon
<1>. QED  BY <1>3, RoleOf, KthreadAssumption DEF RolesOK

\* What the invariant says of the tasks a step touches.
LEMMA Facts ==
    ASSUME SchedInv, CompletionInv, KthreadInv
    PROVE  /\ curr \in Task /\ state \in [Task -> State] /\ state[curr] \notin {"NEW", "DEAD"}
           /\ wpc \in [Task -> WaitPc] /\ wobj \in [Task -> Completion \cup {NoCompletion}]
           /\ done \in [Completion -> 0..UINT_MAX]
           /\ pc[curr] \in DaemonPc => curr = Kthreadd
           /\ pc[curr] \in CreatorPc => curr \in Creator
           /\ pc[curr] \in ChildPc => curr \in Child
<1>1. curr \in Task /\ state \in [Task -> State] /\ state[curr] \notin {"NEW", "DEAD"}
  BY Zenon DEF SchedInv, QueueInv, QueueType, CurrAlive
<1>2. RolesOK
  BY Zenon DEF KthreadInv
<1>. QED  BY <1>1, <1>2, RoleOf, Zenon DEF CompletionInv, CompletionTypeOK

\* A step is about the request x, if any, and about its thread.
LEMMA StepOK ==
    ASSUME KthreadInv, NEW x, RolesOK', RequestTypeOK', TasksOK',
           \A c \in Creator \ {x} : Kept(c),
           x \in Creator => RequestOK(x)',
           \A t \in Child : Moved(t, x)
    PROVE  KthreadInv'
<1>. USE KthreadAssumption
<1>1. ASSUME NEW c \in Creator, c # x PROVE RequestOK(c)'
  <2>1. RequestOK(c) /\ Kept(c)
    BY <1>1, Zenon DEF KthreadInv
  <2>2. \A t \in Child : /\ arg'[t] = c <=> arg[t] = c
                         /\ arg[t] = c => KeptThread(t)
    BY <1>1, Zenon DEF Moved, KeptThread
  <2>3. WithChild(c)' <=> WithChild(c)
    BY <2>2, Zenon DEF WithChild, KeptThread
  <2>4. result[c] \in Child => arg'[result[c]] = c /\ pc'[result[c]] # "t_start"
    BY <2>1, <2>2, Zenon DEF RequestOK, KeptThread
  <2>. QED  BY <2>1, <2>2, <2>3, <2>4, Zenon DEF RequestOK, Kept
<1>2. ASSUME NEW t \in Child, KeptThread(t), arg[t] = x => x = None PROVE ThreadOK(t)'
  <2>1. ThreadOK(t) /\ arg'[t] = arg[t]
    BY <1>2, Zenon DEF KthreadInv, KeptThread
  <2>2. arg[t] # None => arg[t] \in Creator /\ Kept(arg[t])
    BY <1>2, Zenon DEF KthreadInv, RequestTypeOK
  <2>3. arg[t] # None => /\ Outstanding(arg[t])' <=> Outstanding(arg[t])
                         /\ result'[arg[t]] = result[arg[t]]
    BY <2>1, <2>2, Zenon DEF Kept, Outstanding
  <2>4. \A u \in Child : arg'[u] = arg[t] /\ arg[t] # None => u = t
    BY <1>2, <2>1, Zenon DEF ThreadOK, Moved, KeptThread
  <2>5. pc'[t] \in LoopPc => arg[t] # None
    BY <1>2, <2>1, Zenon DEF ThreadOK, KeptThread, LoopPc
  <2>. QED  BY <1>2, <2>1, <2>3, <2>4, <2>5, Zenon DEF ThreadOK, KeptThread
<1>3. \A t \in Child : ThreadOK(t)'
  BY <1>2, Zenon DEF Moved
<1>. QED  BY <1>1, <1>3, Zenon DEF KthreadInv

-----------------------------------------------------------------------------
(* Requests move from one place to the next *)

\* Before the first request.
LEMMA KthreadInitInv == SchedInit /\ CompletionInit /\ KthreadInit => KthreadInv
<1>. SUFFICES ASSUME SchedInit, CompletionInit, KthreadInit PROVE KthreadInv
  BY Zenon
<1>. USE KthreadAssumption DEF KthreadInit
<1>1. RolesOK
  BY Zenon DEF RolesOK, DevtmpfsPc, KthreadPc, DaemonPc, CreatorPc, CreatePc, ChildPc, ThreadPc
<1>2. Range(kthread_create_list) = {} /\ IsInjective(kthread_create_list)
  BY DEF Range, IsInjective
<1>3. RequestTypeOK
  BY <1>2 DEF RequestTypeOK
<1>4. TasksOK
  BY Zenon DEF TasksOK, SchedInit, CompletionInit
<1>5. ASSUME NEW c \in Creator PROVE RequestOK(c)
  <2>1. done[c] = 0 /\ pc[c] = "c_add" /\ result[c] = None
    BY Zenon DEF CompletionInit
  <2>2. \A t \in Child : arg[t] = None
    BY Zenon
  <2>. QED  BY <2>1, <2>2, <1>2 DEF RequestOK, OnList, InHand, WithChild, Outstanding, Answered, AfterPc, SubmitPc
<1>6. ASSUME NEW t \in Child PROVE ThreadOK(t)
  BY Zenon DEF ThreadOK, LoopPc, SchedInit
<1>. QED  BY <1>1, <1>3, <1>4, <1>5, <1>6, Zenon DEF KthreadInv

\* kthreadd takes the last request off the list.
LEMMA TakeInv ==
    ASSUME SchedInv, CompletionInv, KthreadInv, kthreadd_loop, kthread_create_list # <<>>
    PROVE  KthreadInv'
<1>. USE KthreadAssumption
<1>l. kthread_create_list \in Seq(Creator) /\ IsInjective(kthread_create_list)
  BY Zenon DEF KthreadInv, RequestTypeOK
<1>m. /\ creating' = kthread_create_list[Len(kthread_create_list)]
      /\ kthread_create_list' = SubSeq(kthread_create_list, 1, Len(kthread_create_list) - 1)
  BY Zenon DEF kthreadd_loop
<1>1. PICK x \in Creator :
          /\ OnList(x) /\ creating' = x
          /\ kthread_create_list' \in Seq(Creator) /\ IsInjective(kthread_create_list')
          /\ Range(kthread_create_list') = Range(kthread_create_list) \ {x}
  BY <1>l, <1>m, FrontQueue, Zenon DEF OnList
<1>2. /\ curr = Kthreadd /\ pc[Kthreadd] = "d_loop" /\ pc' = [pc EXCEPT ![Kthreadd] = "d_create"]
      /\ UNCHANGED <<arg, result, done, wpc, wobj, state, curr>>
  BY Facts, Zenon DEF kthreadd_loop, Goto, DaemonPc, schedVars, queueVars, completionVars
<1>3. RolesOK' /\ pc'[Kthreadd] = "d_create" /\ \A u \in Task \ {Kthreadd} : pc'[u] = pc[u]
  BY <1>2, MovePc, Zenon DEF KthreadInv, DaemonPc
<1>4. creating = None
  BY <1>2, Zenon DEF KthreadInv, TasksOK
<1>5. RequestOK(x) /\ Outstanding(x) /\ ~Answered(x) /\ \A t \in Child : arg[t] # x
  BY <1>1, Zenon DEF KthreadInv, RequestOK
<1>6. RequestTypeOK'
  BY <1>1, <1>2, Zenon DEF KthreadInv, RequestTypeOK
<1>7. TasksOK'
  BY <1>1, <1>2, <1>3 DEF KthreadInv, TasksOK, WaitOK
<1>8. \A c \in Creator \ {x} : Kept(c)
  BY <1>1, <1>2, <1>3, <1>4, Zenon DEF Kept, OnList, InHand, Outstanding, Answered
<1>9. RequestOK(x)'
  <2>1. ~OnList(x)' /\ InHand(x)' /\ Outstanding(x)' /\ ~Answered(x)' /\ ~WithChild(x)'
    BY <1>1, <1>2, <1>3, <1>5, Zenon DEF OnList, InHand, Outstanding, Answered, WithChild
  <2>. QED  BY <2>1, <1>2, <1>5, Zenon DEF RequestOK, Outstanding, AfterPc, SubmitPc
<1>10. \A t \in Child : Moved(t, x)
  BY <1>2, <1>3, <1>5, Zenon DEF KthreadInv, ThreadOK, KeptThread, Moved
<1>. QED  BY <1>3, <1>6, <1>7, <1>8, <1>9, <1>10, StepOK, Zenon

\* complete() wakes nobody but a creator.
LEMMA CompleteStates ==
    ASSUME SchedInv, CompletionInv, KthreadInv, NEW x \in Completion, complete_in_task(x)
    PROVE  /\ \A t \in Task : state'[t] = state[t] \/ (t \in Creator /\ state'[t] = "RUNNING")
           /\ UNCHANGED <<curr, wpc, wobj>>
           /\ done'[x] > 0
           /\ \A y \in Completion \ {x} : done'[y] = done[y]
<1>. USE KthreadAssumption
<1>t. /\ state \in [Task -> State] /\ done \in [Completion -> 0..UINT_MAX]
      /\ task_list \in [Completion -> Seq(Task)] /\ wpc \in [Task -> WaitPc]
  BY Facts, Zenon DEF CompletionInv, CompletionTypeOK
<1>1. complete(x) /\ UNCHANGED <<curr, wpc, wobj>>
  BY Zenon DEF complete_in_task
<1>2. done'[x] > 0 /\ \A y \in Completion \ {x} : done'[y] = done[y]
  BY <1>1, <1>t, CompletionAssumption DEF complete
<1>3. CASE task_list[x] = <<>>
  BY <1>1, <1>2, <1>3, Zenon DEF complete, swake_up_locked
<1>4. CASE task_list[x] # <<>>
  <2>1. PICK w \in Linked(x) : w \in Task /\ state' = [state EXCEPT ![w] = "RUNNING"]
    BY <1>1, <1>4, <1>t, FrontQueue, Zenon
    DEF complete, swake_up_locked, try_to_wake_up, CompletionInv, ListHoldsWaiters, Linked
  <2>2. wobj[w] = x
    BY <2>1, <1>t, Zenon DEF CompletionInv, ListHoldsWaiters, Waiters
  <2>3. w \in Creator
    BY <2>1, <2>2, <1>t, Zenon DEF CompletionInv, WaiterAlive, KthreadInv, TasksOK, WaitOK
  <2>. QED  BY <1>1, <1>2, <1>t, <2>1, <2>3, Zenon
<1>. QED  BY <1>3, <1>4, Zenon

\* kernel_thread() succeeds: the request is with the new thread.
LEMMA CreateInv ==
    ASSUME SchedInv, CompletionInv, KthreadInv, Goto("d_create", "d_loop"), creating' = None,
           NEW n \in Child, wake_up_new_task(n), arg' = [arg EXCEPT ![n] = creating],
           UNCHANGED <<completionVars, result, kthread_create_list>>
    PROVE  KthreadInv'
<1>. USE KthreadAssumption
<1>1. /\ curr = Kthreadd /\ pc[Kthreadd] = "d_create" /\ pc' = [pc EXCEPT ![Kthreadd] = "d_loop"]
      /\ state[n] = "NEW" /\ state' = [state EXCEPT ![n] = "RUNNING"] /\ state \in [Task -> State]
      /\ UNCHANGED <<done, wpc, wobj, curr>>
  BY Facts, Zenon DEF Goto, DaemonPc, wake_up_new_task, completionVars
<1>2. RolesOK' /\ pc'[Kthreadd] = "d_loop" /\ \A u \in Task \ {Kthreadd} : pc'[u] = pc[u]
  BY <1>1, MovePc, Zenon DEF KthreadInv, DaemonPc
<1>3. PICK x \in Creator : InHand(x) /\ x = creating
  BY <1>1, Zenon DEF KthreadInv, TasksOK, RequestTypeOK, InHand
<1>4. RequestOK(x) /\ Outstanding(x) /\ ~Answered(x) /\ ~OnList(x) /\ \A t \in Child : arg[t] # x
  BY <1>3, Zenon DEF KthreadInv, RequestOK
<1>5. arg[n] = None /\ pc[n] = "t_start"
  BY <1>1, Zenon DEF KthreadInv, ThreadOK
<1>6. /\ arg' \in [Child -> Creator \cup {None}] /\ arg'[n] = x
      /\ \A t \in Child \ {n} : arg'[t] = arg[t]
  BY <1>3, Zenon DEF KthreadInv, RequestTypeOK
<1>7. RequestTypeOK'
  BY <1>6, Zenon DEF KthreadInv, RequestTypeOK
<1>8. TasksOK'
  <2>1. \A t \in Task : state'[t] = "DEAD" => state[t] = "DEAD" /\ t # Kthreadd
    BY <1>1 DEF KthreadInv, TasksOK
  <2>2. state'[Kthreadd] = state[Kthreadd]
    BY <1>1, Zenon
  <2>. QED  BY <2>1, <2>2, <1>1, <1>2 DEF KthreadInv, TasksOK, WaitOK
<1>9. \A c \in Creator \ {x} : Kept(c)
  BY <1>1, <1>2, <1>3, Zenon DEF Kept, OnList, InHand, Outstanding, Answered
<1>10. RequestOK(x)'
  <2>1. ~OnList(x)' /\ ~InHand(x)' /\ Outstanding(x)' /\ ~Answered(x)' /\ WithChild(x)'
    BY <1>1, <1>2, <1>4, <1>5, <1>6 DEF OnList, InHand, Outstanding, Answered, WithChild
  <2>2. result'[x] \notin Child
    BY <1>4, Zenon DEF RequestOK
  <2>. QED  BY <2>1, <2>2, Zenon DEF RequestOK, Outstanding, AfterPc, SubmitPc
<1>11. ThreadOK(n)'
  <2>1. \A t \in Child : arg'[t] = x => t = n
    BY <1>4, <1>6, Zenon
  <2>. QED  BY <2>1, <1>1, <1>2, <1>5, <1>6, Zenon DEF ThreadOK, LoopPc
<1>12. \A t \in Child \ {n} : KeptThread(t)
  BY <1>1, <1>2, <1>6, Zenon DEF KthreadInv, ThreadOK, KeptThread
<1>13. \A t \in Child : Moved(t, x)
  BY <1>4, <1>5, <1>6, <1>11, <1>12, Zenon DEF Moved
<1>. QED  BY <1>2, <1>7, <1>8, <1>9, <1>10, <1>13, StepOK, Zenon

\* kernel_thread() fails: the request is answered with an error.
LEMMA FailInv ==
    ASSUME SchedInv, CompletionInv, KthreadInv, Goto("d_create", "d_loop"), creating' = None,
           complete_in_task(creating), result' = [result EXCEPT ![creating] = Error],
           UNCHANGED <<arg, kthread_create_list>>
    PROVE  KthreadInv'
<1>. USE KthreadAssumption
<1>1. curr = Kthreadd /\ pc[Kthreadd] = "d_create" /\ pc' = [pc EXCEPT ![Kthreadd] = "d_loop"]
  BY Facts, Zenon DEF Goto, DaemonPc
<1>2. RolesOK' /\ pc'[Kthreadd] = "d_loop" /\ \A u \in Task \ {Kthreadd} : pc'[u] = pc[u]
  BY <1>1, MovePc, Zenon DEF KthreadInv, DaemonPc
<1>3. PICK x \in Creator : InHand(x) /\ x = creating
  BY <1>1, Zenon DEF KthreadInv, TasksOK, RequestTypeOK, InHand
<1>4. RequestOK(x) /\ Outstanding(x) /\ ~OnList(x) /\ \A t \in Child : arg[t] # x
  BY <1>3, Zenon DEF KthreadInv, RequestOK
<1>5. /\ \A u \in Task \ Creator : state'[u] = state[u]
      /\ \A u \in Task : state'[u] = "DEAD" => state[u] = "DEAD"
      /\ UNCHANGED <<curr, wpc, wobj>>
      /\ done'[x] > 0
      /\ \A c \in Creator \ {x} : done'[c] = done[c]
  <2>1. x \in Completion /\ \A c \in Creator : c \in Completion
    BY Zenon
  <2>. QED  BY <1>3, <2>1, CompleteStates, Zenon
<1>6. RequestTypeOK' /\ result'[x] = Error /\ \A c \in Creator \ {x} : result'[c] = result[c]
  BY <1>3, Zenon DEF KthreadInv, RequestTypeOK
<1>7. TasksOK'
  <2>1. \A t \in Task : state'[t] = "DEAD" => state[t] = "DEAD" /\ t # Kthreadd
    BY <1>1, <1>5, Zenon DEF KthreadInv, TasksOK
  <2>. QED  BY <2>1, <1>2, <1>5 DEF KthreadInv, TasksOK, WaitOK
<1>8. \A c \in Creator \ {x} : Kept(c)
  BY <1>2, <1>3, <1>5, <1>6, Zenon DEF Kept, OnList, InHand, Outstanding, Answered
<1>9. RequestOK(x)'
  <2>1. ~OnList(x)' /\ ~InHand(x)' /\ Outstanding(x)' /\ Answered(x)' /\ ~WithChild(x)'
    BY <1>2, <1>4, <1>5, Zenon DEF OnList, InHand, Outstanding, Answered, WithChild
  <2>. QED  BY <2>1, <1>6, Zenon DEF RequestOK, Outstanding
<1>10. \A t \in Child : Moved(t, x)
  BY <1>2, <1>4, <1>5, Zenon DEF KthreadInv, ThreadOK, KeptThread, Moved
<1>. QED  BY <1>2, <1>6, <1>7, <1>8, <1>9, <1>10, StepOK, Zenon

\* A creator puts its request on the list.
LEMMA AddInv ==
    ASSUME SchedInv, CompletionInv, KthreadInv, kthread_create_add
    PROVE  KthreadInv'
<1>. USE KthreadAssumption
<1>1. PICK x \in Creator : x = curr /\ pc[x] = "c_add" /\ wpc[x] = "run"
  BY Facts, Zenon DEF kthread_create_add, Goto, CreatorPc, CreatePc, AfterPc
<1>2. /\ kthread_create_list' = Append(kthread_create_list, x) /\ state[Kthreadd] # "NEW"
      /\ pc' = [pc EXCEPT ![x] = "c_wake"]
      /\ UNCHANGED <<creating, arg, result, done, wpc, wobj, state, curr>>
  BY <1>1, Zenon DEF kthread_create_add, Goto, schedVars, queueVars, completionVars
<1>3. RolesOK' /\ pc'[x] = "c_wake" /\ \A u \in Task \ {x} : pc'[u] = pc[u]
  BY <1>1, <1>2, MovePc, Zenon DEF KthreadInv, CreatorPc, CreatePc, AfterPc
<1>4. RequestOK(x) /\ ~Outstanding(x)
  BY <1>1, Zenon DEF KthreadInv, Outstanding
<1>5. ~OnList(x) /\ ~InHand(x) /\ done[x] = 0 /\ \A t \in Child : arg[t] # x
  BY <1>1, <1>4, Zenon DEF RequestOK
<1>6. /\ kthread_create_list' \in Seq(Creator) /\ IsInjective(kthread_create_list')
      /\ Range(kthread_create_list') = Range(kthread_create_list) \cup {x}
  BY <1>2, <1>5, AppendQueue DEF KthreadInv, RequestTypeOK, OnList
<1>7. RequestTypeOK'
  BY <1>2, <1>6, Zenon DEF KthreadInv, RequestTypeOK
<1>8. TasksOK'
  BY <1>1, <1>2, <1>3 DEF KthreadInv, TasksOK, WaitOK
<1>9. \A c \in Creator \ {x} : Kept(c)
  BY <1>2, <1>3, <1>6, Zenon DEF Kept, OnList, InHand, Outstanding, Answered
<1>10. RequestOK(x)'
  <2>1. OnList(x)' /\ ~InHand(x)' /\ Outstanding(x)' /\ ~Answered(x)' /\ ~WithChild(x)'
    BY <1>2, <1>3, <1>5, <1>6 DEF OnList, InHand, Outstanding, Answered, WithChild
  <2>. QED  BY <2>1, <1>2, <1>3, <1>4, <1>5, Zenon DEF RequestOK, AfterPc, SubmitPc
<1>11. \A t \in Child : Moved(t, x)
  BY <1>2, <1>3, <1>5 DEF KthreadInv, ThreadOK, KeptThread, Moved
<1>. QED  BY <1>3, <1>7, <1>8, <1>9, <1>10, <1>11, StepOK, Zenon

\* A locked section of wait_for_completion(): the caller gets ready to sleep, or
\* takes the completion.
LEMMA WaitStates ==
    ASSUME SchedInv, CompletionInv, KthreadInv, NEW y \in Completion, WaitSection(y)
    PROVE  /\ curr' = curr
           /\ \A u \in Task \ {curr} : state'[u] = state[u] /\ wpc'[u] = wpc[u] /\ wobj'[u] = wobj[u]
           /\ \A x \in Completion \ {y} : done'[x] = done[x]
           /\ \/ /\ done[y] = 0 /\ done'[y] = 0 /\ state'[curr] = "UNINTERRUPTIBLE"
                 /\ wpc'[curr] = "sleep" /\ wobj'[curr] = y
              \/ /\ done[y] > 0 /\ state'[curr] = "RUNNING"
                 /\ wpc'[curr] = "run" /\ wobj'[curr] = NoCompletion
<1>t. /\ state \in [Task -> State] /\ done \in [Completion -> 0..UINT_MAX] /\ curr \in Task
      /\ wpc \in [Task -> WaitPc] /\ wobj \in [Task -> Completion \cup {NoCompletion}]
  BY Facts, Zenon
<1>1. CASE done[y] = 0
  BY <1>1, <1>t, Zenon DEF WaitSection, do_wait_for_common, prepare_to_swait
<1>2. CASE done[y] # 0
  <2>1. done[y] > 0
    BY <1>2, <1>t
  <2>. QED  BY <1>2, <2>1, <1>t, Zenon DEF WaitSection, do_wait_for_common, take_done
<1>. QED  BY <1>1, <1>2, Zenon

\* A creator waits for the answer to its request.
LEMMA WaitingInv ==
    ASSUME SchedInv, CompletionInv, KthreadInv, curr \in Creator, WaitSection(curr),
           \/ pc[curr] = "c_wait" /\ pc' = [pc EXCEPT ![curr] = "c_result"]
           \/ pc[curr] = "c_result" /\ wpc[curr] # "run" /\ pc' = pc,
           UNCHANGED <<kthread_create_list, creating, arg, result>>
    PROVE  KthreadInv'
<1>. USE KthreadAssumption
<1>1. PICK x \in Creator : x = curr /\ x \in Completion
  BY Zenon
<1>2. RolesOK' /\ pc'[x] = "c_result" /\ \A u \in Task \ {x} : pc'[u] = pc[u]
  <2>1. CASE pc' = pc
    BY <1>1, <2>1, Zenon DEF KthreadInv, RolesOK
  <2>2. CASE pc[x] = "c_wait" /\ pc' = [pc EXCEPT ![x] = "c_result"]
    BY <1>1, <2>2, MovePc, Zenon DEF KthreadInv, CreatorPc, CreatePc, AfterPc
  <2>. QED  BY <1>1, <2>1, <2>2, Zenon
<1>3. /\ curr' = curr
      /\ \A u \in Task \ {x} : state'[u] = state[u] /\ wpc'[u] = wpc[u] /\ wobj'[u] = wobj[u]
      /\ \A c \in Creator \ {x} : done'[c] = done[c]
      /\ \/ done[x] = 0 /\ done'[x] = 0 /\ wpc'[x] = "sleep" /\ wobj'[x] = x
            /\ state'[x] = "UNINTERRUPTIBLE"
         \/ done[x] > 0 /\ wpc'[x] = "run" /\ state'[x] = "RUNNING"
  BY <1>1, WaitStates, Zenon
<1>4. Answered(x)' <=> Answered(x)
  BY <1>1, <1>2, <1>3, Zenon DEF Answered
<1>5. RequestTypeOK'
  BY Zenon DEF KthreadInv, RequestTypeOK
<1>6. TasksOK'
  BY <1>2, <1>3 DEF KthreadInv, TasksOK, WaitOK
<1>7. \A c \in Creator : Kept(c)
  <2>1. Kept(x)
    BY <1>1, <1>2, <1>4, Zenon DEF Kept, OnList, InHand, Outstanding, AfterPc, SubmitPc
  <2>. QED  BY <2>1, <1>2, <1>3, Zenon DEF Kept, OnList, InHand, Outstanding, Answered
<1>8. \A t \in Child : Moved(t, None)
  BY <1>1, <1>2, <1>3 DEF KthreadInv, ThreadOK, KeptThread, Moved
<1>. QED  BY <1>2, <1>5, <1>6, <1>7, <1>8, StepOK, Zenon

\* ... and later, for a completion of the code around it.
LEMMA OtherWaitInv ==
    ASSUME SchedInv, CompletionInv, KthreadInv, curr \in Creator, NEW y \in Others, WaitSection(y),
           pc[curr] \in AfterPc, pc'[curr] \in AfterPc, RolesOK',
           \A u \in Task \ {curr} : pc'[u] = pc[u],
           UNCHANGED <<kthread_create_list, creating, arg, result>>
    PROVE  KthreadInv'
<1>. USE KthreadAssumption
<1>1. PICK x \in Creator : x = curr
  BY Zenon
<1>2. /\ curr' = curr
      /\ \A u \in Task \ {x} : state'[u] = state[u] /\ wpc'[u] = wpc[u] /\ wobj'[u] = wobj[u]
      /\ \A c \in Creator : done'[c] = done[c]
      /\ wpc'[x] # "run" => wobj'[x] = y
      /\ state'[x] # "DEAD"
  BY <1>1, WaitStates, Zenon DEF Others
<1>3. RequestTypeOK'
  BY Zenon DEF KthreadInv, RequestTypeOK
<1>4. TasksOK'
  <2>1. \A t \in Task : wpc'[t] # "run" => WaitOK(t)'
    <3>1. wpc'[x] # "run" => WaitOK(x)'
      BY <1>1, <1>2, Zenon DEF WaitOK
    <3>2. \A t \in Task \ {x} : wpc'[t] # "run" => WaitOK(t)'
      BY <1>1, <1>2, Zenon DEF KthreadInv, TasksOK, WaitOK
    <3>. QED  BY <3>1, <3>2, Zenon
  <2>2. \A c \in Creator : pc'[c] # "c_add" => pc[c] # "c_add"
    BY <1>1, Zenon DEF AfterPc, SubmitPc
  <2>. QED  BY <2>1, <2>2, <1>1, <1>2, Zenon DEF KthreadInv, TasksOK
<1>5. \A c \in Creator : Kept(c)
  <2>1. Kept(x)
    BY <1>1, <1>2, Zenon DEF Kept, OnList, InHand, Outstanding, Answered, AfterPc, SubmitPc
  <2>. QED  BY <2>1, <1>1, <1>2, Zenon DEF Kept, OnList, InHand, Outstanding, Answered
<1>6. \A t \in Child : Moved(t, None)
  BY <1>1, <1>2, Zenon DEF KthreadInv, ThreadOK, KeptThread, Moved
<1>. QED  BY <1>3, <1>4, <1>5, <1>6, StepOK, Zenon

\* The creator frees the request and starts its thread.
LEMMA StartInv ==
    ASSUME SchedInv, CompletionInv, KthreadInv, kthread_run_result
    PROVE  KthreadInv'
<1>. USE KthreadAssumption
<1>1. PICK x \in Creator : x = curr /\ pc[x] = "c_result" /\ wpc[x] = "run"
  BY Facts, Zenon DEF kthread_run_result, Goto, CreatorPc, CreatePc, AfterPc
<1>2. /\ pc' = [pc EXCEPT ![x] = "c_end"]
      /\ UNCHANGED <<kthread_create_list, creating, arg, result, done, wpc, wobj>>
  BY <1>1, Zenon DEF kthread_run_result, Goto, completionVars
<1>3. RolesOK' /\ pc'[x] = "c_end" /\ \A u \in Task \ {x} : pc'[u] = pc[u]
  BY <1>1, <1>2, MovePc, Zenon DEF KthreadInv, CreatorPc, CreatePc, AfterPc
<1>4. /\ curr' = curr
      /\ \A u \in Task : u # result[x] => state'[u] = state[u]
      /\ result[x] \in Child => state'[result[x]] = "RUNNING"
  <2>1. state \in [Task -> State]
    BY Facts, Zenon
  <2>2. CASE result[x] \in Child
    BY <1>1, <2>1, <2>2, Zenon DEF kthread_run_result, wake_up_process, try_to_wake_up
  <2>3. CASE result[x] \notin Child
    BY <1>1, <2>3, Zenon DEF kthread_run_result, schedVars, queueVars
  <2>. QED  BY <2>2, <2>3, Zenon
<1>5. RequestOK(x) /\ Answered(x) /\ ~OnList(x) /\ ~InHand(x) /\ ~WithChild(x)
  BY <1>1, Zenon DEF KthreadInv, RequestOK, Answered
<1>6. result[x] # Kthreadd /\ \A t \in Child : t = result[x] => arg[t] = x
  BY <1>5, Zenon DEF KthreadInv, RequestTypeOK, RequestOK
<1>7. RequestTypeOK'
  BY <1>2, Zenon DEF KthreadInv, RequestTypeOK
<1>8. TasksOK'
  <2>1. \A t \in Task : state'[t] = "DEAD" => state[t] = "DEAD"
    BY <1>4, Zenon DEF KthreadInv, RequestTypeOK
  <2>. QED  BY <2>1, <1>1, <1>2, <1>3, <1>4, <1>6 DEF KthreadInv, TasksOK, WaitOK
<1>9. \A c \in Creator \ {x} : Kept(c)
  BY <1>2, <1>3, Zenon DEF Kept, OnList, InHand, Outstanding, Answered
<1>10. ~Outstanding(x)'
  BY <1>3, Zenon DEF Outstanding
<1>11. RequestOK(x)'
  <2>1. ~OnList(x)' /\ ~InHand(x)' /\ ~WithChild(x)'
    BY <1>2, <1>3, <1>5, Zenon DEF OnList, InHand, WithChild
  <2>2. result'[x] # None /\ (result'[x] \in Child => arg'[result'[x]] = x /\ pc'[result'[x]] # "t_start")
    BY <1>2, <1>3, <1>5, Zenon DEF RequestOK
  <2>. QED  BY <2>1, <2>2, <1>3, <1>10, Zenon DEF RequestOK
<1>12. ASSUME NEW t \in Child, arg[t] = x PROVE ThreadOK(t)'
  <2>1. ThreadOK(t) /\ pc'[t] = pc[t] /\ x # None
    BY <1>3, Zenon DEF KthreadInv
  <2>2. state[t] # "NEW" /\ state'[t] # "NEW"
    BY <1>12, <2>1, <1>4, Zenon DEF ThreadOK
  <2>. QED  BY <1>12, <2>1, <2>2, <1>2, <1>10, Zenon DEF ThreadOK
<1>13. \A t \in Child : arg[t] # x => KeptThread(t)
  BY <1>1, <1>2, <1>3, <1>4, <1>6 DEF KthreadInv, ThreadOK, KeptThread
<1>14. \A t \in Child : Moved(t, x)
  BY <1>2, <1>12, <1>13, Zenon DEF Moved
<1>. QED  BY <1>3, <1>7, <1>8, <1>9, <1>11, <1>14, StepOK, Zenon

\* The new thread stores its task_s in the request, ready to sleep.
LEMMA FirstStepInv ==
    ASSUME SchedInv, CompletionInv, KthreadInv, kthread_start
    PROVE  KthreadInv'
<1>. USE KthreadAssumption
<1>1. PICK n \in Child : n = curr /\ pc[n] = "t_start" /\ state[n] # "NEW"
  BY Facts, Zenon DEF kthread_start, Goto, ChildPc, ThreadPc
<1>2. PICK x \in Creator : x = arg[n]
  BY <1>1, Zenon DEF KthreadInv, ThreadOK, RequestTypeOK
<1>3. /\ pc' = [pc EXCEPT ![n] = "t_disable"] /\ state' = [state EXCEPT ![n] = "UNINTERRUPTIBLE"]
      /\ result' = [result EXCEPT ![x] = n] /\ state \in [Task -> State]
      /\ UNCHANGED <<kthread_create_list, creating, arg, done, wpc, wobj, curr>>
  BY <1>1, <1>2, Facts, Zenon DEF kthread_start, Goto, completionVars
<1>4. RolesOK' /\ pc'[n] = "t_disable" /\ \A u \in Task \ {n} : pc'[u] = pc[u]
  BY <1>1, <1>3, MovePc, Zenon DEF KthreadInv, ChildPc, ThreadPc
<1>5. RequestTypeOK' /\ result'[x] = n /\ \A c \in Creator \ {x} : result'[c] = result[c]
  BY <1>3, Zenon DEF KthreadInv, RequestTypeOK
<1>6. state'[n] = "UNINTERRUPTIBLE" /\ \A u \in Task \ {n} : state'[u] = state[u]
  BY <1>3, Zenon
<1>7. TasksOK'
  BY <1>1, <1>3, <1>4, <1>6 DEF KthreadInv, TasksOK, WaitOK
<1>8. \A c \in Creator \ {x} : Kept(c)
  BY <1>3, <1>4, <1>5, Zenon DEF Kept, OnList, InHand, Outstanding, Answered
<1>9. ThreadOK(n) /\ \A t \in Child : arg[t] = x => t = n
  BY <1>2, Zenon DEF KthreadInv, ThreadOK
<1>10. RequestOK(x)'
  <2>1. RequestOK(x) /\ WithChild(x)
    BY <1>1, <1>2, Zenon DEF KthreadInv, WithChild
  <2>2. /\ OnList(x)' <=> OnList(x)
        /\ InHand(x)' <=> InHand(x)
        /\ Outstanding(x)' <=> Outstanding(x)
        /\ Answered(x)' <=> Answered(x)
        /\ WithChild(x)'
    BY <1>2, <1>3, <1>4, Zenon DEF OnList, InHand, Outstanding, Answered, WithChild
  <2>. QED  BY <2>1, <2>2, <1>1, <1>2, <1>3, <1>4, <1>5 DEF RequestOK
<1>11. ThreadOK(n)'
  BY <1>1, <1>2, <1>3, <1>4, <1>5, <1>6, <1>9, Zenon DEF ThreadOK, LoopPc
<1>12. \A t \in Child \ {n} : KeptThread(t)
  BY <1>3, <1>4, <1>6 DEF KthreadInv, ThreadOK, KeptThread
<1>13. \A t \in Child : Moved(t, x)
  BY <1>2, <1>3, <1>9, <1>11, <1>12, Zenon DEF Moved
<1>. QED  BY <1>4, <1>5, <1>7, <1>8, <1>10, <1>13, StepOK, Zenon

\* The new thread answers the request.
LEMMA AnswerInv ==
    ASSUME SchedInv, CompletionInv, KthreadInv, kthread_complete
    PROVE  KthreadInv'
<1>. USE KthreadAssumption
<1>1. PICK n \in Child : n = curr /\ pc[n] = "t_complete"
  BY Facts, Zenon DEF kthread_complete, Goto, ChildPc, ThreadPc
<1>2. PICK x \in Creator : x = arg[n]
  BY <1>1, Zenon DEF KthreadInv, ThreadOK, RequestTypeOK
<1>3. /\ pc' = [pc EXCEPT ![n] = "t_enable"] /\ complete_in_task(x)
      /\ UNCHANGED <<kthread_create_list, creating, arg, result>>
  BY <1>1, <1>2, Zenon DEF kthread_complete, Goto
<1>4. RolesOK' /\ pc'[n] = "t_enable" /\ \A u \in Task \ {n} : pc'[u] = pc[u]
  BY <1>1, <1>3, MovePc, Zenon DEF KthreadInv, ChildPc, ThreadPc
<1>5. /\ \A u \in Task \ Creator : state'[u] = state[u]
      /\ \A u \in Task : state'[u] = "DEAD" => state[u] = "DEAD"
      /\ UNCHANGED <<curr, wpc, wobj>>
      /\ done'[x] > 0
      /\ \A c \in Creator \ {x} : done'[c] = done[c]
  <2>1. x \in Completion /\ \A c \in Creator : c \in Completion
    BY Zenon
  <2>. QED  BY <1>3, <2>1, CompleteStates, Zenon
<1>6. RequestTypeOK'
  BY <1>3, Zenon DEF KthreadInv, RequestTypeOK
<1>7. TasksOK'
  <2>1. state[n] # "DEAD"
    BY <1>1, Zenon DEF KthreadInv, TasksOK
  <2>. QED  BY <2>1, <1>3, <1>4, <1>5 DEF KthreadInv, TasksOK, WaitOK
<1>8. \A c \in Creator \ {x} : Kept(c)
  BY <1>3, <1>4, <1>5, Zenon DEF Kept, OnList, InHand, Outstanding, Answered
<1>9. ThreadOK(n) /\ result[x] = n /\ \A t \in Child : arg[t] = x => t = n
  BY <1>1, <1>2, Zenon DEF KthreadInv, ThreadOK
<1>10. RequestOK(x)'
  <2>1. RequestOK(x) /\ WithChild(x)
    BY <1>1, <1>2, Zenon DEF KthreadInv, WithChild
  <2>2. Outstanding(x) /\ ~OnList(x) /\ ~InHand(x)
    BY <2>1, <1>2, Zenon DEF RequestOK
  <2>3. ~OnList(x)' /\ ~InHand(x)' /\ Outstanding(x)' /\ Answered(x)' /\ ~WithChild(x)'
    BY <2>2, <1>3, <1>4, <1>5, <1>9, Zenon DEF OnList, InHand, Outstanding, Answered, WithChild
  <2>. QED  BY <2>3, <1>2, <1>3, <1>4, <1>9, Zenon DEF RequestOK, Outstanding
<1>11. ThreadOK(n)'
  <2>1. Outstanding(x)' <=> Outstanding(x)
    BY <1>4, Zenon DEF Outstanding
  <2>. QED  BY <2>1, <1>1, <1>2, <1>3, <1>4, <1>5, <1>9, Zenon DEF ThreadOK, LoopPc
<1>12. \A t \in Child \ {n} : KeptThread(t)
  BY <1>3, <1>4, <1>5 DEF KthreadInv, ThreadOK, KeptThread
<1>13. \A t \in Child : Moved(t, x)
  BY <1>2, <1>3, <1>9, <1>11, <1>12, Zenon DEF Moved
<1>. QED  BY <1>4, <1>6, <1>7, <1>8, <1>10, <1>13, StepOK, Zenon

-----------------------------------------------------------------------------
(* Every step *)

\* schedule() passes the CPU to a task that is ready to run, or keeps it.
RunsRunnable == curr' = curr \/ state[curr'] = "RUNNING"

\* Steps that move no request: daemon steps outside the list, interrupts, context
\* switches, wake-ups of the daemon, and moves between places with the same meaning.
LEMMA SameInv ==
    ASSUME SchedInv, CompletionInv, KthreadInv, RunsRunnable, RolesOK', TasksOK',
           UNCHANGED <<kthread_create_list, creating, arg, result>>,
           \A c \in Creator : done'[c] = done[c],
           \A c \in Creator : \/ pc'[c] = pc[c] /\ (wpc'[c] = "run" <=> wpc[c] = "run")
                              \/ pc[c] = "c_wake" /\ pc'[c] = "c_wait"
                              \/ pc[c] \in AfterPc /\ pc'[c] \in AfterPc,
           \A t \in Child : \/ pc'[t] = pc[t]
                            \/ pc[t] = "t_disable" /\ pc'[t] = "t_complete"
                            \/ pc[t] = "t_enable" /\ pc'[t] = "t_schedule"
                            \/ /\ pc[t] = "t_schedule" /\ pc'[t] = "t_fn"
                               /\ curr' = t => ~Outstanding(arg[t])
                            \/ /\ pc[t] \in {"t_fn"} \cup LoopPc /\ pc'[t] \in LoopPc
                               /\ ~Outstanding(arg[t]),
           \A t \in Child : \/ state'[t] = state[t]
                            \/ ~Outstanding(arg[t]) /\ state'[t] # "NEW" /\ state[t] # "NEW"
    PROVE  KthreadInv'
<1>. USE KthreadAssumption
<1>1. \A t \in Child : KeptThread(t)
  BY DEF KthreadInv, ThreadOK, KeptThread, RunsRunnable, LoopPc
<1>2. \A t \in Child : Moved(t, None)
  BY <1>1, Zenon DEF Moved
<1>3. \A c \in Creator : Kept(c)
  BY Zenon DEF Kept, OnList, InHand, Outstanding, Answered, AfterPc, SubmitPc
<1>4. RequestTypeOK'
  BY Zenon DEF KthreadInv, RequestTypeOK
<1>. QED  BY <1>2, <1>3, <1>4, StepOK, Zenon

\* ... those that leave the places of the tasks alone.
LEMMA BackgroundInv ==
    ASSUME SchedInv, CompletionInv, KthreadInv, RunsRunnable,
           UNCHANGED <<kthreadVars, done, wobj>>,
           \A t \in Task : wpc'[t] = "run" <=> wpc[t] = "run",
           \A t \in Child : \/ state'[t] = state[t]
                            \/ ~Outstanding(arg[t]) /\ state'[t] # "NEW" /\ state[t] # "NEW",
           \A t \in Task : state'[t] = "DEAD" => state[t] = "DEAD" \/ pc[t] \in {"t_fn", "c_end"},
           state'[Kthreadd] = "NEW" => state[Kthreadd] = "NEW"
    PROVE  KthreadInv'
<1>. USE KthreadAssumption
<1>1. UNCHANGED <<pc, kthread_create_list, creating, arg, result>>
  BY Zenon DEF kthreadVars
<1>2. RolesOK'
  BY <1>1, Zenon DEF KthreadInv, RolesOK
<1>3. TasksOK'
  BY <1>1, Zenon DEF KthreadInv, TasksOK, WaitOK
<1>. QED  BY <1>1, <1>2, <1>3, SameInv, Zenon

\* The daemon between its places outside create_kthread().
LEMMA DaemonInv ==
    ASSUME SchedInv, CompletionInv, KthreadInv, RunsRunnable,
           NEW p \in DaemonPc \ {"d_create"}, NEW q \in DaemonPc \ {"d_create"}, Goto(p, q),
           UNCHANGED <<completionVars, kthread_create_list, creating, arg, result>>,
           state' = state \/ \E s \in SleepState \cup {"RUNNING"} :
                                 state' = [state EXCEPT ![curr] = s]
    PROVE  KthreadInv'
<1>. USE KthreadAssumption
<1>1. /\ curr = Kthreadd /\ pc[Kthreadd] = p /\ pc' = [pc EXCEPT ![Kthreadd] = q]
      /\ state \in [Task -> State] /\ state[Kthreadd] # "NEW"
      /\ UNCHANGED <<done, wpc, wobj>>
  BY Facts, Zenon DEF Goto, completionVars
<1>2. RolesOK' /\ pc'[Kthreadd] = q /\ \A u \in Task \ {Kthreadd} : pc'[u] = pc[u]
  BY <1>1, MovePc, Zenon DEF KthreadInv
<1>3. state[Kthreadd] # "DEAD"
  BY <1>1, Zenon DEF KthreadInv, TasksOK, DaemonPc
<1>4. /\ \A t \in Task \ {Kthreadd} : state'[t] = state[t]
      /\ state'[Kthreadd] \notin {"NEW", "DEAD"}
  BY <1>1, <1>3, Zenon DEF SleepState
<1>5. TasksOK'
  BY <1>1, <1>2, <1>4 DEF KthreadInv, TasksOK, WaitOK
<1>. QED  BY <1>1, <1>2, <1>4, <1>5, SameInv, Zenon

\* A new thread between places with the same meaning.
LEMMA ThreadMoveInv ==
    ASSUME SchedInv, CompletionInv, KthreadInv, RunsRunnable,
           NEW p \in ChildPc, NEW q \in ChildPc, Goto(p, q), state' = state,
           UNCHANGED <<completionVars, kthread_create_list, creating, arg, result>>,
           \/ p = "t_disable" /\ q = "t_complete"
           \/ p = "t_enable" /\ q = "t_schedule"
           \/ p = "t_schedule" /\ q = "t_fn" /\ (curr' = curr => ~Outstanding(arg[curr]))
    PROVE  KthreadInv'
<1>. USE KthreadAssumption
<1>1. /\ curr \in Child /\ pc[curr] = p /\ pc' = [pc EXCEPT ![curr] = q]
      /\ UNCHANGED <<done, wpc, wobj>>
  BY Facts, Zenon DEF Goto, completionVars
<1>2. PICK n \in Child : n = curr
  BY <1>1, Zenon
<1>3. RolesOK' /\ pc'[n] = q /\ \A u \in Task \ {n} : pc'[u] = pc[u]
  BY <1>1, <1>2, MovePc, Zenon DEF KthreadInv
<1>4. TasksOK'
  BY <1>1, <1>2, <1>3 DEF KthreadInv, TasksOK, WaitOK
<1>. QED  BY <1>1, <1>2, <1>3, <1>4, SameInv, Zenon

\* Who is woken has been started and has not exited.
LEMMA DaemonWakeable ==
    ASSUME KthreadInv, NEW c \in Creator, pc[c] # "c_add"
    PROVE  Kthreadd \in Wakeable
BY KthreadAssumption, Zenon DEF KthreadInv, TasksOK, RolesOK, DaemonPc, Wakeable

LEMMA ThreadWakeable ==
    ASSUME KthreadInv, NEW c \in Creator, Outstanding(c), result[c] \in Child
    PROVE  result[c] \in Wakeable
<1>1. arg[result[c]] = c /\ pc[result[c]] # "t_start"
  BY Zenon DEF KthreadInv, RequestOK
<1>2. state[result[c]] = "UNINTERRUPTIBLE"
  BY <1>1, Zenon DEF KthreadInv, ThreadOK
<1>. QED  BY <1>2, KthreadAssumption, Zenon DEF Wakeable

\* Everything this code does is a wait, a completion, or a step of the scheduler by
\* a task that does not wait.
LEMMA KthreadBelow ==
    ASSUME SchedInv, CompletionInv, KthreadInv, [KthreadNext]_vars
    PROVE  CompletionInv' /\ [SchedNext]_schedVars
<1>. SUFFICES [ClientNext]_<<schedVars, completionVars>>
  BY ClientNextInv, Zenon
<1>. USE KthreadAssumption
<1>f. /\ pc[curr] \in DaemonPc => curr = Kthreadd
      /\ pc[curr] \in CreatorPc => curr \in Creator
      /\ pc[curr] \in ChildPc => curr \in Child
  BY Facts, Zenon
<1>t. ASSUME ThreadStep, wpc[curr] = "run", UNCHANGED completionVars PROVE ClientNext
  BY <1>t, Zenon DEF ClientNext
<1>u. ASSUME UNCHANGED <<schedVars, completionVars>>
      PROVE  [ClientNext]_<<schedVars, completionVars>>
  BY <1>u, Zenon
<1>1. CASE kthreadd_set \/ kthreadd_running
  BY <1>1, <1>t, Zenon DEF kthreadd_set, kthreadd_running, Goto, ThreadStep, SleepState
<1>2. CASE kthreadd_test
  BY <1>2, <1>t, <1>u, Zenon DEF kthreadd_test, Goto, ThreadStep
<1>3. CASE kthreadd_loop \/ kthread_create_add
  BY <1>3, <1>u, Zenon DEF kthreadd_loop, kthread_create_add
<1>4. CASE create_kthread
  <2>1. creating \in Creator
    BY <1>4, <1>f, Zenon DEF create_kthread, Goto, DaemonPc, KthreadInv, TasksOK, RequestTypeOK
  <2>2. CASE complete_in_task(creating)
    BY <2>1, <2>2, Zenon DEF ClientNext, CompletionStep
  <2>3. ASSUME NEW t \in Child, wake_up_new_task(t), UNCHANGED completionVars
        PROVE  ClientNext
    BY <2>3, <1>4, <1>t, Zenon DEF create_kthread, Goto, ThreadStep
  <2>. QED  BY <1>4, <2>2, <2>3, Zenon DEF create_kthread
<1>5. CASE kthread_create_wake
  <2>1. Kthreadd \in Wakeable
    BY <1>5, <1>f, DaemonWakeable, Zenon DEF kthread_create_wake, Goto, CreatorPc, CreatePc, AfterPc
  <2>. QED  BY <1>5, <2>1, <1>t, Zenon DEF kthread_create_wake, Goto, ThreadStep
<1>6. CASE kthread_create_wait \/ kthread_create_waiting
  BY <1>6, <1>f, Zenon DEF kthread_create_wait, kthread_create_waiting, Goto, CreatorPc, CreatePc, AfterPc,
                    ClientNext, CompletionStep
<1>7. CASE kthread_run_result
  <2>1. curr \in Creator /\ Outstanding(curr) /\ wpc[curr] = "run" /\ UNCHANGED completionVars
    BY <1>7, <1>f, Zenon DEF kthread_run_result, Goto, CreatorPc, CreatePc, AfterPc, Outstanding
  <2>2. CASE result[curr] \in Child
    <3>1. result[curr] \in Wakeable
      BY <2>1, <2>2, ThreadWakeable, Zenon
    <3>. QED  BY <1>7, <2>1, <2>2, <3>1, <1>t, Zenon DEF kthread_run_result, ThreadStep
  <2>. QED  BY <1>7, <2>1, <2>2, <1>u, Zenon DEF kthread_run_result
<1>8. CASE kthread_start
  <2>1. set_current_state("UNINTERRUPTIBLE")
    BY <1>8, Zenon DEF kthread_start, set_current_state, cpuVars
  <2>. QED  BY <1>8, <2>1, <1>t, Zenon DEF kthread_start, Goto, ThreadStep, SleepState
<1>9. CASE kthread_disable \/ kthread_schedule
  BY <1>9, <1>t, Zenon DEF kthread_disable, kthread_schedule, Goto, ThreadStep
<1>10. CASE kthread_complete
  <2>1. arg[curr] \in Creator
    BY <1>10, <1>f, Zenon DEF kthread_complete, Goto, ChildPc, ThreadPc, KthreadInv, ThreadOK, RequestTypeOK
  <2>. QED  BY <1>10, <2>1, Zenon DEF kthread_complete, ClientNext, CompletionStep
<1>11. CASE kthread_enable
  <2>1. ~need_resched
    BY <1>11, Zenon DEF kthread_enable, InThread, SchedInv, CpuInv, NoPreemptSchedule
  <2>2. preempt_enable
    BY <1>11, <2>1, Zenon DEF kthread_enable, preempt_enable
  <2>. QED  BY <1>11, <2>2, <1>t, Zenon DEF kthread_enable, Goto, ThreadStep
<1>12. CASE kthread_exit
  BY <1>12, <1>t, Zenon DEF kthread_exit, ThreadStep
<1>13. CASE Boot
  <2>1. wpc[curr] = "run"
    BY <1>13, Facts, Zenon DEF Boot, KthreadInv, TasksOK, WaitOK
  <2>. QED  BY <1>13, <2>1, <1>t, Zenon DEF Boot, ThreadStep
<1>14. CASE KthreadIrq
  <2>1. CASE local_irq_enable /\ pc[curr] \in {"c_add", "d_create"}
    <3>1. wpc[curr] = "run"
      BY <2>1, Facts, Zenon DEF KthreadInv, TasksOK, WaitOK, AfterPc, SubmitPc
    <3>. QED  BY <1>14, <2>1, <3>1, <1>t, Zenon DEF KthreadIrq, ThreadStep
  <2>. QED  BY <1>14, <2>1, Zenon DEF KthreadIrq, ClientNext, IrqStep
<1>15. CASE IdleStep
  BY <1>15, Zenon DEF IdleStep, ClientNext
<1>16. CASE UNCHANGED vars
  BY <1>16, <1>u, Zenon DEF vars
<1>. QED
  BY <1>1, <1>2, <1>3, <1>4, <1>5, <1>6, <1>7, <1>8, <1>9, <1>10, <1>11, <1>12, <1>13,
     <1>14, <1>15, <1>16, Zenon
  DEF KthreadNext, kthreadd, kthread_run, kthread

\* Every step keeps every request in one place.
LEMMA KthreadNextInv ==
    ASSUME SchedInv, CompletionInv, KthreadInv, [KthreadNext]_vars
    PROVE  KthreadInv'
<1>. USE KthreadAssumption
<1>. RunsRunnable
  BY KthreadBelow, NewCurr, Zenon DEF RunsRunnable
<1>f. /\ curr \in Task /\ state \in [Task -> State] /\ state[curr] # "NEW"
      /\ wpc \in [Task -> WaitPc]
      /\ pc[curr] \in CreatorPc => curr \in Creator
      /\ pc[curr] \in ChildPc => curr \in Child
  BY Facts, Zenon
<1>1. CASE kthreadd_set \/ kthreadd_running
  BY <1>1, DaemonInv, Zenon DEF kthreadd_set, kthreadd_running, set_current_state, DaemonPc, SleepState
<1>2. CASE kthreadd_test
  <2>1. state' = state
    BY <1>2, Zenon DEF kthreadd_test, schedule, schedVars, queueVars
  <2>. QED  BY <2>1, <1>2, DaemonInv, Zenon DEF kthreadd_test, DaemonPc
<1>3. CASE kthreadd_loop
  <2>1. CASE kthread_create_list = <<>>
    <3>1. state' = state
      BY <1>3, Zenon DEF kthreadd_loop, schedVars, queueVars
    <3>. QED  BY <3>1, <2>1, <1>3, DaemonInv, Zenon DEF kthreadd_loop, DaemonPc
  <2>. QED  BY <2>1, <1>3, TakeInv, Zenon
<1>4. CASE create_kthread
  BY <1>4, CreateInv, FailInv, Zenon DEF create_kthread
<1>5. CASE kthread_create_add
  BY <1>5, AddInv, Zenon
<1>6. CASE kthread_create_wake
  <2>1. /\ curr \in Creator /\ pc[curr] = "c_wake" /\ pc' = [pc EXCEPT ![curr] = "c_wait"]
        /\ wpc[curr] = "run" /\ state' = [state EXCEPT ![Kthreadd] = "RUNNING"]
        /\ UNCHANGED <<done, wpc, wobj, kthread_create_list, creating, arg, result>>
    BY <1>6, <1>f, Zenon DEF kthread_create_wake, Goto, CreatorPc, CreatePc, AfterPc, completionVars,
                      wake_up_process, try_to_wake_up
  <2>2. PICK x \in Creator : x = curr
    BY <2>1, Zenon
  <2>3. RolesOK' /\ pc'[x] = "c_wait" /\ \A u \in Task \ {x} : pc'[u] = pc[u]
    BY <2>1, <2>2, MovePc, Zenon DEF KthreadInv, CreatorPc, CreatePc, AfterPc
  <2>4. state'[Kthreadd] = "RUNNING" /\ \A t \in Task \ {Kthreadd} : state'[t] = state[t]
    BY <2>1, <1>f, Zenon
  <2>5. TasksOK'
    BY <2>1, <2>2, <2>3, <2>4 DEF KthreadInv, TasksOK, WaitOK
  <2>. QED  BY <2>1, <2>2, <2>3, <2>4, <2>5, SameInv, Zenon
<1>7. CASE kthread_create_wait
  <2>1. /\ curr \in Creator /\ pc[curr] = "c_wait" /\ pc' = [pc EXCEPT ![curr] = "c_result"]
        /\ WaitSection(curr)
        /\ UNCHANGED <<kthread_create_list, creating, arg, result>>
    BY <1>7, <1>f, Zenon DEF kthread_create_wait, Goto, CreatorPc, CreatePc, AfterPc, wait_for_completion
  <2>. QED  BY <2>1, WaitingInv, Zenon
<1>8. CASE kthread_create_waiting /\ schedule_timeout
  <2>1. /\ state' = state /\ UNCHANGED <<done, wobj, kthreadVars>>
        /\ wpc' = [wpc EXCEPT ![curr] = "again"] /\ wpc[curr] = "sleep"
    BY <1>8, Zenon DEF kthread_create_waiting, schedule_timeout, schedule, Waiting
  <2>2. \A t \in Task : wpc'[t] = "run" <=> wpc[t] = "run"
    BY <2>1, <1>f, Zenon
  <2>. QED  BY <2>1, <2>2, BackgroundInv, Zenon
<1>9. CASE kthread_create_waiting /\ wait_again
  <2>1. wpc[curr] # "run" /\ WaitSection(wobj[curr]) /\ UNCHANGED kthreadVars
    BY <1>9, Zenon DEF kthread_create_waiting, wait_again, Waiting
  <2>2. curr \in Creator /\ WaitOK(curr) /\ RolesOK'
    BY <2>1, <1>f, Zenon DEF KthreadInv, TasksOK, RolesOK, WaitOK, kthreadVars
  <2>3. CASE pc[curr] = "c_result" /\ wobj[curr] = curr
    BY <2>1, <2>2, <2>3, WaitingInv, Zenon DEF kthreadVars
  <2>4. CASE pc[curr] \in AfterPc /\ wobj[curr] \in Others
    BY <2>1, <2>2, <2>4, OtherWaitInv, Zenon DEF kthreadVars
  <2>. QED  BY <2>2, <2>3, <2>4, Zenon DEF WaitOK
<1>10. CASE kthread_run_result \/ kthread_start \/ kthread_complete
  BY <1>10, StartInv, FirstStepInv, AnswerInv, Zenon
<1>11. CASE kthread_disable
  BY <1>11, ThreadMoveInv, Zenon DEF kthread_disable, preempt_disable, queueVars, ChildPc, ThreadPc
<1>12. CASE kthread_enable
  BY <1>12, ThreadMoveInv, Zenon DEF kthread_enable, queueVars, ChildPc, ThreadPc
<1>13. CASE kthread_schedule
  <2>1. schedule /\ state' = state /\ curr \in Child /\ pc[curr] = "t_schedule"
    BY <1>13, <1>f, Zenon DEF kthread_schedule, schedule, Goto, ChildPc, ThreadPc
  <2>2. Outstanding(arg[curr]) => state[curr] # "RUNNING"
    BY <2>1, Zenon DEF KthreadInv, ThreadOK
  <2>3. curr' = curr => ~Outstanding(arg[curr])
    BY <2>1, <2>2, SleeperSwitched, Zenon
  <2>. QED  BY <2>1, <2>3, <1>13, ThreadMoveInv, Zenon DEF kthread_schedule, ChildPc, ThreadPc
<1>14. CASE kthread_exit
  <2>1. /\ pc[curr] \in {"t_fn", "c_end"} /\ state' = [state EXCEPT ![curr] = "DEAD"]
        /\ UNCHANGED <<kthreadVars, done, wpc, wobj>>
    BY <1>14, Zenon DEF kthread_exit, do_task_dead, completionVars
  <2>2. curr # Kthreadd
    BY <2>1, Zenon DEF KthreadInv, RolesOK, DaemonPc
  <2>3. curr \in Child => ~Outstanding(arg[curr])
    <3>1. curr \in Child => pc[curr] = "t_fn"
      BY <2>1, Zenon DEF KthreadInv, RolesOK, ChildPc, ThreadPc, LoopPc
    <3>. QED  BY <3>1, Zenon DEF KthreadInv, ThreadOK
  <2>. QED  BY <2>1, <2>2, <2>3, <1>f, BackgroundInv, Zenon
<1>15. CASE Boot
  <2>1. UNCHANGED <<kthreadVars, done, wpc, wobj>>
    BY <1>15, Zenon DEF Boot, completionVars
  <2>2. PICK t \in {Kthreadd} \cup Creator : state' = [state EXCEPT ![t] = "RUNNING"]
    BY <1>15, Zenon DEF Boot, wake_up_new_task
  <2>. QED  BY <2>1, <2>2, <1>f, BackgroundInv, Zenon
<1>16. CASE KthreadIrq \/ IdleStep
  <2>1. UNCHANGED <<kthreadVars, done, wpc, wobj>>
    BY <1>16, Zenon DEF KthreadIrq, IdleStep, completionVars
  <2>2. state' = state
    BY <1>16, Zenon DEF KthreadIrq, IdleStep, HPET_handler, excep_hwint_return, local_irq_enable,
                 rest_init, do_idle, rest_init_enable, rest_init_schedule,
                 rest_init_disable, do_idle_poll, schedule_idle, queueVars
  <2>. QED  BY <2>1, <2>2, BackgroundInv, Zenon
<1>17. CASE UNCHANGED vars
  <2>1. UNCHANGED <<kthreadVars, done, wpc, wobj, state>>
    BY <1>17, Zenon DEF vars, schedVars, queueVars, completionVars
  <2>. QED  BY <2>1, BackgroundInv, Zenon
<1>18. CASE kthreadd
  BY <1>1, <1>2, <1>3, <1>4, <1>18, Zenon DEF kthreadd
<1>19. CASE kthread_run
  BY <1>5, <1>6, <1>7, <1>8, <1>9, <1>10, <1>19, Zenon DEF kthread_run, kthread_create_waiting
<1>20. CASE kthread
  BY <1>10, <1>11, <1>12, <1>13, <1>20, Zenon DEF kthread
<1>. QED  BY <1>14, <1>15, <1>16, <1>17, <1>18, <1>19, <1>20, Zenon DEF KthreadNext

-----------------------------------------------------------------------------
(* Theorems *)

\* kthread_create(), kthreadd and the new threads use the scheduler only through its
\* own operations, with wakeable tasks: the theorems of SchedProofs hold below them.
THEOREM KthreadRefinesSched == KthreadSpec => SchedSpec
<1>1. SchedInit /\ CompletionInit /\ KthreadInit => SchedInv /\ CompletionInv /\ KthreadInv
  BY InitInv, CompletionInitInv, KthreadInitInv, Zenon
<1>2. SchedInv /\ CompletionInv /\ KthreadInv /\ [KthreadNext]_vars
      => SchedInv' /\ CompletionInv' /\ KthreadInv' /\ [SchedNext]_schedVars
  BY NextInv, KthreadBelow, KthreadNextInv, Zenon
<1>. QED  BY <1>1, <1>2, PTL DEF KthreadSpec, SchedSpec

\* The inductive invariant holds for any number of creators and threads.
THEOREM KthreadInvariance == KthreadSpec => []KthreadInv
<1>1. SchedInit /\ CompletionInit /\ KthreadInit => SchedInv /\ CompletionInv /\ KthreadInv
  BY InitInv, CompletionInitInv, KthreadInitInv
<1>2. SchedInv /\ CompletionInv /\ KthreadInv /\ [KthreadNext]_vars
      => SchedInv' /\ CompletionInv' /\ KthreadInv'
  BY NextInv, KthreadBelow, KthreadNextInv, Zenon
<1>. QED  BY <1>1, <1>2, PTL DEF KthreadSpec

\* What the inductive invariant says of the three properties.
LEMMA KthreadInvSuffices == KthreadInv => CreateAlive /\ ResultReady /\ StoppedUntilWoken
<1>1. KthreadInv => CreateAlive
  BY Zenon DEF KthreadInv, RequestOK, CreateAlive
<1>2. KthreadInv => ResultReady
  BY Zenon DEF KthreadInv, RequestOK, Answered, ResultReady
<1>3. KthreadInv => StoppedUntilWoken
  BY Zenon DEF KthreadInv, ThreadOK, StoppedUntilWoken
<1>. QED  BY <1>1, <1>2, <1>3, Zenon

\* The request and the completion on the creator's stack are used only while the
\* creator waits for them.
THEOREM CreateStaysAlive == KthreadSpec => []CreateAlive
BY KthreadInvSuffices, KthreadInvariance, PTL

\* A creator that returns from wait_for_completion() finds a thread or an error.
THEOREM ResultIsReady == KthreadSpec => []ResultReady
BY KthreadInvSuffices, KthreadInvariance, PTL

\* A new thread does not enter its function before its creator has started it.
THEOREM ThreadsStartStopped == KthreadSpec => []StoppedUntilWoken
BY KthreadInvSuffices, KthreadInvariance, PTL

\* A set with one element has one.
LEMMA OneElement == ASSUME NEW i PROVE Cardinality({i}) = 1
<1>. DEFINE S == {i}
            Step(f, T) == IF T = {} THEN 0 ELSE 1 + f[T \ {CHOOSE x : x \in T}]
            CS == CHOOSE f : f = [T \in SUBSET S |-> Step(f, T)]
            g == [T \in SUBSET S |-> IF T = {} THEN 0 ELSE 1]
<1>1. Cardinality({i}) = CS[S]
  BY DEF Cardinality
<1>2. (CHOOSE x : x \in S) = i
  OBVIOUS
<1>3. g = [T \in SUBSET S |-> Step(g, T)]
  <2>1. g[{}] = 0 /\ {} \in SUBSET S /\ S \ {CHOOSE x : x \in S} = {}
    BY <1>2
  <2>2. \A T \in SUBSET S : (IF T = {} THEN 0 ELSE 1) = Step(g, T)
    <3>1. \A T \in SUBSET S : T = {} \/ T = S
      OBVIOUS
    <3>. QED  BY <2>1, <3>1
  <2>. QED  BY <2>2
<1>. HIDE DEF g
<1>4. CS = [T \in SUBSET S |-> Step(CS, T)]
  BY <1>3, Zenon
<1>. HIDE DEF CS
<1>5. CS[{}] = 0
  BY <1>4
<1>6. CS[S] = 1
  BY <1>2, <1>4, <1>5
<1>. QED  BY <1>1, <1>6

\* The inductive invariant leaves a request one place.
LEMMA OnePlace == KthreadInv => RequestInOnePlace
<1>. SUFFICES ASSUME KthreadInv, NEW c \in Creator, Outstanding(c)
              PROVE  Cardinality({i \in 1..4 : <<OnList(c), InHand(c), WithChild(c), Answered(c)>>[i]}) = 1
  BY Zenon DEF RequestInOnePlace
<1>. DEFINE in == <<OnList(c), InHand(c), WithChild(c), Answered(c)>>
            places == {i \in 1..4 : in[i]}
<1>1. RequestOK(c)
  BY Zenon DEF KthreadInv
<1>2. /\ 1 \in places <=> OnList(c)
      /\ 2 \in places <=> InHand(c)
      /\ 3 \in places <=> WithChild(c)
      /\ 4 \in places <=> Answered(c)
  OBVIOUS
<1>3. \A i \in places : i = 1 \/ i = 2 \/ i = 3 \/ i = 4
  OBVIOUS
<1>. HIDE DEF places
<1>4. ASSUME OnList(c) PROVE Cardinality(places) = 1
  <2>1. ~InHand(c) /\ ~WithChild(c) /\ ~Answered(c)
    BY <1>1, <1>4, Zenon DEF RequestOK, WithChild
  <2>2. 1 \in places /\ \A i \in places : i = 1
    BY <2>1, <1>2, <1>3, <1>4, Zenon
  <2>3. places = {1}
    BY <2>2, Zenon
  <2>. QED  BY <2>3, OneElement, Zenon
<1>5. ASSUME InHand(c) PROVE Cardinality(places) = 1
  <2>1. ~OnList(c) /\ ~WithChild(c) /\ ~Answered(c)
    BY <1>1, <1>5 DEF RequestOK, WithChild
  <2>2. 2 \in places /\ \A i \in places : i = 2
    BY <2>1, <1>2, <1>3, <1>5, Zenon
  <2>3. places = {2}
    BY <2>2, Zenon
  <2>. QED  BY <2>3, OneElement, Zenon
<1>6. ASSUME WithChild(c) PROVE Cardinality(places) = 1
  <2>1. ~OnList(c) /\ ~InHand(c) /\ ~Answered(c)
    BY <1>1, <1>6 DEF RequestOK, WithChild
  <2>2. 3 \in places /\ \A i \in places : i = 3
    BY <2>1, <1>2, <1>3, <1>6, Zenon
  <2>3. places = {3}
    BY <2>2, Zenon
  <2>. QED  BY <2>3, OneElement, Zenon
<1>7. ASSUME Answered(c) PROVE Cardinality(places) = 1
  <2>1. ~OnList(c) /\ ~InHand(c) /\ ~WithChild(c)
    BY <1>1, <1>7 DEF RequestOK
  <2>2. 4 \in places /\ \A i \in places : i = 4
    BY <2>1, <1>2, <1>3, <1>7, Zenon
  <2>3. places = {4}
    BY <2>2, Zenon
  <2>. QED  BY <2>3, OneElement, Zenon
<1>8. OnList(c) \/ InHand(c) \/ WithChild(c) \/ Answered(c)
  BY <1>1, Zenon DEF RequestOK
<1>9. Cardinality(places) = 1
  BY <1>4, <1>5, <1>6, <1>7, <1>8, Zenon
<1>. QED  BY <1>9, Zenon DEF places

\* A request is in one place while its creator is in kthread_create(): neither the
\* lock-free test of kthreadd() nor its preemption loses or doubles one.
THEOREM RequestsInOnePlace == KthreadSpec => []RequestInOnePlace
BY OnePlace, KthreadInvariance, PTL

-----------------------------------------------------------------------------
(* devtmpfs: the daemon and its clients on top of thread creation *)

DevTypeOK ==
    /\ thread \in Child \cup {None}
    /\ requests \in Seq(Req) /\ IsInjective(requests)
    /\ batch \in Seq(Req) /\ IsInjective(batch)
    /\ req \in [Submitter -> Req \cup {None}]
    /\ allocated \subseteq Req
    /\ Range(requests) \cup Range(batch) \subseteq allocated
    /\ Range(requests) \cap Range(batch) = {}

\* kdevtmpfs has passed devtmpfsd()'s complete().
Up == \E t \in Child : pc[t] \in LoopPc

\* Work in progress belongs to a submitter or to the daemon, which is up by then and
\* is the thread created for devtmpfs_init().
DaemonOK ==
    /\ thread # None => arg[thread] = Init
    /\ \A t \in Child : pc[t] \in LoopPc => arg[t] = Init
    /\ done[setup_done] > 0 \/ driver_init_done => Up
    /\ batch # <<>> <=> \E t \in Child : pc[t] \in {"w_handle", "w_free"}
    /\ requests # <<>> \/ batch # <<>> => driver_init_done
    /\ \A c \in Creator : pc[c] \in SubmitPc => c \in Submitter /\ driver_init_done

\* The daemon is awake, or a submitter is about to wake it.
Awake ==
    requests # <<>> => \/ state[thread] = "RUNNING"
                       \/ \E c \in Submitter : pc[c] = "s_wake" /\ Listed(req[c])

\* Who waits for what; no two submitters share a req_s.
SharesOK ==
    /\ \A t \in Task : wobj[t] = setup_done => t = Init
    /\ \A t \in Task : wobj[t] \in Req => t \in Submitter
    /\ \A c, d \in Submitter : req[c] = req[d] /\ req[c] # None => c = d

\* The request of c is with the daemon until it is answered.
NodeOK(c) ==
    /\ req[c] # None <=> pc[c] \in SubmitPc
    /\ req[c] # None => (Listed(req[c]) \/ Detached(req[c]) <=> ~Done(c))
    /\ req[c] # None /\ wpc[c] # "run" => pc[c] = "s_err" /\ wobj[c] = req[c]
    /\ wobj[c] \in Req => wobj[c] = req[c]

DevInv ==
    /\ DevTypeOK /\ DaemonOK /\ Awake /\ SharesOK
    /\ \A c \in Submitter : NodeOK(c)

\* There is one daemon.
LEMMA OneDaemon ==
    ASSUME KthreadInv, DevInv
    PROVE  /\ \A t, u \in Child : pc[t] \in LoopPc /\ pc[u] \in LoopPc => t = u
           /\ thread # None => thread \in Child /\ \A t \in Child : pc[t] \in LoopPc => t = thread
           /\ driver_init_done => thread \in Child /\ pc[thread] \in LoopPc
           /\ requests # <<>> \/ batch # <<>> => thread \in Child /\ pc[thread] \in LoopPc
<1>1. \A t, u \in Child : arg[t] = Init /\ arg[u] = Init => t = u
  BY KthreadAssumption, DevtmpfsAssumption, Zenon DEF KthreadInv, ThreadOK
<1>2. thread # None => thread \in Child /\ arg[thread] = Init
  BY Zenon DEF DevInv, DevTypeOK, DaemonOK
<1>3. \A t \in Child : pc[t] \in LoopPc => arg[t] = Init
  BY Zenon DEF DevInv, DaemonOK
<1>4. driver_init_done => thread # None /\ Up
  BY Zenon DEF DevInv, DaemonOK, driver_init_done
<1>5. requests # <<>> \/ batch # <<>> => driver_init_done
  BY Zenon DEF DevInv, DaemonOK
<1>. QED  BY <1>1, <1>2, <1>3, <1>4, <1>5, Zenon DEF Up

-----------------------------------------------------------------------------
(* Steps of thread creation *)

\* What they leave alone: the tasks outside kthread_create(), kthreadd() and
\* kthread(), and completions of others.
Apart ==
    /\ \A c \in Creator : pc[c] \in SubmitPc \/ pc'[c] \in SubmitPc =>
           pc'[c] = pc[c] /\ (wpc'[c] = "run" <=> wpc[c] = "run")
    /\ \A t \in Child : pc[t] \in LoopPc \/ pc'[t] \in LoopPc =>
           pc'[t] = pc[t] /\ (state[t] = "RUNNING" => state'[t] = "RUNNING")
    /\ \A t \in Child : arg[t] # None => arg'[t] = arg[t]
    /\ \A x \in Others : done'[x] = done[x]
    /\ \A t \in Task, x \in Others : wobj'[t] = x <=> wobj[t] = x

LEMMA StatesKept ==
    ASSUME SchedInv, [SchedNext]_schedVars
    PROVE  \A t \in Task \ {curr} : state[t] = "RUNNING" => state'[t] = "RUNNING"
<1>1. state \in [Task -> State]
  BY Zenon DEF SchedInv, QueueInv, QueueType
<1>2. CASE UNCHANGED schedVars
  BY <1>2, Zenon DEF schedVars, queueVars
<1>3. CASE SchedNext
  BY <1>1, <1>3, ThreadStates, IrqStates, Zenon DEF SchedNext
<1>. QED  BY <1>2, <1>3, Zenon

\* The current task goes on within the code of thread creation.
LEMMA GotoApart ==
    ASSUME SchedInv, CompletionInv, KthreadInv, [SchedNext]_schedVars,
           NEW p, NEW q, p \notin SubmitPc \cup LoopPc, q \notin SubmitPc \cup LoopPc, Goto(p, q),
           \A t \in Child : arg[t] # None => arg'[t] = arg[t],
           \A t \in Task \ {curr} : wpc'[t] = wpc[t],
           \A x \in Others : done'[x] = done[x],
           \A t \in Task, x \in Others : wobj'[t] = x <=> wobj[t] = x
    PROVE  Apart
<1>. USE KthreadAssumption
<1>1. pc \in [Task -> DevtmpfsPc] /\ curr \in Task
  BY Facts, Zenon DEF KthreadInv, RolesOK
<1>2. pc[curr] = p /\ pc'[curr] = q /\ \A t \in Task \ {curr} : pc'[t] = pc[t]
  BY <1>1, Zenon DEF Goto
<1>3. \A c \in Creator : pc[c] \in SubmitPc \/ pc'[c] \in SubmitPc =>
           pc'[c] = pc[c] /\ (wpc'[c] = "run" <=> wpc[c] = "run")
  BY <1>2, Zenon
<1>4. \A t \in Child : pc[t] \in LoopPc \/ pc'[t] \in LoopPc =>
           pc'[t] = pc[t] /\ (state[t] = "RUNNING" => state'[t] = "RUNNING")
  BY <1>2, StatesKept, Zenon
<1>. QED  BY <1>3, <1>4, Zenon DEF Apart

\* Nobody goes on.
LEMMA StayApart ==
    ASSUME SchedInv, KthreadInv, [SchedNext]_schedVars, UNCHANGED <<pc, arg, done, wobj>>,
           \A t \in Task : wpc'[t] = "run" <=> wpc[t] = "run",
           state' = state \/ pc[curr] \notin LoopPc
    PROVE  Apart
<1>. USE KthreadAssumption
<1>1. \A t \in Child : pc[t] \in LoopPc => (state[t] = "RUNNING" => state'[t] = "RUNNING")
  BY StatesKept, Zenon
<1>. QED  BY <1>1, Zenon DEF Apart

\* A wait for something else than a request for a thread.
OtherWait == kthread_create_waiting /\ wait_again /\ wobj[curr] \in Others

LEMMA KthreadApart ==
    ASSUME SchedInv, CompletionInv, KthreadInv, [KthreadNext]_vars, ~OtherWait
    PROVE  Apart
<1>. USE KthreadAssumption
<1>n. [SchedNext]_schedVars
  BY KthreadBelow, Zenon
<1>f. /\ curr \in Task /\ wpc \in [Task -> WaitPc]
      /\ pc[curr] \in DaemonPc => curr = Kthreadd
      /\ pc[curr] \in CreatorPc => curr \in Creator
      /\ pc[curr] \in ChildPc => curr \in Child
  BY Facts, Zenon
<1>g. ASSUME NEW p \in KthreadPc, NEW q \in KthreadPc, Goto(p, q), UNCHANGED completionVars,
             \A t \in Child : arg[t] # None => arg'[t] = arg[t]
      PROVE  Apart
  <2>1. p \notin SubmitPc \cup LoopPc /\ q \notin SubmitPc \cup LoopPc
    BY Zenon DEF KthreadPc, SubmitPc, LoopPc
  <2>. QED  BY <1>g, <1>n, <2>1, GotoApart, Zenon DEF completionVars
<1>s. ASSUME UNCHANGED <<completionVars, kthreadVars>>, state' = state \/ pc[curr] \notin LoopPc
      PROVE  Apart
  BY <1>s, <1>n, StayApart, Zenon DEF completionVars, kthreadVars
<1>c. ASSUME NEW p \in KthreadPc, NEW q \in KthreadPc, Goto(p, q), UNCHANGED arg,
             NEW x \in Creator, complete_in_task(x)
      PROVE  Apart
  <2>1. p \notin SubmitPc \cup LoopPc /\ q \notin SubmitPc \cup LoopPc
    BY Zenon DEF KthreadPc, SubmitPc, LoopPc
  <2>2. x \in Completion /\ \A y \in Others : y \in Completion \ {x}
    BY Zenon DEF Others
  <2>3. UNCHANGED <<wpc, wobj>> /\ \A y \in Others : done'[y] = done[y]
    BY <1>c, <2>2, CompleteStates, Zenon
  <2>. QED  BY <1>c, <1>n, <2>1, <2>3, GotoApart, Zenon
<1>1. CASE kthreadd_set \/ kthreadd_test \/ kthreadd_running
  BY <1>1, <1>g, Zenon DEF kthreadd_set, kthreadd_test, kthreadd_running, KthreadPc
<1>2. CASE kthreadd_loop
  BY <1>2, <1>g, Zenon DEF kthreadd_loop, KthreadPc
<1>3. CASE create_kthread
  <2>1. creating \in Creator
    BY <1>3, <1>f, Zenon DEF create_kthread, Goto, DaemonPc, KthreadInv, TasksOK, RequestTypeOK
  <2>2. CASE complete_in_task(creating) /\ UNCHANGED arg
    BY <1>3, <2>1, <2>2, <1>c, Zenon DEF create_kthread, KthreadPc
  <2>3. ASSUME NEW n \in Child, wake_up_new_task(n), arg' = [arg EXCEPT ![n] = creating],
               UNCHANGED completionVars
        PROVE  Apart
    <3>1. arg[n] = None
      BY <2>3, Zenon DEF wake_up_new_task, KthreadInv, ThreadOK
    <3>2. \A t \in Child : arg[t] # None => arg'[t] = arg[t]
      BY <2>3, <3>1, Zenon DEF KthreadInv, RequestTypeOK
    <3>. QED  BY <1>3, <2>3, <3>2, <1>g, Zenon DEF create_kthread, KthreadPc
  <2>. QED  BY <1>3, <2>2, <2>3, Zenon DEF create_kthread
<1>4. CASE kthread_create_add \/ kthread_create_wake \/ kthread_run_result
  BY <1>4, <1>g, Zenon DEF kthread_create_add, kthread_create_wake, kthread_run_result, KthreadPc
<1>5. ASSUME WaitSection(curr), curr \in Creator, UNCHANGED arg,
             Goto("c_wait", "c_result") \/ (UNCHANGED pc /\ pc[curr] = "c_result" /\ wobj[curr] = curr)
      PROVE  Apart
  <2>1. curr \in Completion /\ \A y \in Others : y \in Completion \ {curr}
    BY <1>5, Zenon DEF Others
  <2>2. /\ \A t \in Task \ {curr} : wpc'[t] = wpc[t] /\ wobj'[t] = wobj[t]
        /\ \A x \in Others : done'[x] = done[x]
        /\ wobj'[curr] \in {curr, NoCompletion}
    BY <1>5, <2>1, WaitStates, Zenon
  <2>3. NoCompletion \notin Others
    BY CompletionAssumption, Zenon DEF Others
  <2>4. wobj[curr] \notin Others
    BY <1>5, <2>1, <2>3, <1>f, Zenon
    DEF Goto, CompletionInv, CompletionTypeOK, WaiterAlive, Others
  <2>5. \A t \in Task, x \in Others : wobj'[t] = x <=> wobj[t] = x
    BY <2>1, <2>2, <2>3, <2>4, Zenon
  <2>6. CASE Goto("c_wait", "c_result")
    <3>1. "c_wait" \notin SubmitPc \cup LoopPc /\ "c_result" \notin SubmitPc \cup LoopPc
      BY Zenon DEF SubmitPc, LoopPc
    <3>. QED  BY <1>5, <1>n, <2>2, <2>5, <2>6, <3>1, GotoApart, Zenon
  <2>7. CASE UNCHANGED pc /\ pc[curr] = "c_result"
    <3>1. "c_result" \notin SubmitPc \cup LoopPc
      BY Zenon DEF SubmitPc, LoopPc
    <3>2. \A t \in Child : state[t] = "RUNNING" => state'[t] = "RUNNING"
      BY <1>5, <1>n, StatesKept, Zenon
    <3>3. \A c \in Creator : pc[c] \in SubmitPc \/ pc'[c] \in SubmitPc =>
               pc'[c] = pc[c] /\ (wpc'[c] = "run" <=> wpc[c] = "run")
      BY <2>2, <2>7, <3>1, Zenon
    <3>. QED  BY <1>5, <2>2, <2>5, <2>7, <3>2, <3>3, Zenon DEF Apart
  <2>. QED  BY <1>5, <2>6, <2>7, Zenon
<1>6. CASE kthread_create_wait
  <2>1. curr \in Creator
    BY <1>6, <1>f, Zenon DEF kthread_create_wait, Goto, CreatorPc, CreatePc
  <2>. QED  BY <1>5, <1>6, <2>1, Zenon DEF kthread_create_wait, wait_for_completion
<1>7. CASE kthread_create_waiting /\ schedule_timeout
  <2>1. /\ state' = state /\ UNCHANGED <<done, wobj, pc, arg>>
        /\ wpc' = [wpc EXCEPT ![curr] = "again"] /\ wpc[curr] = "sleep"
    BY <1>7, Zenon DEF kthread_create_waiting, schedule_timeout, schedule, Waiting, kthreadVars
  <2>2. \A t \in Task : wpc'[t] = "run" <=> wpc[t] = "run"
    BY <2>1, <1>f, Zenon
  <2>. QED  BY <2>1, <2>2, <1>n, StayApart, Zenon
<1>8. CASE kthread_create_waiting /\ wait_again
  <2>1. wpc[curr] # "run" /\ WaitSection(wobj[curr]) /\ UNCHANGED <<pc, arg>>
    BY <1>8, Zenon DEF kthread_create_waiting, wait_again, Waiting, kthreadVars
  <2>2. curr \in Creator /\ pc[curr] = "c_result" /\ wobj[curr] = curr
    BY <1>8, <2>1, <1>f, Zenon DEF KthreadInv, TasksOK, WaitOK, OtherWait
  <2>. QED  BY <1>5, <2>1, <2>2, Zenon
<1>9. CASE kthread_start \/ kthread_disable \/ kthread_enable \/ kthread_schedule
  BY <1>9, <1>g, Zenon DEF kthread_start, kthread_disable, kthread_enable, kthread_schedule, KthreadPc
<1>10. CASE kthread_complete
  <2>1. arg[curr] \in Creator
    BY <1>10, <1>f, Zenon DEF kthread_complete, Goto, ChildPc, ThreadPc, KthreadInv, ThreadOK, RequestTypeOK
  <2>. QED  BY <1>10, <2>1, <1>c, Zenon DEF kthread_complete, KthreadPc
<1>11. CASE kthread_exit
  BY <1>11, <1>s, Zenon DEF kthread_exit, LoopPc
<1>12. CASE Boot
  <2>1. pc[curr] \notin LoopPc
    BY <1>12, <1>f, Zenon DEF Boot, ChildPc
  <2>. QED  BY <1>12, <2>1, <1>s, Zenon DEF Boot
<1>13. CASE KthreadIrq \/ IdleStep
  <2>1. state' = state
    BY <1>13, Zenon DEF KthreadIrq, IdleStep, HPET_handler, excep_hwint_return, local_irq_enable,
                 rest_init, do_idle, rest_init_enable, rest_init_schedule,
                 rest_init_disable, do_idle_poll, schedule_idle, queueVars
  <2>. QED  BY <1>13, <2>1, <1>s, Zenon DEF KthreadIrq, IdleStep
<1>14. CASE UNCHANGED vars
  BY <1>14, <1>s, Zenon DEF vars, schedVars, queueVars
<1>15. CASE kthreadd \/ kthread
  BY <1>1, <1>2, <1>3, <1>9, <1>10, <1>15, Zenon DEF kthreadd, kthread
<1>16. CASE kthread_run
  BY <1>4, <1>6, <1>7, <1>8, <1>16, Zenon DEF kthread_run, kthread_create_waiting
<1>. QED  BY <1>11, <1>12, <1>13, <1>14, <1>15, <1>16, Zenon DEF KthreadNext

\* The daemon has the request, or is about to have it.
With(r) == Listed(r) \/ Detached(r)

\* What a step that is not about the request of c keeps.
KeptNode(c) ==
    /\ req'[c] = req[c]
    /\ pc'[c] \in SubmitPc <=> pc[c] \in SubmitPc
    /\ req[c] # None => /\ With(req[c])' <=> With(req[c])
                        /\ Done(c)' <=> Done(c)
                        /\ wpc'[c] # "run" => pc'[c] = pc[c] /\ wpc[c] # "run" /\ wobj'[c] = wobj[c]
    /\ wobj'[c] \in Req => wobj'[c] = wobj[c]

LEMMA NodeKept ==
    ASSUME NEW c \in Submitter, NodeOK(c), KeptNode(c)
    PROVE  NodeOK(c)'
BY Zenon DEF NodeOK, KeptNode, With

\* Names of different kinds.
LEMMA Kinds ==
    /\ Init \in Creator /\ Init \in Submitter /\ Init # None /\ setup_done \in Others
    /\ setup_done \notin Req /\ NoCompletion \notin Others /\ None \notin Others
    /\ \A r \in Req : r \in Others /\ r # None
    /\ \A c \in Submitter : c \in Creator
    /\ \A c \in Creator : c \in Task /\ c \notin Child /\ c # None /\ c # Idle
    /\ \A t \in Child : t \in Task /\ t \notin Creator /\ t # None /\ t # Kthreadd /\ t # Idle
    /\ \A x \in Others : x \in Completion /\ x \notin Creator
BY KthreadAssumption, DevtmpfsAssumption, CompletionAssumption, Zenon DEF Others

\* The daemon's part of a request depends on the list, the batch and the daemon's place.
LEMMA WithSame ==
    ASSUME KthreadInv, DevInv, requests' = requests, batch' = batch,
           thread' = thread \/ thread = None,
           \A t \in Child : pc'[t] = "w_free" <=> pc[t] = "w_free"
    PROVE  \A r : (r \in Range(requests')
                   \/ (r \in Range(batch') /\ ~(r = Head(batch') /\ pc'[thread'] = "w_free")))
                  <=> With(r)
<1>1. CASE batch = <<>>
  <2>1. Range(batch) = {}
    BY <1>1 DEF Range
  <2>. QED  BY <2>1, Zenon DEF With, Listed, Detached
<1>2. CASE batch # <<>>
  <2>1. thread \in Child
    BY <1>2, OneDaemon, Zenon
  <2>2. thread' = thread /\ (pc'[thread] = "w_free" <=> pc[thread] = "w_free")
    BY <2>1, Kinds, Zenon
  <2>. QED  BY <2>2, Zenon DEF With, Listed, Detached
<1>. QED  BY <1>1, <1>2, Zenon

\* Thread creation does not disturb devtmpfs.
LEMMA ApartDev ==
    ASSUME SchedInv, CompletionInv, KthreadInv, DevInv, Apart, UNCHANGED devtmpfsVars
    PROVE  DevInv'
<1>. USE Kinds
<1>u. UNCHANGED <<thread, requests, batch, req, allocated>>
  BY Zenon DEF devtmpfsVars
<1>1. DevTypeOK'
  BY <1>u, Zenon DEF DevInv, DevTypeOK
<1>2. driver_init_done' <=> driver_init_done
  BY <1>u, Zenon DEF driver_init_done, Apart
<1>3. \A t \in Child : /\ pc[t] \in LoopPc \/ pc'[t] \in LoopPc => pc'[t] = pc[t]
                       /\ pc[t] \in LoopPc /\ state[t] = "RUNNING" => state'[t] = "RUNNING"
  BY Zenon DEF Apart
<1>4. Up' <=> Up
  BY <1>3, Zenon DEF Up
<1>5. DaemonOK'
  <2>1. thread # None => arg'[thread] = Init
    BY Zenon DEF DevInv, DevTypeOK, DaemonOK, Apart
  <2>2. \A t \in Child : pc'[t] \in LoopPc => arg'[t] = Init
    <3>1. \A t \in Child : pc'[t] \in LoopPc => arg[t] = Init
      BY <1>3, Zenon DEF DevInv, DaemonOK
    <3>. QED  BY <3>1, Zenon DEF Apart
  <2>3. done'[setup_done] = done[setup_done]
    BY Zenon DEF Apart
  <2>4. \A t \in Child : pc'[t] \in {"w_handle", "w_free"} <=> pc[t] \in {"w_handle", "w_free"}
    BY <1>3, Zenon DEF LoopPc
  <2>5. \A c \in Creator : pc'[c] \in SubmitPc => pc[c] \in SubmitPc
    BY Zenon DEF Apart
  <2>. QED  BY <1>u, <1>2, <1>4, <2>1, <2>2, <2>3, <2>4, <2>5, Zenon DEF DevInv, DaemonOK
<1>6. Awake'
  <2>1. requests # <<>> /\ state[thread] = "RUNNING" => state'[thread] = "RUNNING"
    BY <1>3, OneDaemon, Zenon
  <2>2. \A c \in Submitter : pc[c] = "s_wake" => pc'[c] = "s_wake"
    BY Zenon DEF Apart, SubmitPc
  <2>. QED  BY <1>u, <2>1, <2>2, Zenon DEF DevInv, Awake, Listed
<1>7. SharesOK'
  <2>1. \A t \in Task : wobj'[t] = setup_done => wobj[t] = setup_done
    BY Zenon DEF Apart
  <2>2. \A t \in Task : wobj'[t] \in Req => wobj[t] = wobj'[t]
    BY Zenon DEF Apart
  <2>. QED  BY <1>u, <2>1, <2>2, Zenon DEF DevInv, SharesOK
<1>8. ASSUME NEW c \in Submitter PROVE NodeOK(c)'
  <2>1. NodeOK(c) /\ (req[c] # None => req[c] \in Others)
    BY Zenon DEF DevInv, DevTypeOK
  <2>2. With(req[c])' <=> With(req[c])
    <3>1. \A t \in Child : pc'[t] = "w_free" <=> pc[t] = "w_free"
      BY <1>3, Zenon DEF LoopPc
    <3>. QED  BY <1>u, <3>1, WithSame, Zenon DEF With, Listed, Detached
  <2>3. req[c] # None => pc'[c] = pc[c] /\ (wpc'[c] = "run" <=> wpc[c] = "run")
    BY <2>1, Zenon DEF NodeOK, Apart
  <2>4. req[c] # None => (Done(c)' <=> Done(c))
    BY <1>u, <2>1, <2>3, Zenon DEF Done, Apart
  <2>5. req[c] # None /\ wpc'[c] # "run" => wobj'[c] = wobj[c]
    BY <2>1, <2>3, Zenon DEF NodeOK, Apart
  <2>6. wobj'[c] \in Req => wobj'[c] = wobj[c]
    BY Zenon DEF Apart
  <2>7. pc'[c] \in SubmitPc <=> pc[c] \in SubmitPc
    BY Zenon DEF Apart
  <2>8. KeptNode(c)
    BY <1>u, <2>2, <2>3, <2>4, <2>5, <2>6, <2>7, Zenon DEF KeptNode
  <2>. QED  BY <2>1, <2>8, NodeKept, Zenon
<1>. QED  BY <1>1, <1>5, <1>6, <1>7, <1>8, Zenon DEF DevInv

-----------------------------------------------------------------------------
(* Waits of devtmpfs *)

\* A locked section of a wait for setup_done, or for an answer.
LEMMA OtherWaitDev ==
    ASSUME SchedInv, CompletionInv, KthreadInv, DevInv, curr \in Creator,
           NEW y \in Others, WaitSection(y), UNCHANGED <<arg, requests, batch, req, allocated>>,
           \A u \in Task \ {curr} : pc'[u] = pc[u],
           \/ thread' = thread /\ pc'[curr] = pc[curr] /\ wobj[curr] = y /\ wpc[curr] # "run"
           \/ /\ thread' = thread /\ curr \in Submitter /\ y \in Req /\ y = req[curr]
              /\ pc[curr] = "s_wait" /\ pc'[curr] = "s_err" /\ wpc[curr] = "run"
           \/ /\ curr = Init /\ thread = None /\ thread' \in Child /\ arg[thread'] = Init
              /\ pc[curr] = "c_end" /\ pc'[curr] = "c_end" /\ y = setup_done /\ wpc[curr] = "run"
    PROVE  DevInv'
<1>. USE Kinds
<1>w. /\ \A u \in Task \ {curr} : state'[u] = state[u] /\ wpc'[u] = wpc[u] /\ wobj'[u] = wobj[u]
      /\ \A x \in Completion \ {y} : done'[x] = done[x]
      /\ \/ done[y] = 0 /\ done'[y] = 0 /\ wpc'[curr] = "sleep" /\ wobj'[curr] = y
         \/ done[y] > 0 /\ wpc'[curr] = "run" /\ wobj'[curr] = NoCompletion
  BY WaitStates, Zenon
<1>r. wpc[curr] = "run" => wobj[curr] \notin Others
  BY Zenon DEF CompletionInv, WaiterAlive
<1>1. DevTypeOK'
  BY Zenon DEF DevInv, DevTypeOK
<1>2. \A t \in Child : pc'[t] = pc[t] /\ state'[t] = state[t]
  BY <1>w, Zenon
<1>3. Up' <=> Up
  BY <1>2, Zenon DEF Up
<1>4. driver_init_done => driver_init_done'
  <2>1. SUFFICES ASSUME thread # None, wobj[Init] # setup_done
                 PROVE  thread' # None /\ wobj'[Init] # setup_done
    BY Zenon DEF driver_init_done
  <2>2. CASE curr = Init
    BY <2>1, <2>2, <1>w, Zenon
  <2>3. CASE curr # Init
    BY <2>1, <2>3, <1>w, Zenon
  <2>. QED  BY <2>2, <2>3, Zenon
<1>5. done'[setup_done] > 0 => Up
  BY <1>w, Zenon DEF DevInv, DaemonOK
<1>6. driver_init_done' => Up
  <2>1. SUFFICES ASSUME thread' # None, wobj'[Init] # setup_done, ~driver_init_done PROVE Up
    BY Zenon DEF driver_init_done, DevInv, DaemonOK
  <2>2. curr = Init /\ y = setup_done
    BY <2>1, <1>w, <1>r, Zenon DEF driver_init_done
  <2>3. done[setup_done] > 0
    BY <2>1, <2>2, <1>w, Zenon
  <2>. QED  BY <2>3, Zenon DEF DevInv, DaemonOK
<1>7. \A c \in Creator : pc'[c] \in SubmitPc <=> pc[c] \in SubmitPc
  BY Zenon DEF SubmitPc
<1>8. DaemonOK'
  <2>1. thread' # None => arg'[thread'] = Init
    BY Zenon DEF DevInv, DaemonOK
  <2>2. \A t \in Child : pc'[t] \in LoopPc => arg'[t] = Init
    BY <1>2, Zenon DEF DevInv, DaemonOK
  <2>3. batch # <<>> <=> \E t \in Child : pc'[t] \in {"w_handle", "w_free"}
    BY <1>2, Zenon DEF DevInv, DaemonOK
  <2>. QED  BY <1>3, <1>4, <1>5, <1>6, <1>7, <2>1, <2>2, <2>3, Zenon DEF DevInv, DaemonOK
<1>9. Awake'
  <2>1. requests # <<>> => thread \in Child /\ thread' = thread
    BY OneDaemon, Zenon
  <2>2. \A c \in Submitter : pc[c] = "s_wake" => pc'[c] = "s_wake"
    BY Zenon
  <2>. QED  BY <1>2, <2>1, <2>2, Zenon DEF DevInv, Awake, Listed
<1>10. SharesOK'
  <2>1. wobj'[curr] = setup_done => curr = Init
    BY <1>w, Zenon DEF DevInv, SharesOK
  <2>2. wobj'[curr] \in Req => curr \in Submitter
    BY <1>w, Zenon DEF DevInv, SharesOK
  <2>. QED  BY <1>w, <2>1, <2>2, Zenon DEF DevInv, SharesOK
<1>11. \A r : (r \in Range(requests') \/ (r \in Range(batch') /\ ~(r = Head(batch') /\ pc'[thread'] = "w_free")))
              <=> With(r)
  BY <1>2, WithSame, Zenon
<1>12. ASSUME NEW c \in Submitter, c # curr PROVE NodeOK(c)'
  <2>1. NodeOK(c) /\ wpc'[c] = wpc[c] /\ wobj'[c] = wobj[c] /\ pc'[c] = pc[c]
    BY <1>12, <1>w, Zenon DEF DevInv
  <2>2. req[c] # None => req[c] # y /\ req[c] \in Completion
    <3>1. y \in Req => curr \in Submitter /\ req[curr] = y
      BY Zenon DEF DevInv, SharesOK, NodeOK
    <3>2. curr \in Submitter /\ req[c] # None => req[curr] # req[c]
      BY <1>12, Zenon DEF DevInv, SharesOK
    <3>3. req[c] # None => req[c] \in Req
      BY Zenon DEF DevInv, DevTypeOK
    <3>. QED  BY <3>1, <3>2, <3>3, Zenon
  <2>3. req[c] # None => (Done(c)' <=> Done(c))
    BY <1>w, <2>1, <2>2, Zenon DEF Done
  <2>4. With(req[c])' <=> With(req[c])
    BY <1>11, Zenon DEF With, Listed, Detached
  <2>5. KeptNode(c)
    BY <2>1, <2>3, <2>4, Zenon DEF KeptNode
  <2>. QED  BY <2>1, <2>5, NodeKept, Zenon
<1>13. ASSUME NEW c \in Submitter, c = curr PROVE NodeOK(c)'
  <2>1. c = curr
    BY <1>13, Zenon
  <2>2. NodeOK(c) /\ c \in Creator
    BY Zenon DEF DevInv
  <2>3. CASE req[c] = None
    <3>1. pc[c] \notin SubmitPc /\ pc'[c] \notin SubmitPc
      BY <2>2, <2>3, <1>7, Zenon DEF NodeOK
    <3>2. wobj'[c] \notin Req
      BY <2>1, <2>2, <2>3, <1>w, Zenon DEF NodeOK
    <3>. QED  BY <2>1, <2>3, <3>1, <3>2, Zenon DEF NodeOK
  <2>4. CASE req[c] # None
    <3>1. y = req[c] /\ pc'[c] = "s_err" /\ ~(pc[c] = "s_err" /\ wpc[c] = "run") /\ pc[c] \in SubmitPc
      <4>1. pc[c] \in SubmitPc /\ (wpc[c] # "run" => pc[c] = "s_err" /\ wobj[c] = req[c])
        BY <2>2, <2>4, Zenon DEF NodeOK
      <4>2. pc[c] # "c_end"
        BY <4>1, Zenon DEF SubmitPc
      <4>. QED  BY <4>1, <4>2, <2>1, Zenon
    <3>2. Done(c)' <=> Done(c)
      BY <2>1, <3>1, <1>w, Zenon DEF Done
    <3>3. With(req[c])' <=> With(req[c])
      BY <1>11, Zenon DEF With, Listed, Detached
    <3>4. wpc'[c] # "run" => wobj'[c] = req[c]
      BY <2>1, <3>1, <1>w, Zenon
    <3>5. wobj'[c] \in Req => wobj'[c] = req[c]
      BY <2>1, <3>1, <1>w, Zenon
    <3>6. pc'[c] \in SubmitPc
      BY <3>1, <1>7, Zenon
    <3>. QED  BY <2>2, <2>4, <3>1, <3>2, <3>3, <3>4, <3>5, <3>6, Zenon DEF NodeOK, With
  <2>. QED  BY <2>3, <2>4, Zenon
<1>14. \A c \in Submitter : NodeOK(c)'
  BY <1>12, <1>13, Zenon
<1>. QED  BY <1>1, <1>8, <1>9, <1>10, <1>14, Zenon DEF DevInv

-----------------------------------------------------------------------------
(* Steps of devtmpfs *)

\* A step of the code around thread creation moves no request for a thread: a
\* creator that has returned, or a thread in its function, goes on, and wakes
\* nobody that must sleep.
LEMMA OutsideInv ==
    ASSUME SchedInv, CompletionInv, KthreadInv, RunsRunnable,
           UNCHANGED <<kthread_create_list, creating, arg, result, wpc, wobj>>,
           \A c \in Creator : done'[c] = done[c],
           NEW q, pc' = [pc EXCEPT ![curr] = q], wpc[curr] = "run",
           \/ pc[curr] \in AfterPc /\ q \in AfterPc
           \/ pc[curr] \in {"t_fn"} \cup LoopPc /\ q \in LoopPc,
           \A t \in Task : \/ state'[t] = state[t]
                           \/ /\ t \in Creator \/ (t \in Child /\ pc[t] \in LoopPc)
                              /\ state'[t] \in {"RUNNING", "INTERRUPTIBLE"}
    PROVE  KthreadInv'
<1>. USE Kinds
<1>f. /\ curr \in Task /\ state[curr] \notin {"NEW", "DEAD"}
      /\ pc[curr] \in CreatorPc => curr \in Creator
      /\ pc[curr] \in ChildPc => curr \in Child
  BY Facts, Zenon
<1>p. AfterPc \subseteq CreatorPc /\ {"t_fn"} \cup LoopPc \subseteq ChildPc
  BY Zenon DEF CreatorPc, ChildPc, ThreadPc
<1>1. RolesOK' /\ pc'[curr] = q /\ \A u \in Task \ {curr} : pc'[u] = pc[u]
  BY <1>f, <1>p, MovePc, Zenon DEF KthreadInv
<1>2. \/ curr \in Creator /\ pc[curr] \in AfterPc /\ q \in AfterPc
      \/ curr \in Child /\ pc[curr] \in {"t_fn"} \cup LoopPc /\ q \in LoopPc
  BY <1>f, <1>p, Zenon
<1>3. \A t \in Task : state'[t] = "DEAD" => state[t] = "DEAD" /\ t # curr
  BY <1>f, Zenon
<1>4. TasksOK'
  <2>1. \A t \in Task : wpc'[t] # "run" => WaitOK(t)'
    BY <1>1, Zenon DEF KthreadInv, TasksOK, WaitOK
  <2>2. \A t \in Task : state'[t] = "DEAD" => pc'[t] \in {"t_fn", "c_end"}
    BY <1>1, <1>3, Zenon DEF KthreadInv, TasksOK
  <2>3. \A c \in Creator : pc'[c] # "c_add" => state'[Kthreadd] # "NEW"
    <3>1. state'[Kthreadd] = "NEW" => state[Kthreadd] = "NEW"
      BY KthreadAssumption, Zenon
    <3>2. \A c \in Creator : pc'[c] # "c_add" => pc[c] # "c_add"
      BY <1>1, <1>2, Zenon DEF AfterPc, SubmitPc
    <3>. QED  BY <3>1, <3>2, Zenon DEF KthreadInv, TasksOK
  <2>4. creating # None <=> pc'[Kthreadd] = "d_create"
    BY <1>1, <1>2, KthreadAssumption, Zenon DEF KthreadInv, TasksOK
  <2>. QED  BY <2>1, <2>2, <2>3, <2>4, Zenon DEF TasksOK
<1>5. \A t \in Child : pc[t] \in LoopPc => ~Outstanding(arg[t]) /\ state[t] # "NEW"
  <2>1. \A t \in Child : pc[t] \in LoopPc => pc[t] # "t_start"
    BY Zenon DEF LoopPc
  <2>. QED  BY <2>1, Zenon DEF KthreadInv, ThreadOK
<1>6. \A t \in Child : t = curr => ~Outstanding(arg[t]) /\ pc[t] \in {"t_fn"} \cup LoopPc /\ pc'[t] \in LoopPc
  <2>1. \A t \in Child : t = curr /\ pc[t] = "t_fn" => ~Outstanding(arg[t])
    BY Zenon DEF KthreadInv, ThreadOK
  <2>. QED  BY <1>1, <1>2, <1>5, <2>1, Zenon
<1>7. \A t \in Child : \/ state'[t] = state[t]
                       \/ ~Outstanding(arg[t]) /\ state'[t] # "NEW" /\ state[t] # "NEW"
  BY <1>5, Zenon
<1>8. \A c \in Creator : c = curr => pc[c] \in AfterPc /\ pc'[c] \in AfterPc
  BY <1>1, <1>2, Zenon
<1>. QED  BY <1>1, <1>4, <1>6, <1>7, <1>8, SameInv, Zenon

\* A submitter goes on, or hangs.
LEMMA SubmitDev ==
    ASSUME SchedInv, CompletionInv, KthreadInv, DevInv, curr \in Submitter,
           NEW q \in AfterPc, pc' = [pc EXCEPT ![curr] = q], pc[curr] \in AfterPc, wpc[curr] = "run",
           UNCHANGED <<done, wpc, wobj, arg, thread, requests, batch, allocated>>,
           req' = req \/ req' = [req EXCEPT ![curr] = None],
           q \in SubmitPc <=> req'[curr] # None,
           q \in SubmitPc => pc[curr] \in SubmitPc /\ pc[curr] # "s_err" /\ q # "s_err",
           \A t \in Child : state[t] = "RUNNING" => state'[t] = "RUNNING",
           pc[curr] = "s_wake" => state'[thread] = "RUNNING"
    PROVE  DevInv'
<1>. USE Kinds
<1>t. curr \in Task /\ pc \in [Task -> DevtmpfsPc] /\ req \in [Submitter -> Req \cup {None}]
  BY Facts, Zenon DEF KthreadInv, RolesOK, DevInv, DevTypeOK
<1>1. pc'[curr] = q /\ \A u \in Task \ {curr} : pc'[u] = pc[u]
  BY <1>t, Zenon
<1>2. req'[curr] \in {req[curr], None} /\ \A c \in Submitter \ {curr} : req'[c] = req[c]
  BY <1>t, Zenon
<1>3. \A t \in Child : pc'[t] = pc[t]
  BY <1>1, Zenon
<1>4. DevTypeOK'
  BY <1>t, Zenon DEF DevInv, DevTypeOK
<1>5. Up' <=> Up
  BY <1>3, Zenon DEF Up
<1>6. driver_init_done' <=> driver_init_done
  BY Zenon DEF driver_init_done
<1>7. DaemonOK'
  <2>1. \A c \in Creator : pc'[c] \in SubmitPc => pc[c] \in SubmitPc
    BY <1>1, Zenon
  <2>. QED  BY <1>3, <1>5, <1>6, <2>1, Zenon DEF DevInv, DaemonOK
<1>8. Awake'
  <2>1. ASSUME requests # <<>>
        PROVE  state'[thread] = "RUNNING" \/ \E c \in Submitter : pc'[c] = "s_wake" /\ req'[c] \in Range(requests)
    <3>1. thread \in Child
      BY <2>1, OneDaemon, Zenon
    <3>2. CASE state[thread] = "RUNNING"
      BY <3>1, <3>2, Zenon
    <3>3. ASSUME NEW c \in Submitter, pc[c] = "s_wake", req[c] \in Range(requests)
          PROVE  state'[thread] = "RUNNING" \/ \E d \in Submitter : pc'[d] = "s_wake" /\ req'[d] \in Range(requests)
      <4>1. CASE c = curr
        BY <3>3, <4>1, Zenon
      <4>2. CASE c # curr
        BY <3>3, <4>2, <1>1, <1>2, Zenon
      <4>. QED  BY <4>1, <4>2, Zenon
    <3>. QED  BY <2>1, <3>2, <3>3, Zenon DEF DevInv, Awake, Listed
  <2>. QED  BY <2>1, Zenon DEF Awake, Listed
<1>9. SharesOK'
  <2>1. \A c \in Submitter : req'[c] # None => req'[c] = req[c]
    BY <1>2, Zenon
  <2>. QED  BY <2>1, Zenon DEF DevInv, SharesOK
<1>10. \A r : (r \in Range(requests') \/ (r \in Range(batch') /\ ~(r = Head(batch') /\ pc'[thread'] = "w_free")))
              <=> With(r)
  BY <1>3, WithSame, Zenon
<1>11. ASSUME NEW c \in Submitter, c # curr PROVE NodeOK(c)'
  <2>1. NodeOK(c) /\ pc'[c] = pc[c] /\ req'[c] = req[c]
    BY <1>11, <1>1, <1>2, Zenon DEF DevInv
  <2>2. Done(c)' <=> Done(c)
    BY <2>1, Zenon DEF Done
  <2>3. With(req[c])' <=> With(req[c])
    BY <1>10, <2>1, Zenon DEF With, Listed, Detached
  <2>4. KeptNode(c)
    BY <2>1, <2>2, <2>3, Zenon DEF KeptNode
  <2>. QED  BY <2>1, <2>4, NodeKept, Zenon
<1>12. ASSUME NEW c \in Submitter, c = curr PROVE NodeOK(c)'
  <2>1. NodeOK(c) /\ wpc'[c] = "run" /\ wobj'[c] \notin Req
    BY <1>12, Zenon DEF DevInv, CompletionInv, WaiterAlive
  <2>2. CASE req'[c] = None
    BY <1>1, <1>12, <2>1, <2>2, Zenon DEF NodeOK
  <2>3. CASE req'[c] # None
    <3>1. req'[c] = req[c] /\ pc[c] # "s_err" /\ pc'[c] # "s_err" /\ pc'[c] \in SubmitPc
      BY <1>1, <1>2, <1>12, <2>3, Zenon
    <3>2. Done(c)' <=> Done(c)
      BY <3>1, Zenon DEF Done
    <3>3. With(req[c])' <=> With(req[c])
      BY <1>10, <3>1, Zenon DEF With, Listed, Detached
    <3>. QED  BY <2>1, <2>3, <3>1, <3>2, <3>3, Zenon DEF NodeOK, With
  <2>. QED  BY <2>2, <2>3, Zenon
<1>13. \A c \in Submitter : NodeOK(c)'
  BY <1>11, <1>12, Zenon
<1>. QED  BY <1>4, <1>7, <1>8, <1>9, <1>13, Zenon DEF DevInv

\* The daemon goes on in devtmpfs_work_loop().
LEMMA LoopDev ==
    ASSUME SchedInv, CompletionInv, KthreadInv, DevInv, curr \in Child,
           NEW q \in LoopPc, pc' = [pc EXCEPT ![curr] = q], pc[curr] \in LoopPc,
           UNCHANGED <<wpc, wobj, arg, thread, req>>, DevTypeOK', Awake',
           batch' # <<>> <=> q \in {"w_handle", "w_free"},
           requests' # <<>> \/ batch' # <<>> => requests # <<>> \/ batch # <<>>,
           \A c \in Submitter : req[c] # None => (With(req[c])' <=> ~Done(c)')
    PROVE  DevInv'
<1>. USE Kinds
<1>1. pc'[curr] = q /\ \A u \in Task \ {curr} : pc'[u] = pc[u]
  BY Zenon DEF KthreadInv, RolesOK
<1>2. \A t \in Child : /\ pc'[t] \in LoopPc <=> pc[t] \in LoopPc
                       /\ pc[t] \in LoopPc => t = curr
  BY <1>1, OneDaemon, Zenon
<1>3. Up /\ Up'
  BY <1>2, Zenon DEF Up
<1>4. driver_init_done' <=> driver_init_done
  BY Zenon DEF driver_init_done
<1>5. \A c \in Creator : pc'[c] = pc[c]
  BY <1>1, Zenon
<1>6. DaemonOK'
  <2>1. \A t \in Child : pc'[t] \in {"w_handle", "w_free"} => t = curr
    BY <1>2, Zenon DEF LoopPc
  <2>2. batch' # <<>> <=> \E t \in Child : pc'[t] \in {"w_handle", "w_free"}
    BY <1>1, <2>1, Zenon
  <2>3. \A c \in Creator : pc'[c] \in SubmitPc => c \in Submitter /\ driver_init_done
    BY <1>5, Zenon DEF DevInv, DaemonOK
  <2>. QED  BY <1>2, <1>3, <1>4, <2>2, <2>3, Zenon DEF DevInv, DaemonOK
<1>7. SharesOK'
  BY Zenon DEF DevInv, SharesOK
<1>8. ASSUME NEW c \in Submitter PROVE NodeOK(c)'
  <2>1. NodeOK(c) /\ pc'[c] = pc[c]
    BY <1>5, Zenon DEF DevInv
  <2>. QED  BY <2>1, Zenon DEF NodeOK, With
<1>. QED  BY <1>6, <1>7, <1>8, Zenon DEF DevInv

\* What a step of the daemon or of a submitter shows.
Preserves == KthreadInv' /\ CompletionInv' /\ DevInv' /\ [SchedNext]_schedVars

\* A step that uses the scheduler and completions as a client may.
LEMMA ClientStep ==
    ASSUME SchedInv, CompletionInv, [ClientNext]_<<schedVars, completionVars>>
    PROVE  CompletionInv' /\ [SchedNext]_schedVars /\ RunsRunnable
BY ClientNextInv, NewCurr, Zenon DEF RunsRunnable

\* devtmpfs_init() hangs, or stores the thread and waits for it.
LEMMA InitDev ==
    ASSUME SchedInv, CompletionInv, KthreadInv, DevInv, devtmpfs_init
    PROVE  Preserves
<1>. USE Kinds
<1>1. /\ curr = Init /\ thread = None /\ pc[curr] = "c_end" /\ wpc[curr] = "run" /\ "c_end" \in AfterPc
      /\ UNCHANGED <<kthread_create_list, creating, arg, result, requests, batch, req, allocated, broken>>
  BY Zenon DEF devtmpfs_init, Goto, AfterPc
<1>2. req[curr] = None
  BY <1>1, Zenon DEF DevInv, NodeOK, SubmitPc
<1>3. CASE result[Init] = Error
  <2>1. /\ pc' = [pc EXCEPT ![curr] = "i_hang"]
        /\ UNCHANGED <<schedVars, completionVars, thread, state, done, wpc, wobj>>
    BY <1>3, Zenon DEF devtmpfs_init, Goto, schedVars, queueVars, completionVars
  <2>2. CompletionInv' /\ [SchedNext]_schedVars /\ RunsRunnable
    BY <2>1, ClientStep, Zenon
  <2>3. "i_hang" \in AfterPc /\ "i_hang" \notin SubmitPc
    BY Zenon DEF AfterPc, SubmitPc
  <2>4. KthreadInv'
    BY <1>1, <2>1, <2>2, <2>3, OutsideInv, Zenon
  <2>5. DevInv'
    BY <1>1, <1>2, <2>1, <2>3, SubmitDev, Zenon
  <2>. QED  BY <2>2, <2>4, <2>5, Zenon DEF Preserves
<1>4. CASE result[Init] # Error
  <2>1. /\ pc' = [pc EXCEPT ![curr] = "c_end"] /\ thread' = result[Init]
        /\ wait_for_completion(setup_done) /\ WaitSection(setup_done)
    BY <1>4, Zenon DEF devtmpfs_init, Goto, wait_for_completion
  <2>2. pc' = pc /\ RolesOK'
    BY <1>1, <2>1, Zenon DEF KthreadInv, RolesOK
  <2>3. result[Init] \in Child /\ arg[result[Init]] = Init
    BY <1>1, <1>4, Zenon DEF KthreadInv, RequestTypeOK, RequestOK
  <2>4. CompletionInv' /\ [SchedNext]_schedVars
    BY <2>1, ClientStep, Zenon DEF ClientNext, CompletionStep
  <2>5. KthreadInv'
    BY <1>1, <2>1, <2>2, OtherWaitInv, Zenon
  <2>6. DevInv'
    BY <1>1, <2>1, <2>2, <2>3, OtherWaitDev, Zenon
  <2>. QED  BY <2>4, <2>5, <2>6, Zenon DEF Preserves
<1>. QED  BY <1>3, <1>4, Zenon

\* A submitter wakes the daemon.
LEMMA WakeDev ==
    ASSUME SchedInv, CompletionInv, KthreadInv, DevInv, submit_wake, curr \in Submitter
    PROVE  Preserves
<1>. USE Kinds
<1>1. /\ pc[curr] = "s_wake" /\ pc' = [pc EXCEPT ![curr] = "s_wait"] /\ wpc[curr] = "run"
      /\ wake_up_process(thread) /\ state' = [state EXCEPT ![thread] = "RUNNING"]
      /\ UNCHANGED <<completionVars, kthread_create_list, creating, arg, result, devtmpfsVars>>
      /\ UNCHANGED <<done, wpc, wobj, thread, requests, batch, req, allocated>>
  BY Zenon DEF submit_wake, Goto, wake_up_process, try_to_wake_up, completionVars, devtmpfsVars
<1>2. /\ {"s_wake", "s_wait"} \subseteq SubmitPc /\ SubmitPc \subseteq AfterPc
      /\ "s_wake" # "s_err" /\ "s_wait" # "s_err"
  BY Zenon DEF SubmitPc, AfterPc
<1>3. thread \in Child /\ pc[thread] \in LoopPc
  BY <1>1, <1>2, OneDaemon, Zenon DEF DevInv, DaemonOK
<1>4. state \in [Task -> State] /\ state[thread] \notin {"NEW", "DEAD"}
  <2>1. pc[thread] \notin {"t_start", "t_fn", "c_end"}
    BY <1>3, Zenon DEF LoopPc
  <2>. QED  BY <1>3, <2>1, Facts, Zenon DEF KthreadInv, TasksOK, ThreadOK
<1>5. state'[thread] = "RUNNING" /\ \A t \in Task \ {thread} : state'[t] = state[t]
  BY <1>1, <1>3, <1>4, Zenon
<1>6. CompletionInv' /\ [SchedNext]_schedVars /\ RunsRunnable
  <2>1. thread \in Wakeable
    BY <1>3, <1>4, Zenon DEF Wakeable
  <2>. QED  BY <1>1, <2>1, ClientStep, Zenon DEF ClientNext, ThreadStep
<1>7. KthreadInv'
  BY <1>1, <1>2, <1>3, <1>5, <1>6, OutsideInv, Zenon
<1>8. DevInv'
  <2>1. req[curr] # None
    BY <1>1, <1>2, Zenon DEF DevInv, NodeOK
  <2>2. \A t \in Child : state[t] = "RUNNING" => state'[t] = "RUNNING"
    BY <1>5, Zenon
  <2>. QED  BY <1>1, <1>2, <1>5, <2>1, <2>2, SubmitDev, Zenon
<1>. QED  BY <1>6, <1>7, <1>8, Zenon DEF Preserves

\* A submitter starts to wait for its answer.
LEMMA WaitDev ==
    ASSUME SchedInv, CompletionInv, KthreadInv, DevInv, submit_wait, curr \in Submitter
    PROVE  Preserves
<1>. USE Kinds
<1>1. /\ pc[curr] = "s_wait" /\ pc' = [pc EXCEPT ![curr] = "s_err"] /\ wpc[curr] = "run"
      /\ wait_for_completion(req[curr]) /\ WaitSection(req[curr])
      /\ UNCHANGED <<kthread_create_list, creating, arg, result, thread, requests, batch, req, allocated>>
  BY Zenon DEF submit_wait, Goto, wait_for_completion, devtmpfsVars
<1>2. {"s_wait", "s_err"} \subseteq SubmitPc /\ SubmitPc \subseteq AfterPc /\ AfterPc \subseteq CreatorPc
  BY Zenon DEF SubmitPc, AfterPc, CreatorPc
<1>3. PICK y \in Req : y = req[curr] /\ y \in Others
  BY <1>1, <1>2, Zenon DEF DevInv, DevTypeOK, NodeOK
<1>4. RolesOK' /\ pc'[curr] = "s_err" /\ \A u \in Task \ {curr} : pc'[u] = pc[u]
  BY <1>1, <1>2, MovePc, Zenon DEF KthreadInv
<1>5. CompletionInv' /\ [SchedNext]_schedVars
  BY <1>1, <1>3, ClientStep, Zenon DEF ClientNext, CompletionStep
<1>6. KthreadInv'
  BY <1>1, <1>2, <1>3, <1>4, OtherWaitInv, Zenon
<1>7. DevInv'
  BY <1>1, <1>3, <1>4, OtherWaitDev, Zenon
<1>. QED  BY <1>5, <1>6, <1>7, Zenon DEF Preserves

\* A submitter returns the answer.
LEMMA ReturnDev ==
    ASSUME SchedInv, CompletionInv, KthreadInv, DevInv, submit_return, curr \in Submitter
    PROVE  Preserves
<1>. USE Kinds
<1>1. /\ pc[curr] = "s_err" /\ pc' = [pc EXCEPT ![curr] = "c_end"] /\ wpc[curr] = "run"
      /\ req' = [req EXCEPT ![curr] = None]
      /\ UNCHANGED <<schedVars, completionVars, kthread_create_list, creating, arg, result>>
      /\ UNCHANGED <<state, done, wpc, wobj, thread, requests, batch, allocated>>
  BY Zenon DEF submit_return, Goto, schedVars, queueVars, completionVars
<1>2. "s_err" \in AfterPc /\ "c_end" \in AfterPc /\ "c_end" \notin SubmitPc /\ "s_err" # "s_wake"
  BY Zenon DEF SubmitPc, AfterPc
<1>3. CompletionInv' /\ [SchedNext]_schedVars /\ RunsRunnable
  BY <1>1, ClientStep, Zenon
<1>4. KthreadInv'
  BY <1>1, <1>2, <1>3, OutsideInv, Zenon
<1>5. req'[curr] = None
  BY <1>1, Zenon DEF DevInv, DevTypeOK
<1>6. DevInv'
  BY <1>1, <1>2, <1>5, SubmitDev, Zenon
<1>. QED  BY <1>3, <1>4, <1>6, Zenon DEF Preserves

\* A queue that holds nothing is empty.
LEMMA EmptyQueue ==
    ASSUME NEW S, NEW q \in Seq(S), Range(q) = {}
    PROVE  q = <<>>
<1>. SUFFICES ASSUME q # <<>> PROVE FALSE
  OBVIOUS
<1>1. 1 \in DOMAIN q
  OBVIOUS
<1>. QED  BY <1>1, Zenon DEF Range

\* A submitter takes memory, which may still be in use, and lists its request.
LEMMA ListDev ==
    ASSUME SchedInv, CompletionInv, KthreadInv, DevInv, devtmpfs_submit_req
    PROVE  KthreadInv' /\ [SchedNext]_schedVars /\ (~broken' => CompletionInv' /\ DevInv')
<1>. USE Kinds
<1>1. /\ curr \in Submitter /\ driver_init_done /\ pc[curr] = "c_end" /\ wpc[curr] = "run"
      /\ pc' = [pc EXCEPT ![curr] = "s_wake"]
      /\ UNCHANGED <<schedVars, kthread_create_list, creating, arg, result>>
      /\ UNCHANGED <<curr, state, wpc, wobj, thread, batch>>
  BY Zenon DEF devtmpfs_submit_req, Goto, schedVars, queueVars
<1>2. PICK r \in Req \ allocated :
          /\ allocated' = allocated \cup {r}
          /\ broken' = \E c \in Submitter : req[c] = r
          /\ req' = [req EXCEPT ![curr] = r]
          /\ requests' = <<r>> \o requests
          /\ done' = [done EXCEPT ![r] = 0]
          /\ task_list' = [task_list EXCEPT ![r] = <<>>]
  BY Zenon DEF devtmpfs_submit_req
<1>t. /\ curr \in Task /\ pc \in [Task -> DevtmpfsPc] /\ req \in [Submitter -> Req \cup {None}]
      /\ done \in [Completion -> 0..UINT_MAX] /\ task_list \in [Completion -> Seq(Task)]
  BY Facts, Zenon DEF KthreadInv, RolesOK, DevInv, DevTypeOK, CompletionInv, CompletionTypeOK
<1>p. /\ "c_end" \in AfterPc /\ "s_wake" \in AfterPc /\ "s_wake" \in SubmitPc /\ "c_end" \notin SubmitPc
      /\ "s_wake" # "s_err"
  BY Zenon DEF SubmitPc, AfterPc
<1>3. pc'[curr] = "s_wake" /\ \A u \in Task \ {curr} : pc'[u] = pc[u]
  BY <1>1, <1>t, Zenon
<1>4. req'[curr] = r /\ \A c \in Submitter \ {curr} : req'[c] = req[c]
  BY <1>1, <1>2, <1>t, Zenon
<1>5. done'[r] = 0 /\ \A x \in Completion \ {r} : done'[x] = done[x]
  BY <1>2, <1>t, Zenon
<1>6. KthreadInv'
  <2>1. RunsRunnable
    BY <1>1, Zenon DEF RunsRunnable
  <2>2. \A c \in Creator : done'[c] = done[c]
    BY <1>5, KthreadAssumption, Zenon
  <2>. QED  BY <1>1, <1>p, <2>1, <2>2, OutsideInv, Zenon
<1>7. ASSUME ~broken' PROVE CompletionInv' /\ DevInv'
  <2>1. \A c \in Submitter : req[c] # r
    BY <1>2, <1>7, Zenon
  <2>2. \A t \in Task : wobj[t] # r
    BY <2>1, Zenon DEF DevInv, SharesOK, NodeOK
  <2>3. CompletionInv'
    <3>1. Linked(r) = {}
      BY <2>2, Zenon DEF CompletionInv, ListHoldsWaiters, Waiters
    <3>2. task_list[r] = <<>>
      BY <1>t, <3>1, EmptyQueue, Zenon DEF Linked
    <3>3. task_list' = task_list
      BY <1>2, <1>t, <3>2, Zenon
    <3>4. done' \in [Completion -> 0..UINT_MAX]
      <4>1. 0 \in 0..UINT_MAX
        BY CompletionAssumption
      <4>. QED  BY <1>2, <1>t, <4>1, Zenon
    <3>. QED  BY <1>1, <3>3, <3>4, Zenon DEF CompletionInv, CompletionTypeOK, ListHoldsWaiters,
                                             UnlinkedAwake, WaiterAlive, Linked, Waiters
  <2>4. r \notin Range(requests) /\ r \notin Range(batch)
    BY Zenon DEF DevInv, DevTypeOK
  <2>5. requests' \in Seq(Req) /\ IsInjective(requests') /\ Range(requests') = Range(requests) \cup {r}
    <3>1. requests \in Seq(Req) /\ IsInjective(requests)
      BY Zenon DEF DevInv, DevTypeOK
    <3>2. /\ <<r>> \o requests \in Seq(Req) /\ IsInjective(<<r>> \o requests)
          /\ Range(<<r>> \o requests) = Range(requests) \cup {r}
      BY <2>4, <3>1, PushQueue, Zenon
    <3>. QED  BY <1>2, <3>2, Zenon
  <2>6. DevTypeOK'
    <3>1. req' \in [Submitter -> Req \cup {None}] /\ allocated' \subseteq Req
      BY <1>2, <1>t, Zenon DEF DevInv, DevTypeOK
    <3>2. /\ Range(requests') \cup Range(batch) \subseteq allocated'
          /\ Range(requests') \cap Range(batch) = {}
      BY <1>2, <2>4, <2>5, Zenon DEF DevInv, DevTypeOK
    <3>3. /\ thread' = thread /\ thread \in Child \cup {None}
          /\ batch' = batch /\ batch \in Seq(Req) /\ IsInjective(batch)
      BY <1>1, Zenon DEF DevInv, DevTypeOK
    <3>. QED  BY <2>5, <3>1, <3>2, <3>3, Zenon DEF DevTypeOK
  <2>7. driver_init_done' /\ driver_init_done /\ (Up' <=> Up) /\ \A t \in Child : pc'[t] = pc[t]
    BY <1>1, <1>3, Zenon DEF driver_init_done, Up
  <2>8. done'[setup_done] = done[setup_done]
    BY <1>5, Zenon
  <2>9. DaemonOK'
    <3>1. \A c \in Creator : pc'[c] \in SubmitPc => c \in Submitter
      BY <1>1, <1>3, Zenon DEF DevInv, DaemonOK
    <3>. QED  BY <1>1, <2>7, <2>8, <3>1, Zenon DEF DevInv, DaemonOK
  <2>10. Awake'
    BY <1>1, <1>3, <1>4, <2>5, Zenon DEF Awake, Listed
  <2>11. SharesOK'
    BY <1>1, <1>4, <2>1, Zenon DEF DevInv, SharesOK
  <2>12. ASSUME NEW c \in Submitter, c # curr PROVE NodeOK(c)'
    <3>1. NodeOK(c) /\ pc'[c] = pc[c] /\ req'[c] = req[c] /\ wpc'[c] = wpc[c] /\ wobj'[c] = wobj[c]
      BY <1>1, <1>3, <1>4, <2>12, Zenon DEF DevInv
    <3>2. req[c] # None => req[c] \in Completion \ {r}
      BY <2>1, Zenon DEF DevInv, DevTypeOK
    <3>3. req[c] # None => (Done(c)' <=> Done(c))
      BY <1>5, <3>1, <3>2, Zenon DEF Done
    <3>4. req[c] # None => (With(req[c])' <=> With(req[c]))
      <4>1. thread' = thread /\ batch' = batch /\ pc'[thread] = pc[thread]
        BY <1>1, <2>7, Zenon DEF driver_init_done, DevInv, DevTypeOK
      <4>. QED  BY <3>1, <3>2, <2>5, <4>1, Zenon DEF With, Listed, Detached
    <3>5. KeptNode(c)
      BY <3>1, <3>3, <3>4, Zenon DEF KeptNode
    <3>. QED  BY <3>1, <3>5, NodeKept, Zenon
  <2>13. ASSUME NEW c \in Submitter, c = curr PROVE NodeOK(c)'
    <3>1. req'[c] = r /\ r # None /\ pc'[c] = "s_wake" /\ wpc'[c] = "run" /\ wobj'[c] \notin Req
      BY <1>1, <1>3, <1>4, <2>13, Zenon DEF CompletionInv, WaiterAlive
    <3>2. ~Done(c)'
      <4>1. done'[r] = 0 /\ ~(0 > 0)
        BY <1>5
      <4>. QED  BY <3>1, <4>1, <1>p, Zenon DEF Done
    <3>3. Listed(req[c])'
      BY <3>1, <2>5, Zenon DEF Listed
    <3>. QED  BY <3>1, <3>2, <3>3, <1>p, Zenon DEF NodeOK
  <2>. QED  BY <2>3, <2>6, <2>9, <2>10, <2>11, <2>12, <2>13, Zenon DEF DevInv
<1>. QED  BY <1>1, <1>6, <1>7, Zenon

\* devtmpfsd() tells devtmpfs_init() that it is set up.
LEMMA StartDev ==
    ASSUME SchedInv, CompletionInv, KthreadInv, DevInv, devtmpfsd
    PROVE  Preserves
<1>. USE Kinds
<1>1. /\ curr \in Child /\ arg[curr] = Init /\ pc[curr] = "t_fn" /\ wpc[curr] = "run"
      /\ pc' = [pc EXCEPT ![curr] = "w_lock"] /\ complete_in_task(setup_done)
      /\ UNCHANGED <<kthread_create_list, creating, arg, result>>
      /\ UNCHANGED <<thread, requests, batch, req, allocated>>
  BY Zenon DEF devtmpfsd, Goto, devtmpfsVars
<1>2. /\ \A t \in Task : state'[t] = state[t] \/ (t \in Creator /\ state'[t] = "RUNNING")
      /\ UNCHANGED <<wpc, wobj>>
      /\ \A y \in Completion \ {setup_done} : done'[y] = done[y]
  BY <1>1, CompleteStates, Zenon
<1>3. CompletionInv' /\ [SchedNext]_schedVars /\ RunsRunnable
  BY <1>1, ClientStep, Zenon DEF ClientNext, CompletionStep
<1>p. "w_lock" \in LoopPc /\ "w_lock" \notin {"w_handle", "w_free"} /\ "t_fn" \notin {"w_handle", "w_free"}
  BY Zenon DEF LoopPc
<1>4. KthreadInv'
  <2>1. \A c \in Creator : done'[c] = done[c]
    BY <1>2, KthreadAssumption, Zenon
  <2>. QED  BY <1>1, <1>2, <1>3, <1>p, <2>1, OutsideInv, Zenon
<1>5. pc'[curr] = "w_lock" /\ \A u \in Task \ {curr} : pc'[u] = pc[u]
  BY <1>1, Zenon DEF KthreadInv, RolesOK
<1>6. \A c \in Creator : pc'[c] = pc[c]
  BY <1>1, <1>5, Zenon
<1>7. \A t \in Child : state'[t] = state[t] /\ (pc'[t] \in {"w_handle", "w_free"} <=> pc[t] \in {"w_handle", "w_free"})
  BY <1>1, <1>2, <1>5, <1>p, Zenon
<1>8. DevTypeOK' /\ SharesOK'
  BY <1>1, <1>2, Zenon DEF DevInv, DevTypeOK, SharesOK
<1>9. DaemonOK'
  <2>1. Up'
    BY <1>1, <1>5, <1>p, Zenon DEF Up
  <2>2. driver_init_done' <=> driver_init_done
    BY <1>1, <1>2, Zenon DEF driver_init_done
  <2>3. \A t \in Child : pc'[t] \in LoopPc => arg'[t] = Init
    BY <1>1, <1>5, Zenon DEF DevInv, DaemonOK
  <2>. QED  BY <1>1, <1>6, <1>7, <2>1, <2>2, <2>3, Zenon DEF DevInv, DaemonOK
<1>10. Awake'
  <2>1. requests # <<>> => thread \in Child
    BY OneDaemon, Zenon
  <2>. QED  BY <1>1, <1>6, <1>7, <2>1, Zenon DEF DevInv, Awake, Listed
<1>11. ASSUME NEW c \in Submitter PROVE NodeOK(c)'
  <2>1. NodeOK(c) /\ pc'[c] = pc[c] /\ (req[c] # None => req[c] \in Completion \ {setup_done})
    BY <1>6, Zenon DEF DevInv, DevTypeOK
  <2>2. req[c] # None => (Done(c)' <=> Done(c))
    BY <1>1, <1>2, <2>1, Zenon DEF Done
  <2>3. With(req[c])' <=> With(req[c])
    <3>1. \A t \in Child : pc'[t] = "w_free" <=> pc[t] = "w_free"
      BY <1>1, <1>5, Zenon
    <3>. QED  BY <1>1, <3>1, WithSame, Zenon DEF With, Listed, Detached
  <2>4. KeptNode(c)
    BY <1>1, <1>2, <2>1, <2>2, <2>3, Zenon DEF KeptNode
  <2>. QED  BY <2>1, <2>4, NodeKept, Zenon
<1>12. DevInv'
  BY <1>8, <1>9, <1>10, <1>11, Zenon DEF DevInv
<1>. QED  BY <1>3, <1>4, <1>12, Zenon DEF Preserves

\* Who runs devtmpfs_work_loop().
LEMMA LoopRuns ==
    ASSUME SchedInv, CompletionInv, KthreadInv, DevInv, pc[curr] \in LoopPc
    PROVE  /\ curr \in Child /\ \A t \in Child : pc[t] \in LoopPc => t = curr
           /\ requests # <<>> \/ batch # <<>> => thread = curr
           /\ batch # <<>> <=> pc[curr] \in {"w_handle", "w_free"}
           /\ \A c \in Submitter : req[c] # None => (With(req[c]) <=> ~Done(c)) /\ req[c] \in Req
<1>1. curr \in Child
  BY Facts, Zenon DEF ChildPc
<1>2. \A t \in Child : pc[t] \in LoopPc => t = curr
  BY <1>1, OneDaemon, Zenon
<1>3. batch # <<>> <=> pc[curr] \in {"w_handle", "w_free"}
  <2>1. \A t \in Child : pc[t] \in {"w_handle", "w_free"} => t = curr
    BY <1>2, Zenon DEF LoopPc
  <2>. QED  BY <1>1, <2>1, Zenon DEF DevInv, DaemonOK
<1>4. requests # <<>> \/ batch # <<>> => thread = curr
  BY <1>2, OneDaemon, Zenon
<1>5. \A c \in Submitter : req[c] # None => (With(req[c]) <=> ~Done(c)) /\ req[c] \in Req
  BY Zenon DEF DevInv, DevTypeOK, NodeOK, With
<1>. QED  BY <1>1, <1>2, <1>3, <1>4, <1>5, Zenon

\* Nothing is in an empty queue.
LEMMA NoneInEmpty == Range(<<>>) = {}
BY DEF Range

\* The daemon takes the list, or gets ready to sleep.
LEMMA LockDev ==
    ASSUME SchedInv, CompletionInv, KthreadInv, DevInv, work_loop_lock
    PROVE  Preserves
<1>. USE Kinds
<1>1. /\ pc[curr] = "w_lock" /\ wpc[curr] = "run" /\ InThread
      /\ UNCHANGED <<completionVars, kthread_create_list, creating, arg, result, thread, req, allocated>>
      /\ UNCHANGED <<done, wpc, wobj>>
  BY Zenon DEF work_loop_lock, Goto, completionVars
<1>p. {"w_lock", "w_handle", "w_sched"} \subseteq LoopPc
  BY Zenon DEF LoopPc
<1>2. /\ curr \in Child /\ batch = <<>>
      /\ requests # <<>> => thread = curr
      /\ \A c \in Submitter : req[c] # None => (With(req[c]) <=> ~Done(c)) /\ req[c] \in Req
  BY <1>1, <1>p, LoopRuns, Zenon
<1>3. \A c \in Submitter : req[c] # None => (req[c] \in Range(requests) <=> ~Done(c))
  BY <1>2, NoneInEmpty, Zenon DEF With, Listed, Detached
<1>4. CASE requests # <<>>
  <2>1. /\ pc' = [pc EXCEPT ![curr] = "w_handle"] /\ batch' = requests /\ requests' = <<>>
        /\ UNCHANGED schedVars /\ state' = state
    BY <1>4, Zenon DEF work_loop_lock, Goto, schedVars, queueVars
  <2>2. CompletionInv' /\ [SchedNext]_schedVars /\ RunsRunnable
    BY <1>1, <2>1, ClientStep, Zenon
  <2>3. KthreadInv'
    BY <1>1, <1>p, <2>1, <2>2, OutsideInv, Zenon
  <2>4. DevTypeOK'
    <3>1. batch \in Seq(Req) /\ IsInjective(batch)
      BY Zenon DEF DevInv, DevTypeOK
    <3>. QED  BY <1>1, <1>2, <2>1, <3>1, NoneInEmpty, Zenon DEF DevInv, DevTypeOK
  <2>5. pc'[curr] = "w_handle" /\ pc'[thread] # "w_free" /\ \A u \in Task \ {curr} : pc'[u] = pc[u]
    BY <1>2, <1>4, <2>1, Zenon DEF KthreadInv, RolesOK
  <2>6. ASSUME NEW c \in Submitter, req[c] # None PROVE With(req[c])' <=> ~Done(c)'
    <3>1. Done(c)' <=> Done(c)
      BY <1>1, <1>2, <2>5, Zenon DEF Done
    <3>2. With(req[c])' <=> req[c] \in Range(requests)
      BY <1>1, <2>1, <2>5, NoneInEmpty, Zenon DEF With, Listed, Detached
    <3>. QED  BY <1>3, <2>6, <3>1, <3>2, Zenon
  <2>7. DevInv'
    <3>1. Awake'
      BY <2>1, Zenon DEF Awake
    <3>. QED  BY <1>1, <1>2, <1>4, <1>p, <2>1, <2>4, <2>6, <3>1, LoopDev, Zenon
  <2>. QED  BY <2>2, <2>3, <2>7, Zenon DEF Preserves
<1>5. CASE requests = <<>>
  <2>1. /\ pc' = [pc EXCEPT ![curr] = "w_sched"] /\ set_current_state("INTERRUPTIBLE")
        /\ UNCHANGED <<requests, batch>> /\ state' = [state EXCEPT ![curr] = "INTERRUPTIBLE"]
    BY <1>5, Zenon DEF work_loop_lock, Goto, set_current_state
  <2>2. CompletionInv' /\ [SchedNext]_schedVars /\ RunsRunnable
    <3>1. "INTERRUPTIBLE" \in SleepState
      BY Zenon DEF SleepState
    <3>. QED  BY <1>1, <2>1, <3>1, ClientStep, Zenon DEF ClientNext, ThreadStep
  <2>3. \A t \in Task : \/ state'[t] = state[t]
                        \/ /\ t \in Creator \/ (t \in Child /\ pc[t] \in LoopPc)
                           /\ state'[t] \in {"RUNNING", "INTERRUPTIBLE"}
    <3>1. \A t \in Task \ {curr} : state'[t] = state[t]
      BY <2>1, Facts, Zenon
    <3>2. curr \in Child /\ pc[curr] \in LoopPc /\ state'[curr] = "INTERRUPTIBLE"
      BY <1>1, <1>2, <1>p, <2>1, Facts, Zenon
    <3>. QED  BY <3>1, <3>2, Zenon
  <2>4. KthreadInv'
    BY <1>1, <1>2, <1>p, <2>1, <2>2, <2>3, OutsideInv, Zenon
  <2>5. DevTypeOK' /\ Awake'
    BY <1>1, <1>5, <2>1, Zenon DEF DevInv, DevTypeOK, Awake
  <2>6. \A u \in Task \ {curr} : pc'[u] = pc[u]
    BY <1>2, <2>1, Zenon DEF KthreadInv, RolesOK
  <2>7. ASSUME NEW c \in Submitter, req[c] # None PROVE With(req[c])' <=> ~Done(c)'
    <3>1. Done(c)' <=> Done(c)
      BY <1>1, <1>2, <2>6, Zenon DEF Done
    <3>2. With(req[c])' <=> req[c] \in Range(requests)
      BY <1>1, <1>2, <2>1, NoneInEmpty, Zenon DEF With, Listed, Detached
    <3>. QED  BY <1>3, <2>7, <3>1, <3>2, Zenon
  <2>8. DevInv'
    <3>1. batch' # <<>> <=> "w_sched" \in {"w_handle", "w_free"}
      BY <1>2, <2>1, Zenon
    <3>. QED  BY <1>1, <1>2, <1>p, <2>1, <2>5, <2>7, <3>1, LoopDev, Zenon
  <2>. QED  BY <2>2, <2>4, <2>8, Zenon DEF Preserves
<1>. QED  BY <1>4, <1>5, Zenon

\* The daemon answers a request.
LEMMA AnswerDev ==
    ASSUME SchedInv, CompletionInv, KthreadInv, DevInv, work_loop_complete
    PROVE  Preserves
<1>. USE Kinds
<1>. DEFINE h == Head(batch)
<1>1. /\ pc[curr] = "w_handle" /\ wpc[curr] = "run" /\ pc' = [pc EXCEPT ![curr] = "w_free"]
      /\ complete_in_task(h)
      /\ UNCHANGED <<kthread_create_list, creating, arg, result, thread, req, allocated, requests, batch>>
  BY Zenon DEF work_loop_complete, Goto, devtmpfsVars
<1>p. {"w_handle", "w_free"} \subseteq LoopPc
  BY Zenon DEF LoopPc
<1>2. /\ curr \in Child /\ batch # <<>> /\ thread = curr
      /\ \A c \in Submitter : req[c] # None => (With(req[c]) <=> ~Done(c)) /\ req[c] \in Req
  BY <1>1, <1>p, LoopRuns, Zenon
<1>3. h \in Req /\ h \in Range(batch) /\ h \notin Range(requests)
  BY <1>2, TailQueue, Zenon DEF DevInv, DevTypeOK
<1>. HIDE DEF h
<1>4. /\ \A t \in Task : state'[t] = state[t] \/ (t \in Creator /\ state'[t] = "RUNNING")
      /\ UNCHANGED <<wpc, wobj>> /\ done'[h] > 0
      /\ \A y \in Completion \ {h} : done'[y] = done[y]
  BY <1>1, <1>3, CompleteStates, Zenon
<1>5. CompletionInv' /\ [SchedNext]_schedVars /\ RunsRunnable
  BY <1>1, <1>3, ClientStep, Zenon DEF ClientNext, CompletionStep
<1>6. KthreadInv'
  <2>1. \A c \in Creator : done'[c] = done[c]
    BY <1>3, <1>4, KthreadAssumption, Zenon
  <2>. QED  BY <1>1, <1>2, <1>4, <1>5, <1>p, <2>1, OutsideInv, Zenon
<1>7. pc'[curr] = "w_free" /\ \A u \in Task \ {curr} : pc'[u] = pc[u]
  BY <1>1, <1>2, Zenon DEF KthreadInv, RolesOK
<1>8. DevTypeOK'
  BY <1>1, Zenon DEF DevInv, DevTypeOK
<1>9. Awake'
  <2>1. state'[thread] = state[thread] /\ \A c \in Submitter : pc'[c] = pc[c]
    BY <1>2, <1>4, <1>7, Zenon
  <2>. QED  BY <1>1, <2>1, Zenon DEF DevInv, Awake, Listed
<1>10. ASSUME NEW c \in Submitter, req[c] # None PROVE With(req[c])' <=> ~Done(c)'
  <2>1. pc'[c] = pc[c] /\ req[c] \in Completion
    BY <1>2, <1>7, <1>10, Zenon
  <2>2. CASE req[c] = h
    <3>1. Done(c)'
      BY <1>1, <1>4, <2>2, Zenon DEF Done
    <3>2. ~With(req[c])'
      BY <1>1, <1>2, <1>3, <1>7, <2>2, Zenon DEF With, Listed, Detached, h
    <3>. QED  BY <3>1, <3>2, Zenon
  <2>3. CASE req[c] # h
    <3>1. Done(c)' <=> Done(c)
      BY <1>1, <1>4, <2>1, <2>3, Zenon DEF Done
    <3>2. With(req[c])' <=> With(req[c])
      BY <1>1, <2>3, Zenon DEF With, Listed, Detached, h
    <3>. QED  BY <1>2, <1>10, <3>1, <3>2, Zenon
  <2>. QED  BY <2>2, <2>3, Zenon
<1>11. DevInv'
  <2>1. batch' # <<>> <=> "w_free" \in {"w_handle", "w_free"}
    BY <1>1, <1>2, Zenon
  <2>2. /\ pc[curr] \in LoopPc /\ "w_free" \in LoopPc
        /\ UNCHANGED <<wpc, wobj, arg, thread, req, requests, batch>>
    BY <1>1, <1>4, <1>p, Zenon
  <2>3. pc' = [pc EXCEPT ![curr] = "w_free"] /\ curr \in Child
    BY <1>1, <1>2, Zenon
  <2>. QED  BY <1>8, <1>9, <1>10, <2>1, <2>2, <2>3, LoopDev, Zenon
<1>. QED  BY <1>5, <1>6, <1>11, Zenon DEF Preserves

\* The daemon frees what it has answered, and goes on with the next request.
LEMMA FreeDev ==
    ASSUME SchedInv, CompletionInv, KthreadInv, DevInv, work_loop_free
    PROVE  Preserves
<1>. USE Kinds
<1>. DEFINE h == Head(batch)
            q == IF Len(batch) = 1 THEN "w_lock" ELSE "w_handle"
<1>1. /\ pc[curr] = "w_free" /\ wpc[curr] = "run" /\ pc' = [pc EXCEPT ![curr] = q]
      /\ allocated' = allocated \ {h} /\ batch' = Tail(batch)
      /\ UNCHANGED <<schedVars, completionVars, kthread_create_list, creating, arg, result, thread, req, requests>>
      /\ UNCHANGED <<state, done, wpc, wobj>>
  BY Zenon DEF work_loop_free, Goto, schedVars, queueVars, completionVars
<1>p. {"w_free", "w_lock", "w_handle"} \subseteq LoopPc /\ q \in {"w_lock", "w_handle"}
  BY Zenon DEF LoopPc
<1>2. /\ curr \in Child /\ batch # <<>> /\ thread = curr
      /\ \A c \in Submitter : req[c] # None => (With(req[c]) <=> ~Done(c)) /\ req[c] \in Req
  BY <1>1, <1>p, LoopRuns, Zenon
<1>3. batch' # <<>> <=> q \in {"w_handle", "w_free"}
  <2>1. batch \in Seq(Req)
    BY Zenon DEF DevInv, DevTypeOK
  <2>2. Tail(batch) = <<>> <=> Len(batch) = 1
    <3>1. Len(batch) \in Nat \ {0} /\ Tail(batch) \in Seq(Req) /\ Len(Tail(batch)) = Len(batch) - 1
      BY <1>2, <2>1
    <3>2. Tail(batch) = <<>> <=> Len(Tail(batch)) = 0
      BY <3>1
    <3>. QED  BY <3>1, <3>2
  <2>. QED  BY <1>1, <2>2, Zenon
<1>4. /\ h \in Req /\ h \notin Range(requests) /\ Tail(batch) \in Seq(Req) /\ IsInjective(Tail(batch))
      /\ Range(Tail(batch)) = Range(batch) \ {h}
  BY <1>2, TailQueue, Zenon DEF DevInv, DevTypeOK
<1>. HIDE DEF h, q
<1>5. CompletionInv' /\ [SchedNext]_schedVars /\ RunsRunnable
  BY <1>1, ClientStep, Zenon
<1>6. KthreadInv'
  BY <1>1, <1>5, <1>p, OutsideInv, Zenon
<1>7. pc'[curr] = q /\ \A u \in Task \ {curr} : pc'[u] = pc[u]
  BY <1>1, <1>2, Zenon DEF KthreadInv, RolesOK
<1>8. DevTypeOK'
  BY <1>1, <1>4, Zenon DEF DevInv, DevTypeOK
<1>9. Awake'
  <2>1. \A c \in Submitter : pc'[c] = pc[c]
    BY <1>2, <1>7, Zenon
  <2>. QED  BY <1>1, <2>1, Zenon DEF DevInv, Awake, Listed
<1>10. ASSUME NEW c \in Submitter, req[c] # None PROVE With(req[c])' <=> ~Done(c)'
  <2>1. Done(c)' <=> Done(c)
    BY <1>1, <1>2, <1>7, Zenon DEF Done
  <2>2. With(req[c])' <=> req[c] \in Range(requests) \/ (req[c] \in Range(batch) /\ req[c] # h)
    BY <1>1, <1>2, <1>4, <1>7, <1>p, Zenon DEF With, Listed, Detached
  <2>3. With(req[c]) <=> req[c] \in Range(requests) \/ (req[c] \in Range(batch) /\ req[c] # h)
    BY <1>1, <1>2, Zenon DEF With, Listed, Detached, h
  <2>. QED  BY <1>2, <1>10, <2>1, <2>2, <2>3, Zenon
<1>11. DevInv'
  BY <1>1, <1>2, <1>p, <1>3, <1>8, <1>9, <1>10, LoopDev, Zenon
<1>. QED  BY <1>5, <1>6, <1>11, Zenon DEF Preserves

\* The daemon sleeps, unless it has been woken.
LEMMA SleepDev ==
    ASSUME SchedInv, CompletionInv, KthreadInv, DevInv, work_loop_sched
    PROVE  Preserves
<1>. USE Kinds
<1>1. /\ pc[curr] = "w_sched" /\ wpc[curr] = "run" /\ pc' = [pc EXCEPT ![curr] = "w_lock"]
      /\ schedule /\ state' = state
      /\ UNCHANGED <<completionVars, kthread_create_list, creating, arg, result, thread, req, allocated, requests, batch>>
      /\ UNCHANGED <<done, wpc, wobj>>
  BY Zenon DEF work_loop_sched, Goto, schedule, completionVars, devtmpfsVars
<1>p. {"w_sched", "w_lock"} \subseteq LoopPc
  BY Zenon DEF LoopPc
<1>2. /\ curr \in Child /\ batch = <<>>
      /\ \A c \in Submitter : req[c] # None => (With(req[c]) <=> ~Done(c)) /\ req[c] \in Req
  BY <1>1, <1>p, LoopRuns, Zenon
<1>3. CompletionInv' /\ [SchedNext]_schedVars /\ RunsRunnable
  BY <1>1, ClientStep, Zenon DEF ClientNext, ThreadStep
<1>4. KthreadInv'
  BY <1>1, <1>3, <1>p, OutsideInv, Zenon
<1>5. \A u \in Task \ {curr} : pc'[u] = pc[u]
  BY <1>1, <1>2, Zenon DEF KthreadInv, RolesOK
<1>6. \A c \in Submitter : pc'[c] = pc[c]
  BY <1>2, <1>5, Zenon
<1>7. DevTypeOK' /\ Awake'
  BY <1>1, <1>6, Zenon DEF DevInv, DevTypeOK, Awake, Listed
<1>8. ASSUME NEW c \in Submitter, req[c] # None PROVE With(req[c])' <=> ~Done(c)'
  <2>1. Done(c)' <=> Done(c)
    BY <1>1, <1>6, Zenon DEF Done
  <2>2. With(req[c])' <=> With(req[c])
    BY <1>1, <1>2, NoneInEmpty, Zenon DEF With, Listed, Detached
  <2>. QED  BY <1>2, <1>8, <2>1, <2>2, Zenon
<1>9. DevInv'
  <2>1. batch' # <<>> <=> "w_lock" \in {"w_handle", "w_free"}
    BY <1>1, <1>2, Zenon
  <2>. QED  BY <1>1, <1>2, <1>p, <1>7, <1>8, <2>1, LoopDev, Zenon
<1>. QED  BY <1>3, <1>4, <1>9, Zenon DEF Preserves

\* Thread creation, interrupts and the idle task below devtmpfs.
LEMMA BelowDev ==
    ASSUME SchedInv, CompletionInv, KthreadInv, DevInv, [KthreadNext]_vars, UNCHANGED devtmpfsVars
    PROVE  Preserves
<1>1. KthreadInv' /\ CompletionInv' /\ [SchedNext]_schedVars
  BY KthreadBelow, KthreadNextInv, Zenon
<1>2. CASE OtherWait
  <2>1. /\ WaitSection(wobj[curr]) /\ wpc[curr] # "run" /\ wobj[curr] \in Others /\ UNCHANGED <<pc, arg>>
        /\ UNCHANGED <<thread, requests, batch, req, allocated>>
    BY <1>2, Zenon DEF OtherWait, kthread_create_waiting, wait_again, Waiting, kthreadVars, devtmpfsVars
  <2>2. curr \in Creator
    BY <2>1, Facts, Zenon DEF KthreadInv, TasksOK, WaitOK
  <2>3. PICK y \in Others : y = wobj[curr]
    BY <2>1, Zenon
  <2>4. DevInv'
    BY <2>1, <2>2, <2>3, OtherWaitDev, Zenon
  <2>. QED  BY <1>1, <2>4, Zenon DEF Preserves
<1>3. CASE ~OtherWait
  BY <1>1, <1>3, KthreadApart, ApartDev, Zenon DEF Preserves
<1>. QED  BY <1>2, <1>3, Zenon

\* Nothing changes.
LEMMA KthreadSame ==
    ASSUME KthreadInv, UNCHANGED <<kthreadVars, done, wpc, wobj, curr, state>>
    PROVE  KthreadInv'
<1>1. UNCHANGED <<pc, kthread_create_list, creating, arg, result>>
  BY Zenon DEF kthreadVars
<1>2. RolesOK' /\ RequestTypeOK'
  BY <1>1, Zenon DEF KthreadInv, RolesOK, RequestTypeOK
<1>3. TasksOK'
  BY <1>1, Zenon DEF KthreadInv, TasksOK, WaitOK
<1>4. ASSUME NEW c \in Creator PROVE RequestOK(c)'
  BY <1>1, Zenon DEF KthreadInv, RequestOK, OnList, InHand, WithChild, Outstanding, Answered
<1>5. ASSUME NEW t \in Child PROVE ThreadOK(t)'
  BY <1>1, Zenon DEF KthreadInv, ThreadOK, Outstanding
<1>. QED  BY <1>2, <1>3, <1>4, <1>5, Zenon DEF KthreadInv

\* The inductive invariant.  What is known of requests ends when the memory of one
\* has two users.
DevtmpfsInv == SchedInv /\ KthreadInv /\ (~broken => CompletionInv /\ DevInv)

LEMMA DevtmpfsInitInv == DevtmpfsInit => DevtmpfsInv
<1>. SUFFICES ASSUME DevtmpfsInit PROVE DevtmpfsInv
  BY Zenon
<1>. USE Kinds
<1>1. SchedInv /\ CompletionInv /\ KthreadInv
  BY InitInv, CompletionInitInv, KthreadInitInv, Zenon DEF DevtmpfsInit
<1>2. /\ thread = None /\ requests = <<>> /\ batch = <<>> /\ allocated = {}
      /\ req = [c \in Submitter |-> None] /\ \A t \in Task : wobj[t] = NoCompletion
      /\ \A x \in Completion : done[x] = 0
  BY Zenon DEF DevtmpfsInit, CompletionInit
<1>3. /\ \A c \in Creator : pc[c] \notin SubmitPc
      /\ \A t \in Child : pc[t] \notin LoopPc \cup {"w_handle", "w_free"}
  BY KthreadAssumption, Zenon DEF DevtmpfsInit, KthreadInit, SubmitPc, LoopPc
<1>4. DevTypeOK
  <2>1. <<>> \in Seq(Req) /\ IsInjective(<<>>)
    BY DEF IsInjective
  <2>. QED  BY <1>2, <2>1, NoneInEmpty, Zenon DEF DevTypeOK
<1>5. DaemonOK
  <2>1. ~(done[setup_done] > 0)
    BY <1>2
  <2>. QED  BY <1>2, <1>3, <2>1, Zenon DEF DaemonOK, driver_init_done
<1>6. Awake /\ SharesOK
  BY <1>2, Zenon DEF Awake, SharesOK
<1>7. \A c \in Submitter : NodeOK(c)
  BY <1>2, <1>3, Zenon DEF NodeOK
<1>. QED  BY <1>1, <1>4, <1>5, <1>6, <1>7, Zenon DEF DevtmpfsInv, DevInv

LEMMA DevtmpfsNextInv ==
    ASSUME DevtmpfsInv, [DevtmpfsNext]_allVars
    PROVE  DevtmpfsInv' /\ [SchedNext]_schedVars
<1>1. SchedInv /\ KthreadInv /\ (~broken => CompletionInv /\ DevInv)
  BY Zenon DEF DevtmpfsInv
<1>2. SUFFICES KthreadInv' /\ [SchedNext]_schedVars /\ (~broken' => CompletionInv' /\ DevInv')
  BY <1>1, NextInv, Zenon DEF DevtmpfsInv
<1>3. CASE UNCHANGED allVars
  <2>1. UNCHANGED vars /\ UNCHANGED devtmpfsVars /\ broken' = broken
    BY <1>3, Zenon DEF allVars, devtmpfsVars
  <2>2. CASE ~broken
    BY <1>1, <2>1, <2>2, BelowDev, Zenon DEF Preserves
  <2>3. CASE broken
    <3>1. UNCHANGED <<schedVars, kthreadVars, done, wpc, wobj, curr, state>>
      BY <2>1, Zenon DEF vars, schedVars, queueVars, completionVars
    <3>2. KthreadInv'
      BY <1>1, <3>1, KthreadSame, Zenon
    <3>. QED  BY <2>1, <2>3, <3>1, <3>2, Zenon
  <2>. QED  BY <2>2, <2>3, Zenon
<1>4. CASE DevtmpfsNext
  <2>1. ~broken /\ CompletionInv /\ DevInv
    BY <1>1, <1>4, Zenon DEF DevtmpfsNext
  <2>2. SUFFICES ASSUME ~devtmpfs_submit_req PROVE Preserves
    BY <1>1, <2>1, ListDev, Zenon DEF Preserves
  <2>3. CASE devtmpfs_init
    BY <1>1, <2>1, <2>3, InitDev, Zenon
  <2>4. CASE submit_wake \/ submit_wait \/ submit_return
    <3>1. pc[curr] \in SubmitPc
      BY <2>4, Zenon DEF submit_wake, submit_wait, submit_return, Goto, SubmitPc
    <3>2. curr \in Submitter
      BY <1>1, <2>1, <3>1, Facts, Zenon DEF DevInv, DaemonOK, CreatorPc, AfterPc
    <3>. QED  BY <1>1, <2>1, <2>4, <3>2, WakeDev, WaitDev, ReturnDev, Zenon
  <2>5. CASE devtmpfsd
    BY <1>1, <2>1, <2>5, StartDev, Zenon
  <2>6. CASE devtmpfs_work_loop
    BY <1>1, <2>1, <2>6, LockDev, AnswerDev, FreeDev, SleepDev, Zenon DEF devtmpfs_work_loop
  <2>7. ASSUME kthreadd \/ kthread_run \/ kthread \/ thread_exit \/ BootInOrder \/ KthreadIrq \/ IdleStep,
               UNCHANGED devtmpfsVars
        PROVE  Preserves
    <3>1. KthreadNext
      BY <2>7, Zenon DEF KthreadNext, thread_exit, BootInOrder
    <3>. QED  BY <1>1, <2>1, <2>7, <3>1, BelowDev, Zenon
  <2>. QED
    BY <1>4, <2>2, <2>3, <2>4, <2>5, <2>6, <2>7, Zenon
    DEF DevtmpfsNext, DevtmpfsStep, devtmpfs_create_node
<1>. QED  BY <1>3, <1>4, Zenon

-----------------------------------------------------------------------------
(* Theorems about devtmpfs *)

\* The daemon and its clients too use the scheduler only through its own operations:
\* what is proved of the scheduler holds below them.
THEOREM DevtmpfsRefinesSched == DevtmpfsSpec => SchedSpec
<1>1. DevtmpfsInit => SchedInit
  BY Zenon DEF DevtmpfsInit
<1>. QED  BY <1>1, DevtmpfsInitInv, DevtmpfsNextInv, PTL DEF DevtmpfsSpec, SchedSpec

\* The inductive invariant holds for any number of submitters and requests.
THEOREM DevtmpfsInvariance == DevtmpfsSpec => []DevtmpfsInv
BY DevtmpfsInitInv, DevtmpfsNextInv, PTL DEF DevtmpfsSpec

\* The wake-up of the daemon is never lost: while requests wait on its list the
\* daemon is awake or a submitter is about to wake it.
THEOREM NoRequestIsStranded == DevtmpfsSpec => []NoRequestStranded
<1>1. DevtmpfsInv => NoRequestStranded
  BY Zenon DEF DevtmpfsInv, DevInv, Awake, NoRequestStranded
<1>. QED  BY <1>1, DevtmpfsInvariance, PTL

\* devtmpfs_init() and the daemon's function leave thread creation intact: its
\* properties hold in the composition.
THEOREM DevtmpfsKeepsKthread == DevtmpfsSpec => [](CreateAlive /\ ResultReady /\ StoppedUntilWoken)
<1>1. DevtmpfsInv => KthreadInv
  BY Zenon DEF DevtmpfsInv
<1>. QED  BY <1>1, KthreadInvSuffices, DevtmpfsInvariance, PTL

\* A request for a thread stays in exactly one place when devtmpfs runs the thread
\* and goes on in the creators.
THEOREM DevtmpfsRequestsInOnePlace == DevtmpfsSpec => []RequestInOnePlace
<1>1. DevtmpfsInv => KthreadInv
  BY Zenon DEF DevtmpfsInv
<1>. QED  BY <1>1, OnePlace, DevtmpfsInvariance, PTL

\* A node request is on the list, with the daemon or answered, in exactly one of
\* these, and in allocated memory until it is answered, as long as the memory of no
\* request gets another user.
THEOREM NodeRequestsInOnePlace == DevtmpfsSpec => []NodeRequestInOnePlace
<1>1. DevtmpfsInv => NodeRequestInOnePlace
  <2>. SUFFICES ASSUME DevtmpfsInv, ~broken, NEW c \in Submitter, req[c] # None
                PROVE  /\ Cardinality({i \in 1..3 : <<Listed(req[c]), Detached(req[c]), Done(c)>>[i]}) = 1
                       /\ ~Done(c) => req[c] \in allocated
    BY Zenon DEF NodeRequestInOnePlace
  <2>. DEFINE in == <<Listed(req[c]), Detached(req[c]), Done(c)>>
              places == {i \in 1..3 : in[i]}
  <2>1. DevTypeOK /\ (Listed(req[c]) \/ Detached(req[c]) <=> ~Done(c))
    BY Zenon DEF DevtmpfsInv, DevInv, NodeOK
  <2>2. ~(Listed(req[c]) /\ Detached(req[c]))
    BY <2>1, Zenon DEF DevTypeOK, Listed, Detached
  <2>3. ~Done(c) => req[c] \in allocated
    BY <2>1, Zenon DEF DevTypeOK, Listed, Detached
  <2>4. /\ 1 \in places <=> Listed(req[c])
        /\ 2 \in places <=> Detached(req[c])
        /\ 3 \in places <=> Done(c)
    OBVIOUS
  <2>5. \A i \in places : i = 1 \/ i = 2 \/ i = 3
    OBVIOUS
  <2>. HIDE DEF places
  <2>6. \E i : places = {i}
    <3>1. CASE Listed(req[c])
      <4>1. 1 \in places /\ 2 \notin places /\ 3 \notin places
        BY <3>1, <2>1, <2>2, <2>4, Zenon
      <4>2. \A i \in places : i = 1
        BY <4>1, <2>5, Zenon
      <4>3. places = {1}
        BY <4>1, <4>2, Zenon
      <4>. QED  BY <4>3, Zenon
    <3>2. CASE Detached(req[c])
      <4>1. 2 \in places /\ 1 \notin places /\ 3 \notin places
        BY <3>2, <2>1, <2>2, <2>4, Zenon
      <4>2. \A i \in places : i = 2
        BY <4>1, <2>5, Zenon
      <4>3. places = {2}
        BY <4>1, <4>2, Zenon
      <4>. QED  BY <4>3, Zenon
    <3>3. CASE Done(c)
      <4>1. 3 \in places /\ 1 \notin places /\ 2 \notin places
        BY <3>3, <2>1, <2>2, <2>4, Zenon
      <4>2. \A i \in places : i = 3
        BY <4>1, <2>5, Zenon
      <4>3. places = {3}
        BY <4>1, <4>2, Zenon
      <4>. QED  BY <4>3, Zenon
    <3>. QED  BY <2>1, <3>1, <3>2, <3>3, Zenon
  <2>7. Cardinality(places) = 1
    BY <2>6, OneElement, Zenon
  <2>. QED  BY <2>3, <2>7, Zenon DEF places
<1>. QED  BY <1>1, DevtmpfsInvariance, PTL
=============================================================================
