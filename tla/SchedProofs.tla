----------------------------- MODULE SchedProofs -----------------------------
(***************************************************************************)
(* The scheduler, for any number of tasks, and completions above it.       *)
(* Completions only use the scheduler as Sched allows, so everything       *)
(* proved of Sched holds below them; and no wake-up is lost between the    *)
(* wait list and the scheduler.                                            *)
(***************************************************************************)
EXTENDS Completion, TLAPS

-----------------------------------------------------------------------------
(* Queues: sequences without repetitions *)

\* Taking the head off a queue without repetitions.
LEMMA TailQueue ==
    ASSUME NEW S, NEW q \in Seq(S), q # <<>>, IsInjective(q)
    PROVE  /\ Head(q) \in S /\ Tail(q) \in Seq(S)
           /\ IsInjective(Tail(q))
           /\ Range(Tail(q)) = Range(q) \ {Head(q)}
           /\ Head(q) \in Range(q)
<1>1. /\ Head(q) = q[1] /\ Len(q) \in Nat \ {0} /\ DOMAIN q = 1..Len(q)
      /\ Tail(q) \in Seq(S) /\ Len(Tail(q)) = Len(q) - 1
      /\ \A i \in 1..(Len(q) - 1) : Tail(q)[i] = q[i+1]
  OBVIOUS
<1>2. DOMAIN Tail(q) = 1..(Len(q) - 1)
  BY <1>1
<1>3. IsInjective(Tail(q))
  BY <1>1, <1>2 DEF IsInjective
<1>4. Range(Tail(q)) = Range(q) \ {Head(q)}
  <2>1. ASSUME NEW x \in Range(Tail(q)) PROVE x \in Range(q) \ {Head(q)}
    BY <2>1, <1>1, <1>2 DEF Range, IsInjective
  <2>2. ASSUME NEW x \in Range(q) \ {Head(q)} PROVE x \in Range(Tail(q))
    <3>1. PICK i \in DOMAIN q : q[i] = x
      BY <2>2 DEF Range
    <3>2. i - 1 \in DOMAIN Tail(q) /\ Tail(q)[i-1] = x
      BY <3>1, <2>2, <1>1, <1>2
    <3>. QED  BY <3>2 DEF Range
  <2>. QED  BY <2>1, <2>2
<1>5. Head(q) \in S /\ Head(q) \in Range(q)
  <2>1. 1 \in DOMAIN q
    BY <1>1
  <2>. QED  BY <2>1, <1>1 DEF Range
<1>. QED  BY <1>1, <1>3, <1>4, <1>5

\* Adding an entry in front.
LEMMA PushQueue ==
    ASSUME NEW S, NEW q \in Seq(S), IsInjective(q), NEW x \in S, x \notin Range(q)
    PROVE  /\ <<x>> \o q \in Seq(S)
           /\ IsInjective(<<x>> \o q)
           /\ Range(<<x>> \o q) = Range(q) \cup {x}
<1>. DEFINE r == <<x>> \o q
<1>1. /\ r \in Seq(S) /\ DOMAIN r = 1..(Len(q) + 1) /\ DOMAIN q = 1..Len(q)
      /\ Len(q) \in Nat /\ r[1] = x
      /\ \A i \in 1..Len(q) : r[i+1] = q[i]
  OBVIOUS
<1>2. \A i \in 2..(Len(q) + 1) : i - 1 \in DOMAIN q /\ r[i] = q[i-1]
  BY <1>1
<1>. HIDE DEF r
<1>3. IsInjective(r)
  <2>. SUFFICES ASSUME NEW i \in DOMAIN r, NEW j \in DOMAIN r, r[i] = r[j] PROVE i = j
    BY DEF IsInjective
  <2>1. CASE i = 1
    BY <2>1, <1>1, <1>2 DEF Range
  <2>2. CASE j = 1
    BY <2>2, <1>1, <1>2 DEF Range
  <2>3. CASE i # 1 /\ j # 1
    <3>1. q[i-1] = q[j-1] /\ i - 1 \in DOMAIN q /\ j - 1 \in DOMAIN q
      BY <2>3, <1>1, <1>2
    <3>2. i - 1 = j - 1
      BY <3>1 DEF IsInjective
    <3>. QED  BY <3>2, <1>1
  <2>. QED  BY <2>1, <2>2, <2>3
<1>4. Range(r) = Range(q) \cup {x}
  <2>1. ASSUME NEW y \in Range(r) PROVE y \in Range(q) \cup {x}
    <3>1. PICK i \in DOMAIN r : r[i] = y
      BY <2>1 DEF Range
    <3>2. CASE i = 1
      BY <3>1, <3>2, <1>1
    <3>3. CASE i # 1
      <4>1. i - 1 \in DOMAIN q /\ q[i-1] = y
        BY <3>1, <3>3, <1>1, <1>2
      <4>. QED  BY <4>1 DEF Range
    <3>. QED  BY <3>2, <3>3
  <2>2. ASSUME NEW y \in Range(q) PROVE y \in Range(r)
    <3>1. PICK i \in DOMAIN q : q[i] = y
      BY <2>2 DEF Range
    <3>2. i + 1 \in DOMAIN r /\ r[i+1] = y
      BY <3>1, <1>1
    <3>. QED  BY <3>2 DEF Range
  <2>3. x \in Range(r)
    BY <1>1 DEF Range
  <2>. QED  BY <2>1, <2>2, <2>3
<1>. QED  BY <1>1, <1>3, <1>4 DEF r

\* Adding an entry at the end.
LEMMA AppendQueue ==
    ASSUME NEW S, NEW q \in Seq(S), IsInjective(q), NEW x \in S, x \notin Range(q)
    PROVE  /\ Append(q, x) \in Seq(S)
           /\ IsInjective(Append(q, x))
           /\ Range(Append(q, x)) = Range(q) \cup {x}
<1>. DEFINE r == Append(q, x)
<1>1. /\ r \in Seq(S) /\ DOMAIN r = 1..(Len(q) + 1) /\ DOMAIN q = 1..Len(q)
      /\ Len(q) \in Nat /\ r[Len(q) + 1] = x
      /\ \A i \in 1..Len(q) : r[i] = q[i]
  OBVIOUS
<1>. HIDE DEF r
<1>2. IsInjective(r)
  BY <1>1 DEF IsInjective, Range
<1>3. Range(r) = Range(q) \cup {x}
  <2>1. ASSUME NEW y \in Range(r) PROVE y \in Range(q) \cup {x}
    BY <2>1, <1>1 DEF Range
  <2>2. ASSUME NEW y \in Range(q) PROVE y \in Range(r)
    BY <2>2, <1>1 DEF Range
  <2>3. x \in Range(r)
    BY <1>1 DEF Range
  <2>. QED  BY <2>1, <2>2, <2>3
<1>. QED  BY <1>1, <1>2, <1>3 DEF r

\* Taking the last entry off.
LEMMA FrontQueue ==
    ASSUME NEW S, NEW q \in Seq(S), q # <<>>, IsInjective(q)
    PROVE  LET last == q[Len(q)]  front == SubSeq(q, 1, Len(q) - 1) IN
           /\ last \in Range(q) /\ last \in S
           /\ front \in Seq(S) /\ IsInjective(front)
           /\ Range(front) = Range(q) \ {last}
<1>. DEFINE last == q[Len(q)]
            front == SubSeq(q, 1, Len(q) - 1)
<1>1. /\ Len(q) \in Nat \ {0} /\ DOMAIN q = 1..Len(q)
      /\ front \in Seq(S) /\ DOMAIN front = 1..(Len(q) - 1)
      /\ \A i \in 1..(Len(q) - 1) : front[i] = q[i]
  OBVIOUS
<1>2. last \in Range(q) /\ last \in S
  BY <1>1 DEF Range
<1>. HIDE DEF front
<1>3. IsInjective(front)
  BY <1>1 DEF IsInjective
<1>4. Range(front) = Range(q) \ {last}
  <2>1. ASSUME NEW x \in Range(front) PROVE x \in Range(q) \ {last}
    BY <2>1, <1>1 DEF Range, IsInjective
  <2>2. ASSUME NEW x \in Range(q) \ {last} PROVE x \in Range(front)
    BY <2>2, <1>1 DEF Range
  <2>. QED  BY <2>1, <2>2
<1>. QED  BY <1>1, <1>2, <1>3, <1>4 DEF front

-----------------------------------------------------------------------------
(* The inductive invariant *)

QueueType ==
    /\ curr \in Task
    /\ runq \in Seq(Task)
    /\ state \in [Task -> State]
    /\ vruntime \in [Task -> 0..IdleVruntime]
    /\ used \in 0..MaxJiffies

CpuType ==
    /\ preempt_count \in {0, 1}
    /\ need_resched \in BOOLEAN
    /\ irq_on \in BOOLEAN
    /\ irqs \in [Task -> 0..MaxNest]
    /\ frame \in [Task -> Frame]
    /\ idle_pc \in IdlePc

\* The idle task never sleeps, and the current task is a started, living one.
CurrAlive == state[Idle] = "RUNNING" /\ state[curr] \notin {"NEW", "DEAD"}

QueueInv == QueueType /\ QueueExclusive /\ RunnableIffQueued /\ CurrAlive

\* A switched-out idle task resumes with the preempt_count its place requires.
IdleFrame ==
    curr # Idle =>
        frame[Idle] = IF idle_pc \in {"sched", "disable"} THEN "schedule" ELSE "idle"

CpuInv == CpuType /\ PreemptBalanced /\ NoPreemptSchedule /\ IdleFrame

SchedInv == QueueInv /\ CpuInv

-----------------------------------------------------------------------------
(* The run queue *)

LEMMA IdleQueued == QueueInv => IdleAvailable
BY SchedAssumption, Zenon DEF QueueInv, QueueType, CurrAlive, RunnableIffQueued, IdleAvailable

LEMMA QueueNotEmpty == QueueInv /\ curr # Idle => runq # <<>>
<1>. SUFFICES ASSUME QueueInv, curr # Idle, runq = <<>> PROVE FALSE
  BY Zenon
<1>1. Idle \in Range(runq)
  BY IdleQueued, Zenon DEF IdleAvailable, Queued
<1>2. DOMAIN runq = {}
  OBVIOUS
<1>. QED  BY <1>1, <1>2, Zenon DEF Range

\* Putting the current task back keeps the queue well formed.
LEMMA ReinsertQueue ==
    ASSUME NEW q \in Seq(Task), IsInjective(q), curr \in Task, curr \notin Range(q),
           Reinsert(q)
    PROVE  /\ runq' \in Seq(Task)
           /\ IsInjective(runq')
           /\ Range(runq') = Range(q) \cup {curr}
<1>1. CASE runq' = Append(q, curr)
  BY <1>1, AppendQueue
<1>2. CASE runq' = <<curr>> \o q
  BY <1>2, PushQueue
<1>. QED  BY <1>1, <1>2, Zenon DEF Reinsert

\* Whatever the current task has just set its own state to, the picker leaves
\* exactly the runnable tasks on the queue and a living task on the CPU.
LEMMA PickQueue ==
    ASSUME QueueInv, state' \in [Task -> State],
           \A t \in Task \ {curr} : state'[t] = state[t],
           state'[curr] # "NEW",
           curr = Idle => state'[curr] = "RUNNING",
           pick_next_task_myos(state', used)
    PROVE  QueueInv'
<1>. USE SchedAssumption
<1>. USE DEF QueueInv, QueueType
<1>1. CASE MustSwitch(state', used)
  <2>1. runq # <<>>
    BY <1>1, Zenon DEF MustSwitch
  <2>2. /\ Head(runq) \in Task /\ Tail(runq) \in Seq(Task) /\ IsInjective(Tail(runq))
        /\ Range(Tail(runq)) = Queued \ {Head(runq)} /\ Head(runq) \in Queued
    BY <2>1, TailQueue, Zenon DEF QueueExclusive, Queued
  <2>3. curr' = Head(runq) /\ curr' # curr
    BY <1>1, <2>2, Zenon DEF pick_next_task_myos, QueueExclusive
  <2>4. vruntime' \in [Task -> 0..IdleVruntime] /\ used' \in 0..MaxJiffies
    <3>1. /\ vruntime' = IF curr = Idle THEN vruntime
                         ELSE [vruntime EXCEPT ![curr] = Saturate(@ + used)]
          /\ used' = 0
      BY <1>1, Zenon DEF pick_next_task_myos
    <3>2. vruntime[curr] \in Nat /\ used \in Nat
      BY DEF IdleVruntime
    <3>3. Saturate(vruntime[curr] + used) \in 0..IdleVruntime
      BY <3>2 DEF Saturate, IdleVruntime
    <3>. QED  BY <3>1, <3>3
  <2>5. /\ runq' \in Seq(Task) /\ IsInjective(runq')
        /\ Queued' = (Queued \ {curr'}) \cup (IF state'[curr] = "RUNNING" THEN {curr} ELSE {})
    <3>1. CASE state'[curr] = "RUNNING"
      <4>1. Reinsert(Tail(runq))
        BY <1>1, <3>1, Zenon DEF pick_next_task_myos
      <4>2. curr \notin Range(Tail(runq))
        BY <2>2, Zenon DEF QueueExclusive
      <4>. QED  BY <4>1, <4>2, <3>1, <2>2, <2>3, ReinsertQueue, Zenon DEF Queued
    <3>2. CASE state'[curr] # "RUNNING"
      <4>1. runq' = Tail(runq)
        BY <1>1, <3>2, Zenon DEF pick_next_task_myos
      <4>. QED  BY <4>1, <3>2, <2>2, <2>3, Zenon DEF Queued
    <3>. QED  BY <3>1, <3>2, Zenon
  <2>6. QueueType'
    BY <2>2, <2>3, <2>4, <2>5, Zenon
  <2>7. QueueExclusive'
    BY <2>3, <2>5, Zenon DEF QueueExclusive
  <2>8. RunnableIffQueued'
    BY <2>2, <2>3, <2>5, Zenon DEF RunnableIffQueued, QueueExclusive
  <2>9. CurrAlive'
    BY <2>2, <2>3, Zenon DEF RunnableIffQueued, CurrAlive, QueueExclusive
  <2>. QED  BY <2>6, <2>7, <2>8, <2>9, Zenon
<1>2. CASE ~MustSwitch(state', used)
  <2>1. UNCHANGED <<curr, runq, vruntime, used>>
    BY <1>2, Zenon DEF pick_next_task_myos
  <2>2. state'[curr] = "RUNNING"
    BY <1>2, QueueNotEmpty, Zenon DEF MustSwitch
  <2>. QED  BY <2>1, <2>2, Zenon DEF QueueExclusive, RunnableIffQueued, CurrAlive, Queued
<1>. QED  BY <1>1, <1>2, Zenon

\* A wake-up queues the task unless it runs or is queued already.
LEMMA WakeQueue ==
    ASSUME QueueInv, NEW p \in Wakeable, try_to_wake_up(p), UNCHANGED <<curr, vruntime, used>>
    PROVE  QueueInv'
<1>. USE DEF QueueInv, QueueType
<1>1. p \in Task /\ state' = [state EXCEPT ![p] = "RUNNING"] /\ state' \in [Task -> State]
  BY Zenon DEF Wakeable, try_to_wake_up, State
<1>2. CASE p = curr \/ p \in Queued
  <2>1. runq' = runq
    BY <1>2, Zenon DEF try_to_wake_up
  <2>. QED  BY <1>1, <1>2, <2>1 DEF QueueExclusive, RunnableIffQueued, CurrAlive, Queued
<1>3. CASE p # curr /\ p \notin Queued
  <2>1. runq' = <<p>> \o runq
    BY <1>3, Zenon DEF try_to_wake_up
  <2>2. runq' \in Seq(Task) /\ IsInjective(runq') /\ Queued' = Queued \cup {p}
    BY <1>1, <1>3, <2>1, PushQueue DEF QueueExclusive, Queued
  <2>. QED  BY <1>1, <1>3, <2>2 DEF QueueExclusive, RunnableIffQueued, CurrAlive
<1>. QED  BY <1>2, <1>3, Zenon

-----------------------------------------------------------------------------
(* Entering the scheduler *)

\* Every call of __schedule, from caller f, keeps queue and CPU state consistent.
LEMMA ScheduleInv ==
    ASSUME SchedInv, NEW f \in Frame, __schedule(state', f),
           state' \in [Task -> State],
           \A t \in Task \ {curr} : state'[t] = state[t],
           state'[curr] # "NEW",
           curr = Idle => state'[curr] = "RUNNING",
           irqs' \in [Task -> 0..MaxNest], idle_pc' \in IdlePc,
           curr # Idle => idle_pc' = idle_pc,
           curr = Idle => f = IF idle_pc' \in {"sched", "disable"} THEN "schedule" ELSE "idle"
    PROVE  SchedInv'
<1>1. QueueInv'
  BY PickQueue, Zenon DEF SchedInv, __schedule
<1>2. curr \in Task /\ curr' \in Task /\ Idle \in Task
  BY <1>1, SchedAssumption, Zenon DEF SchedInv, QueueInv, QueueType
<1>3. frame' = [frame EXCEPT ![curr] = f] /\ frame' \in [Task -> Frame]
  BY <1>2, Zenon DEF SchedInv, CpuInv, CpuType, __schedule
<1>4. frame'[Idle] = IF idle_pc' \in {"sched", "disable"} THEN "schedule" ELSE "idle"
  BY <1>2, <1>3, Zenon DEF SchedInv, CpuInv, CpuType, IdleFrame
<1>5. preempt_count' = ResumeCount(frame'[curr']) /\ need_resched' = FALSE
      /\ irq_on' = (frame'[curr'] # "fork")
  BY Zenon DEF __schedule
<1>6. CpuType'
  BY <1>3, <1>5, Zenon DEF CpuType, ResumeCount
<1>7. PreemptBalanced' /\ NoPreemptSchedule' /\ IdleFrame'
  BY <1>4, <1>5, Zenon DEF PreemptBalanced, NoPreemptSchedule, IdleFrame, ResumeCount
<1>. QED  BY <1>1, <1>6, <1>7, Zenon DEF SchedInv, CpuInv

\* Frames of the queue variables and of the CPU variables.
LEMMA QueueSame == QueueInv /\ UNCHANGED queueVars => QueueInv'
BY Zenon DEF QueueInv, QueueType, QueueExclusive, RunnableIffQueued, CurrAlive, Queued, queueVars

LEMMA CpuSame == CpuInv /\ UNCHANGED <<curr, cpuVars>> => CpuInv'
BY DEF CpuInv, CpuType, PreemptBalanced, NoPreemptSchedule, IdleFrame, cpuVars

-----------------------------------------------------------------------------
(* Every step preserves the invariant *)

LEMMA InitInv == SchedInit => SchedInv
<1>. SUFFICES ASSUME SchedInit PROVE SchedInv
  BY Zenon
<1>. USE SchedAssumption DEF SchedInit
<1>1. Queued = {} /\ IsInjective(runq) /\ runq \in Seq(Task)
  BY DEF Queued, Range, IsInjective
<1>2. QueueInv
  BY <1>1 DEF QueueInv, QueueType, QueueExclusive, RunnableIffQueued, CurrAlive,
              State, SleepState, IdleVruntime
<1>3. CpuInv
  BY DEF CpuInv, CpuType, PreemptBalanced, NoPreemptSchedule, IdleFrame, Frame, IdlePc
<1>. QED  BY <1>2, <1>3, Zenon DEF SchedInv

LEMMA ThreadInv == SchedInv /\ ThreadStep => SchedInv'
<1>. SUFFICES ASSUME SchedInv, ThreadStep PROVE SchedInv'
  BY Zenon
<1>. USE SchedAssumption DEF InThread, InTask
<1>t. /\ curr \in Task /\ state \in [Task -> State] /\ irqs \in [Task -> 0..MaxNest]
      /\ idle_pc \in IdlePc /\ state[Idle] = "RUNNING" /\ state[curr] \notin {"NEW", "DEAD"}
      /\ curr \notin Queued
  BY Zenon DEF SchedInv, QueueInv, QueueType, CpuInv, CpuType, CurrAlive, QueueExclusive
<1>1. CASE schedule
  BY <1>1, <1>t, ScheduleInv, Zenon DEF schedule, Frame
<1>2. CASE do_task_dead
  BY <1>2, <1>t, ScheduleInv, Zenon DEF do_task_dead, Frame, State
<1>3. CASE preempt_disable
  <2>1. QueueInv'
    BY <1>3, QueueSame, Zenon DEF SchedInv, preempt_disable
  <2>2. CpuInv'
    BY <1>3, Zenon DEF SchedInv, preempt_disable, CpuInv, CpuType, PreemptBalanced,
                NoPreemptSchedule, IdleFrame, queueVars
  <2>. QED  BY <2>1, <2>2, Zenon DEF SchedInv
<1>4. CASE preempt_enable
  <2>1. CASE need_resched /\ irq_on
    BY <2>1, <1>4, <1>t, ScheduleInv, Zenon DEF preempt_enable, Frame
  <2>2. CASE ~(need_resched /\ irq_on)
    <3>1. preempt_count' = 0 /\ UNCHANGED <<queueVars, need_resched, irq_on, frame, irqs, idle_pc>>
      BY <2>2, <1>4, Zenon DEF preempt_enable
    <3>2. QueueInv'
      BY <3>1, QueueSame, Zenon DEF SchedInv
    <3>3. CpuInv'
      BY <3>1, <1>4, Zenon DEF SchedInv, preempt_enable, CpuInv, CpuType, PreemptBalanced,
                  NoPreemptSchedule, IdleFrame, queueVars
    <3>. QED  BY <3>2, <3>3 DEF SchedInv
  <2>. QED  BY <2>1, <2>2, Zenon
<1>5. CASE local_irq_enable
  <2>1. QueueInv'
    BY <1>5, QueueSame, Zenon DEF SchedInv, local_irq_enable
  <2>2. CpuInv'
    BY <1>5, Zenon DEF SchedInv, local_irq_enable, CpuInv, CpuType, PreemptBalanced,
                NoPreemptSchedule, IdleFrame, queueVars
  <2>. QED  BY <2>1, <2>2 DEF SchedInv
<1>6. ASSUME NEW s \in SleepState \cup {"RUNNING"}, set_current_state(s) PROVE SchedInv'
  <2>1. QueueInv'
    BY <1>6, <1>t, Zenon DEF set_current_state, SchedInv, QueueInv, QueueType, QueueExclusive,
                RunnableIffQueued, CurrAlive, Queued, State, SleepState
  <2>2. CpuInv'
    BY <1>6, Zenon DEF SchedInv, set_current_state, CpuInv, CpuType, PreemptBalanced,
                NoPreemptSchedule, IdleFrame
  <2>. QED  BY <2>1, <2>2, Zenon DEF SchedInv
<1>7. ASSUME NEW p \in Wakeable, wake_up_process(p) PROVE SchedInv'
  BY <1>7, WakeQueue, CpuSame, Zenon DEF SchedInv, wake_up_process
<1>8. ASSUME NEW p \in Task \ {Idle}, wake_up_new_task(p) PROVE SchedInv'
  <2>1. p # curr /\ p \notin Queued
    BY <1>8, <1>t, Zenon DEF wake_up_new_task, SchedInv, QueueInv, RunnableIffQueued
  <2>2. runq' \in Seq(Task) /\ IsInjective(runq') /\ Queued' = Queued \cup {p}
    BY <1>8, <2>1, PushQueue
       DEF wake_up_new_task, SchedInv, QueueInv, QueueType, QueueExclusive, Queued
  <2>3. QueueType'
    BY <1>8, <2>2 DEF wake_up_new_task, SchedInv, QueueInv, QueueType, State, IdleVruntime
  <2>4. QueueInv'
    BY <1>8, <1>t, <2>1, <2>2, <2>3, Zenon DEF wake_up_new_task, SchedInv, QueueInv,
                QueueExclusive, RunnableIffQueued, CurrAlive
  <2>5. CpuInv'
    BY <1>8, CpuSame, Zenon DEF SchedInv, wake_up_new_task
  <2>. QED  BY <2>4, <2>5, Zenon DEF SchedInv
<1>. QED  BY <1>1, <1>2, <1>3, <1>4, <1>5, <1>6, <1>7, <1>8, Zenon DEF ThreadStep

LEMMA IrqInv == SchedInv /\ IrqStep => SchedInv'
<1>. SUFFICES ASSUME SchedInv, IrqStep PROVE SchedInv'
  OBVIOUS
<1>. USE SchedAssumption DEF InTask
<1>t. /\ curr \in Task /\ state \in [Task -> State] /\ irqs \in [Task -> 0..MaxNest]
      /\ idle_pc \in IdlePc /\ state[Idle] = "RUNNING" /\ state[curr] \notin {"NEW", "DEAD"}
  BY Zenon DEF SchedInv, QueueInv, QueueType, CpuInv, CpuType, CurrAlive
<1>1. ASSUME hwint_irq_handler PROVE irqs' \in [Task -> 0..MaxNest]
  BY <1>1, <1>t DEF hwint_irq_handler
<1>2. CASE HPET_handler
  <2>1. QueueInv'
    BY <1>2 DEF HPET_handler, SchedInv, QueueInv, QueueType, QueueExclusive,
                RunnableIffQueued, CurrAlive, Queued, Saturate
  <2>2. CpuInv'
    BY <1>1, <1>2, Zenon DEF HPET_handler, SchedInv, CpuInv, CpuType, PreemptBalanced,
                NoPreemptSchedule, IdleFrame
  <2>. QED  BY <2>1, <2>2 DEF SchedInv
<1>3. ASSUME NEW p \in Wakeable, device_handler(p) PROVE SchedInv'
  <2>1. QueueInv'
    BY <1>3, WakeQueue, Zenon DEF device_handler, SchedInv
  <2>2. CpuInv'
    BY <1>1, <1>3, Zenon DEF device_handler, SchedInv, CpuInv, CpuType, PreemptBalanced,
                NoPreemptSchedule, IdleFrame
  <2>. QED  BY <2>1, <2>2, Zenon DEF SchedInv
<1>4. CASE excep_hwint_return
  <2>1. irqs' \in [Task -> 0..MaxNest]
    BY <1>4, <1>t DEF excep_hwint_return
  <2>2. CASE preempt_count = 0
    <3>1. curr = Idle => idle_pc \in {"sched", "disable"}
      BY <2>2 DEF SchedInv, CpuInv, PreemptBalanced
    <3>. QED  BY <3>1, <2>1, <2>2, <1>4, <1>t, ScheduleInv, Zenon DEF excep_hwint_return, Frame
  <2>3. CASE preempt_count # 0
    <3>1. UNCHANGED <<queueVars, preempt_count, need_resched, irq_on, frame, idle_pc>>
      BY <2>3, <1>4, Zenon DEF excep_hwint_return, queueVars
    <3>2. QueueInv'
      BY <3>1, QueueSame, Zenon DEF SchedInv
    <3>3. CpuInv'
      BY <3>1, <2>1, Zenon DEF SchedInv, CpuInv, CpuType, PreemptBalanced,
                  NoPreemptSchedule, IdleFrame, queueVars
    <3>. QED  BY <3>2, <3>3 DEF SchedInv
  <2>. QED  BY <2>2, <2>3, Zenon
<1>5. CASE quiet_handler
  <2>1. QueueInv'
    BY <1>5, QueueSame, Zenon DEF quiet_handler, SchedInv
  <2>2. CpuInv'
    BY <1>1, <1>5, Zenon DEF quiet_handler, SchedInv, CpuInv, CpuType, PreemptBalanced,
                NoPreemptSchedule, IdleFrame, queueVars
  <2>. QED  BY <2>1, <2>2 DEF SchedInv
<1>. QED  BY <1>2, <1>3, <1>4, <1>5, Zenon DEF IrqStep

LEMMA IdleInv == SchedInv /\ (rest_init \/ do_idle) => SchedInv'
<1>. SUFFICES ASSUME SchedInv, rest_init \/ do_idle PROVE SchedInv'
  BY Zenon
<1>. USE SchedAssumption DEF IdleAt, InTask
<1>t. /\ curr \in Task /\ state \in [Task -> State] /\ irqs \in [Task -> 0..MaxNest]
      /\ idle_pc \in IdlePc /\ state[Idle] = "RUNNING"
  BY Zenon DEF SchedInv, QueueInv, QueueType, CpuInv, CpuType, CurrAlive
<1>1. ASSUME UNCHANGED queueVars, CpuInv' PROVE SchedInv'
  BY <1>1, QueueSame, Zenon DEF SchedInv
<1>2. CASE rest_init_enable
  BY <1>1, <1>2, Zenon DEF rest_init_enable, SchedInv, CpuInv, CpuType, PreemptBalanced,
                    NoPreemptSchedule, IdleFrame, IdlePc, queueVars
<1>3. CASE rest_init_schedule
  BY <1>3, <1>t, ScheduleInv, Zenon DEF rest_init_schedule, Frame, IdlePc
<1>4. CASE rest_init_disable
  BY <1>1, <1>4 DEF rest_init_disable, SchedInv, CpuInv, CpuType, PreemptBalanced,
                    NoPreemptSchedule, IdleFrame, IdlePc, queueVars
<1>5. CASE do_idle_poll
  BY <1>1, <1>5, Zenon DEF do_idle_poll, SchedInv, CpuInv, CpuType, PreemptBalanced,
                    NoPreemptSchedule, IdleFrame, IdlePc, queueVars
<1>6. CASE schedule_idle
  BY <1>6, <1>t, ScheduleInv, Zenon DEF schedule_idle, Frame, IdlePc
<1>. QED  BY <1>2, <1>3, <1>4, <1>5, <1>6, Zenon DEF rest_init, do_idle

LEMMA NextInv == SchedInv /\ [SchedNext]_schedVars => SchedInv'
<1>1. SchedInv /\ UNCHANGED schedVars => SchedInv'
  <2>. SUFFICES ASSUME SchedInv, UNCHANGED schedVars PROVE SchedInv'
    BY Zenon
  <2>1. UNCHANGED queueVars /\ UNCHANGED <<curr, cpuVars>>
    BY Zenon DEF schedVars, queueVars, cpuVars
  <2>. QED  BY <2>1, QueueSame, CpuSame, Zenon DEF SchedInv
<1>. QED  BY <1>1, ThreadInv, IrqInv, IdleInv, Zenon DEF SchedNext

-----------------------------------------------------------------------------
(* Who gets the CPU, and who is woken *)

\* Only a queued task is switched to.
LEMMA NewCurr ==
    ASSUME SchedInv, [SchedNext]_schedVars
    PROVE  curr' = curr \/ (curr' \in Task \ {curr} /\ state[curr'] = "RUNNING")
<1>1. ASSUME NEW st, pick_next_task_myos(st, used)
      PROVE  curr' = curr \/ (curr' \in Task \ {curr} /\ state[curr'] = "RUNNING")
  <2>1. CASE MustSwitch(st, used)
    <3>1. runq # <<>> /\ curr' = Head(runq)
      BY <1>1, <2>1, Zenon DEF MustSwitch, pick_next_task_myos
    <3>2. Head(runq) \in Task /\ Head(runq) \in Queued
      BY <3>1, TailQueue, Zenon DEF SchedInv, QueueInv, QueueType, QueueExclusive, Queued
    <3>. QED  BY <3>1, <3>2, Zenon DEF SchedInv, QueueInv, QueueExclusive, RunnableIffQueued
  <2>2. CASE ~MustSwitch(st, used)
    BY <1>1, <2>2, Zenon DEF pick_next_task_myos
  <2>. QED  BY <2>1, <2>2, Zenon
<1>2. ASSUME NEW st, NEW f, __schedule(st, f)
      PROVE  curr' = curr \/ (curr' \in Task \ {curr} /\ state[curr'] = "RUNNING")
  BY <1>1, <1>2, Zenon DEF __schedule
<1>3. CASE ThreadStep
  BY <1>2, <1>3, Zenon DEF ThreadStep, schedule, do_task_dead, preempt_disable, preempt_enable,
       local_irq_enable, set_current_state, wake_up_process, wake_up_new_task, queueVars
<1>4. CASE IrqStep
  BY <1>2, <1>4, Zenon DEF IrqStep, HPET_handler, quiet_handler, excep_hwint_return, device_handler,
       queueVars
<1>5. CASE rest_init \/ do_idle
  BY <1>2, <1>5, Zenon DEF rest_init, do_idle, rest_init_enable, rest_init_schedule,
       rest_init_disable, do_idle_poll, schedule_idle, queueVars
<1>. QED  BY <1>3, <1>4, <1>5, Zenon DEF SchedNext, schedVars, queueVars

\* A task sets its own state, or wakes somebody.
LEMMA ThreadStates ==
    ASSUME state \in [Task -> State], ThreadStep
    PROVE  \A t \in Task \ {curr} : state'[t] = state[t] \/ state'[t] = "RUNNING"
<1>1. \/ state' = state
      \/ \E p \in Task : state' = [state EXCEPT ![p] = "RUNNING"]
      \/ \E s : state' = [state EXCEPT ![curr] = s]
  BY Zenon DEF ThreadStep, schedule, do_task_dead, preempt_disable, preempt_enable,
       local_irq_enable, set_current_state, wake_up_process, try_to_wake_up,
       wake_up_new_task, Wakeable, queueVars
<1>. QED  BY <1>1, Zenon

\* Interrupt handlers and the idle task wake somebody, if anything.
LEMMA IrqStates ==
    ASSUME state \in [Task -> State], IrqStep \/ rest_init \/ do_idle
    PROVE  \A t \in Task : state'[t] = state[t] \/ state'[t] = "RUNNING"
<1>1. state' = state \/ \E p \in Task : state' = [state EXCEPT ![p] = "RUNNING"]
  BY Zenon DEF IrqStep, HPET_handler, quiet_handler, excep_hwint_return, device_handler,
       try_to_wake_up, Wakeable, rest_init, do_idle, rest_init_enable, rest_init_schedule,
       rest_init_disable, do_idle_poll, schedule_idle, queueVars
<1>. QED  BY <1>1, Zenon

\* A task that is not TASK_RUNNING is switched away from.
LEMMA SleeperSwitched ==
    ASSUME SchedInv, state[curr] # "RUNNING",
           schedule \/ (excep_hwint_return /\ preempt_count = 0)
    PROVE  curr' # curr
<1>1. curr # Idle /\ runq # <<>>
  BY QueueNotEmpty, Zenon DEF SchedInv, QueueInv, CurrAlive
<1>2. pick_next_task_myos(state, used)
  BY Zenon DEF schedule, excep_hwint_return, __schedule
<1>3. curr' = Head(runq)
  BY <1>1, <1>2, Zenon DEF pick_next_task_myos, MustSwitch
<1>4. Head(runq) \in Queued
  BY <1>1, TailQueue, Zenon DEF SchedInv, QueueInv, QueueType, QueueExclusive, Queued
<1>. QED  BY <1>3, <1>4, Zenon DEF SchedInv, QueueInv, QueueExclusive

-----------------------------------------------------------------------------
(* Theorems *)

THEOREM Invariance == SchedSpec => []SchedInv
BY InitInv, NextInv, PTL DEF SchedSpec

\* The variables of the scheduler keep their types.
THEOREM TypeCorrect == SchedSpec => []SchedTypeOK
<1>1. SchedInv => SchedTypeOK
  BY Zenon DEF SchedInv, QueueInv, QueueType, CpuInv, CpuType, SchedTypeOK
<1>. QED  BY <1>1, Invariance, PTL

\* No interleaving of wake-ups, forks, exits, interrupts and context switches
\* links a task into the run queue twice or leaves the running one on it.
THEOREM QueueIsExclusive == SchedSpec => []QueueExclusive
<1>1. SchedInv => QueueExclusive
  BY Zenon DEF SchedInv, QueueInv
<1>. QED  BY <1>1, Invariance, PTL

\* The scheduler neither loses a runnable task nor keeps a sleeping one queued.
THEOREM QueueIsExact == SchedSpec => []RunnableIffQueued
<1>1. SchedInv => RunnableIffQueued
  BY Zenon DEF SchedInv, QueueInv
<1>. QED  BY <1>1, Invariance, PTL

\* A task that blocks or exits always finds the idle task on the queue.
THEOREM SuccessorExists == SchedSpec => []IdleAvailable
<1>1. SchedInv => IdleAvailable
  BY IdleQueued, Zenon DEF SchedInv
<1>. QED  BY <1>1, Invariance, PTL

\* do_task_dead() never returns: a dead task is never picked again.
THEOREM DeadNeverRuns == SchedSpec => []DeadStaysOff
<1>1. SchedInv => DeadStaysOff
  BY Zenon DEF SchedInv, QueueInv, CurrAlive, RunnableIffQueued, DeadStaysOff
<1>. QED  BY <1>1, Invariance, PTL

\* The preemption count of the CPU is the one the running code expects.
THEOREM PreemptCountBalanced == SchedSpec => [](PreemptBalanced /\ NoPreemptSchedule)
<1>1. SchedInv => PreemptBalanced /\ NoPreemptSchedule
  BY Zenon DEF SchedInv, CpuInv
<1>. QED  BY <1>1, Invariance, PTL

\* A task that has left TASK_RUNNING gives up the CPU when it enters the scheduler.
THEOREM SleeperAlwaysLeaves == SchedSpec => SleeperLeaves
<1>1. SchedInv => [(schedule \/ (excep_hwint_return /\ preempt_count = 0)) /\ state[curr] # "RUNNING"
                    => curr' # curr]_schedVars
  BY SleeperSwitched, Zenon
<1>. QED  BY <1>1, Invariance, PTL DEF SleeperLeaves

-----------------------------------------------------------------------------
(* Completions *)

\* A task inside wait_for_completion() is an ordinary, living one.
WaiterAlive ==
    \A t \in Task :
        /\ wpc[t] # "run" <=> wobj[t] \in Completion
        /\ wpc[t] # "run" => t # Idle /\ state[t] \notin {"NEW", "DEAD"}

CompletionInv == CompletionTypeOK /\ ListHoldsWaiters /\ UnlinkedAwake /\ WaiterAlive

-----------------------------------------------------------------------------
(* The wait list *)

\* __finish_swait() takes exactly the caller's entry off.
LEMMA DeleteNodeQueue ==
    ASSUME NEW S, NEW q \in Seq(S), IsInjective(q), NEW t
    PROVE  /\ DeleteNode(q, t) \in Seq(S)
           /\ IsInjective(DeleteNode(q, t))
           /\ Range(DeleteNode(q, t)) = Range(q) \ {t}
<1>1. CASE t \notin Range(q)
  BY <1>1, Zenon DEF DeleteNode
<1>2. CASE t \in Range(q)
  <2>. DEFINE i == CHOOSE i \in DOMAIN q : q[i] = t
              r == [j \in 1..(Len(q) - 1) |-> IF j < i THEN q[j] ELSE q[j + 1]]
  <2>1. i \in DOMAIN q /\ q[i] = t
    BY <1>2, Zenon DEF Range
  <2>2. DeleteNode(q, t) = r
    BY <1>2, Zenon DEF DeleteNode
  <2>. HIDE DEF i
  <2>3. Len(q) \in Nat \ {0} /\ DOMAIN q = 1..Len(q) /\ i \in 1..Len(q)
    BY <2>1
  <2>4. r \in Seq(S)
    BY <2>3
  <2>5. /\ DOMAIN r = 1..(Len(q) - 1)
        /\ \A j \in 1..(Len(q) - 1) : r[j] = IF j < i THEN q[j] ELSE q[j + 1]
    BY Zenon
  <2>. HIDE DEF r
  <2>6. IsInjective(r)
    <3>. SUFFICES ASSUME NEW j \in 1..(Len(q) - 1), NEW k \in 1..(Len(q) - 1), r[j] = r[k]
                  PROVE  j = k
      BY <2>5, Zenon DEF IsInjective
    <3>. DEFINE at(n) == IF n < i THEN n ELSE n + 1
    <3>1. at(j) \in DOMAIN q /\ at(k) \in DOMAIN q /\ q[at(j)] = q[at(k)]
      BY <2>3, <2>5
    <3>2. at(j) = at(k)
      BY <3>1, Zenon DEF IsInjective
    <3>. QED  BY <3>2, <2>3
  <2>7. Range(r) = Range(q) \ {t}
    <3>1. ASSUME NEW x \in Range(r) PROVE x \in Range(q) \ {t}
      <4>1. PICK j \in 1..(Len(q) - 1) : r[j] = x
        BY <3>1, <2>5, Zenon DEF Range
      <4>2. CASE j < i
        BY <4>1, <4>2, <2>1, <2>3, <2>5 DEF Range, IsInjective
      <4>3. CASE ~(j < i)
        <5>1. j + 1 \in DOMAIN q /\ j + 1 # i /\ x = q[j + 1]
          BY <4>1, <4>3, <2>3, <2>5
        <5>. QED  BY <5>1, <2>1, Zenon DEF Range, IsInjective
      <4>. QED  BY <4>2, <4>3, Zenon
    <3>2. ASSUME NEW x \in Range(q) \ {t} PROVE x \in Range(r)
      <4>1. PICK k \in 1..Len(q) : q[k] = x
        BY <3>2, <2>3, Zenon DEF Range
      <4>2. CASE k < i
        BY <4>1, <4>2, <2>3, <2>5 DEF Range
      <4>3. CASE k > i
        <5>1. k - 1 \in DOMAIN r /\ r[k - 1] = x
          BY <4>1, <4>3, <2>3, <2>5
        <5>. QED  BY <5>1, Zenon DEF Range
      <4>. QED  BY <4>1, <4>2, <4>3, <3>2, <2>1, <2>3
    <3>. QED  BY <3>1, <3>2, Zenon
  <2>. QED  BY <2>2, <2>4, <2>6, <2>7, Zenon
<1>. QED  BY <1>1, <1>2, Zenon

\* Steps that leave the lists alone and put no waiter to sleep.
LEMMA ListSame ==
    ASSUME CompletionInv, UNCHANGED <<done, task_list, wobj>>,
           wpc' \in [Task -> WaitPc],
           \A t \in Task : wpc'[t] = "run" <=> wpc[t] = "run",
           \A t \in Task : wpc[t] # "run" => state'[t] = state[t] \/ state'[t] = "RUNNING"
    PROVE  CompletionInv'
<1>1. CompletionTypeOK' /\ ListHoldsWaiters' /\ WaiterAlive'
  BY Zenon DEF CompletionInv, CompletionTypeOK, ListHoldsWaiters, WaiterAlive, Linked, Waiters
<1>2. UnlinkedAwake'
  BY Zenon DEF CompletionInv, CompletionTypeOK, UnlinkedAwake, WaiterAlive, Linked, Waiters
<1>. QED  BY <1>1, <1>2, Zenon DEF CompletionInv

\* complete() wakes a waiter, which Sched allows, or touches the scheduler not at
\* all, and unlinks exactly the waiter it wakes.
LEMMA CompleteInv ==
    ASSUME CompletionInv, QueueInv, NEW x \in Completion, complete(x), UNCHANGED <<wpc, wobj>>
    PROVE  /\ CompletionInv'
           /\ UNCHANGED <<state, runq>> \/ \E p \in Wakeable : try_to_wake_up(p)
<1>. USE DEF CompletionInv, CompletionTypeOK
<1>1. done' \in [Completion -> 0..UINT_MAX]
  BY CompletionAssumption DEF complete
<1>2. CASE task_list[x] = <<>>
  <2>1. UNCHANGED <<state, runq, task_list>>
    BY <1>2, Zenon DEF complete, swake_up_locked
  <2>. QED  BY <1>1, <2>1, Zenon DEF ListHoldsWaiters, UnlinkedAwake, WaiterAlive, Linked, Waiters
<1>3. CASE task_list[x] # <<>>
  <2>. DEFINE t == task_list[x][Len(task_list[x])]
              rest == SubSeq(task_list[x], 1, Len(task_list[x]) - 1)
  <2>1. task_list' = [task_list EXCEPT ![x] = rest] /\ try_to_wake_up(t)
    BY <1>3, Zenon DEF complete, swake_up_locked
  <2>2. /\ t \in Linked(x) /\ t \in Task /\ rest \in Seq(Task) /\ IsInjective(rest)
        /\ Range(rest) = Linked(x) \ {t}
    BY <1>3, FrontQueue, Zenon DEF Linked, ListHoldsWaiters
  <2>. HIDE DEF t, rest
  <2>3. wobj[t] = x
    BY <2>2, Zenon DEF ListHoldsWaiters, Waiters
  <2>4. t \in Wakeable
    BY <2>2, <2>3, Zenon DEF WaiterAlive, Wakeable
  <2>5. state' = [state EXCEPT ![t] = "RUNNING"] /\ state \in [Task -> State]
    BY <2>1, Zenon DEF try_to_wake_up, QueueInv, QueueType
  <2>6. task_list' \in [Completion -> Seq(Task)]
    BY <2>1, <2>2, Zenon
  <2>7. \A y \in Completion : Linked(y)' = IF y = x THEN Linked(x) \ {t} ELSE Linked(y)
    BY <2>1, <2>2, Zenon DEF Linked
  <2>8. ListHoldsWaiters'
    BY <2>1, <2>2, <2>7 DEF ListHoldsWaiters, Waiters
  <2>9. UnlinkedAwake'
    BY <2>2, <2>5, <2>7, Zenon DEF UnlinkedAwake, Waiters
  <2>10. WaiterAlive'
    BY <2>2, <2>5, Zenon DEF WaiterAlive
  <2>. QED  BY <1>1, <2>1, <2>4, <2>6, <2>8, <2>9, <2>10, Zenon
<1>. QED  BY <1>2, <1>3, Zenon

\* A critical section of do_wait_for_common() only sets the caller's state.
LEMMA WaitInv ==
    ASSUME CompletionInv, SchedInv, InThread, NEW x \in Completion, WaitSection(x),
           wpc[curr] = "run" \/ wobj[curr] = x
    PROVE  /\ CompletionInv'
           /\ \E s \in SleepState \cup {"RUNNING"} : set_current_state(s)
<1>. USE DEF CompletionInv, CompletionTypeOK
<1>t. curr \in Task /\ curr # Idle /\ state \in [Task -> State] /\ Idle \in Task
  BY SchedAssumption, Zenon DEF SchedInv, QueueInv, QueueType, InThread
<1>o. \A y \in Completion : y # x => curr \notin Linked(y) /\ curr \notin Waiters(y)
  BY <1>t, Zenon DEF ListHoldsWaiters, WaiterAlive, Waiters
<1>1. CASE done[x] = 0
  <2>1. prepare_to_swait(x)
    BY <1>1, Zenon DEF WaitSection, do_wait_for_common
  <2>2. /\ state' = [state EXCEPT ![curr] = "UNINTERRUPTIBLE"]
        /\ wpc' = [wpc EXCEPT ![curr] = "sleep"] /\ wobj' = [wobj EXCEPT ![curr] = x]
        /\ done' = done
        /\ task_list' = [task_list EXCEPT ![x] = IF curr \in Linked(x) THEN @ ELSE Append(@, curr)]
    BY <2>1, Zenon DEF prepare_to_swait, Linked
  <2>3. set_current_state("UNINTERRUPTIBLE")
    BY <2>2, Zenon DEF WaitSection, set_current_state
  <2>4. /\ task_list'[x] \in Seq(Task) /\ IsInjective(task_list'[x])
        /\ Linked(x)' = Linked(x) \cup {curr}
    BY <2>2, <1>t, AppendQueue DEF Linked, ListHoldsWaiters
  <2>5. \A y \in Completion : y # x => task_list'[y] = task_list[y] /\ Linked(y)' = Linked(y)
    BY <2>2, Zenon DEF Linked
  <2>6. \A y \in Completion : Waiters(y)' = IF y = x THEN Waiters(x) \cup {curr} ELSE Waiters(y)
    BY <2>2, <1>t, <1>o, Zenon DEF Waiters
  <2>7. CompletionTypeOK'
    BY <2>2, <2>4, <2>5, <1>t, Zenon DEF WaitPc
  <2>8. ListHoldsWaiters'
    <3>. SUFFICES ASSUME NEW y \in Completion
                  PROVE  IsInjective(task_list'[y]) /\ Linked(y)' \subseteq Waiters(y)'
      BY Zenon DEF ListHoldsWaiters
    <3>1. IsInjective(task_list[y]) /\ Linked(y) \subseteq Waiters(y)
      BY Zenon DEF ListHoldsWaiters
    <3>2. CASE y = x
      BY <3>1, <3>2, <2>4, <2>6, Zenon
    <3>3. CASE y # x
      BY <3>1, <3>3, <2>5, <2>6, Zenon
    <3>. QED  BY <3>2, <3>3, Zenon
  <2>9. UnlinkedAwake'
    BY <2>2, <2>4, <2>5, <2>6, <1>t, <1>o DEF UnlinkedAwake, Waiters
  <2>10. WaiterAlive'
    BY <2>2, <1>t, Zenon DEF WaiterAlive
  <2>. QED  BY <2>3, <2>7, <2>8, <2>9, <2>10, Zenon DEF SleepState
<1>2. CASE done[x] # 0
  <2>1. take_done(x)
    BY <1>2, Zenon DEF WaitSection, do_wait_for_common
  <2>2. /\ state' = [state EXCEPT ![curr] = "RUNNING"]
        /\ wpc' = [wpc EXCEPT ![curr] = "run"] /\ wobj' = [wobj EXCEPT ![curr] = NoCompletion]
        /\ done' = [done EXCEPT ![x] = IF @ # UINT_MAX THEN @ - 1 ELSE @]
        /\ task_list' = [task_list EXCEPT ![x] = DeleteNode(@, curr)]
    BY <2>1, Zenon DEF take_done
  <2>3. set_current_state("RUNNING")
    BY <2>2, Zenon DEF WaitSection, set_current_state
  <2>4. /\ task_list'[x] \in Seq(Task) /\ IsInjective(task_list'[x])
        /\ Linked(x)' = Linked(x) \ {curr}
    BY <2>2, DeleteNodeQueue DEF Linked, ListHoldsWaiters
  <2>5. \A y \in Completion : y # x => task_list'[y] = task_list[y] /\ Linked(y)' = Linked(y)
    BY <2>2, Zenon DEF Linked
  <2>6. \A y \in Completion : Waiters(y)' = Waiters(y) \ {curr}
    BY <2>2, <1>t, CompletionAssumption, Zenon DEF Waiters
  <2>7. CompletionTypeOK'
    <3>1. done' \in [Completion -> 0..UINT_MAX]
      BY <2>2, <1>2, CompletionAssumption
    <3>2. task_list' \in [Completion -> Seq(Task)]
      <4>1. task_list' \in [Completion -> Seq(Task) \cup {DeleteNode(task_list[x], curr)}]
        BY <2>2, Zenon
      <4>. QED  BY <4>1, <2>4, <2>5, Zenon
    <3>3. wpc' \in [Task -> WaitPc] /\ wobj' \in [Task -> Completion \cup {NoCompletion}]
      BY <2>2, <1>t, Zenon DEF WaitPc
    <3>. QED  BY <3>1, <3>2, <3>3, Zenon
  <2>8. ListHoldsWaiters'
    <3>. SUFFICES ASSUME NEW y \in Completion
                  PROVE  IsInjective(task_list'[y]) /\ Linked(y)' \subseteq Waiters(y)'
      BY DEF ListHoldsWaiters
    <3>1. IsInjective(task_list[y]) /\ Linked(y) \subseteq Waiters(y)
      BY DEF ListHoldsWaiters
    <3>2. CASE y = x
      BY <3>1, <3>2, <2>4, <2>6, Zenon
    <3>3. CASE y # x
      BY <3>1, <3>3, <2>5, <2>6, <1>o
    <3>. QED  BY <3>2, <3>3
  <2>9. UnlinkedAwake'
    <3>. SUFFICES ASSUME NEW y \in Completion, NEW t \in Waiters(y)', t \notin Linked(y)'
                  PROVE  state'[t] = "RUNNING"
      BY Zenon DEF UnlinkedAwake
    <3>1. t \in Waiters(y) /\ t # curr /\ t \in Task
      BY <2>6, Zenon DEF Waiters
    <3>2. t \notin Linked(y)
      BY <3>1, <2>4, <2>5, Zenon
    <3>. QED  BY <3>1, <3>2, <2>2, <1>t, Zenon DEF UnlinkedAwake
  <2>10. WaiterAlive'
    BY <2>2, <1>t, CompletionAssumption, Zenon DEF WaiterAlive
  <2>. QED  BY <2>3, <2>7, <2>8, <2>9, <2>10, Zenon
<1>. QED  BY <1>1, <1>2, Zenon

-----------------------------------------------------------------------------
(* Every step *)

LEMMA CompletionInitInv == SchedInit /\ CompletionInit => CompletionInv
<1>. SUFFICES ASSUME SchedInit, CompletionInit PROVE CompletionInv
  BY Zenon
<1>. USE CompletionAssumption DEF CompletionInit
<1>1. CompletionTypeOK
  BY DEF CompletionTypeOK, WaitPc
<1>2. \A x \in Completion : Linked(x) = {} /\ Waiters(x) = {} /\ IsInjective(task_list[x])
  BY DEF Linked, Waiters, Range, IsInjective
<1>. QED  BY <1>1, <1>2, Zenon DEF CompletionInv, ListHoldsWaiters, UnlinkedAwake, WaiterAlive

\* What code that uses completions may do: wait and complete, call the scheduler when
\* it is not inside a wait, be interrupted, turn interrupts on.
ClientNext ==
    \/ CompletionStep
    \/ ThreadStep /\ wpc[curr] = "run" /\ UNCHANGED completionVars
    \/ (IrqStep \/ rest_init \/ do_idle \/ local_irq_enable) /\ UNCHANGED completionVars

\* A step of the composed system is a step of the scheduler, or none, and keeps
\* the wait lists consistent.
LEMMA ClientNextInv ==
    ASSUME SchedInv, CompletionInv, [ClientNext]_<<schedVars, completionVars>>
    PROVE  CompletionInv' /\ [SchedNext]_schedVars
<1>. USE DEF CompletionInv, CompletionTypeOK
<1>t. curr \in Task /\ state \in [Task -> State] /\ QueueInv
  BY Zenon DEF SchedInv, QueueInv, QueueType
<1>s. ASSUME UNCHANGED completionVars,
             \A t \in Task : wpc[t] # "run" => state'[t] = state[t] \/ state'[t] = "RUNNING"
      PROVE  CompletionInv'
  BY <1>s, ListSame, Zenon DEF completionVars
<1>1. ASSUME NEW x \in Completion, wait_for_completion(x)
      PROVE  CompletionInv' /\ [SchedNext]_schedVars
  BY <1>1, WaitInv, Zenon DEF wait_for_completion, Waiting, SchedNext, ThreadStep
<1>2. ASSUME NEW x \in Completion, complete_in_task(x)
      PROVE  CompletionInv' /\ [SchedNext]_schedVars
  <2>1. CompletionInv' /\ (UNCHANGED <<state, runq>> \/ \E p \in Wakeable : try_to_wake_up(p))
    BY <1>2, <1>t, CompleteInv, Zenon DEF complete_in_task
  <2>2. CASE UNCHANGED <<state, runq>>
    BY <2>1, <2>2, <1>2, Zenon DEF complete_in_task, schedVars, queueVars
  <2>3. ASSUME NEW p \in Wakeable, try_to_wake_up(p) PROVE wake_up_process(p)
    BY <2>3, <1>2, Zenon DEF complete_in_task, wake_up_process
  <2>. QED  BY <2>1, <2>2, <2>3, Zenon DEF SchedNext, ThreadStep
<1>3. ASSUME NEW x \in Completion, complete_in_irq(x)
      PROVE  CompletionInv' /\ [SchedNext]_schedVars
  <2>1. CompletionInv' /\ (UNCHANGED <<state, runq>> \/ \E p \in Wakeable : try_to_wake_up(p))
    BY <1>3, <1>t, CompleteInv, Zenon DEF complete_in_irq
  <2>2. CASE UNCHANGED <<state, runq>>
    <3>1. quiet_handler
      BY <2>2, <1>3, Zenon DEF complete_in_irq, quiet_handler, queueVars
    <3>. QED  BY <3>1, <2>1, Zenon DEF SchedNext, IrqStep
  <2>3. ASSUME NEW p \in Wakeable, try_to_wake_up(p) PROVE device_handler(p)
    BY <2>3, <1>3, Zenon DEF complete_in_irq, device_handler
  <2>. QED  BY <2>1, <2>2, <2>3, Zenon DEF SchedNext, IrqStep
<1>4. CASE schedule_timeout
  <2>1. schedule /\ state' = state /\ UNCHANGED <<done, task_list, wobj>>
        /\ wpc' = [wpc EXCEPT ![curr] = "again"] /\ wpc[curr] = "sleep"
    BY <1>4, Zenon DEF schedule_timeout, schedule, Waiting
  <2>2. wpc' \in [Task -> WaitPc] /\ \A t \in Task : wpc'[t] = "run" <=> wpc[t] = "run"
    BY <2>1, <1>t, Zenon DEF WaitPc
  <2>3. CompletionInv'
    BY <2>1, <2>2, ListSame, Zenon
  <2>. QED  BY <2>1, <2>3, Zenon DEF SchedNext, ThreadStep
<1>5. CASE wait_again
  <2>1. wobj[curr] \in Completion
    BY <1>5, <1>t, Zenon DEF wait_again, Waiting, WaiterAlive
  <2>. QED  BY <1>5, <2>1, WaitInv, Zenon DEF wait_again, Waiting, SchedNext, ThreadStep
<1>6. CASE ThreadStep /\ wpc[curr] = "run" /\ UNCHANGED completionVars
  <2>1. \A t \in Task \ {curr} : state'[t] = state[t] \/ state'[t] = "RUNNING"
    BY <1>6, <1>t, ThreadStates, Zenon
  <2>. QED  BY <2>1, <1>6, <1>s, Zenon DEF SchedNext
<1>7. CASE (IrqStep \/ rest_init \/ do_idle \/ local_irq_enable) /\ UNCHANGED completionVars
  <2>1. local_irq_enable => state' = state
    BY Zenon DEF local_irq_enable, queueVars
  <2>2. \A t \in Task : state'[t] = state[t] \/ state'[t] = "RUNNING"
    BY <2>1, <1>7, <1>t, IrqStates, Zenon
  <2>. QED  BY <2>2, <1>7, <1>s, Zenon DEF SchedNext, ThreadStep
<1>8. CASE UNCHANGED <<schedVars, completionVars>>
  BY <1>8, <1>s, Zenon DEF schedVars, queueVars
<1>. QED  BY <1>1, <1>2, <1>3, <1>4, <1>5, <1>6, <1>7, <1>8, Zenon DEF ClientNext, CompletionStep

LEMMA CompletionNextInv ==
    ASSUME SchedInv, CompletionInv, [CompletionNext]_<<schedVars, completionVars>>
    PROVE  CompletionInv' /\ [SchedNext]_schedVars
<1>1. OtherThreadStep => ThreadStep /\ wpc[curr] = "run" /\ UNCHANGED completionVars
  BY Zenon DEF OtherThreadStep, ThreadStep
<1>2. Background => (IrqStep \/ rest_init \/ do_idle) /\ UNCHANGED completionVars
  BY Zenon DEF Background, IrqStep
<1>. QED  BY <1>1, <1>2, ClientNextInv, Zenon DEF CompletionNext, ClientNext

-----------------------------------------------------------------------------
(* Theorems about completions *)

\* Completions use the scheduler only through the operations of Sched: every
\* behaviour with waiters and completers is a behaviour of the scheduler, so the
\* theorems above hold of it.
THEOREM CompletionRefinesSched == CompletionSpec => SchedSpec
<1>1. SchedInit /\ CompletionInit => SchedInv /\ CompletionInv
  BY InitInv, CompletionInitInv, Zenon
<1>2. SchedInv /\ CompletionInv /\ [CompletionNext]_<<schedVars, completionVars>>
      => SchedInv' /\ CompletionInv' /\ [SchedNext]_schedVars
  BY NextInv, CompletionNextInv, Zenon
<1>. QED  BY <1>1, <1>2, PTL DEF CompletionSpec, SchedSpec

\* Wait lists, wait states and task states stay consistent.
THEOREM CompletionInvariance == CompletionSpec => []CompletionInv
<1>1. SchedInit /\ CompletionInit => SchedInv /\ CompletionInv
  BY InitInv, CompletionInitInv
<1>2. SchedInv /\ CompletionInv /\ [CompletionNext]_<<schedVars, completionVars>>
      => SchedInv' /\ CompletionInv'
  BY NextInv, CompletionNextInv, Zenon
<1>. QED  BY <1>1, <1>2, PTL DEF CompletionSpec

\* The entries on a wait list are those of tasks still inside
\* wait_for_completion(): no stack entry is left behind.
THEOREM ListsHoldWaiters == CompletionSpec => []ListHoldsWaiters
BY CompletionInvariance, PTL DEF CompletionInv

\* A waiter whose entry complete() has taken off is awake: no wake-up is lost
\* between the unlinking and the scheduler.
THEOREM NoLostWakeup == CompletionSpec => []UnlinkedAwake
BY CompletionInvariance, PTL DEF CompletionInv
=============================================================================
