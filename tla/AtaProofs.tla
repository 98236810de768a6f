------------------------------ MODULE AtaProofs ------------------------------
(***************************************************************************)
(* Disk transfers for any number of requesters and sectors: the daemon and *)
(* the interrupt handler never follow a pointer to a node whose owner has  *)
(* gone on, end_request() clears its own request and no other, no request  *)
(* is queued twice, an interrupt finds its request, and a transfer returns *)
(* with all its sectors done.  At the end, what the disk and every other   *)
(* user of a completion rest on: each completion not taken yet has a       *)
(* waiter on its way to take it.                                           *)
(***************************************************************************)
EXTENDS Ata, SchedProofs, FiniteSetTheorems

DaemonPc == {"d_set", "d_test", "d_running", "d_while", "d_take", "d_cmd", "d_relock", "d_unlock"}
RequesterPc == {"r_start", "r_add", "r_wake", "r_wait", "r_free"}

\* Each task stays in its own code.
RolesOK ==
    /\ apc[Daemon] \in DaemonPc
    /\ \A r \in Requester : apc[r] \in RequesterPc
    /\ \A t \in Task \ ({Daemon} \cup Requester) : apc[t] = "none"

\* Only requesters wait, each for its own completion; no task exits, and the daemon
\* exists before the first request.
TasksOK ==
    /\ \A t \in Task : wpc[t] # "run" => t \in Requester /\ apc[t] = "r_free" /\ wobj[t] = t
    /\ \A t \in Task : state[t] # "DEAD"
    /\ \A r \in Requester : state[r] # "NEW" => state[Daemon] # "NEW"

\* The daemon takes a request off a list that is not empty, the disk works for the
\* request in use, and end_request() still has to clear what it has completed.
DiskOK ==
    /\ IsInjective(IDEreq_lhdr)
    /\ apc[Daemon] = "d_take" => IDEreq_lhdr # <<>>
    /\ apc[Daemon] = "d_cmd" => req_in_using # NoTask /\ disk = NoTask /\ ending = NoTask
    /\ disk # NoTask => req_in_using = disk /\ ending = NoTask
    /\ intr => disk # NoTask
    /\ ending # NoTask => req_in_using = ending

Listed(r) == r \in Range(IDEreq_lhdr)
InUse(r)  == req_in_using = r /\ ending = NoTask

\* A request is queued, with the disk, or answered, as its requester expects.
TransferOK(r) ==
    /\ ~(Listed(r) /\ InUse(r))
    /\ Listed(r) \/ InUse(r) => InTransfer(r) /\ done[r] = 0
    /\ done[r] > 0 => done[r] = 1 /\ InTransfer(r) /\ count[r] = 0
    /\ apc[r] = "r_free" /\ wpc[r] = "run" => count[r] = 0

AtaInv == AtaTypeOK /\ RolesOK /\ TasksOK /\ DiskOK /\ \A r \in Requester : TransferOK(r)

\* What a step that is not about request r keeps of it.
KeptReq(r) ==
    /\ Listed(r)' => Listed(r)
    /\ InUse(r)' => InUse(r)
    /\ InTransfer(r)' <=> InTransfer(r)
    /\ done'[r] = done[r] /\ count'[r] = count[r]
    /\ apc'[r] = "r_free" /\ wpc'[r] = "run" => apc[r] = "r_free" /\ wpc[r] = "run"

\* No task comes into being or goes.
StatesKept == \A t \in Task : state'[t] # "DEAD" /\ (state'[t] = "NEW" <=> state[t] = "NEW")

-----------------------------------------------------------------------------
(* Roles and frames *)

\* What the invariant says of the current task and of the types.
LEMMA Facts ==
    ASSUME SchedInv, CompletionInv, AtaInv
    PROVE  /\ curr \in Task /\ state \in [Task -> State] /\ state[curr] # "NEW"
           /\ wpc \in [Task -> WaitPc] /\ wobj \in [Task -> Completion \cup {NoCompletion}]
           /\ done \in [Completion -> 0..UINT_MAX]
           /\ apc \in [Task -> AtaPc]
           /\ apc[curr] \in DaemonPc => curr = Daemon
           /\ apc[curr] \in RequesterPc => curr \in Requester
<1>1. curr \in Task /\ state \in [Task -> State] /\ state[curr] # "NEW"
  BY Zenon DEF SchedInv, QueueInv, QueueType, CurrAlive
<1>2. RolesOK /\ apc \in [Task -> AtaPc]
  BY Zenon DEF AtaInv, AtaTypeOK
<1>3. /\ apc[curr] \in DaemonPc => curr = Daemon
      /\ apc[curr] \in RequesterPc => curr \in Requester
  BY <1>1, <1>2, Zenon DEF RolesOK, DaemonPc, RequesterPc
<1>. QED  BY <1>1, <1>2, <1>3, Zenon DEF CompletionInv, CompletionTypeOK

\* A task that goes on within its code keeps its role.
LEMMA MovePc ==
    ASSUME AtaInv, NEW t \in Task, NEW q, apc' = [apc EXCEPT ![t] = q],
           \/ t = Daemon /\ q \in DaemonPc
           \/ t \in Requester /\ q \in RequesterPc
    PROVE  /\ apc' \in [Task -> AtaPc] /\ RolesOK' /\ apc'[t] = q
           /\ \A u \in Task \ {t} : apc'[u] = apc[u]
<1>1. q \in AtaPc
  BY Zenon DEF DaemonPc, RequesterPc, AtaPc
<1>2. apc \in [Task -> AtaPc] /\ RolesOK
  BY Zenon DEF AtaInv, AtaTypeOK
<1>3. apc' \in [Task -> AtaPc] /\ apc'[t] = q /\ \A u \in Task \ {t} : apc'[u] = apc[u]
  BY <1>1, <1>2, Zenon
<1>. QED  BY <1>2, <1>3, AtaAssumption DEF RolesOK

\* The daemon goes from p to q.
LEMMA DaemonMove ==
    ASSUME SchedInv, CompletionInv, AtaInv, NEW p \in DaemonPc, NEW q \in DaemonPc, At(p, q)
    PROVE  /\ curr = Daemon /\ apc[Daemon] = p /\ wpc[Daemon] = "run"
           /\ apc' \in [Task -> AtaPc] /\ RolesOK' /\ apc'[Daemon] = q
           /\ \A u \in Task \ {Daemon} : apc'[u] = apc[u]
<1>1. curr = Daemon /\ curr \in Task
  BY Facts, Zenon DEF At
<1>. QED  BY <1>1, MovePc, Zenon DEF At

\* A requester goes from p to q.
Moves(x, p, q) ==
    /\ curr = x /\ apc[x] = p /\ wpc[x] = "run"
    /\ apc' \in [Task -> AtaPc] /\ RolesOK' /\ apc'[x] = q
    /\ \A u \in Task \ {x} : apc'[u] = apc[u]

LEMMA RequesterMove ==
    ASSUME SchedInv, CompletionInv, AtaInv, NEW p \in RequesterPc, NEW q \in RequesterPc, At(p, q)
    PROVE  \E x \in Requester : Moves(x, p, q)
<1>1. curr \in Requester /\ curr \in Task
  BY Facts, Zenon DEF At
<1>. QED  BY <1>1, MovePc, Zenon DEF At, Moves

\* Tasks that wait go on waiting, or begin to wait for their own completion.
LEMMA TasksKept ==
    ASSUME AtaInv, StatesKept,
           \A t \in Task : wpc'[t] # "run" =>
               \/ wpc[t] # "run" /\ wobj'[t] = wobj[t] /\ apc'[t] = apc[t]
               \/ t \in Requester /\ apc'[t] = "r_free" /\ wobj'[t] = t
    PROVE  TasksOK'
BY AtaAssumption, Zenon DEF AtaInv, TasksOK, StatesKept

\* A step is about the request x, if any.
LEMMA StepOK ==
    ASSUME AtaInv, ~hung, NEW x, AtaTypeOK', RolesOK', TasksOK', DiskOK',
           \A r \in Requester \ {x} : KeptReq(r),
           x \in Requester => TransferOK(x)'
    PROVE  AtaInv'
<1>1. ASSUME NEW r \in Requester, r # x PROVE TransferOK(r)'
  <2>1. TransferOK(r) /\ KeptReq(r)
    BY <1>1, Zenon DEF AtaInv
  <2>. QED  BY <2>1, Zenon DEF TransferOK, KeptReq
<1>. QED  BY <1>1, Zenon DEF AtaInv

\* Steps that move no request.
LEMMA QuietInv ==
    ASSUME AtaInv, ~hung, apc' \in [Task -> AtaPc], RolesOK', TasksOK',
           req_lock' \in Task \cup {NoTask},
           UNCHANGED <<IDEreq_lhdr, req_in_using, count, disk, intr, ending, ender, hung, done>>,
           apc'[Daemon] = "d_take" => IDEreq_lhdr # <<>>,
           apc'[Daemon] = "d_cmd" => apc[Daemon] = "d_cmd",
           \A r \in Requester : \/ apc'[r] = apc[r] /\ (wpc'[r] = "run" <=> wpc[r] = "run")
                                \/ apc[r] = "r_wake" /\ apc'[r] = "r_wait"
    PROVE  AtaInv'
<1>1. AtaTypeOK'
  BY Zenon DEF AtaInv, AtaTypeOK
<1>2. DiskOK'
  BY Zenon DEF AtaInv, DiskOK
<1>3. \A r \in Requester : KeptReq(r)
  BY Zenon DEF KeptReq, Listed, InUse, InTransfer
<1>. QED  BY <1>1, <1>2, <1>3, AtaAssumption, StepOK, Zenon

\* ... among them those that leave the places of the tasks alone.
LEMMA StillInv ==
    ASSUME AtaInv, ~hung, TasksOK', UNCHANGED <<ataVars, done>>,
           \A t \in Task : wpc'[t] = "run" <=> wpc[t] = "run"
    PROVE  AtaInv'
<1>1. UNCHANGED <<apc, IDEreq_lhdr, req_in_using, count, req_lock, disk, intr, ending, ender, hung>>
  BY Zenon DEF ataVars
<1>2. RolesOK' /\ apc' \in [Task -> AtaPc] /\ req_lock' \in Task \cup {NoTask}
  BY <1>1, Zenon DEF AtaInv, AtaTypeOK, RolesOK
<1>3. apc'[Daemon] = "d_take" => IDEreq_lhdr # <<>>
  BY <1>1, Zenon DEF AtaInv, DiskOK
<1>. QED  BY <1>1, <1>2, <1>3, AtaAssumption, QuietInv, Zenon
-----------------------------------------------------------------------------
(* ATA_disk_transfer() *)

\* IDE_make_request(): the node is its maker's alone.
LEMMA MakeInv ==
    ASSUME SchedInv, CompletionInv, AtaInv, ~hung, transfer_make
    PROVE  AtaInv'
<1>. USE AtaAssumption
<1>m. At("r_start", "r_add") /\ "r_start" \in RequesterPc /\ "r_add" \in RequesterPc
  BY Zenon DEF transfer_make, RequesterPc
<1>x. PICK x \in Requester : Moves(x, "r_start", "r_add")
  BY <1>m, RequesterMove, Zenon
<1>1. /\ curr = x /\ apc[x] = "r_start" /\ wpc[x] = "run"
      /\ apc' \in [Task -> AtaPc] /\ RolesOK' /\ apc'[x] = "r_add"
      /\ \A u \in Task \ {x} : apc'[u] = apc[u]
  BY <1>x, Zenon DEF Moves
<1>2. /\ UNCHANGED <<state, done, wpc, wobj, IDEreq_lhdr, req_in_using, disk, intr, ending, ender, hung>>
      /\ req_lock' = x
  BY <1>1, Zenon DEF transfer_make, LockReq, preempt_disable, queueVars, completionVars
<1>3. PICK n \in 0..MaxSectors : count' = [count EXCEPT ![x] = n]
  BY <1>1, Zenon DEF transfer_make
<1>5. count \in [Requester -> 0..MaxSectors]
  BY Zenon DEF AtaInv, AtaTypeOK
<1>6. /\ count' \in [Requester -> 0..MaxSectors] /\ count'[x] = n
      /\ \A r \in Requester \ {x} : count'[r] = count[r]
  BY <1>3, <1>5, Zenon
<1>7. AtaTypeOK'
  BY <1>1, <1>2, <1>6, Zenon DEF AtaInv, AtaTypeOK
<1>8. TasksOK'
  BY <1>1, <1>2, TasksKept, Zenon DEF StatesKept, AtaInv, TasksOK
<1>9. DiskOK'
  BY <1>1, <1>2, Zenon DEF AtaInv, DiskOK
<1>10. \A r \in Requester \ {x} : KeptReq(r)
  BY <1>1, <1>2, <1>6, Zenon DEF KeptReq, Listed, InUse, InTransfer
<1>11. TransferOK(x)'
  <2>1. TransferOK(x) /\ ~InTransfer(x)
    BY <1>1, Zenon DEF AtaInv, InTransfer
  <2>2. ~Listed(x) /\ ~InUse(x) /\ ~(done[x] > 0)
    BY <2>1, Zenon DEF TransferOK
  <2>3. ~Listed(x)' /\ ~InUse(x)' /\ ~(done'[x] > 0)
    BY <2>2, <1>2, Zenon DEF Listed, InUse
  <2>. QED  BY <2>3, <1>1, <1>6, Zenon DEF TransferOK
<1>. QED  BY <1>1, <1>7, <1>8, <1>9, <1>10, <1>11, StepOK, Zenon

\* The node goes on the list, and its owner into the transfer.
LEMMA AddInv ==
    ASSUME SchedInv, CompletionInv, AtaInv, ~hung, transfer_add
    PROVE  AtaInv'
<1>. USE AtaAssumption
<1>m. At("r_add", "r_wake") /\ "r_add" \in RequesterPc /\ "r_wake" \in RequesterPc
  BY Zenon DEF transfer_add, RequesterPc
<1>x. PICK x \in Requester : Moves(x, "r_add", "r_wake")
  BY <1>m, RequesterMove, Zenon
<1>1. /\ curr = x /\ apc[x] = "r_add" /\ wpc[x] = "run"
      /\ apc' \in [Task -> AtaPc] /\ RolesOK' /\ apc'[x] = "r_wake"
      /\ \A u \in Task \ {x} : apc'[u] = apc[u]
  BY <1>x, Zenon DEF Moves
<1>2. /\ UNCHANGED <<state, done, wpc, wobj, count, req_in_using, disk, intr, ending, ender, hung>>
      /\ req_lock' = NoTask /\ IDEreq_lhdr' = Append(IDEreq_lhdr, x)
  BY <1>1, Zenon DEF transfer_add, UnlockReq, preempt_enable, queueVars, completionVars
<1>3. TransferOK(x) /\ ~InTransfer(x)
  BY <1>1, Zenon DEF AtaInv, InTransfer
<1>4. ~Listed(x) /\ ~InUse(x) /\ ~(done[x] > 0)
  BY <1>1, <1>3, Zenon DEF TransferOK
<1>5. IDEreq_lhdr \in Seq(Requester) /\ IsInjective(IDEreq_lhdr)
  BY Zenon DEF AtaInv, AtaTypeOK, DiskOK
<1>6. /\ IDEreq_lhdr' \in Seq(Requester) /\ IsInjective(IDEreq_lhdr')
      /\ Range(IDEreq_lhdr') = Range(IDEreq_lhdr) \cup {x} /\ IDEreq_lhdr' # <<>>
  <2>1. /\ IDEreq_lhdr' \in Seq(Requester) /\ IsInjective(IDEreq_lhdr')
        /\ Range(IDEreq_lhdr') = Range(IDEreq_lhdr) \cup {x}
    BY <1>2, <1>4, <1>5, AppendQueue, Zenon DEF Listed
  <2>2. IDEreq_lhdr' # <<>>
    BY <1>2, <1>5
  <2>. QED  BY <2>1, <2>2, Zenon
<1>7. AtaTypeOK'
  BY <1>1, <1>2, <1>6, Zenon DEF AtaInv, AtaTypeOK
<1>8. TasksOK'
  BY <1>1, <1>2, TasksKept, Zenon DEF StatesKept, AtaInv, TasksOK
<1>9. DiskOK'
  BY <1>1, <1>2, <1>6, Zenon DEF AtaInv, DiskOK
<1>10. \A r \in Requester \ {x} : KeptReq(r)
  BY <1>1, <1>2, <1>6, Zenon DEF KeptReq, Listed, InUse, InTransfer
<1>11. TransferOK(x)'
  <2>1. Listed(x)' /\ ~InUse(x)' /\ InTransfer(x)'
    BY <1>1, <1>2, <1>4, <1>6, Zenon DEF Listed, InUse, InTransfer
  <2>2. done'[x] = 0
    BY <1>2, <1>4, Facts
  <2>. QED  BY <2>1, <2>2, <1>1, <1>2, <1>4 DEF TransferOK
<1>. QED  BY <1>1, <1>7, <1>8, <1>9, <1>10, <1>11, StepOK, Zenon

\* A locked section of wait_for_completion(): the requester gets ready to sleep, or
\* takes the answer.
LEMMA WaitingInv ==
    ASSUME SchedInv, CompletionInv, AtaInv, ~hung, NEW x \in Requester, curr = x, WaitSection(x),
           \/ apc[x] = "r_wait" /\ apc' = [apc EXCEPT ![x] = "r_free"]
           \/ apc[x] = "r_free" /\ wpc[x] # "run" /\ apc' = apc,
           UNCHANGED <<IDEreq_lhdr, req_in_using, count, req_lock, disk, intr, ending, ender, hung>>
    PROVE  AtaInv'
<1>. USE AtaAssumption
<1>t. /\ state \in [Task -> State] /\ done \in [Completion -> 0..UINT_MAX]
      /\ wpc \in [Task -> WaitPc] /\ wobj \in [Task -> Completion \cup {NoCompletion}]
      /\ x \in Completion /\ x \in Task /\ state[x] \notin {"NEW", "DEAD"}
  BY Facts, Zenon DEF AtaInv, TasksOK
<1>1. /\ apc' \in [Task -> AtaPc] /\ RolesOK' /\ apc'[x] = "r_free"
      /\ \A u \in Task \ {x} : apc'[u] = apc[u]
  <2>1. CASE apc' = apc
    BY <2>1, Zenon DEF AtaInv, AtaTypeOK, RolesOK
  <2>2. CASE apc' = [apc EXCEPT ![x] = "r_free"]
    BY <2>2, <1>t, MovePc, Zenon DEF RequesterPc
  <2>. QED  BY <2>1, <2>2, Zenon
<1>2. TransferOK(x) /\ InTransfer(x)
  BY Zenon DEF AtaInv, InTransfer
<1>3. /\ \A u \in Task \ {x} : state'[u] = state[u] /\ wpc'[u] = wpc[u] /\ wobj'[u] = wobj[u]
      /\ \A r \in Requester \ {x} : done'[r] = done[r]
      /\ state'[x] \notin {"NEW", "DEAD"}
      /\ \/ done[x] = 0 /\ done'[x] = 0 /\ wpc'[x] = "sleep" /\ wobj'[x] = x
         \/ done[x] > 0 /\ done'[x] = 0 /\ wpc'[x] = "run"
  <2>1. CASE done[x] = 0
    BY <2>1, <1>t, Zenon DEF WaitSection, do_wait_for_common, prepare_to_swait
  <2>2. CASE done[x] # 0
    <3>1. done[x] = 1 /\ done[x] # UINT_MAX
      BY <2>2, <1>t, <1>2 DEF TransferOK
    <3>. QED  BY <2>2, <3>1, <1>t DEF WaitSection, do_wait_for_common, take_done
  <2>. QED  BY <2>1, <2>2, Zenon
<1>4. AtaTypeOK'
  BY <1>1, Zenon DEF AtaInv, AtaTypeOK
<1>5. TasksOK'
  <2>1. StatesKept
    BY <1>t, <1>3, Zenon DEF StatesKept, AtaInv, TasksOK
  <2>. QED  BY <2>1, <1>1, <1>3, TasksKept, Zenon
<1>6. DiskOK'
  BY <1>1, Zenon DEF AtaInv, DiskOK
<1>7. \A r \in Requester \ {x} : KeptReq(r)
  BY <1>1, <1>3, Zenon DEF KeptReq, Listed, InUse, InTransfer
<1>8. TransferOK(x)'
  <2>1. /\ Listed(x)' <=> Listed(x)
        /\ InUse(x)' <=> InUse(x)
    BY Zenon DEF Listed, InUse
  <2>2. CASE done[x] = 0 /\ done'[x] = 0 /\ wpc'[x] = "sleep"
    <3>1. InTransfer(x)'
      BY <2>2, <1>1, Zenon DEF InTransfer
    <3>. QED  BY <3>1, <2>1, <2>2, <1>1, <1>2 DEF TransferOK
  <2>3. CASE done[x] > 0 /\ done'[x] = 0 /\ wpc'[x] = "run"
    <3>1. ~Listed(x) /\ ~InUse(x) /\ count[x] = 0
      BY <2>3, <1>2 DEF TransferOK
    <3>. QED  BY <3>1, <2>1, <2>3, <1>1 DEF TransferOK
  <2>. QED  BY <1>3, <2>2, <2>3, Zenon
<1>. QED  BY <1>1, <1>4, <1>5, <1>6, <1>7, <1>8, StepOK, Zenon

\* kfree(): nobody holds the node.
LEMMA FreeInv ==
    ASSUME SchedInv, CompletionInv, AtaInv, ~hung, transfer_free
    PROVE  AtaInv'
<1>. USE AtaAssumption
<1>m. At("r_free", "r_start") /\ "r_free" \in RequesterPc /\ "r_start" \in RequesterPc
  BY Zenon DEF transfer_free, RequesterPc
<1>x. PICK x \in Requester : Moves(x, "r_free", "r_start")
  BY <1>m, RequesterMove, Zenon
<1>1. /\ curr = x /\ apc[x] = "r_free" /\ wpc[x] = "run"
      /\ apc' \in [Task -> AtaPc] /\ RolesOK' /\ apc'[x] = "r_start"
      /\ \A u \in Task \ {x} : apc'[u] = apc[u]
  BY <1>x, Zenon DEF Moves
<1>2. UNCHANGED <<state, done, wpc, wobj, IDEreq_lhdr, req_in_using, count, req_lock, disk, intr, ending, ender, hung>>
  BY Zenon DEF transfer_free, schedVars, queueVars, completionVars
<1>3. AtaTypeOK'
  BY <1>1, <1>2, Zenon DEF AtaInv, AtaTypeOK
<1>4. TasksOK'
  BY <1>1, <1>2, TasksKept, Zenon DEF StatesKept, AtaInv, TasksOK
<1>5. DiskOK'
  BY <1>1, <1>2, Zenon DEF AtaInv, DiskOK
<1>6. \A r \in Requester : KeptReq(r)
  BY <1>1, <1>2, Zenon DEF KeptReq, Listed, InUse, InTransfer
<1>. QED  BY <1>1, <1>3, <1>4, <1>5, <1>6, StepOK, Zenon
-----------------------------------------------------------------------------
(* ATArq_deamon() *)

\* The daemon between places where no request moves.
LEMMA DaemonInv ==
    ASSUME SchedInv, CompletionInv, AtaInv, ~hung,
           NEW p \in DaemonPc, NEW q \in DaemonPc \ {"d_cmd"}, At(p, q),
           q = "d_take" => IDEreq_lhdr # <<>>,
           req_lock' \in {req_lock, curr, NoTask},
           UNCHANGED <<completionVars, IDEreq_lhdr, req_in_using, count, disk, intr, ending, ender, hung>>,
           state' = state \/ \E s \in SleepState \cup {"RUNNING"} :
                                 state' = [state EXCEPT ![curr] = s]
    PROVE  AtaInv'
<1>. USE AtaAssumption
<1>1. /\ curr = Daemon /\ apc[Daemon] = p /\ wpc[Daemon] = "run"
      /\ apc' \in [Task -> AtaPc] /\ RolesOK' /\ apc'[Daemon] = q
      /\ \A u \in Task \ {Daemon} : apc'[u] = apc[u]
  BY DaemonMove, Zenon
<1>2. /\ curr \in Task /\ state \in [Task -> State] /\ state[curr] # "NEW"
      /\ UNCHANGED <<done, wpc, wobj>>
  BY Facts, Zenon DEF completionVars
<1>3. StatesKept
  BY <1>2, Zenon DEF AtaInv, TasksOK, StatesKept, SleepState
<1>4. TasksOK'
  BY <1>1, <1>2, <1>3, TasksKept, Zenon
<1>5. req_lock' \in Task \cup {NoTask}
  BY <1>2, Zenon DEF AtaInv, AtaTypeOK
<1>. QED  BY <1>1, <1>2, <1>4, <1>5, QuietInv, Zenon

\* The daemon takes the last request off the list.
LEMMA TakeInv ==
    ASSUME SchedInv, CompletionInv, AtaInv, ~hung, deamon_take, req_in_using = NoTask
    PROVE  AtaInv'
<1>. USE AtaAssumption
<1>1. /\ curr = Daemon /\ apc[Daemon] = "d_take" /\ wpc[Daemon] = "run"
      /\ apc' \in [Task -> AtaPc] /\ RolesOK' /\ apc'[Daemon] = "d_cmd"
      /\ \A u \in Task \ {Daemon} : apc'[u] = apc[u]
  <2>1. At("d_take", "d_cmd")
    BY Zenon DEF deamon_take
  <2>. QED  BY <2>1, DaemonMove, Zenon DEF DaemonPc
<1>2. /\ UNCHANGED <<state, done, wpc, wobj, count, disk, intr, ending, ender, hung>> /\ req_lock' = NoTask
      /\ req_in_using' = IDEreq_lhdr[Len(IDEreq_lhdr)]
      /\ IDEreq_lhdr' = SubSeq(IDEreq_lhdr, 1, Len(IDEreq_lhdr) - 1)
  BY Zenon DEF deamon_take, UnlockReq, preempt_enable, queueVars, completionVars
<1>3. IDEreq_lhdr \in Seq(Requester) /\ IsInjective(IDEreq_lhdr) /\ IDEreq_lhdr # <<>>
  BY <1>1, Zenon DEF AtaInv, AtaTypeOK, DiskOK
<1>4. PICK x \in Requester :
          /\ Listed(x) /\ req_in_using' = x
          /\ IDEreq_lhdr' \in Seq(Requester) /\ IsInjective(IDEreq_lhdr')
          /\ Range(IDEreq_lhdr') = Range(IDEreq_lhdr) \ {x}
  BY <1>2, <1>3, FrontQueue, Zenon DEF Listed
<1>5. AtaTypeOK'
  BY <1>1, <1>2, <1>4, Zenon DEF AtaInv, AtaTypeOK
<1>6. TasksOK'
  BY <1>1, <1>2, TasksKept, Zenon DEF StatesKept, AtaInv, TasksOK
<1>7. DiskOK'
  BY <1>1, <1>2, <1>4, Zenon DEF AtaInv, DiskOK
<1>8. \A r \in Requester \ {x} : KeptReq(r)
  BY <1>1, <1>2, <1>4, Zenon DEF KeptReq, Listed, InUse, InTransfer
<1>9. TransferOK(x)'
  <2>1. TransferOK(x) /\ (InTransfer(x)' <=> InTransfer(x)) /\ ~Listed(x)'
    BY <1>1, <1>2, <1>4, Zenon DEF AtaInv, InTransfer, Listed
  <2>. QED  BY <2>1, <1>1, <1>2, <1>4, Zenon DEF TransferOK
<1>. QED  BY <1>1, <1>4, <1>5, <1>6, <1>7, <1>8, <1>9, StepOK, Zenon

\* The disk starts to work for the request in use.
LEMMA CmdInv ==
    ASSUME SchedInv, CompletionInv, AtaInv, ~hung, IDE_cmd_out
    PROVE  AtaInv'
<1>. USE AtaAssumption
<1>1. /\ curr = Daemon /\ apc[Daemon] = "d_cmd" /\ wpc[Daemon] = "run"
      /\ apc' \in [Task -> AtaPc] /\ RolesOK' /\ apc'[Daemon] = "d_relock"
      /\ \A u \in Task \ {Daemon} : apc'[u] = apc[u]
  <2>1. At("d_cmd", "d_relock")
    BY Zenon DEF IDE_cmd_out
  <2>. QED  BY <2>1, DaemonMove, Zenon DEF DaemonPc
<1>2. /\ UNCHANGED <<state, done, wpc, wobj, IDEreq_lhdr, req_in_using, count, req_lock, intr, ending, ender, hung>>
      /\ disk' = req_in_using
  BY Zenon DEF IDE_cmd_out, schedVars, queueVars, completionVars
<1>3. AtaTypeOK'
  BY <1>1, <1>2, Zenon DEF AtaInv, AtaTypeOK
<1>4. TasksOK'
  BY <1>1, <1>2, TasksKept, Zenon DEF StatesKept, AtaInv, TasksOK
<1>5. DiskOK'
  BY <1>1, <1>2, Zenon DEF AtaInv, DiskOK
<1>6. \A r \in Requester : KeptReq(r)
  BY <1>1, <1>2, Zenon DEF KeptReq, Listed, InUse, InTransfer
<1>. QED  BY <1>1, <1>3, <1>4, <1>5, <1>6, StepOK, Zenon

-----------------------------------------------------------------------------
(* The disk and its interrupt *)

LEMMA InterruptInv ==
    ASSUME SchedInv, CompletionInv, AtaInv, ~hung, DiskInterrupt
    PROVE  AtaInv'
<1>. USE AtaAssumption
<1>1. /\ UNCHANGED <<state, done, wpc, wobj, apc, IDEreq_lhdr, req_in_using, count, req_lock, disk, ending, ender, hung>>
      /\ intr' = TRUE /\ disk # NoTask
  BY Zenon DEF DiskInterrupt, schedVars, queueVars, completionVars
<1>2. AtaTypeOK'
  BY <1>1, Zenon DEF AtaInv, AtaTypeOK
<1>3. RolesOK'
  BY <1>1, Zenon DEF AtaInv, RolesOK
<1>4. TasksOK'
  BY <1>1, Zenon DEF AtaInv, TasksOK
<1>5. DiskOK'
  BY <1>1, Zenon DEF AtaInv, DiskOK
<1>6. \A r \in Requester : KeptReq(r)
  BY <1>1, Zenon DEF KeptReq, Listed, InUse, InTransfer
<1>. QED  BY <1>2, <1>3, <1>4, <1>5, <1>6, StepOK, Zenon

\* end_request() wakes nobody but a waiting requester.
LEMMA CompleteEffect ==
    ASSUME SchedInv, CompletionInv, AtaInv, NEW x \in Requester, done[x] = 0, complete_in_irq(x)
    PROVE  /\ StatesKept
           /\ UNCHANGED <<wpc, wobj>>
           /\ done'[x] = 1
           /\ \A r \in Requester \ {x} : done'[r] = done[r]
<1>. USE AtaAssumption
<1>t. /\ x \in Completion /\ state \in [Task -> State] /\ done \in [Completion -> 0..UINT_MAX]
      /\ task_list \in [Completion -> Seq(Task)]
  BY Facts, Zenon DEF CompletionInv, CompletionTypeOK
<1>1. complete(x) /\ UNCHANGED <<wpc, wobj>>
  BY Zenon DEF complete_in_irq
<1>2. done'[x] = 1 /\ \A r \in Requester \ {x} : done'[r] = done[r]
  BY <1>1, <1>t DEF complete
<1>3. CASE task_list[x] = <<>>
  BY <1>1, <1>2, <1>3, Zenon DEF complete, swake_up_locked, StatesKept, AtaInv, TasksOK
<1>4. CASE task_list[x] # <<>>
  <2>1. PICK w \in Linked(x) : w \in Task /\ state' = [state EXCEPT ![w] = "RUNNING"]
    BY <1>1, <1>4, <1>t, FrontQueue, Zenon
    DEF complete, swake_up_locked, try_to_wake_up, CompletionInv, ListHoldsWaiters, Linked
  <2>2. wobj[w] = x
    BY <2>1, <1>t, Zenon DEF CompletionInv, ListHoldsWaiters, Waiters
  <2>3. state[w] # "NEW"
    BY <2>1, <2>2, <1>t, Zenon DEF CompletionInv, WaiterAlive
  <2>. QED  BY <1>1, <1>2, <1>t, <2>1, <2>3, Zenon DEF StatesKept, AtaInv, TasksOK
<1>. QED  BY <1>3, <1>4, Zenon

\* One sector is done; with the last one the requester is told.
LEMMA HandlerInv ==
    ASSUME SchedInv, CompletionInv, AtaInv, ~hung, ATA_disk_handler
    PROVE  AtaInv'
<1>. USE AtaAssumption
<1>1. PICK x \in Requester : req_in_using = x /\ disk = x /\ ending = NoTask
  BY Zenon DEF ATA_disk_handler, AtaInv, DiskOK, AtaTypeOK
<1>2. TransferOK(x) /\ ~Listed(x) /\ InTransfer(x) /\ done[x] = 0
  BY <1>1, Zenon DEF AtaInv, TransferOK, InUse
<1>3. count \in [Requester -> 0..MaxSectors]
  BY Zenon DEF AtaInv, AtaTypeOK
<1>4. /\ count' = [count EXCEPT ![x] = SectorsLeft(@)] /\ intr' = FALSE
      /\ UNCHANGED <<apc, IDEreq_lhdr, req_in_using, req_lock, hung>>
  BY <1>1, Zenon DEF ATA_disk_handler
<1>5. /\ count' \in [Requester -> 0..MaxSectors] /\ count'[x] = SectorsLeft(count[x])
      /\ \A r \in Requester \ {x} : count'[r] = count[r]
  <2>1. SectorsLeft(count[x]) \in 0..MaxSectors
    BY <1>3 DEF SectorsLeft
  <2>. QED  BY <1>3, <1>4, <2>1, Zenon
<1>6. RolesOK'
  BY <1>4, Zenon DEF AtaInv, RolesOK
<1>7. CASE LastSector(count[x])
  <2>1. StatesKept /\ UNCHANGED <<wpc, wobj>> /\ done'[x] = 1 /\ \A r \in Requester \ {x} : done'[r] = done[r]
    BY <1>1, <1>2, <1>7, CompleteEffect, Zenon DEF ATA_disk_handler
  <2>2. disk' = NoTask /\ ending' = x /\ ender' = <<curr, irqs[curr] + 1>>
    BY <1>1, <1>7, Zenon DEF ATA_disk_handler
  <2>3. ender' \in Task \X Nat
    <3>1. curr \in Task /\ irqs \in [Task -> 0..MaxNest]
      BY Zenon DEF SchedInv, QueueInv, QueueType, CpuInv, CpuType
    <3>2. irqs[curr] + 1 \in Nat
      BY <3>1, SchedAssumption
    <3>. QED  BY <2>2, <3>1, <3>2, Zenon
  <2>4. AtaTypeOK'
    BY <1>4, <1>5, <2>2, <2>3, Zenon DEF AtaInv, AtaTypeOK
  <2>5. TasksOK'
    BY <1>4, <2>1, TasksKept, Zenon
  <2>6. DiskOK'
    <3>1. apc[Daemon] # "d_cmd"
      BY <1>1, Zenon DEF AtaInv, DiskOK
    <3>. QED  BY <1>1, <1>4, <2>2, <3>1, Zenon DEF AtaInv, DiskOK
  <2>7. \A r \in Requester \ {x} : KeptReq(r)
    BY <1>4, <1>5, <2>1, <2>2, Zenon DEF KeptReq, Listed, InUse, InTransfer
  <2>8. TransferOK(x)'
    <3>1. ~Listed(x)' /\ InTransfer(x)' /\ ~InUse(x)'
      BY <1>2, <1>4, <2>1, <2>2, Zenon DEF Listed, InTransfer, InUse
    <3>2. count'[x] = 0
      BY <1>5, <1>7, Zenon DEF LastSector
    <3>. QED  BY <3>1, <3>2, <2>1, Zenon DEF TransferOK
  <2>. QED  BY <1>6, <2>4, <2>5, <2>6, <2>7, <2>8, StepOK, Zenon
<1>8. CASE ~LastSector(count[x])
  <2>1. UNCHANGED <<state, done, wpc, wobj, disk, ending, ender>>
    BY <1>1, <1>8, Zenon DEF ATA_disk_handler, quiet_handler, queueVars, completionVars
  <2>2. AtaTypeOK'
    BY <1>4, <1>5, <2>1, Zenon DEF AtaInv, AtaTypeOK
  <2>3. TasksOK'
    BY <1>4, <2>1, Zenon DEF AtaInv, TasksOK
  <2>4. DiskOK'
    BY <1>4, <2>1, Zenon DEF AtaInv, DiskOK
  <2>5. \A r \in Requester \ {x} : KeptReq(r)
    BY <1>4, <1>5, <2>1, Zenon DEF KeptReq, Listed, InUse, InTransfer
  <2>6. TransferOK(x)'
    <3>1. ~Listed(x)' /\ InTransfer(x)' /\ ~(apc'[x] = "r_free" /\ wpc'[x] = "run")
      BY <1>2, <1>4, <2>1, Zenon DEF Listed, InTransfer
    <3>2. done'[x] = 0 /\ ~(done'[x] > 0)
      BY <1>2, <2>1
    <3>. QED  BY <3>1, <3>2, Zenon DEF TransferOK
  <2>. QED  BY <1>6, <2>2, <2>3, <2>4, <2>5, <2>6, StepOK, Zenon
<1>. QED  BY <1>7, <1>8, Zenon

\* The name that is cleared is one that nobody follows any more: the requester told
\* of its end may have freed the node, and may have queued another one.
LEMMA EndInv ==
    ASSUME SchedInv, CompletionInv, AtaInv, ~hung, end_request
    PROVE  AtaInv'
<1>. USE AtaAssumption
<1>1. /\ UNCHANGED <<state, done, wpc, wobj, apc, IDEreq_lhdr, count, req_lock, disk, intr>>
      /\ ending # NoTask
      /\ \/ req_in_using' = NoTask /\ ending' = NoTask /\ ender' = <<Idle, 0>> /\ hung' = hung
         \/ hung' = TRUE /\ UNCHANGED <<req_in_using, ending, ender>>
  BY Zenon DEF end_request, InEndRequest, schedVars, queueVars, completionVars
<1>2. AtaTypeOK'
  <2>1. <<Idle, 0>> \in Task \X Nat
    BY SchedAssumption
  <2>. QED  BY <1>1, <2>1, Zenon DEF AtaInv, AtaTypeOK
<1>3. RolesOK'
  BY <1>1, Zenon DEF AtaInv, RolesOK
<1>4. TasksOK'
  BY <1>1, Zenon DEF AtaInv, TasksOK
<1>5. DiskOK'
  BY <1>1, Zenon DEF AtaInv, DiskOK
<1>6. \A r \in Requester : KeptReq(r)
  BY <1>1, Zenon DEF KeptReq, Listed, InUse, InTransfer
<1>. QED  BY <1>2, <1>3, <1>4, <1>5, <1>6, StepOK, Zenon
-----------------------------------------------------------------------------
(* Every step *)

\* Everything this code does is a wait, a completion, or a step of the scheduler by
\* a task that does not wait.
LEMMA AtaBelow ==
    ASSUME SchedInv, CompletionInv, AtaInv, [AtaNext]_vars
    PROVE  CompletionInv' /\ [SchedNext]_schedVars
<1>. SUFFICES [ClientNext]_<<schedVars, completionVars>>
  BY ClientNextInv, Zenon
<1>. USE AtaAssumption
<1>f. /\ curr \in Task /\ state[curr] # "NEW"
      /\ apc[curr] \in RequesterPc => curr \in Requester
  BY Facts, Zenon
<1>t. ASSUME ThreadStep, wpc[curr] = "run", UNCHANGED completionVars PROVE ClientNext
  BY <1>t, Zenon DEF ClientNext
<1>u. ASSUME UNCHANGED <<schedVars, completionVars>>
      PROVE  [ClientNext]_<<schedVars, completionVars>>
  BY <1>u, Zenon
<1>1. CASE transfer_make \/ transfer_add
  BY <1>1, <1>t, Zenon DEF transfer_make, transfer_add, At, LockReq, UnlockReq, ThreadStep
<1>2. CASE transfer_wake
  <2>1. curr \in Requester
    BY <1>2, <1>f, Zenon DEF transfer_wake, At, RequesterPc
  <2>2. Daemon \in Wakeable
    BY <2>1, <1>f, Zenon DEF AtaInv, TasksOK, Wakeable
  <2>. QED  BY <1>2, <2>2, <1>t, Zenon DEF transfer_wake, At, ThreadStep
<1>3. CASE transfer_wait
  <2>1. curr \in Completion
    BY <1>3, <1>f, Zenon DEF transfer_wait, At, RequesterPc
  <2>. QED  BY <1>3, <2>1, Zenon DEF transfer_wait, ClientNext, CompletionStep
<1>4. CASE transfer_waiting
  BY <1>4, Zenon DEF transfer_waiting, ClientNext, CompletionStep
<1>5. CASE transfer_free \/ IDE_cmd_out \/ DiskInterrupt \/ end_request
  BY <1>5, <1>u, Zenon DEF transfer_free, IDE_cmd_out, DiskInterrupt, end_request
<1>6. CASE deamon_set \/ deamon_running
  BY <1>6, <1>t, Zenon DEF deamon_set, deamon_running, At, ThreadStep, SleepState
<1>7. CASE deamon_test
  BY <1>7, <1>t, <1>u, Zenon DEF deamon_test, At, ThreadStep
<1>8. CASE deamon_while
  BY <1>8, <1>t, <1>u, Zenon DEF deamon_while, At, LockReq, ThreadStep
<1>9. CASE deamon_take \/ deamon_relock \/ deamon_unlock
  <2>1. (preempt_enable \/ preempt_disable) /\ wpc[curr] = "run" /\ UNCHANGED completionVars
    BY <1>9, Zenon DEF deamon_take, deamon_relock, deamon_unlock, At, LockReq, UnlockReq
  <2>. QED  BY <2>1, <1>t, Zenon DEF ThreadStep
<1>10. CASE ATA_disk_handler
  <2>1. req_in_using \in Completion
    BY <1>10, Zenon DEF ATA_disk_handler, AtaInv, DiskOK, AtaTypeOK
  <2>2. \/ complete_in_irq(req_in_using)
        \/ quiet_handler /\ UNCHANGED completionVars
    BY <1>10, Zenon DEF ATA_disk_handler
  <2>. QED  BY <2>1, <2>2, Zenon DEF ClientNext, CompletionStep, IrqStep
<1>11. CASE AtaBoot
  <2>1. wpc[curr] = "run"
    BY <1>11, <1>f, Zenon DEF AtaBoot, AtaInv, TasksOK
  <2>. QED  BY <1>11, <2>1, <1>t, Zenon DEF AtaBoot, ThreadStep
<1>12. CASE AtaIrq \/ AtaIdle
  BY <1>12, Zenon DEF AtaIrq, AtaIdle, ClientNext, IrqStep
<1>13. CASE UNCHANGED vars
  BY <1>13, <1>u, Zenon DEF vars
<1>. QED
  BY <1>1, <1>2, <1>3, <1>4, <1>5, <1>6, <1>7, <1>8, <1>9, <1>10, <1>11, <1>12, <1>13, Zenon
  DEF AtaNext, ATA_disk_transfer, ATArq_deamon

LEMMA AtaInitInv == SchedInit /\ CompletionInit /\ AtaInit => AtaInv
<1>. SUFFICES ASSUME SchedInit, CompletionInit, AtaInit PROVE AtaInv
  BY Zenon
<1>. USE AtaAssumption DEF AtaInit
<1>1. apc \in [Task -> AtaPc] /\ RolesOK
  BY Zenon DEF RolesOK, AtaPc, DaemonPc, RequesterPc
<1>2. Range(IDEreq_lhdr) = {} /\ IsInjective(IDEreq_lhdr) /\ IDEreq_lhdr \in Seq(Requester)
  BY DEF Range, IsInjective
<1>3. count \in [Requester -> 0..MaxSectors]
  OBVIOUS
<1>4. AtaTypeOK
  <2>1. <<Idle, 0>> \in Task \X Nat
    BY SchedAssumption
  <2>. QED  BY <1>1, <1>2, <1>3, <2>1, Zenon DEF AtaTypeOK
<1>5. TasksOK
  BY Zenon DEF TasksOK, SchedInit, CompletionInit
<1>6. DiskOK
  BY <1>2, Zenon DEF DiskOK
<1>7. ASSUME NEW r \in Requester PROVE TransferOK(r)
  <2>1. done[r] = 0 /\ apc[r] = "r_start" /\ ~Listed(r) /\ ~InUse(r)
    BY <1>2, Zenon DEF CompletionInit, Listed, InUse
  <2>. QED  BY <2>1 DEF TransferOK
<1>. QED  BY <1>1, <1>4, <1>5, <1>6, <1>7, Zenon DEF AtaInv

\* Requests move from the list to the disk and back to their requesters.
LEMMA AtaNextInv ==
    ASSUME SchedInv, CompletionInv, AtaInv, [AtaNext]_vars
    PROVE  AtaInv'
<1>. USE AtaAssumption
<1>f. /\ curr \in Task /\ state \in [Task -> State] /\ state[curr] # "NEW"
      /\ wpc \in [Task -> WaitPc]
      /\ apc[curr] \in RequesterPc => curr \in Requester
  BY Facts, Zenon
<1>s. ASSUME ~hung, UNCHANGED <<ataVars, done, wobj>>, StatesKept,
             \A t \in Task : wpc'[t] = "run" <=> wpc[t] = "run"
      PROVE  AtaInv'
  <2>1. apc' = apc
    BY <1>s, Zenon DEF ataVars
  <2>2. TasksOK'
    BY <2>1, <1>s, TasksKept, Zenon
  <2>. QED  BY <2>2, <1>s, StillInv, Zenon
<1>k. ASSUME state' = state PROVE StatesKept
  BY <1>k, Zenon DEF StatesKept, AtaInv, TasksOK
<1>1. CASE ~hung /\ ATA_disk_transfer
  <2>1. CASE transfer_make \/ transfer_add \/ transfer_free
    BY <1>1, <2>1, MakeInv, AddInv, FreeInv, Zenon
  <2>2. CASE transfer_wake
    <3>1. At("r_wake", "r_wait") /\ "r_wake" \in RequesterPc /\ "r_wait" \in RequesterPc
      BY <2>2, Zenon DEF transfer_wake, RequesterPc
    <3>x. PICK x \in Requester : Moves(x, "r_wake", "r_wait")
      BY <3>1, RequesterMove, Zenon
    <3>2. /\ curr = x /\ apc[x] = "r_wake" /\ wpc[x] = "run"
          /\ apc' \in [Task -> AtaPc] /\ RolesOK' /\ apc'[x] = "r_wait"
          /\ \A u \in Task \ {x} : apc'[u] = apc[u]
      BY <3>x, Zenon DEF Moves
    <3>3. /\ state' = [state EXCEPT ![Daemon] = "RUNNING"]
          /\ UNCHANGED <<done, wpc, wobj, IDEreq_lhdr, req_in_using, count, req_lock, disk, intr, ending, ender, hung>>
      BY <2>2, Zenon DEF transfer_wake, wake_up_process, try_to_wake_up, completionVars
    <3>4. state[Daemon] # "NEW"
      BY <3>2, <1>f, Zenon DEF AtaInv, TasksOK
    <3>5. StatesKept
      BY <3>3, <3>4, <1>f, Zenon DEF StatesKept, AtaInv, TasksOK
    <3>6. TasksOK'
      BY <3>2, <3>3, <3>5, TasksKept, Zenon
    <3>7. req_lock' \in Task \cup {NoTask} /\ (apc[Daemon] = "d_take" => IDEreq_lhdr # <<>>)
      BY <3>3, Zenon DEF AtaInv, AtaTypeOK, DiskOK
    <3>. QED  BY <1>1, <3>2, <3>3, <3>6, <3>7, QuietInv, Zenon
  <2>3. CASE transfer_wait
    <3>1. PICK x \in Requester : x = curr
      BY <2>3, <1>f, Zenon DEF transfer_wait, At, RequesterPc
    <3>. QED  BY <1>1, <2>3, <3>1, WaitingInv, Zenon DEF transfer_wait, At, wait_for_completion
  <2>4. CASE transfer_waiting /\ wait_again
    <3>1. wpc[curr] # "run" /\ WaitSection(wobj[curr])
      BY <2>4, Zenon DEF wait_again, Waiting
    <3>2. PICK x \in Requester : x = curr /\ wobj[x] = x /\ apc[x] = "r_free"
      BY <3>1, <1>f, Zenon DEF AtaInv, TasksOK
    <3>. QED  BY <1>1, <2>4, <3>1, <3>2, WaitingInv, Zenon DEF transfer_waiting, ataVars
  <2>5. CASE transfer_waiting /\ schedule_timeout
    <3>1. state' = state /\ UNCHANGED <<done, wobj, ataVars>> /\ wpc' = [wpc EXCEPT ![curr] = "again"]
          /\ wpc[curr] = "sleep"
      BY <2>5, Zenon DEF transfer_waiting, schedule_timeout, schedule, Waiting
    <3>2. \A t \in Task : wpc'[t] = "run" <=> wpc[t] = "run"
      BY <3>1, <1>f, Zenon
    <3>. QED  BY <1>1, <3>1, <3>2, <1>s, <1>k, Zenon
  <2>. QED  BY <1>1, <2>1, <2>2, <2>3, <2>4, <2>5, Zenon DEF ATA_disk_transfer, transfer_waiting
<1>2. CASE ~hung /\ ATArq_deamon
  <2>1. CASE deamon_set \/ deamon_running
    <3>1. \E p \in DaemonPc, q \in DaemonPc \ {"d_cmd", "d_take"}, s \in SleepState \cup {"RUNNING"} :
              At(p, q) /\ state' = [state EXCEPT ![curr] = s]
      BY <2>1, Zenon DEF deamon_set, deamon_running, set_current_state, DaemonPc, SleepState
    <3>2. UNCHANGED <<completionVars, IDEreq_lhdr, req_in_using, count, req_lock, disk, intr, ending, ender, hung>>
      BY <2>1, Zenon DEF deamon_set, deamon_running
    <3>. QED  BY <1>2, <3>1, <3>2, DaemonInv, Zenon
  <2>2. CASE \/ deamon_test \/ deamon_while \/ deamon_relock \/ deamon_unlock
             \/ deamon_take /\ req_in_using # NoTask
    <3>2. state' = state
      BY <2>2, Zenon DEF deamon_test, deamon_while, deamon_relock, deamon_unlock, deamon_take,
           schedule, LockReq, UnlockReq, preempt_disable, preempt_enable, schedVars, queueVars
    <3>3. /\ req_lock' \in {req_lock, curr, NoTask}
          /\ UNCHANGED <<completionVars, IDEreq_lhdr, req_in_using, count, disk, intr, ending, ender, hung>>
      BY <2>2, Zenon DEF deamon_test, deamon_while, deamon_relock, deamon_unlock, deamon_take,
           LockReq, UnlockReq
    <3>4. ASSUME NEW p \in DaemonPc, NEW q \in DaemonPc \ {"d_cmd"}, At(p, q),
                 q = "d_take" => IDEreq_lhdr # <<>>
          PROVE  AtaInv'
      BY <3>4, <1>2, <3>2, <3>3, DaemonInv, Zenon
    <3>5. /\ {"d_test", "d_while", "d_take", "d_relock", "d_unlock"} \subseteq DaemonPc
          /\ {"d_running", "d_set", "d_take", "d_unlock"} \subseteq DaemonPc \ {"d_cmd"}
      BY Zenon DEF DaemonPc
    <3>6. \/ At("d_test", "d_running") \/ At("d_relock", "d_unlock") \/ At("d_unlock", "d_set")
          \/ At("d_while", "d_set") \/ At("d_take", "d_set")
          \/ At("d_while", "d_take") /\ IDEreq_lhdr # <<>>
      BY <2>2, Zenon DEF deamon_test, deamon_while, deamon_relock, deamon_unlock, deamon_take
    <3>. QED  BY <3>4, <3>5, <3>6, Zenon
  <2>. QED  BY <1>2, <2>1, <2>2, TakeInv, CmdInv, Zenon DEF ATArq_deamon
<1>3. CASE ~hung /\ (DiskInterrupt \/ ATA_disk_handler \/ end_request)
  BY <1>3, InterruptInv, HandlerInv, EndInv, Zenon
<1>4. CASE ~hung /\ AtaBoot
  <2>1. PICK b \in {Daemon} \cup Requester :
            /\ state' = [state EXCEPT ![b] = "RUNNING"]
            /\ b # Daemon => state[Daemon] # "NEW"
    BY <1>4, Zenon DEF AtaBoot, wake_up_new_task
  <2>2. UNCHANGED <<done, wpc, wobj, ataVars, apc>>
    BY <1>4, Zenon DEF AtaBoot, completionVars, ataVars
  <2>3. b \in Task
    BY Zenon
  <2>4. /\ \A t \in Task : state'[t] # "DEAD"
        /\ state'[Daemon] # "NEW"
    BY <2>1, <2>3, <1>f, Zenon DEF AtaInv, TasksOK
  <2>5. TasksOK'
    BY <2>2, <2>4, Zenon DEF AtaInv, TasksOK
  <2>. QED  BY <1>4, <2>2, <2>5, StillInv, Zenon
<1>5. CASE ~hung /\ (AtaIrq \/ AtaIdle)
  <2>1. state' = state
    BY <1>5, Zenon DEF AtaIrq, AtaIdle, HPET_handler, quiet_handler, excep_hwint_return, local_irq_enable, rest_init, do_idle,
         rest_init_enable, rest_init_schedule, rest_init_disable, do_idle_poll, schedule_idle, queueVars
  <2>2. UNCHANGED <<ataVars, done, wobj, wpc>>
    BY <1>5, Zenon DEF AtaIrq, AtaIdle, completionVars
  <2>. QED  BY <1>5, <2>1, <2>2, <1>s, <1>k, Zenon
<1>6. CASE UNCHANGED vars
  <2>1. UNCHANGED <<state, done, wpc, wobj, apc, IDEreq_lhdr, req_in_using, count, req_lock, disk, intr, ending, ender, hung>>
    BY <1>6, Zenon DEF vars, schedVars, queueVars, completionVars, ataVars
  <2>. QED  BY <2>1, Zenon DEF AtaInv, AtaTypeOK, RolesOK, TasksOK, DiskOK, TransferOK, InTransfer, Listed, InUse
<1>. QED  BY <1>1, <1>2, <1>3, <1>4, <1>5, <1>6, Zenon DEF AtaNext

-----------------------------------------------------------------------------
(* Theorems *)

\* Requests, the disk and the requesters stay consistent.
THEOREM AtaInvariance == AtaSpec => []AtaInv
<1>1. SchedInit /\ CompletionInit /\ AtaInit => SchedInv /\ CompletionInv /\ AtaInv
  BY InitInv, CompletionInitInv, AtaInitInv, Zenon
<1>2. SchedInv /\ CompletionInv /\ AtaInv /\ [AtaNext]_vars => SchedInv' /\ CompletionInv' /\ AtaInv'
  BY NextInv, AtaBelow, AtaNextInv, Zenon
<1>. QED  BY <1>1, <1>2, PTL DEF AtaSpec

\* The driver uses the scheduler only through its interface: every behaviour of
\* requesters, daemon and interrupt handler is one of Sched.
THEOREM AtaRefinesSched == AtaSpec => SchedSpec
<1>1. SchedInit /\ CompletionInit /\ AtaInit => SchedInit /\ SchedInv /\ CompletionInv /\ AtaInv
  BY InitInv, CompletionInitInv, AtaInitInv, Zenon
<1>2. SchedInv /\ CompletionInv /\ AtaInv /\ [AtaNext]_vars
      => SchedInv' /\ CompletionInv' /\ AtaInv' /\ [SchedNext]_schedVars
  BY NextInv, AtaBelow, AtaNextInv, Zenon
<1>. QED  BY <1>1, <1>2, PTL DEF AtaSpec, SchedSpec

\* A node on the list, or with the disk and not yet completed, belongs to a requester
\* still inside ATA_disk_transfer() that has not been told its transfer is over:
\* neither the daemon nor the handler follows a pointer to a freed node, also when
\* interrupts of a higher priority let tasks run in the middle of end_request().
THEOREM NodesStayAlive == AtaSpec => []NodeAlive
<1>1. AtaInv => NodeAlive
  <2>. SUFFICES ASSUME AtaInv, NEW r \in Range(IDEreq_lhdr) \cup InService
                PROVE  InTransfer(r) /\ done[r] = 0
    BY Zenon DEF NodeAlive
  <2>1. IDEreq_lhdr \in Seq(Requester)
    BY Zenon DEF AtaInv, AtaTypeOK
  <2>2. \A x \in Range(IDEreq_lhdr) : x \in Requester
    BY <2>1 DEF Range
  <2>3. r \in Requester /\ (Listed(r) \/ InUse(r))
    BY <2>2, Zenon DEF AtaInv, AtaTypeOK, Listed, InUse, InService
  <2>. QED  BY <2>3, Zenon DEF AtaInv, TransferOK
<1>. QED  BY <1>1, AtaInvariance, PTL

\* Until end_request() clears req_in_using it names the request that was completed,
\* and neither the daemon nor the disk follows it.
THEOREM EndClearsItsOwn == AtaSpec => []ClearsItsOwn
<1>1. AtaInv => ClearsItsOwn
  BY Zenon DEF AtaInv, DiskOK, ClearsItsOwn
<1>. QED  BY <1>1, AtaInvariance, PTL

\* A request is on the list once or with the disk, never both.
THEOREM RequestsOnce == AtaSpec => []RequestOnce
<1>1. AtaInv => RequestOnce
  <2>. SUFFICES ASSUME AtaInv PROVE RequestOnce
    BY Zenon
  <2>1. IDEreq_lhdr \in Seq(Requester)
    BY Zenon DEF AtaInv, AtaTypeOK
  <2>2. \A x \in Range(IDEreq_lhdr) : x \in Requester
    BY <2>1 DEF Range
  <2>. QED  BY <2>2, Zenon DEF AtaInv, DiskOK, TransferOK, Listed, InUse, InService, RequestOnce
<1>. QED  BY <1>1, AtaInvariance, PTL

\* An interrupt is about the request in req_in_using: the handler follows no NULL.
THEOREM HandlerHasRequest == AtaSpec => []HandlerFindsRequest
<1>1. AtaInv => HandlerFindsRequest
  BY Zenon DEF AtaInv, DiskOK, HandlerFindsRequest
<1>. QED  BY <1>1, AtaInvariance, PTL

\* ATA_disk_transfer() returns with no sector left.
THEOREM TransfersAreWhole == AtaSpec => []AllSectors
<1>1. AtaInv => AllSectors
  BY Zenon DEF AtaInv, TransferOK, AllSectors
<1>. QED  BY <1>1, AtaInvariance, PTL

-----------------------------------------------------------------------------
(* Completions and their takers *)

\* Waiters of x that complete() has woken and that have not looked at done yet.
Takers(x) == Waiters(x) \ Linked(x)

\* The waiters are finitely many because each has called wait_for_completion().
TakersOK(x) ==
    /\ IsFiniteSet(Waiters(x))
    /\ task_list[x] # <<>> => done[x] <= Cardinality(Takers(x)) \/ done[x] = UINT_MAX

TakersInv == \A x \in Completion : TakersOK(x)

LEMMA TakersCount ==
    ASSUME NEW x \in Completion, TakersOK(x)
    PROVE  IsFiniteSet(Takers(x)) /\ Cardinality(Takers(x)) \in Nat
<1>1. IsFiniteSet(Waiters(x)) /\ Takers(x) \in SUBSET Waiters(x)
  BY Zenon DEF TakersOK, Takers
<1>2. IsFiniteSet(Takers(x))
  BY <1>1, FS_Subset, Zenon
<1>. QED  BY <1>2, FS_CardinalityType, Zenon

\* A completion the step does not touch.
LEMMA TakersSame ==
    ASSUME NEW x \in Completion, TakersOK(x), done'[x] = done[x], task_list'[x] = task_list[x],
           Waiters(x)' = Waiters(x)
    PROVE  TakersOK(x)'
BY Zenon DEF TakersOK, Takers, Linked

LEMMA AllSame ==
    ASSUME TakersInv, done' = done, task_list' = task_list, wobj' = wobj
    PROVE  TakersInv'
<1>1. \A x \in Completion : Waiters(x)' = Waiters(x)
  BY Zenon DEF Waiters
<1>. QED  BY <1>1, TakersSame, Zenon DEF TakersInv

\* complete() raises done by one at most and, when somebody is on the list, makes
\* one taker.
LEMMA CompleteTakers ==
    ASSUME CompletionInv, TakersInv, NEW x \in Completion, complete(x), wobj' = wobj
    PROVE  TakersInv'
<1>1. done \in [Completion -> 0..UINT_MAX] /\ task_list \in [Completion -> Seq(Task)]
  BY Zenon DEF CompletionInv, CompletionTypeOK
<1>2. UINT_MAX \in Nat /\ done[x] \in 0..UINT_MAX
  BY <1>1, CompletionAssumption, Zenon
<1>3. done'[x] = IF done[x] # UINT_MAX THEN done[x] + 1 ELSE done[x]
  BY <1>1, Zenon DEF complete
<1>4. \A y \in Completion : Waiters(y)' = Waiters(y)
  BY Zenon DEF Waiters
<1>5. ASSUME NEW y \in Completion, y # x PROVE TakersOK(y)'
  <2>1. done'[y] = done[y] /\ task_list'[y] = task_list[y]
    BY <1>1, <1>5, Zenon DEF complete, swake_up_locked
  <2>. QED  BY <1>4, <2>1, TakersSame, Zenon DEF TakersInv
<1>6. CASE task_list[x] = <<>>
  <2>1. task_list'[x] = <<>>
    BY <1>6, Zenon DEF complete, swake_up_locked
  <2>2. TakersOK(x)'
    BY <1>4, <2>1, Zenon DEF TakersInv, TakersOK
  <2>. QED  BY <1>5, <2>2, Zenon DEF TakersInv
<1>7. CASE task_list[x] # <<>>
  <2>1. PICK t, rest : /\ t = task_list[x][Len(task_list[x])]
                       /\ rest = SubSeq(task_list[x], 1, Len(task_list[x]) - 1)
    BY Zenon
  <2>2. task_list'[x] = rest
    BY <1>1, <1>7, <2>1, Zenon DEF complete, swake_up_locked
  <2>3. t \in Linked(x) /\ Range(rest) = Linked(x) \ {t}
    BY <1>1, <1>7, <2>1, FrontQueue, Zenon DEF Linked, CompletionInv, ListHoldsWaiters
  <2>4. t \in Waiters(x) /\ t \notin Takers(x)
    BY <2>3, Zenon DEF CompletionInv, ListHoldsWaiters, Takers
  <2>5. Takers(x)' = Takers(x) \cup {t}
    <3>1. Linked(x)' = Linked(x) \ {t}
      BY <2>2, <2>3, Zenon DEF Linked
    <3>. QED  BY <1>4, <2>3, <2>4, <3>1, Zenon DEF Takers
  <2>6. IsFiniteSet(Takers(x)) /\ Cardinality(Takers(x)) \in Nat
    BY TakersCount, Zenon DEF TakersInv
  <2>7. Cardinality(Takers(x)') = Cardinality(Takers(x)) + 1
    <3>1. Cardinality(Takers(x) \cup {t}) = Cardinality(Takers(x)) + 1
      BY <2>4, <2>6, FS_AddElement, Zenon
    <3>. QED  BY <2>5, <3>1, Zenon
  <2>8. done[x] <= Cardinality(Takers(x)) \/ done[x] = UINT_MAX
    BY <1>7, Zenon DEF TakersInv, TakersOK
  <2>9. done'[x] <= Cardinality(Takers(x)') \/ done'[x] = UINT_MAX
    BY <1>2, <1>3, <2>6, <2>7, <2>8
  <2>10. TakersOK(x)'
    BY <1>4, <2>9, Zenon DEF TakersInv, TakersOK
  <2>. QED  BY <1>5, <2>10 DEF TakersInv
<1>. QED  BY <1>6, <1>7, Zenon

\* A waiter that goes to sleep finds done = 0; one that returns is a taker no more,
\* and takes one completion with it.
LEMMA WaitTakers ==
    ASSUME CompletionInv, TakersInv, SchedInv, InThread, NEW x \in Completion, WaitSection(x),
           wpc[curr] = "run" \/ wobj[curr] = x
    PROVE  TakersInv'
<1>1. /\ done \in [Completion -> 0..UINT_MAX] /\ task_list \in [Completion -> Seq(Task)]
      /\ wobj \in [Task -> Completion \cup {NoCompletion}] /\ curr \in Task
  BY Zenon DEF CompletionInv, CompletionTypeOK, SchedInv, QueueInv, QueueType
<1>2. UINT_MAX \in Nat /\ done[x] \in 0..UINT_MAX
  BY <1>1, CompletionAssumption, Zenon
<1>3. ASSUME NEW y \in Completion, y # x PROVE curr \notin Waiters(y)
  BY <1>1, <1>3, Zenon DEF CompletionInv, WaiterAlive, Waiters
<1>4. CASE done[x] = 0
  <2>1. prepare_to_swait(x)
    BY <1>4, Zenon DEF WaitSection, do_wait_for_common
  <2>2. done' = done /\ wobj' = [wobj EXCEPT ![curr] = x]
    BY <2>1, Zenon DEF prepare_to_swait
  <2>3. ASSUME NEW y \in Completion, y # x PROVE TakersOK(y)'
    <3>1. task_list'[y] = task_list[y]
      BY <1>1, <2>1, <2>3, Zenon DEF prepare_to_swait
    <3>2. Waiters(y)' = Waiters(y)
      BY <1>1, <1>3, <2>2, <2>3, Zenon DEF Waiters
    <3>. QED  BY <2>2, <3>1, <3>2, TakersSame, Zenon DEF TakersInv
  <2>4. Waiters(x)' = Waiters(x) \cup {curr}
    BY <1>1, <2>2, Zenon DEF Waiters
  <2>5. IsFiniteSet(Waiters(x)')
    BY <2>4, FS_AddElement, Zenon DEF TakersInv, TakersOK
  <2>6. IsFiniteSet(Takers(x)') /\ Cardinality(Takers(x)') \in Nat
    <3>1. Takers(x)' \in SUBSET (Waiters(x)')
      BY Zenon DEF Takers
    <3>2. IsFiniteSet(Takers(x)')
      BY <2>5, <3>1, FS_Subset, Zenon
    <3>. QED  BY <3>2, FS_CardinalityType, Zenon
  <2>7. done'[x] <= Cardinality(Takers(x)')
    BY <1>4, <2>2, <2>6
  <2>8. TakersOK(x)'
    BY <2>5, <2>7, Zenon DEF TakersOK
  <2>. QED  BY <2>3, <2>8, Zenon DEF TakersInv
<1>5. CASE done[x] # 0
  <2>1. take_done(x)
    BY <1>5, Zenon DEF WaitSection, do_wait_for_common
  <2>2. /\ wobj' = [wobj EXCEPT ![curr] = NoCompletion]
        /\ done'[x] = IF done[x] # UINT_MAX THEN done[x] - 1 ELSE done[x]
        /\ task_list'[x] = DeleteNode(task_list[x], curr)
    BY <1>1, <2>1, Zenon DEF take_done
  <2>3. ASSUME NEW y \in Completion, y # x PROVE TakersOK(y)'
    <3>1. done'[y] = done[y] /\ task_list'[y] = task_list[y]
      BY <1>1, <2>1, <2>3, Zenon DEF take_done
    <3>2. Waiters(y)' = Waiters(y)
      BY <1>1, <1>3, <2>2, <2>3, CompletionAssumption, Zenon DEF Waiters
    <3>. QED  BY <3>1, <3>2, TakersSame, Zenon DEF TakersInv
  <2>4. Waiters(x)' = Waiters(x) \ {curr}
    BY <1>1, <2>2, CompletionAssumption, Zenon DEF Waiters
  <2>5. Linked(x)' = Linked(x) \ {curr}
    <3>1. IsInjective(task_list[x]) /\ task_list[x] \in Seq(Task)
      BY <1>1, Zenon DEF CompletionInv, ListHoldsWaiters
    <3>. QED  BY <2>2, <3>1, DeleteNodeQueue DEF Linked
  <2>6. Takers(x)' = Takers(x) \ {curr}
    BY <2>4, <2>5, Zenon DEF Takers
  <2>7. IsFiniteSet(Takers(x)) /\ Cardinality(Takers(x)) \in Nat
    BY TakersCount, Zenon DEF TakersInv
  <2>8. Cardinality(Takers(x)') \in {Cardinality(Takers(x)), Cardinality(Takers(x)) - 1}
    <3>1. Cardinality(Takers(x) \ {curr})
          = IF curr \in Takers(x) THEN Cardinality(Takers(x)) - 1 ELSE Cardinality(Takers(x))
      BY <2>7, FS_RemoveElement, Zenon
    <3>2. Cardinality(Takers(x)') = Cardinality(Takers(x) \ {curr})
      BY <2>6, Zenon
    <3>. QED  BY <3>1, <3>2, Zenon
  <2>9. IsFiniteSet(Waiters(x)')
    BY <2>4, FS_RemoveElement DEF TakersInv, TakersOK
  <2>10. task_list[x] = <<>> => task_list'[x] = <<>>
    BY <2>2 DEF DeleteNode, Range
  <2>11. task_list'[x] # <<>> => done'[x] <= Cardinality(Takers(x)') \/ done'[x] = UINT_MAX
    <3>1. SUFFICES ASSUME task_list'[x] # <<>>
                   PROVE  done'[x] <= Cardinality(Takers(x)') \/ done'[x] = UINT_MAX
      BY Zenon
    <3>2. done[x] <= Cardinality(Takers(x)) \/ done[x] = UINT_MAX
      BY <2>10, <3>1, Zenon DEF TakersInv, TakersOK
    <3>. QED  BY <1>2, <2>2, <2>7, <2>8, <3>2
  <2>12. TakersOK(x)'
    BY <2>9, <2>11, Zenon DEF TakersOK
  <2>. QED  BY <2>3, <2>12 DEF TakersInv
<1>. QED  BY <1>4, <1>5, Zenon

LEMMA TakersInit == SchedInit /\ CompletionInit => TakersInv
<1>. SUFFICES ASSUME CompletionInit, NEW x \in Completion PROVE TakersOK(x)
  BY Zenon DEF TakersInv
<1>1. Waiters(x) = {}
  BY CompletionAssumption, Zenon DEF CompletionInit, Waiters
<1>2. task_list[x] = <<>>
  BY Zenon DEF CompletionInit
<1>. QED  BY <1>1, <1>2, FS_EmptySet, Zenon DEF TakersOK

LEMMA TakersNext ==
    ASSUME SchedInv, CompletionInv, TakersInv, [CompletionNext]_<<schedVars, completionVars>>
    PROVE  TakersInv'
<1>1. ASSUME NEW x \in Completion, wait_for_completion(x) PROVE TakersInv'
  BY <1>1, WaitTakers, Zenon DEF wait_for_completion, Waiting
<1>2. ASSUME NEW x \in Completion, complete_in_task(x) PROVE TakersInv'
  BY <1>2, CompleteTakers, Zenon DEF complete_in_task
<1>3. ASSUME NEW x \in Completion, complete_in_irq(x) PROVE TakersInv'
  BY <1>3, CompleteTakers, Zenon DEF complete_in_irq
<1>4. CASE schedule_timeout
  BY <1>4, AllSame, Zenon DEF schedule_timeout
<1>5. CASE wait_again
  <2>1. wobj[curr] \in Completion
    BY <1>5, Zenon DEF wait_again, Waiting, CompletionInv, WaiterAlive, SchedInv, QueueInv, QueueType
  <2>. QED  BY <1>5, <2>1, WaitTakers, Zenon DEF wait_again, Waiting
<1>6. CASE UNCHANGED completionVars
  BY <1>6, AllSame, Zenon DEF completionVars
<1>. QED  BY <1>1, <1>2, <1>3, <1>4, <1>5, <1>6, Zenon
          DEF CompletionNext, CompletionStep, OtherThreadStep, Background

\* Nobody sleeps through a completion: while somebody is on the list, every
\* complete() not taken yet has woken a waiter that is on its way, for any number of
\* tasks and completions, up to the saturation of done.
THEOREM CompletionsAreTaken == CompletionSpec => []CompletionsHaveTakers
<1>1. SchedInit /\ CompletionInit => SchedInv /\ CompletionInv /\ TakersInv
  BY InitInv, CompletionInitInv, TakersInit, Zenon
<1>2. SchedInv /\ CompletionInv /\ TakersInv /\ [CompletionNext]_<<schedVars, completionVars>>
      => SchedInv' /\ CompletionInv' /\ TakersInv'
  BY NextInv, CompletionNextInv, TakersNext, Zenon
<1>3. TakersInv => CompletionsHaveTakers
  BY Zenon DEF TakersInv, TakersOK, Takers, CompletionsHaveTakers
<1>. QED  BY <1>1, <1>2, <1>3, PTL DEF CompletionSpec
=============================================================================
