-------------------------------- MODULE Ata --------------------------------
(***************************************************************************)
(* Disk transfers: ATA_disk_transfer(), the request list, the ATArqd       *)
(* daemon and the disk's interrupt handler (ide.c).  Handlers run with      *)
(* interrupts on.  The vectors of the timer and of the disk (0x22, 0x2e)    *)
(* are in one priority class: neither comes before the handler is           *)
(* acknowledged.  Those of NVMe and XHCI (0x30 to 0x32) are in a higher     *)
(* one: they interrupt the handler, and return through schedule().          *)
(***************************************************************************)
EXTENDS Completion

CONSTANTS
    Daemon,         \* the ATArqd thread
    Requester,      \* tasks that call ATA_disk_transfer(); each names its node
    NoTask,         \* no node, no holder
    MaxSectors      \* bound: sectors of one transfer

ASSUME AtaAssumption ==
    /\ Daemon \in Task \ {Idle} /\ Requester \subseteq Task \ {Idle, Daemon}
    /\ Requester = Completion /\ UINT_MAX > 1
    /\ NoTask \notin Task
    /\ MaxSectors \in Nat \ {0}

VARIABLES
    apc,            \* the place of each task in its code
    IDEreq_lhdr,    \* the request list, head first
    req_in_using,   \* the request given to the disk
    count,          \* blkbuf_node_s.count
    req_lock,       \* who holds it
    disk,           \* the request whose sectors the disk transfers
    intr,           \* its interrupt is pending
    ending,         \* the request end_request() has completed, not yet cleared
    ender,          \* ... on whose stack, in which interrupt frame
    hung            \* the handler spins on a lock its own CPU holds

ataVars == <<apc, IDEreq_lhdr, req_in_using, count, req_lock, disk, intr, ending, ender, hung>>

\* "d_": ATArq_deamon(); "r_": ATA_disk_transfer(), "r_start" before the call.
\* req_lock is held at "r_add", "d_take" and "d_unlock".
AtaPc ==
    {"d_set", "d_test", "d_running", "d_while", "d_take", "d_cmd", "d_relock", "d_unlock",
     "r_start", "r_add", "r_wake", "r_wait", "r_free", "none"}

AtaInit ==
    /\ apc = [t \in Task |-> CASE t = Daemon -> "d_set"
                               [] t \in Requester -> "r_start"
                               [] OTHER -> "none"]
    /\ IDEreq_lhdr = <<>>
    /\ req_in_using = NoTask
    /\ count = [r \in Requester |-> 0]
    /\ req_lock = NoTask
    /\ disk = NoTask /\ intr = FALSE
    /\ ending = NoTask /\ ender = <<Idle, 0>>
    /\ hung = FALSE

\* The current task is at p and goes to q.
At(p, q) == InThread /\ wpc[curr] = "run" /\ apc[curr] = p /\ apc' = [apc EXCEPT ![curr] = q]

\* spin_lock(&req_lock) and spin_unlock(&req_lock) in a task.
LockReq == req_lock = NoTask /\ preempt_disable /\ req_lock' = curr
UnlockReq == preempt_enable /\ req_lock' = NoTask

-----------------------------------------------------------------------------
(* ATA_disk_transfer() *)

\* IDE_make_request(), then spin_lock().  ATA_INFO_CMD is called with a count of 0
\* (myos_libata.c:411), reads and writes with the number of sectors.
transfer_make ==
    /\ At("r_start", "r_add")
    /\ \E n \in 0..MaxSectors : count' = [count EXCEPT ![curr] = n]
    /\ LockReq
    /\ UNCHANGED <<completionVars, IDEreq_lhdr, req_in_using, disk, intr, ending, ender, hung>>

transfer_add ==
    /\ At("r_add", "r_wake")
    /\ IDEreq_lhdr' = Append(IDEreq_lhdr, curr)
    /\ UnlockReq
    /\ UNCHANGED <<completionVars, req_in_using, count, disk, intr, ending, ender, hung>>

\* Mutant: sets the state of the daemon instead of calling wake_up_process().
transfer_wake_raw ==
    /\ At("r_wake", "r_wait")
    /\ state' = [state EXCEPT ![Daemon] = "RUNNING"]
    /\ UNCHANGED <<curr, runq, vruntime, used, cpuVars, completionVars,
                   IDEreq_lhdr, req_in_using, count, req_lock, disk, intr, ending, ender, hung>>

transfer_wake ==
    /\ At("r_wake", "r_wait")
    /\ wake_up_process(Daemon)
    /\ UNCHANGED <<completionVars, IDEreq_lhdr, req_in_using, count, req_lock, disk, intr, ending, ender, hung>>

transfer_wait ==
    /\ At("r_wait", "r_free")
    /\ wait_for_completion(curr)
    /\ UNCHANGED <<IDEreq_lhdr, req_in_using, count, req_lock, disk, intr, ending, ender, hung>>

transfer_waiting ==
    /\ schedule_timeout \/ wait_again
    /\ UNCHANGED ataVars

\* kfree(node), then the caller may start another transfer.
transfer_free ==
    /\ At("r_free", "r_start")
    /\ UNCHANGED <<schedVars, completionVars, IDEreq_lhdr, req_in_using, count, req_lock, disk, intr, ending, ender, hung>>

ATA_disk_transfer ==
    \/ transfer_make \/ transfer_add \/ transfer_wake
    \/ transfer_wait \/ transfer_waiting \/ transfer_free

-----------------------------------------------------------------------------
(* ATArq_deamon() *)

deamon_set ==
    /\ At("d_set", "d_test")
    /\ set_current_state("INTERRUPTIBLE") /\ irq_on' = irq_on
    /\ UNCHANGED <<completionVars, IDEreq_lhdr, req_in_using, count, req_lock, disk, intr, ending, ender, hung>>

\* if (IDEreq_lhdr.count == 0) schedule();
deamon_test ==
    /\ At("d_test", "d_running")
    /\ IF IDEreq_lhdr = <<>> THEN schedule ELSE UNCHANGED schedVars
    /\ UNCHANGED <<completionVars, IDEreq_lhdr, req_in_using, count, req_lock, disk, intr, ending, ender, hung>>

deamon_running ==
    /\ At("d_running", "d_while")
    /\ set_current_state("RUNNING") /\ irq_on' = irq_on
    /\ UNCHANGED <<completionVars, IDEreq_lhdr, req_in_using, count, req_lock, disk, intr, ending, ender, hung>>

\* while (IDEreq_lhdr.count != 0) { spin_lock(&req_lock); ... break; }
deamon_while ==
    /\ IF IDEreq_lhdr # <<>>
       THEN At("d_while", "d_take") /\ LockReq
       ELSE At("d_while", "d_set") /\ UNCHANGED <<schedVars, req_lock>>
    /\ UNCHANGED <<completionVars, IDEreq_lhdr, req_in_using, count, disk, intr, ending, ender, hung>>

\* Mutant: the disk is given a request whatever it is doing.
deamon_take_busy ==
    /\ At("d_take", "d_cmd")
    /\ req_in_using' = IDEreq_lhdr[Len(IDEreq_lhdr)]
    /\ IDEreq_lhdr' = SubSeq(IDEreq_lhdr, 1, Len(IDEreq_lhdr) - 1)
    /\ UnlockReq
    /\ UNCHANGED <<completionVars, count, disk, intr, ending, ender, hung>>

\* Mutant: the request stays on the list.
deamon_take_keep ==
    /\ IF req_in_using = NoTask
       THEN At("d_take", "d_cmd") /\ req_in_using' = IDEreq_lhdr[Len(IDEreq_lhdr)]
       ELSE At("d_take", "d_set") /\ UNCHANGED req_in_using
    /\ UnlockReq
    /\ UNCHANGED <<completionVars, IDEreq_lhdr, count, disk, intr, ending, ender, hung>>

\* list_header_remove_tail() if the disk is free; spin_unlock() either way.
deamon_take ==
    /\ IF req_in_using = NoTask
       THEN /\ At("d_take", "d_cmd")
            /\ req_in_using' = IDEreq_lhdr[Len(IDEreq_lhdr)]
            /\ IDEreq_lhdr' = SubSeq(IDEreq_lhdr, 1, Len(IDEreq_lhdr) - 1)
       ELSE At("d_take", "d_set") /\ UNCHANGED <<req_in_using, IDEreq_lhdr>>
    /\ UnlockReq
    /\ UNCHANGED <<completionVars, count, disk, intr, ending, ender, hung>>

IDE_cmd_out ==
    /\ At("d_cmd", "d_relock")
    /\ disk' = req_in_using
    /\ UNCHANGED <<schedVars, completionVars, IDEreq_lhdr, req_in_using, count, req_lock, intr, ending, ender, hung>>

deamon_relock ==
    /\ At("d_relock", "d_unlock")
    /\ LockReq
    /\ UNCHANGED <<completionVars, IDEreq_lhdr, req_in_using, count, disk, intr, ending, ender, hung>>

deamon_unlock ==
    /\ At("d_unlock", "d_set")
    /\ UnlockReq
    /\ UNCHANGED <<completionVars, IDEreq_lhdr, req_in_using, count, disk, intr, ending, ender, hung>>

ATArq_deamon ==
    \/ deamon_set \/ deamon_test \/ deamon_running \/ deamon_while
    \/ deamon_take \/ IDE_cmd_out \/ deamon_relock \/ deamon_unlock

-----------------------------------------------------------------------------
(* The disk and its interrupt *)

\* A sector has been transferred, or the drive has answered ATA_INFO_CMD.
DiskInterrupt ==
    /\ disk # NoTask /\ ~intr
    /\ intr' = TRUE
    /\ UNCHANGED <<schedVars, completionVars, apc, IDEreq_lhdr, req_in_using, count, req_lock, disk, ending, ender, hung>>

\* Mutant: the request ends with its first sector.
LastSector_first(n) == TRUE

\* node->count after end_handler(): IDE_read_handler() and IDE_write_handler() lower
\* it by one, on an error as well, IDE_other_handler() leaves its 0 alone.
SectorsLeft(n) == IF n = 0 THEN 0 ELSE n - 1

LastSector(n) == SectorsLeft(n) = 0

\* ATA_disk_handler(): end_handler(), and end_request() up to its complete().  A
\* switch before complete() could only delay the handler, so it is one step.
ATA_disk_handler ==
    /\ intr /\ intr' = FALSE /\ ending = NoTask
    /\ count' = [count EXCEPT ![req_in_using] = SectorsLeft(@)]
    /\ IF LastSector(count[req_in_using])
       THEN /\ complete_in_irq(req_in_using)
            /\ disk' = NoTask
            /\ ending' = req_in_using /\ ender' = <<curr, irqs[curr] + 1>>
       ELSE quiet_handler /\ UNCHANGED <<completionVars, disk, ending, ender>>
    /\ UNCHANGED <<apc, IDEreq_lhdr, req_in_using, req_lock, hung>>

\* The frame on top of the stack is that of the handler, after complete().
InEndRequest == ending # NoTask /\ ender = <<curr, irqs[curr]>>

\* Mutant: req_in_using keeps the name of the request.
end_request_keep ==
    /\ InEndRequest
    /\ ending' = NoTask /\ ender' = <<Idle, 0>>
    /\ UNCHANGED <<schedVars, completionVars, apc, IDEreq_lhdr, req_in_using, count, req_lock, disk, intr, hung>>

\* The rest of end_request(): it spins until req_lock is free.
end_request ==
    /\ InEndRequest
    /\ IF req_lock = NoTask
       THEN req_in_using' = NoTask /\ ending' = NoTask /\ ender' = <<Idle, 0>> /\ UNCHANGED hung
       ELSE hung' = TRUE /\ UNCHANGED <<req_in_using, ending, ender>>
    /\ UNCHANGED <<schedVars, completionVars, apc, IDEreq_lhdr, count, req_lock, disk, intr>>

-----------------------------------------------------------------------------
\* kernel_init() creates the daemon and starts the requesters.
AtaBoot ==
    /\ curr = Idle
    /\ \E t \in {Daemon} \cup Requester :
           wake_up_new_task(t) /\ (t # Daemon => state[Daemon] # "NEW")
    /\ UNCHANGED <<completionVars, ataVars>>

\* The other interrupts: the timer's not below the disk's handler, those of NVMe and
\* XHCI (quiet_handler) at any time; each returns, the disk's once it is over.
AtaIrq ==
    /\ \/ HPET_handler /\ ending = NoTask
       \/ quiet_handler
       \/ excep_hwint_return /\ ~InEndRequest
       \/ local_irq_enable
    /\ UNCHANGED <<completionVars, ataVars>>

AtaIdle == (rest_init \/ do_idle) /\ UNCHANGED <<completionVars, ataVars>>

\* Once the handler spins nothing else happens: it interrupted the holder of the
\* lock, and with preemption off no interrupt switches back to it.
AtaNext ==
    /\ ~hung
    /\ \/ ATA_disk_transfer \/ ATArq_deamon
       \/ DiskInterrupt \/ ATA_disk_handler \/ end_request
       \/ AtaBoot \/ AtaIrq \/ AtaIdle

vars == <<schedVars, completionVars, ataVars>>

AtaSpec == SchedInit /\ CompletionInit /\ AtaInit /\ [][AtaNext]_vars

\* The scheduler's fairness, the disk answers, and code that has the CPU makes
\* progress between interrupts.
Tick == AtaIrq /\ HPET_handler /\ preempt_count = 0
Return == AtaIrq /\ excep_hwint_return

AtaFairness ==
    /\ SF_vars(Tick /\ ~hung) /\ SF_vars(Return /\ ~hung)
    /\ SF_vars(AtaIrq /\ local_irq_enable /\ ~hung)
    /\ WF_vars(DiskInterrupt /\ ~hung) /\ SF_vars(ATA_disk_handler /\ ~hung)
    /\ SF_vars(end_request /\ ~hung)
    /\ SF_vars(ATA_disk_transfer /\ ~hung) /\ SF_vars(ATArq_deamon /\ ~hung)
    /\ SF_vars(AtaIdle /\ ~hung)

FairAtaSpec == AtaSpec /\ AtaFairness

-----------------------------------------------------------------------------
(* Properties *)

\* Type correctness; a request never has more sectors left than it had.
AtaTypeOK ==
    /\ apc \in [Task -> AtaPc]
    /\ IDEreq_lhdr \in Seq(Requester)
    /\ req_in_using \in Requester \cup {NoTask}
    /\ count \in [Requester -> 0..MaxSectors]
    /\ req_lock \in Task \cup {NoTask}
    /\ disk \in Requester \cup {NoTask}
    /\ intr \in BOOLEAN /\ hung \in BOOLEAN
    /\ ending \in Requester \cup {NoTask} /\ ender \in Task \X Nat

\* The requester is inside ATA_disk_transfer() between queueing and kfree(), and
\* has not been told that the transfer is over.
InTransfer(r) == apc[r] \in {"r_wake", "r_wait"} \/ (apc[r] = "r_free" /\ wpc[r] # "run")

\* The request that the daemon sends to the disk, and that the handler then works
\* on; once complete() is called req_in_using is only compared with NULL.
InService == IF ending = NoTask THEN {req_in_using} \ {NoTask} ELSE {}

\* The daemon and the handler follow a pointer to a node only while its owner waits:
\* node and completion are gone once ATA_disk_transfer() returns.
NodeAlive ==
    \A r \in Range(IDEreq_lhdr) \cup InService : InTransfer(r) /\ done[r] = 0

\* A request is queued or with the disk, not both, and queued once.
RequestOnce ==
    /\ IsInjective(IDEreq_lhdr)
    /\ InService \cap Range(IDEreq_lhdr) = {}

\* end_request() tells the owner before it clears req_in_using, and tasks may run in
\* between.  Whatever they do, the pointer it clears is the one to the request it
\* has completed, and it is followed by nobody until then: the daemon takes no
\* other request and the disk works for none.
ClearsItsOwn ==
    ending # NoTask => req_in_using = ending /\ disk = NoTask /\ apc[Daemon] # "d_cmd"

\* An interrupt finds the request it is about in req_in_using, never NULL.
HandlerFindsRequest == intr => req_in_using = disk /\ disk # NoTask

\* A transfer returns only after an interrupt for each of its sectors: all have been
\* transferred, or the disk has reported an error for them.
AllSectors == \A r \in Requester : apc[r] = "r_free" /\ wpc[r] = "run" => count[r] = 0

\* "Data also used in hardirq context on this CPU: spin_lock_irqsave": the
\* handler never spins on a lock that the task it has interrupted holds.
NoSelfDeadlock == ~hung

\* set_current_state() in a wait loop loses no wake-up ("our @cond test will save
\* the day"): a queued transfer returns, unless the CPU hangs.
TransferReturns == \A r \in Requester : (apc[r] = "r_wait") ~> (apc[r] = "r_start" \/ hung)
=============================================================================
