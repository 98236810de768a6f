# MyOS2 in TLA+

A TLA+ model of the kernel in `src/mykernel`: TLC model-checks it on small
instances and TLAPS proves part of it for every instance. MyOS2 is an x86-64
kernel written after Linux. Interrupts, preemptible kernel threads and a few
daemons share data through spinlocks, completions and counted lists. It
schedules on one CPU: every wake-up and every fork puts the task on the run
queue of CPU 0. Paths below are relative to `src/mykernel`.

## The system

| Part | Code | State | Hard behaviour | Module |
|---|---|---|---|---|
| Scheduler | `sched/scheduler`, `sched/misc/idle.c`, `arch/x86_64/myos/interrupt.c` | run list, task states, vruntime, preemption count, interrupt frames | every interrupt may switch tasks on its return; a task preempted while it prepares to sleep | Sched |
| Completion | `kactive/completion.c`, `swait.c` | done count, wait list on the stacks of the waiters | wake-up against sleep, spurious wake-ups, saturation | Completion |
| Kernel threads | `sched/forkexec/kthread.c` | request list, request on the heap, completion on the stack | three parties share a request that one of them frees | Kthread |
| devtmpfs | `drivers/base/devtmpfs.c` | request list, detached batch, heap requests | the daemon frees what the submitter reads; the daemon is itself a new thread | Devtmpfs |
| ATA daemon | `arch/x86_64/myos/ide.c` | request list, `req_in_using`, `req_lock` | lock shared with an interrupt handler that is itself interrupted, several interrupts per request | Ata |
| Spinlock | `arch/x86_64/lock_IPC/spinlock`, `lock_IPC/spinlock` | two wrapping counters | wrap-around, order, interrupts of the holder | TicketLock, LockedList |
| Lists | `lib/list/double_list.h` | pointers and a count | several stores per operation | DoubleList, LockedList |
| Boot memory | `mm/early/memblock.c` | sorted arrays of regions | merging and splitting at equal bounds, wrapping sizes, partial pages | Memblock, BootMem |
| Page allocator | `mm/page_alloc` | free lists per zone and order, page metadata | splitting, merging, stale metadata, exhaustion | Buddy, BootMem |
| Slab allocator | `mm/kmalloc` | slabs, partial and full list | a slab is discarded outside the lock | Slub, Kmalloc |
| Page faults | `mm/fault`, `mm/vm_map/filemap.c`, `dup_mmap()` | page tables, TLB, page counts, page cache | copy on write after fork | Cow |
| Fork and exit, pids | `sched/forkexec`, `sched/task/pid.c`, `lib/idr` | tasks, shared counted structures, pid map | undoing of partial copies, unlocked counts | Process |

Interactions: interrupt handlers call `complete()`. `complete()` calls
`wake_up_process()`, which edits the run list. Daemons sleep with
`set_current_state()` and `schedule()`. Kernel threads are made by a daemon that
answers through a completion. Run list, wait lists, request lists, slab lists and
free lists are all the same counted list. memblock feeds the page allocator, which
feeds the slab allocator.

`PROJECT.json` lists every part of the kernel with its status, and the hazards of
the code at the lines where they bite.

## Modules

    Sched                scheduler                    SchedProofs
     +- Completion       completions                  SchedProofs, AtaProofs
         +- Kthread      kthreadd, thread creation    KthreadProofs
         |   +- Devtmpfs devtmpfs, its thread made    KthreadProofs
         |               by Kthread
         +- Ata          ATA requests, daemon and     AtaProofs
                         interrupt handler
    TicketLock           spinlock                     LockedListProofs
     implements FifoLock
    DoubleList           counted list, one memory     ListProofs
                         access per step
     implements Deque
    LockedList           DoubleList + TicketLock      LockedListProofs
    Memblock             boot memory
    Buddy                page allocator               BuddyProofs
     implements PageAlloc
    BootMem              Memblock + Buddy: hand-over and what follows
    Slub                 one cache, on PageAlloc      SlubProofs
     +- Kmalloc          the choice of a cache
    Process              fork, exit, pids             ProcessProofs
    Cow                  user memory

An MC module gives the constants of each their values; a `.cfg` is one run.

**Sched.** `runq` is `rq->myos.running_lhdr`, `used` is `jiffies -
last_jiffies`; `irqs` counts interrupt frames per kernel stack, `frame` is the
caller of `__schedule()` a switched-out task will return to, and `idle_pc` is the
place of the boot/idle task. Actions have the names of the functions. What a task
does between calls is open: any task may make any call that its context allows.
`pick_next_task_myos()` compares the run time of the current task with the first
entry only, since the loop never advances `tmp_rt`: the task goes to the front or
to the end.

**Completion** extends Sched with `done` and `task_list` per completion and the
place of each waiter. A section under the lock, which also masks interrupts, is
one step; the sleep between two sections is a scheduler step.

**Kthread**, **Devtmpfs** and **Ata** extend Completion with a program counter per
task. Each window that preemption or an interrupt can hit is a step boundary:
between `set_current_state` and the test of the list, between the test and the
lock, between the release of the lock and the use of what was taken. Devtmpfs is
composed with Kthread: `devtmpfs_init()` is a creator, its thread is the child that
kthreadd makes, and creation can fail. A `req_s` that is allocated again under a
submitter that has not returned sets `broken`, and nothing is claimed after that. The disk
is external: it raises one interrupt per sector after a command, and one for a command
without data. `end_request()` calls `complete()` and clears `req_in_using` after that.
Handlers run with interrupts on (`entry_64.S:320`), and NVMe and XHCI have vectors of a
higher priority class (0x30 to 0x32) than the disk and the timer (0x22, 0x2e, 0x2f), which
wait until the handler is acknowledged. So another interrupt may come between the two
halves of `end_request()` and switch tasks on its return: `ending` is the request whose
handler is between them, `ender` the stack and frame of that handler. Everything else may
happen meanwhile, and it does: the owner frees the node, and queues another. A handler
that spins on a held lock sets `hung` and nothing follows.

**TicketLock.** The counters are modulo `M` (2^32 in the code), the draw of a
ticket is one step, the spin another.

**DoubleList.** Contexts run the list functions one load or store at a time. An
endless validity loop of the code is the place "spin". Deque is what all other
modules use for lists: a sequence, changed in one step. **LockedList** justifies
that: tasks of several processors and the interrupt handlers above them take the
ticket lock with interrupts masked, do one list operation and release it. For
lists edited without such a lock (the run list in `set_task_cpu()`, the free
lists in `__rmqueue_smallest()`) the sequence is an idealisation.

**Memblock.** The arrays of regions are sequences, addresses and sizes wrap at
`PhysMax`. `setup_arch()` reserves, adds the E820 RAM entries and trims;
then early code allocates. The index arithmetic of the merge (`idx - 1` at 0, the
pair that is skipped) and of the trim (the region skipped after a removal) is kept.
`ram`, `taken` and `given` remember what was asked for.

**Buddy.** Pages are frame numbers. `page_type` is kept as the set of its bits,
because whether blocks merge depends on their initial value. The loops have
closed forms: the order of a boot chunk is the largest that alignment and range
allow, `expand()` lists one upper half per order, the merge climbs to the first
order without a free buddy. What the zone loop reads past its array is
undefined, so `alloc_exhausted` chooses between NULL and a wild access, after
which nothing is claimed. Callers free what they hold: with the order read back
from the page for compound blocks and single pages, with the order they asked
for otherwise. `BuddySpec` is the allocator on any memory map: `boot_ranges` hands it
any set of disjoint ranges once, and `memblock_free_pages` then cuts them up.
**BootMem** runs memblock first and hands its free ranges to Buddy; its property
`HandsOverFreePages` says that this happens once and with ranges as BuddySpec expects
them, so that what is proved of BuddySpec applies.

**Slub.** One cache. `list_lock` makes each locked section a step; the page
allocator is called between the sections, and may have nothing. `slab_free()`
discards a slab that is empty *or* whose partial list is long. The model
follows it, and stops (`broken`) once a slab in use has gone back. **Kmalloc**
adds the choice of a cache and of a slab order, operators on the real tables.

**Process.** `copy_process()` is one step per copy that can fail, with the goto
labels as places; `fs->users++`, whose lock is commented out, is a load and a store.
`alloc_pid()` takes a number in one locked section, with NULL stored for it, and
stores the task in a second. After a lost update, and after the null pointer in
`exit_notify()`, the model stops.

**Cow.** Each address space has an anonymous and a private file page; a page holds
one word. The processor (external) translates through the TLB first. `allocated` are the
pages that `folio_alloc()` has given out. None comes back: `folio_put()` calls
`__folio_put()` at 0, whose body is commented out, so the page is leaked and its count may
fall further.

## Runs

Passing:

| Run | Shows |
|---|---|
| `sched_safety` | the run queue holds exactly the runnable tasks that are not running, each once; a successor always exists; preemption counts balance; a dead task stays off; a sleeper leaves |
| `completion` | no wake-up is lost, wait nodes are on the list only while their stack frame lives, counted completions have takers; the scheduler's specification still holds |
| `devtmpfs` | thread creation: a request is in one place, lives while used, is answered with a result, and the thread stays stopped until woken; device nodes: a request is neither lost nor handled twice, and never waits for a sleeping daemon |
| `ata` | a request is alive while a pointer to it is followed, in one place, complete only after all sectors; the handler always finds its request, and clears `req_in_using` while it still names that one; the scheduler's specification still holds |
| `locked_list` | exclusion, FIFO (refinement of FifoLock), no starvation across wrap-around; below the lock the ring is closed in both directions, no validity loop spins, and the list is a Deque |
| `boot_mem` | memblock reports exactly the free RAM and its allocations are disjoint; the hand-over gives whole free pages, all of them; frames are then conserved, zones and orders respected, PageAlloc implemented; boot cuts each range it is given coarsely |
| `slub` | freelists are exact, until a slab is discarded in use no slab and no object is lost, every size gets the smallest cache that fits |
| `process` | files and fs are counted exactly through every failure of `copy_process()` and through `do_exit()` |

Violations, each of a sentence in the repository (quoted in `PROJECT.json`):

| Run | The code does |
|---|---|
| `kthread_lost` | kthreadd, preempted between `set_current_state` and its test, sleeps with a request queued |
| `memblock_overlap` | a range that starts inside a region is inserted with a size below zero: reserved memory becomes free |
| `memblock_merge` | a region inserted below its neighbour is not merged with it: the merge stops one pair short, and does nothing at index 0 |
| `cow` | after fork and one write the shared page has count 0 while the other process still maps it |

`NoRequestStranded` is the counterpart of `kthread_lost`: the devtmpfs daemon sets
its state below the lock, and does not have kthreadd's window.

### Deviations without a run of their own

The modules state these as well. TLC violates each when it is checked with the
configuration of its module, or with the one named.

| Definition | The code does |
|---|---|
| `Sched!NoStarvation` | with `CpuBoundSpec` of MCSched and no symmetry: of three computing tasks one is queued behind idle for ever (`myos_rt.c:37`; with two tasks the property holds) |
| `DoubleList!NoSpin` | under `ListSpec` with one task, one handler above it and two nodes, without the lock: a nested wake-up finds the run list half edited and spins (`scheduler_core.c:86`) |
| `Ata!NoSelfDeadlock` | `end_request()` spins on `req_lock` held by the task it interrupted |
| `Ata!TransferReturns` | (with `FairAtaSpec`, one requester, one sector, `MaxNest` 1 and no symmetry) the ATA daemon has the window of kthreadd |
| `Completion!FifoWakeup` | `swake_up_locked()` wakes the last waiter first |
| `Devtmpfs!RequestOutlivesUse` | the daemon frees a request whose `err` the submitter has still to read |
| `Buddy!Coalesced` | freed buddies are never merged: `page_type` starts at 0, so `PageBuddy()` is false for every page |
| `Buddy!PageOrNull` | with all zones exhausted the zone loop leaves its array |
| `Buddy!FreeUnreferenced` | a freed page keeps its reference count |
| `Buddy!ZeroedOnRequest` | `__GFP_ZERO` clears the first page of a block only (needs a zeroed request of order 1) |
| `Buddy!PreppedClean` | the order kept in the flags of a second page survives the free |
| `Slub!DiscardsEmpty` | a slab with live objects is discarded when the partial list is long |
| `Process!NoLostUpdate` | two updates of `fs->users` overlap |
| `Process!PidUnique` | a number whose slot holds NULL is taken for free, and given out twice |
| `Process!SighandAlive` | each failed fork lowers the count of the shared sighand |
| `Process!AdoptsChildren` | `exit_notify()` of a task with children follows a null pointer |
| `Cow!CacheCounted` | `do_cow_fault()` puts a page-cache page it did not get: the cache keeps a page with count 0 |
| `Cow!WritesIsolated` | `dup_mmap()` leaves writable translations of the parent in the TLB |

`Kthread!TakenIsAnswered` (a request kthreadd took is answered) holds under
`FairKthreadSpec` with one creator and one thread.

`Coalesced` and `PagesConserved` belong together. The merge code never takes
the buddy off its list. Frames are conserved only because the merge never
happens; restoring `page_mapcount_reset()` alone breaks `PagesConserved` (this
is its mutant).

`BootCutsCoarsely` is about each range by itself: a range is cut into as few blocks as
possible. Across ranges it fails with `RegionsMinimal`: neighbours reported in descending
order stay two regions, and two buddies at their border stay two blocks. The tables of
`boot_mem` have such a pair, and the other properties do not depend on the merge.

### Bounds

* Tasks: idle and two or three more. Each hazard of the scheduler needs a task
  that leaves, one that is woken and one that runs. Tasks are symmetric in the
  safety runs where they have the same role; liveness runs use no symmetry.
* `MaxJiffies` saturates the tick counters. A saturated value stands for any
  larger one, and a comparison of two saturated values may go either way.
  `MaxNest` bounds interrupt frames per stack. It is 2 in `ata`, where a device of the
  higher class interrupts the disk's handler; `NestedInHandler` keeps second frames to
  that case (without it TLC finds no error either, in 14.5 million states). Elsewhere
  handlers are one step, and nesting comes from preempted interrupt returns.
* `UINT_MAX` is 2, so that saturation of `done` is reached.
* Devtmpfs: kthreadd, two creators that become submitters, one thread; two
  requests, so that one is queued while the other is handled. `CreationFirst` keeps
  the two phases apart: nodes are requested once every creator has its thread or its
  error. Requests of both kinds share nothing but the scheduler.
* ATA: two requesters, up to two sectors: the second request is queued while the first
  is in service, and an owner is back with another before the handler is over.
* LockedList: two tasks on two processors and a handler above one of them, four
  ticket values (the counters wrap several times), three nodes.
* BootMem: eight pages of two bytes, so that partial pages occur. The reserve
  sequences and E820 tables hold gaps, neighbours in both orders, odd ends, a descending
  table and slivers smaller than a page. Two early allocations; then orders 0 to 2 in two
  zones, at most four blocks held: enough to split twice, exhaust a zone and fall
  back to the next. Zone borders are multiples of the largest block, as 16 MB and
  4 GB are of 4 MB. Frame 0 is reserved (`setup.c:143`).
* Slub: four frames, slabs of one frame and two objects, `MinPartial` 2, large
  blocks of two frames, two tasks.
* Process: init, kthreadd, idle and three more tasks; a pid map of four numbers, so
  that the cyclic search wraps and fails.
* Cow: two address spaces, three pages, two words.

### Deadlock

`CHECK_DEADLOCK FALSE` is set where the system, or what is claimed of it, may
really stop: `devtmpfs` (`devtmpfs_init()` loops for ever when creation fails;
broken memory), `ata` (a hung handler), the boot runs (a failed `BUG_ON`, a
wild access), `slub` and `process` (after the deviation they stop at) and `cow` (no page
is left).
`locked_list` checks for deadlock. If `spin_lock_irqsave()` did not mask
interrupts, TLC would report one there: the handler spins on the task below it.

### Fairness

Liveness assumes that the timer keeps ticking, that handlers return, and that
the code of the running task and of the idle loop goes on between interrupts.
For these actions fairness is strong: an interrupt or a switch disables a task's
next step again and again, and the code continues where it was. The lock
assumes weak fairness of a spinning context that may enter and of the holder: both
run with preemption off, and no handler runs on top of them. `FairAtaSpec` adds weak
fairness of the disk's interrupt; no run uses it. Nothing assumes that a task makes a request or that a
wake-up arrives.

## Proofs

* **SchedProofs**: first the lemmas on queues that all the proofs use: removing,
  appending and inserting keep a sequence free of duplicates and change its range as
  expected. Then the type invariant and all the safety properties of
  `sched_safety`, for any number of tasks and any bounds. The inductive invariant
  `SchedInv` is `QueueInv` (types, exclusive queue, queue = runnable tasks, the
  current task alive) and `CpuInv` (types, balanced preemption count, and
  `IdleFrame`: the frame of a switched-out idle task matches its place).
  `IdleFrame` is needed because the count a resumed task gets depends on the
  frame it returns to. One lemma per group of actions; `ScheduleInv` carries all
  that go through `__schedule()`.
  Then completions: `Completion` implements `Sched` (every step is a step or a
  stutter of it), so all of the above carries over; then the wait lists hold
  waiters only, once each, and a waiter off its list is awake. `WaiterAlive` is the
  strengthening: a waiter is an ordinary task that has not exited, so waking it is
  a step Sched allows. Lemma `ClientNextInv` says this of any code that uses
  completions and the scheduler as `ClientNext` allows; the next two use it.
* **KthreadProofs**, thread creation: for any number of creators and threads, a request is not used after
  its creator has freed it, an answered request has a result, and a thread sleeps
  until it is started. `KthreadInv` gives each request its place: on the list, in the
  hands of kthreadd, with a thread (which has it as its `arg`, no two threads the
  same), or answered; and ties the place to the program counter of its creator and to
  the state of the thread. That the thread sleeps needs `NewCurr`: the scheduler
  gives the CPU to runnable tasks only. Kthread implements Sched, because who is
  woken (kthreadd, the new thread) has been started and has not exited. Each action is
  about one request; `StepOK` shows that the others, and their threads, keep theirs.
  `RequestInOnePlace` follows; that a set with one element has cardinality 1 is proved
  from the definition (`OneElement`).
* **KthreadProofs**, devtmpfs: `KthreadInv` is stated for code around thread creation:
  creators that have returned go on (`AfterPc`), the thread goes on in its function
  (`LoopPc`), and creators wait for other completions too (`WaitOK`). So it holds of
  DevtmpfsSpec as well, and with it all that is said of thread creation. On top of it,
  for any number of submitters and requests: a node request is in exactly one place,
  and the daemon never sleeps on one. `DevInv` is the strengthening: there is one
  daemon, the thread made for `devtmpfs_init()`, and it is up before the first request
  (`DaemonOK`, `OneDaemon`); no two submitters share a `req_s`, and only submitters
  wait for one (`SharesOK`); a request is listed or detached exactly until it is
  answered, which `done` or the place of its submitter says (`NodeOK`); and a waiting
  request has an awake daemon or a submitter about to wake it (`Awake`). The argument
  has two halves. Steps of thread creation touch no place of devtmpfs and none of its
  completions (`Apart`, `KthreadApart`, `ApartDev`), except that a locked section of
  a wait is shared code (`OtherWaitDev`). Steps of devtmpfs touch no request for a
  thread (`OutsideInv`), and there is one lemma for each. A `req_s` that is
  allocated again while its submitter waits would also break the wait list in
  it, so `DevtmpfsInv` claims `DevInv` and the consistency of wait lists until `broken`,
  and the invariants of the scheduler and of thread creation after that step too.
* **AtaProofs**: for any number of requesters, sectors and nested interrupts, a node that
  the daemon or the handler reaches by a pointer belongs to a requester that still waits
  (`NodesStayAlive`), is there once, is what the interrupt handler finds in
  `req_in_using`, and has no sector left when `ATA_disk_transfer()` returns. After
  `complete()` the owner may be gone. What keeps the stale pointer harmless is that it is
  not NULL: the daemon takes no other request while it is there, so the handler, however
  late, clears the name of its own request (`EndClearsItsOwn`). `AtaInv` says per request where it is (`TransferOK`: a
  queued or used one has sectors left and `done` is 0; after `complete()` it has none,
  and `done` is 1 until the requester has taken it) and of the disk that it works
  for the request in use, not before the command, and for none while a handler is between
  `complete()` and the clearing (`DiskOK`). All of it
  holds in spite of the wake-up that the daemon can lose and of the handler that can
  hang. Ata implements Sched. At its end the module has the one theorem on completions
  that counts a set: `CompletionsHaveTakers`
  is inductive once the waiters are known to be finitely many (`TakersInv`):
  `complete()` raises `done` by one and makes one taker, a taker that leaves lowers
  both.
* **LockedListProofs**, the lock: exclusion for any finite set of CPUs smaller than the
  range of the counters. `TicketInv` says that the tickets in use
  are distinct and fill the interval from `tail` to `head` in cyclic order, and that
  the holder's is `tail`. Lemma `NotFull` counts the contexts to show that the
  interval never closes on itself. `arch_spin_is_locked()` tells the truth
  (`LockedIffOwned`). The lock implements FifoLock: `TicketQueue` lists the
  contexts that have a ticket by their distance from `tail`. `Standing` says of a
  sequence that it is as long as the interval and that its i-th entry has the ticket
  i - 1 after `tail`; `TicketQueue` is the only such sequence (`QueueStands`,
  `NextStands`), the queue with one more at its end stands after a draw, its
  tail after an unlock.
* **ListProofs**: the ring of `double_list.h` for any number of entries. `Chain(f, s)`
  says of a sequence that the pointers f lead from the anchor along its entries, each
  once, and back to the anchor; `Along` finds it (`AlongChain`: a walk without
  repetition ends within the number of entries). `Linked` adds the way back and that
  all other entries point to themselves. Linking an entry in and taking one out change
  the sequence at one place (`InsertLinked`, `DeleteLinked`), which at the ends are the
  operations of Deque. `Whole` is what the operations need of the ring: the
  pointers undo each other, an entry outside some set closed under `next` points to
  itself, and the list is `Linked`. `Progress` says how far a context inside an
  operation has left a whole ring, store by store, and there is one lemma per
  step of the operations (`ContainsInv` to `SetCountInv`). `Held` adds what the list
  as a sequence needs: a walk is at an entry of the list, the entry about to be
  unlinked is on it, and `count` is the length up to the increment or decrement that
  is due. Without it `remove_head` on `count > 0` could take out the anchor, and a
  delete could drop an entry that is not there. The lemmas assume that the other
  contexts are idle.
* **LockedListProofs**, the list: LockedList implements TicketLock, so its contexts exclude
  each other and are served in order, and the lemmas of ListProofs apply. From that, for
  any number of contexts, handlers and entries: no context ever finds the ring broken
  (`LockedNeverSpins`); between operations the ring reads the same in both
  directions, `count` is its length and unlisted entries point to themselves
  (`LockedRingWhole`); and the list implements Deque at every step, the half-done
  operations included (`LockedIsDeque`). `LockedInv` (the pointers are `Progress` away
  from a whole ring, and only for a context in its critical section) and `DequeInv`
  (`Held` of the context at work) are the inductive invariants.
* **ProcessProofs**: files and fs are counted exactly, for any number of tasks.
  `ProcessInv` adds to the two counts that each task in `copy_process()` has a new
  task of its own (no two the same) and which of its two references the place says
  are counted; a pointer copied by `dup_task_struct()` is not counted yet. Lemmas
  `FilesSame`, `FilesRaised` and their like reduce each action to one more holder, one
  less, or none.
* **SlubProofs**: on any memory, for any number of tasks and of objects per slab,
  every listed slab has on its freelist exactly the objects that no caller holds
  (`FreelistExact`), so that no object is handed out twice before a slab is discarded in
  use, and no slab is lost until then (`SlabNotLost`). The first holds in every
  state the model reaches, the one after a discard in use included. It is not
  inductive: a slab is also in the hands of a task, from `alloc_init_new_slab()` to
  `online_new_empty_slab()`, and kfree() finds the slab of an object by the flag
  of its page. So `SlubInv` says of every slab with `PG_slab` that freelist and
  callers share its objects (`Shares`), and that it is listed or with a task
  that will list it or give it back (`SlabOwned`); that nobody else knows a slab
  before it is listed (`TaskOK`); which objects are large blocks (`ObjectOK`); and
  that the blocks taken from the page allocator are these slabs and large blocks
  (`HeldOK`) and do not overlap (`BlocksOK`), so that a new slab is not one that is
  in use. All this is claimed until `broken`; what FreelistExact needs, beyond.
* **BuddyProofs**: with any memory map, zones and requests, every frame handed over is in
  exactly one block, free or held; blocks are listed in their zone and under their
  order, and served from an allowed zone; `folio_order()` of a held block is the order it was
  allocated with; and the allocator implements PageAlloc. `BuddyInv` says that the listed
  and the lent blocks cut the frames handed over so far into disjoint pieces
  (`Cuts(Blocks, Given)`); that listed blocks are aligned, once on one list, within
  their zone, with their order in `private` (`ListOK`); that held blocks are aligned and
  their head and second page tell the order (`LentOK`); and that `page_type` never has the
  bits `PageBuddy()` looks for, so that a free merges nothing. Each operation recuts the
  memory: `CutMore` adds a boot chunk, `Recut` replaces one block by others with the same
  frames, and `Expanded` shows that the halves which `expand()` lists and the part it
  returns are such a replacement. The closed forms use the largest order that fits and
  the first list that is not empty; that these exist is shown with the least element of
  a set of numbers (`WFMin` of the library), which is also how the facts on powers of two
  go from one order to the next. In the refinement the free frames are those handed over
  that nobody holds, so a boot chunk is a Release, an allocation a Take, a free a Give.

Assumptions are the `ASSUME`s of the modules; TLC evaluates them in each run. They say
which tasks play which part: the idle task, a daemon and the tasks that call it are
different tasks, a request names a completion of its own, and the error pointer is
neither NULL nor a task. `UINT_MAX` is more than 1 in Ata (2^32 - 1 in the code): at its
largest value `done` would not be lowered. `SlubAssumption` says that the sizes of the
two kinds of blocks, powers of two, are positive, which the provers cannot derive;
`PowersOfTwo` says of Buddy's orders that 2^n is a natural number and 2^(n+1) twice
2^n, for the same reason. `BuddyAssumption` has the zone borders at multiples of the
largest block. `DevtmpfsAssumption` is in scope of all of KthreadProofs, but no proof
about KthreadSpec cites it.

Only model-checked: liveness (out of the prover's reach); `BootCutsCoarsely`;
`KmallocFits`, which is arithmetic on fixed tables; and Memblock with
`BootMemoryExact` and `HandsOverFreePages`, whose loops are recursive operators. The
theorems on devtmpfs do not need `CreationFirst`: they allow node requests while other
threads are still being created.

## Not modelled

* **Workqueues**: nothing in the tree queues work, and queued work has no pool.
* **The list of areas** of an address space, and exec on top of it: `if (gap = ~0)`
  (`mmap.c:850`) throws away the gap that was found, so the list keeps neither order
  nor disjointness, and there is no invariant to state.
* **futex, lockdep, swap, huge pages, shared mappings, `swake_up_all_locked()`,
  `arch_spin_trylock()`**: stubs, or without a caller.
* **Signals**: delivery is incomplete; only the count of the handlers is in Process.
* **VFS, FAT, block**: sequential data structures and parsing; dentry and
  inode counts are not maintained.
* **Semaphores, keyboard, NVMe, XHCI**: the shape of Completion and Ata, or register
  protocols.
* **Time, printk, libraries, start-up**: numeric code, logging, pure helpers, code
  that runs once in order.
* Inside modelled parts: soft-reserved E820 entries and early allocations that find
  nothing; interleavings inside one page allocation, although
  `__myos_alloc_pages()` takes no lock; what `handle_create()` does in the file system;
  creation of slab caches.
* Weak memory order: the kernel schedules on one CPU and the lock uses locked
  instructions.
