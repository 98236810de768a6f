------------------------------ MODULE Process ------------------------------
(***************************************************************************)
(* What tasks share and hand over: copy_process() with its failures and    *)
(* their unwinding, alloc_pid(), and do_exit().  kthreadd makes kernel     *)
(* threads, which share its files_struct_s and fs_struct_s; init and its   *)
(* descendants fork() and get copies.  Tasks interleave between the steps. *)
(* The memory of a dead task is never released (there is no wait4()).      *)
(***************************************************************************)
EXTENDS Naturals, Sequences, Functions, FiniteSetsExt

CONSTANTS
    Task,                   \* memory for task_s structures
    Idle, Initd, Kthreadd,  \* init_task, and what rest_init() has made
    Files, Fs,              \* memory for files_struct_s, fs_struct_s
    NULL,
    IDR_SIZE,               \* MYOS_IDR_BUF_SIZE, which is pid_max
    RESERVED_PIDS           \* where the search begins again

ASSUME ProcessAssumption ==
    /\ IsFiniteSet(Task)
    /\ Idle # Initd /\ Idle # Kthreadd /\ Initd # Kthreadd /\ {Idle, Initd, Kthreadd} \subseteq Task
    /\ Cardinality(Files) >= 2 /\ Fs # {}
    /\ NULL \notin Task \cup Files \cup Fs
    /\ IDR_SIZE \in Nat /\ IDR_SIZE >= 3 /\ RESERVED_PIDS \in 1..IDR_SIZE

VARIABLES
    status,         \* "none", "new" (being made), "live" or "dead"
    files, fs,      \* task_s.files, task_s.fs
    refcount,       \* files_struct_s.refcount; 0: not allocated
    users,          \* fs_struct_s.users; 0: not allocated
    sighand_count,  \* init_sighand.count: the one sighand all tasks have
    idr, idr_next,  \* the pid table: NULL or the task, and its cursor
    pid,            \* task_s.pid
    children,       \* task_s.children
    pc,             \* the place of a task in copy_process() or do_exit()
    child,          \* the task it makes
    tmp,            \* a value it has loaded: fs->users, or a pid number
    lost            \* the last store to fs->users overwrote another update

fileVars == <<files, refcount>>
fsVars   == <<fs, users, lost>>
pidVars  == <<idr, idr_next, pid>>
procVars == <<status, fileVars, fsVars, sighand_count, pidVars, children, pc, child, tmp>>

ProcessPc ==
    {"run", "files", "fs", "fs_store", "sighand", "copy", "pid", "replace", "link",
     "u_sighand", "u_fs", "u_files", "u_free", "x_fs", "x_notify", "gone", "crash"}

\* rest_init() has made init with CLONE_FS and kthreadd with CLONE_FS | CLONE_FILES.
ProcessInit ==
    \E f \in Files, g \in Files, h \in Fs :
        /\ f # g
        /\ status = [t \in Task |-> IF t \in {Idle, Initd, Kthreadd} THEN "live" ELSE "none"]
        /\ files = [t \in Task |-> IF t = Initd THEN g
                                   ELSE IF t \in {Idle, Kthreadd} THEN f ELSE NULL]
        /\ refcount = [x \in Files |-> IF x = f THEN 2 ELSE IF x = g THEN 1 ELSE 0]
        /\ fs = [t \in Task |-> IF t \in {Idle, Initd, Kthreadd} THEN h ELSE NULL]
        /\ users = [x \in Fs |-> IF x = h THEN 3 ELSE 0]
        /\ sighand_count = 1
        /\ idr = [n \in 1..(IDR_SIZE - 1) |-> CASE n = 1 -> Initd [] n = 2 -> Kthreadd [] OTHER -> NULL]
        /\ idr_next = 3
        /\ pid = [t \in Task |-> CASE t = Initd -> 1 [] t = Kthreadd -> 2 [] OTHER -> 0]
        /\ children = [t \in Task |-> IF t = Idle THEN <<Initd, Kthreadd>> ELSE <<>>]
        /\ pc = [t \in Task |-> "run"]
        /\ child = [t \in Task |-> NULL]
        /\ tmp = [t \in Task |-> 0]
        /\ lost = FALSE

Goto(t, p, q) == pc[t] = p /\ pc' = [pc EXCEPT ![t] = q]

\* create_kthread() passes CLONE_FS | CLONE_FILES, fork() neither.
CLONE_FS(t) == t = Kthreadd
CLONE_FILES(t) == t = Kthreadd

\* Kernel threads run their function; only the others fork.
IsKthread(t) == t \in Range(children[Kthreadd])

-----------------------------------------------------------------------------
(* copy_process() *)

\* The copy starts with the pointers of the parent.
dup_task_struct(t) ==
    /\ status[t] = "live" /\ t # Idle /\ ~IsKthread(t)
    /\ Goto(t, "run", "files")
    /\ \E p \in Task :
           /\ status[p] = "none"
           /\ status' = [status EXCEPT ![p] = "new"]
           /\ child' = [child EXCEPT ![t] = p]
           /\ files' = [files EXCEPT ![p] = files[t]]
           /\ fs' = [fs EXCEPT ![p] = fs[t]]
    /\ UNCHANGED <<refcount, users, lost, sighand_count, pidVars, children, tmp>>

\* Mutant: the count of a shared files_struct_s is not raised.
copy_files_uncounted(t) ==
    /\ Goto(t, "files", "fs")
    /\ CLONE_FILES(t)
    /\ UNCHANGED <<status, fileVars, fsVars, sighand_count, pidVars, children, child, tmp>>

copy_files(t) ==
    /\ \/ /\ CLONE_FILES(t) /\ Goto(t, "files", "fs")
          /\ refcount' = [refcount EXCEPT ![files[t]] = @ + 1]
          /\ UNCHANGED files
       \/ /\ ~CLONE_FILES(t) /\ Goto(t, "files", "fs")
          /\ \E f \in Files :
                 /\ refcount[f] = 0
                 /\ refcount' = [refcount EXCEPT ![f] = 1]
                 /\ files' = [files EXCEPT ![child[t]] = f]
       \/ /\ Goto(t, "files", "u_free")     \* set_kthread_struct() or dup_fd() fails
          /\ UNCHANGED <<files, refcount>>
    /\ UNCHANGED <<status, fsVars, sighand_count, pidVars, children, child, tmp>>

\* A shared fs_struct_s: fs->users is loaded ...
copy_fs_load(t) ==
    /\ CLONE_FS(t) /\ Goto(t, "fs", "fs_store")
    /\ tmp' = [tmp EXCEPT ![t] = users[fs[t]]]
    /\ UNCHANGED <<status, fileVars, fsVars, sighand_count, pidVars, children, child>>

\* ... and stored, with no lock: the compiler's "++" is not one instruction.
copy_fs_store(t) ==
    /\ Goto(t, "fs_store", "sighand")
    /\ users' = [users EXCEPT ![fs[t]] = tmp[t] + 1]
    /\ lost' = (users[fs[t]] # tmp[t])
    /\ tmp' = [tmp EXCEPT ![t] = 0]
    /\ UNCHANGED <<status, fileVars, fs, sighand_count, pidVars, children, child>>

\* copy_fs_struct() succeeds, or returns NULL.
copy_fs(t) ==
    /\ ~CLONE_FS(t)
    /\ \/ /\ Goto(t, "fs", "sighand")
          /\ \E f \in Fs :
                 /\ users[f] = 0
                 /\ users' = [users EXCEPT ![f] = 1]
                 /\ fs' = [fs EXCEPT ![child[t]] = f]
       \/ /\ Goto(t, "fs", "u_files")
          /\ fs' = [fs EXCEPT ![child[t]] = NULL]
          /\ UNCHANGED users
    /\ UNCHANGED <<status, fileVars, lost, sighand_count, pidVars, children, child, tmp>>

\* The new sighand_s is not stored in the child, which keeps its parent's.
copy_sighand(t) ==
    /\ Goto(t, "sighand", "copy") \/ Goto(t, "sighand", "u_fs")
    /\ UNCHANGED <<status, fileVars, fsVars, sighand_count, pidVars, children, child, tmp>>

\* copy_signal(), copy_mm(), copy_namespaces() and copy_thread().
copy_others(t) ==
    /\ Goto(t, "copy", "pid") \/ Goto(t, "copy", "u_sighand")
    /\ UNCHANGED <<status, fileVars, fsVars, sighand_count, pidVars, children, child, tmp>>

\* The first free slot from id on; IDR_SIZE if there is none.
idr_alloc_u32(id) == Min({n \in id..(IDR_SIZE - 1) : idr[n] = NULL} \cup {IDR_SIZE})

idr_alloc_cyclic(start) ==
    LET id == Max({idr_next, start})
        n  == idr_alloc_u32(id)
    IN  IF n = IDR_SIZE /\ id > start THEN idr_alloc_u32(start) ELSE n

pid_min == IF idr_next > RESERVED_PIDS THEN RESERVED_PIDS ELSE 1

\* alloc_pid(): the number is taken below pidmap_lock, and NULL stored for it ...
alloc_pid(t) ==
    /\ LET nr == idr_alloc_cyclic(pid_min) IN
       \/ /\ nr < IDR_SIZE /\ Goto(t, "pid", "replace")
          /\ tmp' = [tmp EXCEPT ![t] = nr]
          /\ idr_next' = nr + 1
       \/ /\ Goto(t, "pid", "u_sighand")    \* no memory, or no number
          /\ UNCHANGED <<tmp, idr_next>>
    /\ UNCHANGED <<status, fileVars, fsVars, sighand_count, idr, pid, children, child>>

\* ... and the task only below a second lock.
alloc_pid_replace(t) ==
    /\ Goto(t, "replace", "link")
    /\ idr' = [idr EXCEPT ![tmp[t]] = child[t]]
    /\ pid' = [pid EXCEPT ![child[t]] = tmp[t]]
    /\ tmp' = [tmp EXCEPT ![t] = 0]
    /\ UNCHANGED <<status, fileVars, fsVars, sighand_count, idr_next, children, child>>

\* The end of copy_process(), and wake_up_new_task() in kernel_clone().
copy_process_link(t) ==
    /\ Goto(t, "link", "run")
    /\ children' = [children EXCEPT ![t] = Append(@, child[t])]
    /\ status' = [status EXCEPT ![child[t]] = "live"]
    /\ child' = [child EXCEPT ![t] = NULL]
    /\ UNCHANGED <<fileVars, fsVars, sighand_count, pidVars, tmp>>

-----------------------------------------------------------------------------
(* The end of files and fs, in do_exit() and in the unwinding *)

exit_files(t) ==
    /\ files' = [files EXCEPT ![t] = NULL]
    /\ refcount' = [refcount EXCEPT ![files[t]] = @ - 1]

exit_fs(t) ==
    /\ fs' = [fs EXCEPT ![t] = NULL]
    /\ users' = [users EXCEPT ![fs[t]] = @ - 1]
    /\ UNCHANGED lost

\* bad_fork_cleanup_sighand: __cleanup_sighand(p->sighand)
unwind_sighand(t) ==
    /\ Goto(t, "u_sighand", "u_fs")
    /\ sighand_count' = IF sighand_count = 0 THEN 0 ELSE sighand_count - 1
    /\ UNCHANGED <<status, fileVars, fsVars, pidVars, children, child, tmp>>

\* Mutant: the label is left out, as in the unwinding of copy_files().
unwind_fs_skip(t) ==
    /\ Goto(t, "u_fs", "u_files")
    /\ fs' = [fs EXCEPT ![child[t]] = NULL]
    /\ UNCHANGED <<status, fileVars, users, lost, sighand_count, pidVars, children, child, tmp>>

unwind_fs(t) ==
    /\ Goto(t, "u_fs", "u_files")
    /\ exit_fs(child[t])
    /\ UNCHANGED <<status, fileVars, sighand_count, pidVars, children, child, tmp>>

unwind_files(t) ==
    /\ Goto(t, "u_files", "u_free")
    /\ exit_files(child[t])
    /\ UNCHANGED <<status, fsVars, sighand_count, pidVars, children, child, tmp>>

\* bad_fork_free
unwind_free(t) ==
    /\ Goto(t, "u_free", "run")
    /\ status' = [status EXCEPT ![child[t]] = "none"]
    /\ files' = [files EXCEPT ![child[t]] = NULL]
    /\ fs' = [fs EXCEPT ![child[t]] = NULL]
    /\ child' = [child EXCEPT ![t] = NULL]
    /\ UNCHANGED <<refcount, users, lost, sighand_count, pidVars, children, tmp>>

-----------------------------------------------------------------------------
(* do_exit(); init, kthreadd and the idle task never call it *)

do_exit(t) ==
    /\ status[t] = "live" /\ t \notin {Idle, Initd, Kthreadd}
    /\ Goto(t, "run", "x_fs")
    /\ exit_files(t)
    /\ UNCHANGED <<status, fsVars, sighand_count, pidVars, children, child, tmp>>

do_exit_fs(t) ==
    /\ Goto(t, "x_fs", "x_notify")
    /\ exit_fs(t)
    /\ UNCHANGED <<status, fileVars, sighand_count, pidVars, children, child, tmp>>

\* exit_notify() looks init up in the pid namespace PIDTYPE_PID, a null pointer.
exit_notify(t) ==
    /\ IF children[t] = <<>>
       THEN Goto(t, "x_notify", "gone") /\ status' = [status EXCEPT ![t] = "dead"]
       ELSE Goto(t, "x_notify", "crash") /\ UNCHANGED status
    /\ UNCHANGED <<fileVars, fsVars, sighand_count, pidVars, children, child, tmp>>

-----------------------------------------------------------------------------
copy_process(t) ==
    \/ dup_task_struct(t) \/ copy_files(t)
    \/ copy_fs_load(t) \/ copy_fs_store(t) \/ copy_fs(t)
    \/ copy_sighand(t) \/ copy_others(t)
    \/ alloc_pid(t) \/ alloc_pid_replace(t) \/ copy_process_link(t)
    \/ unwind_sighand(t) \/ unwind_fs(t) \/ unwind_files(t) \/ unwind_free(t)

\* What happens after a lost update, or after a crash, is left open.
ProcessNext ==
    /\ ~lost /\ \A t \in Task : pc[t] # "crash"
    /\ \E t \in Task : copy_process(t) \/ do_exit(t) \/ do_exit_fs(t) \/ exit_notify(t)

ProcessSpec == ProcessInit /\ [][ProcessNext]_procVars

-----------------------------------------------------------------------------
(* Properties *)

\* Tasks that hold a counted reference: the pointers a new task was copied with
\* do not count before copy_files() and copy_fs().
Uncounted(places) == {child[t] : t \in {x \in Task : pc[x] \in places}}
HoldsFiles(f) == {t \in Task : files[t] = f} \ Uncounted({"files", "u_free"})
HoldsFs(f) == {t \in Task : fs[t] = f} \ Uncounted({"files", "fs", "fs_store", "u_free"})

\* A files_struct_s is counted exactly once for each task that uses it, through
\* every failure of copy_process(): it is freed with its last user, not before
\* and not never.
FilesCounted == \A f \in Files : refcount[f] = Cardinality(HoldsFiles(f))

\* The same of fs_struct_s, up to the first update of fs->users that is lost.
FsCounted == ~lost => \A f \in Fs : users[f] = Cardinality(HoldsFs(f))

\* copy_fs() loses no update of fs->users.
NoLostUpdate == ~lost

\* "Allocates an unused ID": no two tasks get the same pid.
PidUnique == \A t, u \in Task : t # u /\ pid[t] = pid[u] => pid[t] = 0

\* The signal handlers every task uses are not freed by a failed fork.
SighandAlive == sighand_count > 0

\* A task that exits hands its children to init.
AdoptsChildren == \A t \in Task : pc[t] # "crash"
=============================================================================
