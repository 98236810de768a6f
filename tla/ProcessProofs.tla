--------------------------- MODULE ProcessProofs ---------------------------
(***************************************************************************)
(* The reference counts of files_struct_s and fs_struct_s are exact for    *)
(* any number of tasks, through every failure of copy_process().           *)
(***************************************************************************)
EXTENDS Process, FiniteSetTheorems, TLAPS

Unwinding == {"u_sighand", "u_fs", "u_files", "u_free"}
Making == {"files", "fs", "fs_store", "sighand", "copy", "pid", "replace", "link"} \cup Unwinding

\* Places at which the new task has counted references to both.
Counted == {"sighand", "copy", "pid", "replace", "link", "u_sighand", "u_fs"}

ProcTypeOK ==
    /\ status \in [Task -> {"none", "new", "live", "dead"}]
    /\ files \in [Task -> Files \cup {NULL}] /\ refcount \in [Files -> Int]
    /\ fs \in [Task -> Fs \cup {NULL}] /\ (~lost => users \in [Fs -> Int])
    /\ pc \in [Task -> ProcessPc] /\ child \in [Task -> Task \cup {NULL}]

\* What task t has given its new task x so far.
Given(t, x) ==
    /\ pc[t] = "files" => files[x] = files[t]
    /\ pc[t] \in {"files", "fs", "fs_store"} => fs[x] = fs[t]
    /\ pc[t] \in {"fs", "fs_store", "u_files"} \cup Counted => files[x] \in Files
    /\ pc[t] \in Counted => fs[x] \in Fs
    /\ pc[t] = "u_files" => fs[x] = NULL

\* A task in copy_process() has a new task of its own, which has been given the
\* references that the place says.
MakerOK(t) ==
    /\ child[t] \in Task /\ status[t] = "live" /\ status[child[t]] = "new"
    /\ Given(t, child[t])

TaskOK(t) ==
    /\ status[t] = "none" => files[t] = NULL /\ fs[t] = NULL
    /\ status[t] \in {"none", "new"} => pc[t] = "run"
    /\ status[t] = "live" /\ pc[t] \in {"run"} \cup Making => files[t] \in Files /\ fs[t] \in Fs
    /\ pc[t] = "x_fs" => status[t] = "live" /\ fs[t] \in Fs

\* No two tasks make the same new task.
OwnChild(t, u) == pc[t] \in Making /\ pc[u] \in Making /\ child[t] = child[u] => t = u

TasksOK ==
    /\ \A t \in Task : pc[t] \in Making => MakerOK(t)
    /\ \A t, u \in Task : OwnChild(t, u)
    /\ \A t \in Task : TaskOK(t)

ProcessInv == ProcTypeOK /\ TasksOK /\ FilesCounted /\ FsCounted

-----------------------------------------------------------------------------
(* A step of one task *)

LEMMA Null == NULL \notin Task /\ NULL \notin Files /\ NULL \notin Fs
BY ProcessAssumption

LEMMA Places == Making \subseteq ProcessPc /\ Counted \subseteq Making
BY DEF Making, Unwinding, Counted, ProcessPc

LEMMA Put ==
    ASSUME NEW S, NEW R, NEW f \in [S -> R], NEW a \in S, NEW v, NEW h, h = [f EXCEPT ![a] = v]
    PROVE  h[a] = v /\ \A b \in S \ {a} : h[b] = f[b]
OBVIOUS

\* Task t does a step that changes the pointers and the status of x at most: the
\* task that t makes, or t itself.
Stepped(t, x) ==
    /\ x = t \/ pc[x] = "run"
    /\ \A u \in Task \ {t} : /\ pc'[u] = pc[u] /\ child'[u] = child[u]
                             /\ pc[u] \in Making => child[u] # x
    /\ \A u \in Task \ {x} : status'[u] = status[u] /\ files'[u] = files[u] /\ fs'[u] = fs[u]
    /\ pc[t] \in Making => child[t] = x
    /\ pc'[t] \in Making => child'[t] = x

\* What a step says of the other tasks stays true.
LEMMA TasksStep ==
    ASSUME TasksOK, NEW t \in Task, NEW x \in Task, Stepped(t, x),
           pc'[t] \in Making => status'[t] = "live" /\ status'[x] = "new" /\ Given(t, x)',
           TaskOK(t)', TaskOK(x)'
    PROVE  TasksOK'
<1>0. ASSUME NEW u \in Task, pc'[u] \in Making, u # t
      PROVE  pc[u] \in Making /\ pc'[u] = pc[u] /\ child'[u] = child[u] /\ child[u] # x /\ u # x
  BY <1>0 DEF Stepped, Making, Unwinding
<1>1. ASSUME NEW u \in Task, pc'[u] \in Making PROVE MakerOK(u)'
  <2>1. CASE u = t
    <3>1. child'[t] = x
      BY <1>1, <2>1 DEF Stepped
    <3>. QED  BY <1>1, <2>1, <3>1 DEF MakerOK
  <2>2. CASE u # t
    <3>1. MakerOK(u) /\ child[u] \in Task \ {x}
      BY <1>0, <1>1, <2>2 DEF TasksOK, MakerOK
    <3>2. /\ status'[u] = status[u] /\ files'[u] = files[u] /\ fs'[u] = fs[u]
          /\ status'[child[u]] = status[child[u]]
          /\ files'[child[u]] = files[child[u]] /\ fs'[child[u]] = fs[child[u]]
          /\ pc'[u] = pc[u] /\ child'[u] = child[u]
      BY <3>1, <1>0, <1>1, <2>2 DEF Stepped
    <3>. QED  BY <3>1, <3>2 DEF MakerOK, Given
  <2>. QED  BY <2>1, <2>2
<1>2. ASSUME NEW u \in Task, NEW v \in Task PROVE OwnChild(u, v)'
  <2>1. SUFFICES ASSUME pc'[u] \in Making, pc'[v] \in Making, child'[u] = child'[v], u # v PROVE FALSE
    BY DEF OwnChild
  <2>2. CASE u = t
    BY <1>0, <2>1, <2>2 DEF Stepped
  <2>3. CASE v = t
    BY <1>0, <2>1, <2>3 DEF Stepped
  <2>4. CASE u # t /\ v # t
    BY <1>0, <2>1, <2>4 DEF TasksOK, OwnChild
  <2>. QED  BY <2>2, <2>3, <2>4
<1>3. ASSUME NEW u \in Task PROVE TaskOK(u)'
  <2>1. CASE u \in {t, x}
    BY <2>1
  <2>2. CASE u \notin {t, x}
    <3>1. TaskOK(u) /\ pc'[u] = pc[u] /\ status'[u] = status[u] /\ files'[u] = files[u] /\ fs'[u] = fs[u]
      BY <2>2 DEF TasksOK, Stepped
    <3>. QED  BY <3>1 DEF TaskOK
  <2>. QED  BY <2>1, <2>2
<1>. QED  BY <1>1, <1>2, <1>3 DEF TasksOK

\* The counted reference of x, NULL while it is a mere copy of the pointer of t.
FilesOf(t, x) == IF pc[t] \in {"files", "u_free"} THEN NULL ELSE files[x]
FsOf(t, x) == IF pc[t] \in {"files", "fs", "fs_store", "u_free"} THEN NULL ELSE fs[x]

LEMMA FilesHolders ==
    ASSUME NEW t \in Task, NEW x \in Task, Stepped(t, x), NEW f \in Files, NEW y
    PROVE  /\ y # x => (y \in HoldsFiles(f)' <=> y \in HoldsFiles(f))
           /\ x \in HoldsFiles(f) <=> FilesOf(t, x) = f
           /\ x \in HoldsFiles(f)' <=> FilesOf(t, x)' = f
<1>. DEFINE P == {"files", "u_free"}
            new(z) == \E u \in Task : pc[u] \in P /\ child[u] = z
<1>0. P \subseteq Making /\ f # NULL
  BY Null DEF Making, Unwinding
<1>1. ASSUME NEW z PROVE /\ z \in HoldsFiles(f) <=> z \in Task /\ files[z] = f /\ ~new(z)
                         /\ z \in HoldsFiles(f)' <=> z \in Task /\ files'[z] = f /\ ~new(z)'
  BY DEF HoldsFiles, Uncounted
<1>2. y # x => (new(y)' <=> new(y))
  BY <1>0 DEF Stepped
<1>3. new(x) <=> pc[t] \in P
  BY <1>0 DEF Stepped
<1>4. new(x)' <=> pc'[t] \in P
  BY <1>0 DEF Stepped
<1>5. y \in Task /\ y # x => files'[y] = files[y]
  BY DEF Stepped
<1>. HIDE DEF new
<1>. QED  BY <1>0, <1>1, <1>2, <1>3, <1>4, <1>5 DEF FilesOf

LEMMA FsHolders ==
    ASSUME NEW t \in Task, NEW x \in Task, Stepped(t, x), NEW f \in Fs, NEW y
    PROVE  /\ y # x => (y \in HoldsFs(f)' <=> y \in HoldsFs(f))
           /\ x \in HoldsFs(f) <=> FsOf(t, x) = f
           /\ x \in HoldsFs(f)' <=> FsOf(t, x)' = f
<1>. DEFINE P == {"files", "fs", "fs_store", "u_free"}
            new(z) == \E u \in Task : pc[u] \in P /\ child[u] = z
<1>0. P \subseteq Making /\ f # NULL
  BY Null DEF Making, Unwinding
<1>1. ASSUME NEW z PROVE /\ z \in HoldsFs(f) <=> z \in Task /\ fs[z] = f /\ ~new(z)
                         /\ z \in HoldsFs(f)' <=> z \in Task /\ fs'[z] = f /\ ~new(z)'
  BY DEF HoldsFs, Uncounted
<1>2. y # x => (new(y)' <=> new(y))
  BY <1>0 DEF Stepped
<1>3. new(x) <=> pc[t] \in P
  BY <1>0 DEF Stepped
<1>4. new(x)' <=> pc'[t] \in P
  BY <1>0 DEF Stepped
<1>5. y \in Task /\ y # x => fs'[y] = fs[y]
  BY DEF Stepped
<1>. HIDE DEF new
<1>. QED  BY <1>0, <1>1, <1>2, <1>3, <1>4, <1>5 DEF FsOf

-----------------------------------------------------------------------------
(* Counting *)

\* One more, one less.
LEMMA CountOne ==
    ASSUME NEW S \in SUBSET Task, NEW x \in Task
    PROVE  /\ Cardinality(S) \in Nat
           /\ x \notin S => Cardinality(S \cup {x}) = Cardinality(S) + 1
           /\ x \in S => Cardinality(S \ {x}) = Cardinality(S) - 1
<1>1. IsFiniteSet(S)
  BY FS_Subset, ProcessAssumption
<1>. QED  BY <1>1, FS_CardinalityType, FS_AddElement, FS_RemoveElement

LEMMA FilesSame ==
    ASSUME FilesCounted, refcount' = refcount, NEW t \in Task, NEW x \in Task, Stepped(t, x),
           FilesOf(t, x)' = FilesOf(t, x)
    PROVE  FilesCounted'
<1>1. ASSUME NEW f \in Files PROVE HoldsFiles(f)' = HoldsFiles(f)
  BY FilesHolders
<1>. QED  BY <1>1 DEF FilesCounted

LEMMA FilesRaised ==
    ASSUME FilesCounted, refcount \in [Files -> Int], NEW g \in Files,
           refcount' = [refcount EXCEPT ![g] = @ + 1], NEW t \in Task, NEW x \in Task, Stepped(t, x),
           FilesOf(t, x) = NULL, FilesOf(t, x)' = g
    PROVE  FilesCounted'
<1>1. HoldsFiles(g) \in SUBSET Task /\ x \notin HoldsFiles(g)
  BY FilesHolders, Null DEF HoldsFiles
<1>2. HoldsFiles(g)' = HoldsFiles(g) \cup {x}
  <2>1. ASSUME NEW y PROVE y \in HoldsFiles(g)' <=> y \in HoldsFiles(g) \/ y = x
    BY FilesHolders
  <2>. QED  BY <2>1
<1>3. Cardinality(HoldsFiles(g)') = Cardinality(HoldsFiles(g)) + 1
  BY <1>1, <1>2, CountOne
<1>4. ASSUME NEW f \in Files \ {g} PROVE HoldsFiles(f)' = HoldsFiles(f)
  <2>1. x \notin HoldsFiles(f)' /\ x \notin HoldsFiles(f)
    BY FilesHolders, Null
  <2>2. ASSUME NEW y PROVE y \in HoldsFiles(f)' <=> y \in HoldsFiles(f)
    BY <2>1, FilesHolders
  <2>. QED  BY <2>2, Zenon
<1>. QED  BY <1>3, <1>4 DEF FilesCounted

LEMMA FilesDropped ==
    ASSUME FilesCounted, refcount \in [Files -> Int], NEW g \in Files,
           refcount' = [refcount EXCEPT ![g] = @ - 1], NEW t \in Task, NEW x \in Task, Stepped(t, x),
           FilesOf(t, x) = g, FilesOf(t, x)' = NULL
    PROVE  FilesCounted'
<1>1. HoldsFiles(g) \in SUBSET Task /\ x \in HoldsFiles(g)
  BY FilesHolders DEF HoldsFiles
<1>2. HoldsFiles(g)' = HoldsFiles(g) \ {x}
  <2>1. ASSUME NEW y PROVE y \in HoldsFiles(g)' <=> y \in HoldsFiles(g) /\ y # x
    BY FilesHolders, Null
  <2>. QED  BY <2>1
<1>3. Cardinality(HoldsFiles(g)') = Cardinality(HoldsFiles(g)) - 1
  BY <1>1, <1>2, CountOne
<1>4. ASSUME NEW f \in Files \ {g} PROVE HoldsFiles(f)' = HoldsFiles(f)
  <2>1. x \notin HoldsFiles(f)' /\ x \notin HoldsFiles(f)
    BY FilesHolders, Null
  <2>2. ASSUME NEW y PROVE y \in HoldsFiles(f)' <=> y \in HoldsFiles(f)
    BY <2>1, FilesHolders
  <2>. QED  BY <2>2, Zenon
<1>. QED  BY <1>3, <1>4 DEF FilesCounted

LEMMA FsSame ==
    ASSUME FsCounted, ~lost, users' = users, NEW t \in Task, NEW x \in Task, Stepped(t, x),
           FsOf(t, x)' = FsOf(t, x)
    PROVE  FsCounted'
<1>1. ASSUME NEW f \in Fs PROVE HoldsFs(f)' = HoldsFs(f)
  BY FsHolders
<1>. QED  BY <1>1 DEF FsCounted

LEMMA FsRaised ==
    ASSUME FsCounted, ~lost, users \in [Fs -> Int], NEW g \in Fs,
           users' = [users EXCEPT ![g] = @ + 1], NEW t \in Task, NEW x \in Task, Stepped(t, x),
           FsOf(t, x) = NULL, FsOf(t, x)' = g
    PROVE  FsCounted'
<1>1. HoldsFs(g) \in SUBSET Task /\ x \notin HoldsFs(g)
  BY FsHolders, Null DEF HoldsFs
<1>2. HoldsFs(g)' = HoldsFs(g) \cup {x}
  <2>1. ASSUME NEW y PROVE y \in HoldsFs(g)' <=> y \in HoldsFs(g) \/ y = x
    BY FsHolders
  <2>. QED  BY <2>1
<1>3. Cardinality(HoldsFs(g)') = Cardinality(HoldsFs(g)) + 1
  BY <1>1, <1>2, CountOne
<1>4. ASSUME NEW f \in Fs \ {g} PROVE HoldsFs(f)' = HoldsFs(f)
  <2>1. x \notin HoldsFs(f)' /\ x \notin HoldsFs(f)
    BY FsHolders, Null
  <2>2. ASSUME NEW y PROVE y \in HoldsFs(f)' <=> y \in HoldsFs(f)
    BY <2>1, FsHolders
  <2>. QED  BY <2>2, Zenon
<1>. QED  BY <1>3, <1>4 DEF FsCounted

LEMMA FsDropped ==
    ASSUME FsCounted, ~lost, users \in [Fs -> Int], NEW g \in Fs,
           users' = [users EXCEPT ![g] = @ - 1], NEW t \in Task, NEW x \in Task, Stepped(t, x),
           FsOf(t, x) = g, FsOf(t, x)' = NULL
    PROVE  FsCounted'
<1>1. HoldsFs(g) \in SUBSET Task /\ x \in HoldsFs(g)
  BY FsHolders DEF HoldsFs
<1>2. HoldsFs(g)' = HoldsFs(g) \ {x}
  <2>1. ASSUME NEW y PROVE y \in HoldsFs(g)' <=> y \in HoldsFs(g) /\ y # x
    BY FsHolders, Null
  <2>. QED  BY <2>1
<1>3. Cardinality(HoldsFs(g)') = Cardinality(HoldsFs(g)) - 1
  BY <1>1, <1>2, CountOne
<1>4. ASSUME NEW f \in Fs \ {g} PROVE HoldsFs(f)' = HoldsFs(f)
  <2>1. x \notin HoldsFs(f)' /\ x \notin HoldsFs(f)
    BY FsHolders, Null
  <2>2. ASSUME NEW y PROVE y \in HoldsFs(f)' <=> y \in HoldsFs(f)
    BY <2>1, FsHolders
  <2>. QED  BY <2>2, Zenon
<1>. QED  BY <1>3, <1>4 DEF FsCounted

-----------------------------------------------------------------------------
(* copy_process() and do_exit() *)

\* Task t makes x: what every later step of copy_process() starts from.
Makes(t, x) ==
    /\ child[t] = x /\ x # t /\ pc[x] = "run" /\ Given(t, x)
    /\ status[t] = "live" /\ status[x] = "new" /\ files[t] \in Files /\ fs[t] \in Fs
    /\ \A u \in Task \ {t} : pc[u] \in Making => child[u] # x

LEMMA Maker ==
    ASSUME ProcessInv, NEW t \in Task, pc[t] \in Making
    PROVE  \E x \in Task : Makes(t, x)
<1>1. PICK x \in Task : child[t] = x /\ status[t] = "live" /\ status[x] = "new" /\ Given(t, x)
  BY DEF ProcessInv, TasksOK, MakerOK
<1>2. TaskOK(t) /\ TaskOK(x)
  BY DEF ProcessInv, TasksOK
<1>3. x # t /\ pc[x] = "run" /\ files[t] \in Files /\ fs[t] \in Fs
  BY <1>1, <1>2 DEF TaskOK
<1>4. \A u \in Task \ {t} : pc[u] \in Making => child[u] # x
  BY <1>1 DEF ProcessInv, TasksOK, OwnChild
<1>. QED  BY <1>1, <1>3, <1>4 DEF Makes

LEMMA MakerStep ==
    ASSUME ProcessInv, NEW t \in Task, pc[t] \in Making, NEW x \in Task, Makes(t, x),
           NEW q \in ProcessPc, pc' = [pc EXCEPT ![t] = q],
           child' = child \/ (q \notin Making /\ child' = [child EXCEPT ![t] = NULL]),
           \A u \in Task \ {x} : status'[u] = status[u] /\ files'[u] = files[u] /\ fs'[u] = fs[u]
    PROVE  Stepped(t, x) /\ pc'[t] = q /\ pc'[x] = "run" /\ pc' \in [Task -> ProcessPc]
<1>1. pc \in [Task -> ProcessPc] /\ child \in [Task -> Task \cup {NULL}]
  BY DEF ProcessInv, ProcTypeOK
<1>2. /\ pc'[t] = q /\ pc' \in [Task -> ProcessPc]
      /\ \A u \in Task \ {t} : pc'[u] = pc[u]
  BY <1>1
<1>3. \A u \in Task \ {t} : child'[u] = child[u]
  BY <1>1
<1>4. pc'[t] \in Making => child'[t] = child[t]
  BY <1>2
<1>5. child[t] = x /\ x # t /\ pc[x] = "run" /\ \A u \in Task \ {t} : pc[u] \in Making => child[u] # x
  BY DEF Makes
<1>. QED  BY <1>2, <1>3, <1>4, <1>5 DEF Stepped

\* The maker moves on, and nothing is counted.
LEMMA QuietInv ==
    ASSUME ProcessInv, ~lost, NEW t \in Task, NEW q \in Making, pc[t] \in Making,
           pc' = [pc EXCEPT ![t] = q], UNCHANGED <<status, fileVars, fsVars, child>>,
           \/ pc[t] \in Counted /\ q \in Counted
           \/ pc[t] = "files" /\ q = "u_free"
           \/ pc[t] = "fs" /\ q = "fs_store"
    PROVE  ProcessInv'
<1>1. /\ status' = status /\ files' = files /\ refcount' = refcount
      /\ fs' = fs /\ users' = users /\ lost' = lost /\ child' = child /\ q \in ProcessPc
  BY Places DEF fileVars, fsVars
<1>2. PICK x \in Task : Makes(t, x)
  BY Maker
<1>3. Stepped(t, x) /\ pc'[t] = q /\ pc'[x] = "run" /\ pc' \in [Task -> ProcessPc]
  BY <1>1, <1>2, MakerStep, Zenon
<1>4. ProcTypeOK'
  BY <1>1, <1>3 DEF ProcessInv, ProcTypeOK
<1>5. status'[t] = "live" /\ status'[x] = "new" /\ Given(t, x)'
  BY <1>1, <1>2, <1>3 DEF Makes, Given, Counted
<1>6. TaskOK(t)' /\ TaskOK(x)'
  BY <1>1, <1>2, <1>3 DEF Makes, TaskOK, Making, Unwinding
<1>7. TasksOK'
  BY <1>3, <1>5, <1>6, TasksStep, Zenon DEF ProcessInv
<1>8. FilesOf(t, x)' = FilesOf(t, x) /\ FsOf(t, x)' = FsOf(t, x)
  BY <1>1, <1>3 DEF FilesOf, FsOf, Counted
<1>9. FilesCounted'
  BY <1>1, <1>3, <1>8, FilesSame, Zenon DEF ProcessInv
<1>10. FsCounted'
  BY <1>1, <1>3, <1>8, FsSame, Zenon DEF ProcessInv
<1>. QED  BY <1>4, <1>7, <1>9, <1>10 DEF ProcessInv

LEMMA DupInv ==
    ASSUME ProcessInv, ~lost, NEW t \in Task, dup_task_struct(t) PROVE ProcessInv'
<1>1. PICK x \in Task :
        /\ status[x] = "none" /\ status' = [status EXCEPT ![x] = "new"]
        /\ child' = [child EXCEPT ![t] = x]
        /\ files' = [files EXCEPT ![x] = files[t]] /\ fs' = [fs EXCEPT ![x] = fs[t]]
  BY Zenon DEF dup_task_struct
<1>2. /\ refcount' = refcount /\ users' = users /\ lost' = lost
      /\ status[t] = "live" /\ pc[t] = "run" /\ pc' = [pc EXCEPT ![t] = "files"]
  BY DEF dup_task_struct, Goto
<1>3. /\ x # t /\ pc[x] = "run" /\ files[x] = NULL /\ fs[x] = NULL
      /\ files[t] \in Files /\ fs[t] \in Fs
  <2>1. TaskOK(x) /\ TaskOK(t)
    BY DEF ProcessInv, TasksOK
  <2>. QED  BY <1>1, <1>2, <2>1 DEF TaskOK
<1>4. /\ pc'[t] = "files" /\ pc'[x] = "run" /\ child'[t] = x
      /\ status'[x] = "new" /\ files'[x] = files[t] /\ fs'[x] = fs[t]
      /\ status'[t] = "live" /\ files'[t] = files[t] /\ fs'[t] = fs[t]
      /\ \A u \in Task \ {t} : pc'[u] = pc[u] /\ child'[u] = child[u]
      /\ \A u \in Task \ {x} : status'[u] = status[u] /\ files'[u] = files[u] /\ fs'[u] = fs[u]
  BY <1>1, <1>2, <1>3 DEF ProcessInv, ProcTypeOK
<1>5. \A u \in Task : pc[u] \in Making => child[u] # x
  BY <1>1 DEF ProcessInv, TasksOK, MakerOK
<1>6. Stepped(t, x)
  BY <1>2, <1>3, <1>4, <1>5 DEF Stepped, Making, Unwinding
<1>7. ProcTypeOK'
  BY <1>1, <1>2, <1>3 DEF ProcessInv, ProcTypeOK, ProcessPc
<1>8. Given(t, x)'
  BY <1>3, <1>4 DEF Given, Counted
<1>9. TaskOK(t)' /\ TaskOK(x)'
  BY <1>3, <1>4 DEF TaskOK
<1>10. TasksOK'
  BY <1>4, <1>6, <1>8, <1>9, TasksStep, Zenon DEF ProcessInv
<1>11. FilesOf(t, x)' = FilesOf(t, x) /\ FsOf(t, x)' = FsOf(t, x)
  BY <1>2, <1>3, <1>4 DEF FilesOf, FsOf
<1>12. FilesCounted'
  BY <1>2, <1>6, <1>11, FilesSame, Zenon DEF ProcessInv
<1>13. FsCounted'
  BY <1>2, <1>6, <1>11, FsSame, Zenon DEF ProcessInv
<1>. QED  BY <1>7, <1>10, <1>12, <1>13 DEF ProcessInv

\* The new task has its reference to g.
LEMMA FilesGivenInv ==
    ASSUME ProcessInv, ~lost, NEW t \in Task, NEW x \in Task, Makes(t, x), NEW g \in Files,
           pc[t] = "files", pc' = [pc EXCEPT ![t] = "fs"], files' = [files EXCEPT ![x] = g],
           refcount' = [refcount EXCEPT ![g] = @ + 1], UNCHANGED <<status, fsVars, child>>
    PROVE  ProcessInv'
<1>1. /\ status' = status /\ fs' = fs /\ users' = users /\ lost' = lost /\ child' = child
      /\ pc[t] \in Making /\ "fs" \in ProcessPc
  BY DEF fsVars, Making, ProcessPc
<1>2. files \in [Task -> Files \cup {NULL}] /\ refcount \in [Files -> Int]
  BY DEF ProcessInv, ProcTypeOK
<1>3. files'[x] = g /\ \A u \in Task \ {x} : files'[u] = files[u]
  BY <1>2, Put, Zenon
<1>4. Stepped(t, x) /\ pc'[t] = "fs" /\ pc'[x] = "run" /\ pc' \in [Task -> ProcessPc]
  BY <1>1, <1>3, MakerStep, Zenon
<1>5. ProcTypeOK'
  <2>1. refcount' \in [Files -> Int]
    BY <1>2
  <2>2. files' \in [Task -> Files \cup {NULL}]
    BY <1>2
  <2>. QED  BY <1>1, <1>4, <2>1, <2>2 DEF ProcessInv, ProcTypeOK
<1>6. status'[t] = "live" /\ status'[x] = "new" /\ Given(t, x)'
  BY <1>1, <1>3, <1>4 DEF Makes, Given, Counted
<1>7. TaskOK(t)' /\ TaskOK(x)'
  BY <1>1, <1>3, <1>4 DEF Makes, TaskOK
<1>8. TasksOK'
  BY <1>4, <1>6, <1>7, TasksStep, Zenon DEF ProcessInv
<1>9. FilesOf(t, x) = NULL /\ FilesOf(t, x)' = g /\ FsOf(t, x)' = FsOf(t, x)
  BY <1>1, <1>3, <1>4 DEF FilesOf, FsOf
<1>10. FilesCounted'
  BY <1>2, <1>4, <1>9, FilesRaised, Zenon DEF ProcessInv
<1>11. FsCounted'
  BY <1>1, <1>4, <1>9, FsSame, Zenon DEF ProcessInv
<1>. QED  BY <1>5, <1>8, <1>10, <1>11 DEF ProcessInv

LEMMA CopyFilesInv ==
    ASSUME ProcessInv, ~lost, NEW t \in Task, copy_files(t) PROVE ProcessInv'
<1>1. pc[t] = "files" /\ pc[t] \in Making /\ UNCHANGED <<status, fsVars, child>>
  BY DEF copy_files, Goto, Making
<1>2. PICK x \in Task : Makes(t, x)
  BY <1>1, Maker, Zenon
<1>3. child[t] = x /\ files[x] = files[t] /\ files[t] \in Files
  BY <1>1, <1>2 DEF Makes, Given
<1>4. CASE /\ pc' = [pc EXCEPT ![t] = "fs"]
           /\ refcount' = [refcount EXCEPT ![files[t]] = @ + 1] /\ files' = files
  <2>1. files' = [files EXCEPT ![x] = files[t]]
    BY <1>3, <1>4 DEF ProcessInv, ProcTypeOK
  <2>. QED  BY <1>1, <1>2, <1>3, <1>4, <2>1, FilesGivenInv, Zenon
<1>5. ASSUME NEW g \in Files, pc' = [pc EXCEPT ![t] = "fs"], refcount[g] = 0,
             refcount' = [refcount EXCEPT ![g] = 1], files' = [files EXCEPT ![x] = g]
      PROVE  ProcessInv'
  <2>1. refcount' = [refcount EXCEPT ![g] = @ + 1]
    BY <1>5
  <2>. QED  BY <1>1, <1>2, <1>5, <2>1, FilesGivenInv, Zenon
<1>6. CASE pc' = [pc EXCEPT ![t] = "u_free"] /\ UNCHANGED <<files, refcount>>
  <2>1. UNCHANGED <<status, fileVars, fsVars, child>> /\ "u_free" \in Making
    BY <1>1, <1>6 DEF fileVars, Making, Unwinding
  <2>. QED  BY <1>1, <1>6, <2>1, QuietInv, Zenon
<1>. QED  BY <1>3, <1>4, <1>5, <1>6 DEF copy_files, Goto

LEMMA CopyFsLoadInv ==
    ASSUME ProcessInv, ~lost, NEW t \in Task, copy_fs_load(t) PROVE ProcessInv'
<1>1. /\ pc[t] = "fs" /\ pc' = [pc EXCEPT ![t] = "fs_store"] /\ UNCHANGED <<status, fileVars, fsVars, child>>
      /\ pc[t] \in Making /\ "fs_store" \in Making
  BY DEF copy_fs_load, Goto, Making
<1>. QED  BY <1>1, QuietInv, Zenon

\* A reference to g is counted, or the update is lost.
LEMMA FsGivenInv ==
    ASSUME ProcessInv, ~lost, NEW t \in Task, NEW x \in Task, Makes(t, x), NEW g \in Fs,
           pc[t] \in {"fs", "fs_store"}, pc' = [pc EXCEPT ![t] = "sighand"], fs' = [fs EXCEPT ![x] = g],
           lost' \/ (~lost' /\ users' = [users EXCEPT ![g] = @ + 1]),
           UNCHANGED <<status, fileVars, child>>
    PROVE  ProcessInv'
<1>1. /\ status' = status /\ files' = files /\ refcount' = refcount /\ child' = child
      /\ pc[t] \in Making /\ "sighand" \in ProcessPc
  BY DEF fileVars, Making, ProcessPc
<1>2. fs \in [Task -> Fs \cup {NULL}] /\ users \in [Fs -> Int]
  BY DEF ProcessInv, ProcTypeOK
<1>3. fs'[x] = g /\ \A u \in Task \ {x} : fs'[u] = fs[u]
  BY <1>2, Put, Zenon
<1>4. Stepped(t, x) /\ pc'[t] = "sighand" /\ pc'[x] = "run" /\ pc' \in [Task -> ProcessPc]
  BY <1>1, <1>3, MakerStep, Zenon
<1>5. ProcTypeOK'
  <2>1. fs' \in [Task -> Fs \cup {NULL}]
    BY <1>2
  <2>2. ~lost' => users' \in [Fs -> Int]
    BY <1>2
  <2>. QED  BY <1>1, <1>4, <2>1, <2>2 DEF ProcessInv, ProcTypeOK
<1>6. status'[t] = "live" /\ status'[x] = "new" /\ Given(t, x)'
  BY <1>1, <1>3, <1>4 DEF Makes, Given, Counted
<1>7. TaskOK(t)' /\ TaskOK(x)'
  BY <1>1, <1>3, <1>4 DEF Makes, TaskOK
<1>8. TasksOK'
  BY <1>4, <1>6, <1>7, TasksStep, Zenon DEF ProcessInv
<1>9. FilesOf(t, x)' = FilesOf(t, x) /\ FsOf(t, x) = NULL /\ FsOf(t, x)' = g
  BY <1>1, <1>3, <1>4 DEF FilesOf, FsOf
<1>10. FilesCounted'
  BY <1>1, <1>4, <1>9, FilesSame, Zenon DEF ProcessInv
<1>11. FsCounted'
  <2>1. CASE lost'
    BY <2>1 DEF FsCounted
  <2>2. CASE ~lost' /\ users' = [users EXCEPT ![g] = @ + 1]
    BY <1>2, <1>4, <1>9, <2>2, FsRaised, Zenon DEF ProcessInv
  <2>. QED  BY <2>1, <2>2
<1>. QED  BY <1>5, <1>8, <1>10, <1>11 DEF ProcessInv

LEMMA CopyFsStoreInv ==
    ASSUME ProcessInv, ~lost, NEW t \in Task, copy_fs_store(t) PROVE ProcessInv'
<1>1. /\ pc[t] = "fs_store" /\ pc[t] \in Making /\ pc' = [pc EXCEPT ![t] = "sighand"]
      /\ users' = [users EXCEPT ![fs[t]] = tmp[t] + 1] /\ lost' = (users[fs[t]] # tmp[t])
      /\ fs' = fs /\ UNCHANGED <<status, fileVars, child>>
  BY DEF copy_fs_store, Goto, Making
<1>2. PICK x \in Task : Makes(t, x)
  BY <1>1, Maker, Zenon
<1>3. fs[x] = fs[t]
  BY <1>1, <1>2 DEF Makes, Given
<1>4. PICK g \in Fs : g = fs[t]
  BY <1>2 DEF Makes
<1>5. fs' = [fs EXCEPT ![x] = g]
  BY <1>1, <1>3, <1>4 DEF ProcessInv, ProcTypeOK
<1>6. lost' \/ (~lost' /\ users' = [users EXCEPT ![g] = @ + 1])
  <2>1. users[g] = tmp[t] => users' = [users EXCEPT ![g] = @ + 1]
    BY <1>1, <1>4
  <2>2. lost' = (users[g] # tmp[t])
    BY <1>1, <1>4
  <2>. QED  BY <2>1, <2>2, Zenon
<1>. QED  BY <1>1, <1>2, <1>5, <1>6, FsGivenInv, Zenon

\* The new task has no fs any more: copy_fs_struct() has failed, or exit_fs() has
\* dropped the reference.
LEMMA NoFsInv ==
    ASSUME ProcessInv, ~lost, NEW t \in Task, NEW x \in Task, Makes(t, x),
           pc[t] \in {"fs", "u_fs"}, pc' = [pc EXCEPT ![t] = "u_files"], fs' = [fs EXCEPT ![x] = NULL],
           \/ pc[t] = "fs" /\ users' = users
           \/ pc[t] = "u_fs" /\ users' = [users EXCEPT ![fs[x]] = @ - 1],
           UNCHANGED <<status, fileVars, lost, child>>
    PROVE  ProcessInv'
<1>1. /\ status' = status /\ files' = files /\ refcount' = refcount /\ lost' = lost /\ child' = child
      /\ pc[t] \in Making /\ "u_files" \in ProcessPc
  BY DEF fileVars, Making, Unwinding, ProcessPc
<1>2. fs \in [Task -> Fs \cup {NULL}] /\ users \in [Fs -> Int]
  BY DEF ProcessInv, ProcTypeOK
<1>3. fs'[x] = NULL /\ \A u \in Task \ {x} : fs'[u] = fs[u]
  BY <1>2, Put, Zenon
<1>4. Stepped(t, x) /\ pc'[t] = "u_files" /\ pc'[x] = "run" /\ pc' \in [Task -> ProcessPc]
  BY <1>1, <1>3, MakerStep, Zenon
<1>5. pc[t] = "u_fs" => \E g \in Fs : g = fs[x]
  BY DEF Makes, Given, Counted
<1>6. ProcTypeOK'
  <2>1. fs' \in [Task -> Fs \cup {NULL}]
    BY <1>2
  <2>2. users' \in [Fs -> Int]
    BY <1>2, <1>5
  <2>. QED  BY <1>1, <1>4, <2>1, <2>2 DEF ProcessInv, ProcTypeOK
<1>7. status'[t] = "live" /\ status'[x] = "new" /\ Given(t, x)'
  BY <1>1, <1>3, <1>4 DEF Makes, Given, Counted
<1>8. TaskOK(t)' /\ TaskOK(x)'
  BY <1>1, <1>3, <1>4 DEF Makes, TaskOK
<1>9. TasksOK'
  BY <1>4, <1>7, <1>8, TasksStep, Zenon DEF ProcessInv
<1>10. FilesOf(t, x)' = FilesOf(t, x) /\ FsOf(t, x)' = NULL
  BY <1>1, <1>3, <1>4 DEF FilesOf, FsOf
<1>11. FilesCounted'
  BY <1>1, <1>4, <1>10, FilesSame, Zenon DEF ProcessInv
<1>12. FsCounted'
  <2>1. CASE pc[t] = "fs" /\ users' = users
    <3>1. FsOf(t, x) = NULL
      BY <2>1 DEF FsOf
    <3>. QED  BY <1>1, <1>4, <1>10, <2>1, <3>1, FsSame, Zenon DEF ProcessInv
  <2>2. CASE pc[t] = "u_fs" /\ users' = [users EXCEPT ![fs[x]] = @ - 1]
    <3>1. PICK g \in Fs : g = fs[x]
      BY <1>5, <2>2
    <3>2. FsOf(t, x) = g /\ users' = [users EXCEPT ![g] = @ - 1]
      BY <2>2, <3>1 DEF FsOf
    <3>. QED  BY <1>1, <1>2, <1>4, <1>10, <3>2, FsDropped, Zenon DEF ProcessInv
  <2>. QED  BY <2>1, <2>2
<1>. QED  BY <1>6, <1>9, <1>11, <1>12 DEF ProcessInv

LEMMA CopyFsInv ==
    ASSUME ProcessInv, ~lost, NEW t \in Task, copy_fs(t) PROVE ProcessInv'
<1>1. pc[t] = "fs" /\ pc[t] \in Making /\ UNCHANGED <<status, fileVars, lost, child>>
  BY DEF copy_fs, Goto, Making
<1>2. PICK x \in Task : Makes(t, x)
  BY <1>1, Maker, Zenon
<1>3. child[t] = x
  BY <1>2 DEF Makes
<1>4. ASSUME NEW g \in Fs, users[g] = 0, users' = [users EXCEPT ![g] = 1],
             fs' = [fs EXCEPT ![x] = g], pc' = [pc EXCEPT ![t] = "sighand"]
      PROVE  ProcessInv'
  <2>1. ~lost' /\ users' = [users EXCEPT ![g] = @ + 1]
    BY <1>1, <1>4
  <2>. QED  BY <1>1, <1>2, <1>4, <2>1, FsGivenInv, Zenon
<1>5. CASE pc' = [pc EXCEPT ![t] = "u_files"] /\ fs' = [fs EXCEPT ![x] = NULL] /\ users' = users
  BY <1>1, <1>2, <1>5, NoFsInv, Zenon
<1>. QED  BY <1>3, <1>4, <1>5 DEF copy_fs, Goto

LEMMA UnwindFsInv ==
    ASSUME ProcessInv, ~lost, NEW t \in Task, unwind_fs(t) PROVE ProcessInv'
<1>1. pc[t] = "u_fs" /\ pc[t] \in Making /\ UNCHANGED <<status, fileVars, lost, child>>
  BY DEF unwind_fs, exit_fs, Goto, Making, Unwinding
<1>2. PICK x \in Task : Makes(t, x)
  BY <1>1, Maker, Zenon
<1>3. /\ pc' = [pc EXCEPT ![t] = "u_files"] /\ fs' = [fs EXCEPT ![x] = NULL]
      /\ users' = [users EXCEPT ![fs[x]] = @ - 1]
  BY <1>2 DEF Makes, unwind_fs, exit_fs, Goto
<1>. QED  BY <1>1, <1>2, <1>3, NoFsInv, Zenon

LEMMA UnwindFilesInv ==
    ASSUME ProcessInv, ~lost, NEW t \in Task, unwind_files(t) PROVE ProcessInv'
<1>1. /\ pc[t] = "u_files" /\ pc[t] \in Making /\ pc' = [pc EXCEPT ![t] = "u_free"]
      /\ status' = status /\ fs' = fs /\ users' = users /\ lost' = lost /\ child' = child
      /\ "u_free" \in ProcessPc
  BY DEF unwind_files, Goto, fsVars, Making, Unwinding, ProcessPc
<1>2. PICK x \in Task : Makes(t, x)
  BY <1>1, Maker, Zenon
<1>3. PICK g \in Files : g = files[x]
  BY <1>1, <1>2 DEF Makes, Given
<1>4. files' = [files EXCEPT ![x] = NULL] /\ refcount' = [refcount EXCEPT ![g] = @ - 1]
  BY <1>2, <1>3 DEF Makes, unwind_files, exit_files
<1>5. files \in [Task -> Files \cup {NULL}] /\ refcount \in [Files -> Int]
  BY DEF ProcessInv, ProcTypeOK
<1>6. files'[x] = NULL /\ \A u \in Task \ {x} : files'[u] = files[u]
  BY <1>4, <1>5, Put, Zenon
<1>7. Stepped(t, x) /\ pc'[t] = "u_free" /\ pc'[x] = "run" /\ pc' \in [Task -> ProcessPc]
  BY <1>1, <1>2, <1>6, MakerStep, Zenon
<1>8. ProcTypeOK'
  <2>1. files' \in [Task -> Files \cup {NULL}]
    BY <1>4, <1>5
  <2>2. refcount' \in [Files -> Int]
    BY <1>4, <1>5
  <2>. QED  BY <1>1, <1>7, <2>1, <2>2 DEF ProcessInv, ProcTypeOK
<1>9. status'[t] = "live" /\ status'[x] = "new" /\ Given(t, x)'
  BY <1>1, <1>2, <1>6, <1>7 DEF Makes, Given, Counted
<1>10. TaskOK(t)' /\ TaskOK(x)'
  BY <1>1, <1>2, <1>6, <1>7 DEF Makes, TaskOK
<1>11. TasksOK'
  BY <1>7, <1>9, <1>10, TasksStep, Zenon DEF ProcessInv
<1>12. FilesOf(t, x) = g /\ FilesOf(t, x)' = NULL /\ FsOf(t, x)' = FsOf(t, x)
  BY <1>1, <1>2, <1>3, <1>7 DEF FilesOf, FsOf, Makes, Given
<1>13. FilesCounted'
  BY <1>4, <1>5, <1>7, <1>12, FilesDropped, Zenon DEF ProcessInv
<1>14. FsCounted'
  BY <1>1, <1>7, <1>12, FsSame, Zenon DEF ProcessInv
<1>. QED  BY <1>8, <1>11, <1>13, <1>14 DEF ProcessInv

LEMMA LinkInv ==
    ASSUME ProcessInv, ~lost, NEW t \in Task, copy_process_link(t) PROVE ProcessInv'
<1>1. /\ pc[t] = "link" /\ pc[t] \in Making /\ pc' = [pc EXCEPT ![t] = "run"]
      /\ child' = [child EXCEPT ![t] = NULL]
      /\ files' = files /\ refcount' = refcount /\ fs' = fs /\ users' = users /\ lost' = lost
      /\ "run" \in ProcessPc /\ "run" \notin Making
  BY DEF copy_process_link, Goto, fileVars, fsVars, Making, Unwinding, ProcessPc
<1>2. PICK x \in Task : Makes(t, x)
  BY <1>1, Maker, Zenon
<1>3. status' = [status EXCEPT ![x] = "live"] /\ files[x] \in Files /\ fs[x] \in Fs
  BY <1>1, <1>2 DEF Makes, Given, Counted, copy_process_link
<1>4. status \in [Task -> {"none", "new", "live", "dead"}] /\ child \in [Task -> Task \cup {NULL}]
  BY DEF ProcessInv, ProcTypeOK
<1>5. status'[x] = "live" /\ \A u \in Task \ {x} : status'[u] = status[u]
  BY <1>3, <1>4, Put, Zenon
<1>6. Stepped(t, x) /\ pc'[t] = "run" /\ pc'[x] = "run" /\ pc' \in [Task -> ProcessPc]
  BY <1>1, <1>2, <1>5, MakerStep, Zenon
<1>7. ProcTypeOK'
  <2>1. status' \in [Task -> {"none", "new", "live", "dead"}]
    BY <1>3, <1>4
  <2>2. child' \in [Task -> Task \cup {NULL}]
    BY <1>1, <1>4
  <2>. QED  BY <1>1, <1>6, <2>1, <2>2 DEF ProcessInv, ProcTypeOK
<1>8. TaskOK(t)' /\ TaskOK(x)' /\ pc'[t] \notin Making
  BY <1>1, <1>2, <1>3, <1>5, <1>6 DEF Makes, TaskOK, Making, Unwinding
<1>9. TasksOK'
  BY <1>6, <1>8, TasksStep, Zenon DEF ProcessInv
<1>10. FilesOf(t, x)' = FilesOf(t, x) /\ FsOf(t, x)' = FsOf(t, x)
  BY <1>1, <1>6 DEF FilesOf, FsOf
<1>11. FilesCounted'
  BY <1>1, <1>6, <1>10, FilesSame, Zenon DEF ProcessInv
<1>12. FsCounted'
  BY <1>1, <1>6, <1>10, FsSame, Zenon DEF ProcessInv
<1>. QED  BY <1>7, <1>9, <1>11, <1>12 DEF ProcessInv

LEMMA UnwindFreeInv ==
    ASSUME ProcessInv, ~lost, NEW t \in Task, unwind_free(t) PROVE ProcessInv'
<1>1. /\ pc[t] = "u_free" /\ pc[t] \in Making /\ pc' = [pc EXCEPT ![t] = "run"]
      /\ child' = [child EXCEPT ![t] = NULL]
      /\ refcount' = refcount /\ users' = users /\ lost' = lost
      /\ "run" \in ProcessPc /\ "run" \notin Making
  BY DEF unwind_free, Goto, Making, Unwinding, ProcessPc
<1>2. PICK x \in Task : Makes(t, x)
  BY <1>1, Maker, Zenon
<1>3. /\ status' = [status EXCEPT ![x] = "none"]
      /\ files' = [files EXCEPT ![x] = NULL] /\ fs' = [fs EXCEPT ![x] = NULL]
  BY <1>2 DEF Makes, unwind_free
<1>4. /\ status \in [Task -> {"none", "new", "live", "dead"}] /\ child \in [Task -> Task \cup {NULL}]
      /\ files \in [Task -> Files \cup {NULL}] /\ fs \in [Task -> Fs \cup {NULL}]
  BY DEF ProcessInv, ProcTypeOK
<1>5. /\ status'[x] = "none" /\ files'[x] = NULL /\ fs'[x] = NULL
      /\ \A u \in Task \ {x} : status'[u] = status[u] /\ files'[u] = files[u] /\ fs'[u] = fs[u]
  BY <1>3, <1>4, Put, Zenon
<1>6. Stepped(t, x) /\ pc'[t] = "run" /\ pc'[x] = "run" /\ pc' \in [Task -> ProcessPc]
  BY <1>1, <1>2, <1>5, MakerStep, Zenon
<1>7. ProcTypeOK'
  <2>1. status' \in [Task -> {"none", "new", "live", "dead"}] /\ child' \in [Task -> Task \cup {NULL}]
    BY <1>1, <1>3, <1>4
  <2>2. files' \in [Task -> Files \cup {NULL}] /\ fs' \in [Task -> Fs \cup {NULL}]
    BY <1>3, <1>4
  <2>. QED  BY <1>1, <1>6, <2>1, <2>2 DEF ProcessInv, ProcTypeOK
<1>8. TaskOK(t)' /\ TaskOK(x)' /\ pc'[t] \notin Making
  BY <1>2, <1>5, <1>6 DEF Makes, TaskOK, Making, Unwinding
<1>9. TasksOK'
  BY <1>6, <1>8, TasksStep, Zenon DEF ProcessInv
<1>10. FilesOf(t, x)' = FilesOf(t, x) /\ FsOf(t, x)' = FsOf(t, x)
  BY <1>1, <1>5, <1>6 DEF FilesOf, FsOf
<1>11. FilesCounted'
  BY <1>1, <1>6, <1>10, FilesSame, Zenon DEF ProcessInv
<1>12. FsCounted'
  BY <1>1, <1>6, <1>10, FsSame, Zenon DEF ProcessInv
<1>. QED  BY <1>7, <1>9, <1>11, <1>12 DEF ProcessInv

\* A task that exits is nobody's new task.
LEMMA Exiting ==
    ASSUME ProcessInv, NEW t \in Task, status[t] \notin {"none", "new"}, NEW q \in ProcessPc \ Making,
           pc[t] \notin Making, pc' = [pc EXCEPT ![t] = q], child' = child,
           \A u \in Task \ {t} : status'[u] = status[u] /\ files'[u] = files[u] /\ fs'[u] = fs[u]
    PROVE  Stepped(t, t) /\ pc'[t] = q /\ pc' \in [Task -> ProcessPc]
<1>1. ASSUME NEW u \in Task, pc[u] \in Making PROVE child[u] # t
  BY <1>1 DEF ProcessInv, TasksOK, MakerOK
<1>2. pc'[t] = q /\ pc' \in [Task -> ProcessPc] /\ \A u \in Task \ {t} : pc'[u] = pc[u]
  BY DEF ProcessInv, ProcTypeOK
<1>. QED  BY <1>1, <1>2 DEF Stepped

LEMMA ExitFilesInv ==
    ASSUME ProcessInv, ~lost, NEW t \in Task, do_exit(t) PROVE ProcessInv'
<1>1. /\ pc[t] = "run" /\ status[t] = "live" /\ pc' = [pc EXCEPT ![t] = "x_fs"]
      /\ files' = [files EXCEPT ![t] = NULL] /\ refcount' = [refcount EXCEPT ![files[t]] = @ - 1]
      /\ status' = status /\ fs' = fs /\ users' = users /\ lost' = lost /\ child' = child
  BY DEF do_exit, exit_files, Goto, fsVars
<1>2. files[t] \in Files /\ fs[t] \in Fs
  BY <1>1 DEF ProcessInv, TasksOK, TaskOK
<1>3. PICK g \in Files : g = files[t]
  BY <1>2
<1>4. files'[t] = NULL /\ \A u \in Task \ {t} : files'[u] = files[u]
  BY <1>1 DEF ProcessInv, ProcTypeOK
<1>5. Stepped(t, t) /\ pc'[t] = "x_fs" /\ pc' \in [Task -> ProcessPc]
  BY <1>1, <1>4, Exiting DEF ProcessPc, Making, Unwinding
<1>6. ProcTypeOK'
  <2>1. files' \in [Task -> Files \cup {NULL}] /\ refcount' \in [Files -> Int]
    BY <1>1, <1>3 DEF ProcessInv, ProcTypeOK
  <2>. QED  BY <1>1, <1>5, <2>1 DEF ProcessInv, ProcTypeOK
<1>7. TaskOK(t)' /\ pc'[t] \notin Making
  BY <1>1, <1>2, <1>5 DEF TaskOK, Making, Unwinding
<1>8. TasksOK'
  BY <1>5, <1>7, TasksStep, Zenon DEF ProcessInv
<1>9. FilesOf(t, t) = g /\ FilesOf(t, t)' = NULL /\ FsOf(t, t)' = FsOf(t, t)
  BY <1>1, <1>3, <1>4, <1>5 DEF FilesOf, FsOf
<1>10. FilesCounted'
  BY <1>1, <1>3, <1>5, <1>9, FilesDropped, Zenon DEF ProcessInv, ProcTypeOK
<1>11. FsCounted'
  BY <1>1, <1>5, <1>9, FsSame, Zenon DEF ProcessInv
<1>. QED  BY <1>6, <1>8, <1>10, <1>11 DEF ProcessInv

LEMMA ExitFsInv ==
    ASSUME ProcessInv, ~lost, NEW t \in Task, do_exit_fs(t) PROVE ProcessInv'
<1>1. /\ pc[t] = "x_fs" /\ pc' = [pc EXCEPT ![t] = "x_notify"]
      /\ fs' = [fs EXCEPT ![t] = NULL] /\ users' = [users EXCEPT ![fs[t]] = @ - 1]
      /\ status' = status /\ files' = files /\ refcount' = refcount /\ lost' = lost /\ child' = child
  BY DEF do_exit_fs, exit_fs, Goto, fileVars
<1>2. status[t] = "live" /\ fs[t] \in Fs
  BY <1>1 DEF ProcessInv, TasksOK, TaskOK
<1>3. PICK g \in Fs : g = fs[t]
  BY <1>2
<1>4. fs'[t] = NULL /\ \A u \in Task \ {t} : fs'[u] = fs[u]
  BY <1>1 DEF ProcessInv, ProcTypeOK
<1>5. Stepped(t, t) /\ pc'[t] = "x_notify" /\ pc' \in [Task -> ProcessPc]
  BY <1>1, <1>2, <1>4, Exiting DEF ProcessPc, Making, Unwinding
<1>6. ProcTypeOK'
  <2>1. fs' \in [Task -> Fs \cup {NULL}] /\ users' \in [Fs -> Int]
    BY <1>1, <1>3 DEF ProcessInv, ProcTypeOK
  <2>. QED  BY <1>1, <1>5, <2>1 DEF ProcessInv, ProcTypeOK
<1>7. TaskOK(t)' /\ pc'[t] \notin Making
  BY <1>1, <1>2, <1>5 DEF TaskOK, Making, Unwinding
<1>8. TasksOK'
  BY <1>5, <1>7, TasksStep, Zenon DEF ProcessInv
<1>9. FilesOf(t, t)' = FilesOf(t, t) /\ FsOf(t, t) = g /\ FsOf(t, t)' = NULL
  BY <1>1, <1>3, <1>4, <1>5 DEF FilesOf, FsOf
<1>10. FilesCounted'
  BY <1>1, <1>5, <1>9, FilesSame, Zenon DEF ProcessInv
<1>11. FsCounted'
  BY <1>1, <1>3, <1>5, <1>9, FsDropped, Zenon DEF ProcessInv, ProcTypeOK
<1>. QED  BY <1>6, <1>8, <1>10, <1>11 DEF ProcessInv

LEMMA ExitNotifyInv ==
    ASSUME ProcessInv, ~lost, NEW t \in Task, exit_notify(t) PROVE ProcessInv'
<1>1. PICK q \in {"gone", "crash"} :
        /\ pc[t] = "x_notify" /\ pc' = [pc EXCEPT ![t] = q]
        /\ status' \in {status, [status EXCEPT ![t] = "dead"]}
  BY DEF exit_notify, Goto
<1>2. /\ files' = files /\ refcount' = refcount /\ fs' = fs /\ users' = users
      /\ lost' = lost /\ child' = child
  BY DEF exit_notify, fileVars, fsVars
<1>3. status[t] \notin {"none", "new"}
  BY <1>1 DEF ProcessInv, TasksOK, TaskOK
<1>4. status'[t] \notin {"none", "new"} /\ \A u \in Task \ {t} : status'[u] = status[u]
  BY <1>1, <1>3 DEF ProcessInv, ProcTypeOK
<1>5. Stepped(t, t) /\ pc'[t] = q /\ pc' \in [Task -> ProcessPc]
  BY <1>1, <1>2, <1>3, <1>4, Exiting DEF ProcessPc, Making, Unwinding
<1>6. ProcTypeOK'
  BY <1>1, <1>2, <1>5 DEF ProcessInv, ProcTypeOK
<1>7. TaskOK(t)' /\ pc'[t] \notin Making
  BY <1>4, <1>5 DEF TaskOK, Making, Unwinding
<1>8. TasksOK'
  BY <1>5, <1>7, TasksStep, Zenon DEF ProcessInv
<1>9. FilesOf(t, t)' = FilesOf(t, t) /\ FsOf(t, t)' = FsOf(t, t)
  BY <1>1, <1>2, <1>5 DEF FilesOf, FsOf
<1>10. FilesCounted'
  BY <1>2, <1>5, <1>9, FilesSame, Zenon DEF ProcessInv
<1>11. FsCounted'
  BY <1>2, <1>5, <1>9, FsSame, Zenon DEF ProcessInv
<1>. QED  BY <1>6, <1>8, <1>10, <1>11 DEF ProcessInv

-----------------------------------------------------------------------------
LEMMA ProcessInvNext ==
    ProcessInv /\ [ProcessNext]_procVars => ProcessInv'
<1>1. ASSUME ProcessInv, UNCHANGED procVars PROVE ProcessInv'
  <2>1. /\ status' = status /\ files' = files /\ refcount' = refcount /\ fs' = fs
        /\ users' = users /\ lost' = lost /\ pc' = pc /\ child' = child
    BY <1>1 DEF procVars, fileVars, fsVars
  <2>2. ProcTypeOK' /\ TasksOK'
    BY <1>1, <2>1 DEF ProcessInv, ProcTypeOK, TasksOK, MakerOK, Given, TaskOK, OwnChild
  <2>3. \A f : HoldsFiles(f)' = HoldsFiles(f) /\ HoldsFs(f)' = HoldsFs(f)
    BY <2>1 DEF HoldsFiles, HoldsFs, Uncounted
  <2>. QED  BY <1>1, <2>1, <2>2, <2>3 DEF ProcessInv, FilesCounted, FsCounted
<1>2. ASSUME ProcessInv, ~lost, NEW t \in Task, copy_process(t) PROVE ProcessInv'
  <2>1. ASSUME \/ copy_sighand(t) \/ copy_others(t) \/ alloc_pid(t) \/ alloc_pid_replace(t)
               \/ unwind_sighand(t)
        PROVE  ProcessInv'
    <3>1. PICK q \in Counted : pc' = [pc EXCEPT ![t] = q]
      BY <2>1 DEF copy_sighand, copy_others, alloc_pid, alloc_pid_replace, unwind_sighand, Goto, Counted
    <3>2. pc[t] \in Counted /\ UNCHANGED <<status, fileVars, fsVars, child>>
      BY <2>1 DEF copy_sighand, copy_others, alloc_pid, alloc_pid_replace, unwind_sighand, Goto, Counted
    <3>3. pc[t] \in Making /\ q \in Making
      BY <3>2, Places, Zenon
    <3>. QED  BY <1>2, <3>1, <3>2, <3>3, QuietInv, Zenon
  <2>. QED  BY <1>2, <2>1, DupInv, CopyFilesInv, CopyFsLoadInv, CopyFsStoreInv, CopyFsInv, LinkInv,
               UnwindFsInv, UnwindFilesInv, UnwindFreeInv DEF copy_process
<1>. QED  BY <1>1, <1>2, ExitFilesInv, ExitFsInv, ExitNotifyInv DEF ProcessNext

LEMMA ProcessInvInit == ProcessInit => ProcessInv
<1>. SUFFICES ASSUME ProcessInit PROVE ProcessInv
  OBVIOUS
<1>1. PICK f \in Files, g \in Files, h \in Fs :
        /\ f # g
        /\ status = [t \in Task |-> IF t \in {Idle, Initd, Kthreadd} THEN "live" ELSE "none"]
        /\ files = [t \in Task |-> IF t = Initd THEN g
                                   ELSE IF t \in {Idle, Kthreadd} THEN f ELSE NULL]
        /\ refcount = [x \in Files |-> IF x = f THEN 2 ELSE IF x = g THEN 1 ELSE 0]
        /\ fs = [t \in Task |-> IF t \in {Idle, Initd, Kthreadd} THEN h ELSE NULL]
        /\ users = [x \in Fs |-> IF x = h THEN 3 ELSE 0]
        /\ pc = [t \in Task |-> "run"] /\ child = [t \in Task |-> NULL] /\ lost = FALSE
  BY DEF ProcessInit
<1>2. ProcTypeOK
  BY <1>1 DEF ProcTypeOK, ProcessPc
<1>3. TasksOK
  <2>1. \A t \in Task : pc[t] \notin Making
    BY <1>1 DEF Making, Unwinding
  <2>2. \A t \in Task : TaskOK(t)
    BY <1>1, <2>1 DEF TaskOK
  <2>. QED  BY <2>1, <2>2 DEF TasksOK, OwnChild
<1>4. Idle # Initd /\ Initd # Kthreadd /\ Idle # Kthreadd /\ {Idle, Initd, Kthreadd} \subseteq Task
  BY ProcessAssumption
<1>5. /\ HoldsFiles(f) = {Idle, Kthreadd} /\ HoldsFiles(g) = {Initd}
      /\ \A x \in Files \ {f, g} : HoldsFiles(x) = {}
      /\ HoldsFs(h) = {Idle, Initd, Kthreadd} /\ \A x \in Fs \ {h} : HoldsFs(x) = {}
  BY <1>1, <1>4, Null DEF HoldsFiles, HoldsFs, Uncounted
<1>6. /\ Cardinality({}) = 0 /\ Cardinality({Initd}) = 1 /\ Cardinality({Idle, Kthreadd}) = 2
      /\ Cardinality({Idle, Initd, Kthreadd}) = 3
  <2>1. Cardinality({}) = 0 /\ IsFiniteSet({Idle}) /\ Cardinality({Idle}) = 1 /\ Cardinality({Initd}) = 1
    BY FS_EmptySet, FS_Singleton
  <2>2. IsFiniteSet({Idle} \cup {Kthreadd}) /\ Cardinality({Idle} \cup {Kthreadd}) = 2
    <3>1. Kthreadd \notin {Idle}
      BY <1>4
    <3>2. /\ IsFiniteSet({Idle} \cup {Kthreadd})
          /\ Cardinality({Idle} \cup {Kthreadd}) = Cardinality({Idle}) + 1
      BY <2>1, <3>1, FS_AddElement, Zenon
    <3>. QED  BY <2>1, <3>2
  <2>3. Cardinality(({Idle} \cup {Kthreadd}) \cup {Initd}) = 3
    <3>1. Initd \notin {Idle} \cup {Kthreadd}
      BY <1>4
    <3>2. Cardinality(({Idle} \cup {Kthreadd}) \cup {Initd})
          = Cardinality({Idle} \cup {Kthreadd}) + 1
      BY <2>2, <3>1, FS_AddElement, Zenon
    <3>. QED  BY <2>2, <3>2
  <2>4. /\ {Idle} \cup {Kthreadd} = {Idle, Kthreadd}
        /\ ({Idle} \cup {Kthreadd}) \cup {Initd} = {Idle, Initd, Kthreadd}
    OBVIOUS
  <2>. QED  BY <2>1, <2>2, <2>3, <2>4
<1>. QED  BY <1>1, <1>2, <1>3, <1>5, <1>6 DEF ProcessInv, FilesCounted, FsCounted

\* The reference counts, and who has which reference, are exact at every step.
THEOREM ProcessInvariance == ProcessSpec => []ProcessInv
BY ProcessInvInit, ProcessInvNext, PTL DEF ProcessSpec

\* copy_process() with each of its failures and do_exit() keep the count of a
\* files_struct_s equal to the number of tasks that use it.
THEOREM FilesAreCounted == ProcessSpec => []FilesCounted
<1>1. ProcessInv => FilesCounted
  BY DEF ProcessInv
<1>. QED  BY <1>1, ProcessInvariance, PTL

\* The same of fs_struct_s as long as copy_fs() has lost no update of fs->users.
THEOREM FsIsCounted == ProcessSpec => []FsCounted
<1>1. ProcessInv => FsCounted
  BY DEF ProcessInv
<1>. QED  BY <1>1, ProcessInvariance, PTL
=============================================================================
