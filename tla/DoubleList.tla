----------------------------- MODULE DoubleList -----------------------------
(***************************************************************************)
(* List_hdr_s (double_list.h), one memory access at a time: a ring of      *)
(* next/prev pointers through an anchor, with a count.  Several contexts   *)
(* work on the list; an interrupt handler runs to its end before the task  *)
(* it interrupts goes on.  The validity checks of the list code are loops  *)
(* without a body: a context that finds the ring broken spins.             *)
(***************************************************************************)
EXTENDS Naturals, Sequences, Functions, FiniteSets

CONSTANTS
    Node,       \* the List_s entries
    Anchor,     \* List_hdr_s.anchor
    Ops,        \* the operations in use
    Ctx,        \* the contexts that work on the list
    Above       \* Above[c]: the handlers that may interrupt c

\* "wake" is set_task_cpu(): list_header_add_to_head() unless the list holds it.
AllOps == {"add_head", "add_tail", "remove_head", "remove_tail", "delete", "wake"}

ASSUME ListAssumption ==
    /\ Anchor \notin Node /\ IsFiniteSet(Node) /\ Ops \subseteq AllOps
    /\ Above \in [Ctx -> SUBSET Ctx] /\ \A c \in Ctx : c \notin Above[c]

VARIABLES
    next, prev, \* the pointers of the nodes and of the anchor
    count,      \* List_hdr_s.count
    op, at,     \* what each context does, and where it is in it
    node,       \* its node
    p, n        \* its local pointers; n is also the cursor of a walk

listVars == <<next, prev, count, op, at, node, p, n>>

Ptr == Node \cup {Anchor}

At == {"idle", "walk", "load", "check_add", "add1", "add2", "add3", "add4", "inc",
       "check_del", "del1", "del2", "init1", "init2", "dec", "spin"}

ListInit ==
    /\ next = [x \in Ptr |-> x] /\ prev = [x \in Ptr |-> x]
    /\ count = 0
    /\ op = [c \in Ctx |-> "wake"] /\ at = [c \in Ctx |-> "idle"]
    /\ node = [c \in Ctx |-> Anchor]
    /\ p = [c \in Ctx |-> Anchor] /\ n = [c \in Ctx |-> Anchor]

-----------------------------------------------------------------------------
\* A context runs while no handler has interrupted it.
MayRun(c) == \A h \in Above[c] : at[h] = "idle"

\* The owner of an entry adds it only if it is on no list and nobody adds it.
Unlinked(x) == next[x] = x /\ \A c \in Ctx : at[c] # "idle" => node[c] # x

\* Operation o, on entry x if it is given one.
start(c, o, x) ==
    /\ at[c] = "idle" /\ MayRun(c)
    /\ o \in {"add_head", "add_tail"} => Unlinked(x)
    /\ op' = [op EXCEPT ![c] = o]
    /\ node' = [node EXCEPT ![c] = IF o \in {"remove_head", "remove_tail"} THEN Anchor ELSE x]
    /\ IF o \in {"wake", "delete"}
       THEN n' = [n EXCEPT ![c] = next[Anchor]] /\ at' = [at EXCEPT ![c] = "walk"]
       ELSE UNCHANGED n /\ at' = [at EXCEPT ![c] = "load"]
    /\ UNCHANGED <<next, prev, count, p>>

\* Context c runs and is at place a of its operation.
Runs(c, a) == at[c] = a /\ MayRun(c)
Go(c, a) == at' = [at EXCEPT ![c] = a] /\ UNCHANGED op

\* The operation returns; its locals are gone.
Return(c) == /\ at' = [at EXCEPT ![c] = "idle"] /\ op' = [op EXCEPT ![c] = "wake"]
             /\ node' = [node EXCEPT ![c] = Anchor]
             /\ p' = [p EXCEPT ![c] = Anchor] /\ n' = [n EXCEPT ![c] = Anchor]

\* list_header_contains(): a step of the walk.
list_header_contains(c) ==
    /\ Runs(c, "walk")
    /\ \/ /\ n[c] \notin {Anchor, node[c]}
          /\ n' = [n EXCEPT ![c] = next[@]] /\ UNCHANGED <<at, op, node, p>>
       \/ /\ n[c] = IF op[c] = "wake" THEN node[c] ELSE Anchor
          /\ Return(c)
       \/ /\ n[c] = IF op[c] = "wake" THEN Anchor ELSE node[c]
          /\ Go(c, IF op[c] = "wake" THEN "load" ELSE "check_del") /\ UNCHANGED <<node, p, n>>
    /\ UNCHANGED <<next, prev, count>>

\* The arguments of __list_add_between(); remove_head and remove_tail find their
\* node, if there is one.
load(c) ==
    /\ Runs(c, "load")
    /\ CASE op[c] \in {"add_head", "wake"} ->
              p' = [p EXCEPT ![c] = Anchor] /\ n' = [n EXCEPT ![c] = next[Anchor]]
              /\ Go(c, "check_add") /\ UNCHANGED node
         [] op[c] = "add_tail" ->
              p' = [p EXCEPT ![c] = prev[Anchor]] /\ n' = [n EXCEPT ![c] = Anchor]
              /\ Go(c, "check_add") /\ UNCHANGED node
         [] op[c] \in {"remove_head", "remove_tail"} /\ count > 0 ->
              node' = [node EXCEPT ![c] = IF op[c] = "remove_head" THEN next[Anchor] ELSE prev[Anchor]]
              /\ Go(c, "check_del") /\ UNCHANGED <<p, n>>
         [] OTHER -> Return(c)
    /\ UNCHANGED <<next, prev, count>>

__list_add_valid(c) ==
    /\ Runs(c, "check_add")
    /\ Go(c, IF prev[n[c]] = p[c] /\ next[p[c]] = n[c] /\ node[c] \notin {p[c], n[c]}
             THEN "add1" ELSE "spin")
    /\ UNCHANGED <<next, prev, count, node, p, n>>

\* One store, then on to a.
SetNext(c, x, y, a) ==
    next' = [next EXCEPT ![x] = y] /\ Go(c, a) /\ UNCHANGED <<prev, count, node, p, n>>
SetPrev(c, x, y, a) ==
    prev' = [prev EXCEPT ![x] = y] /\ Go(c, a) /\ UNCHANGED <<next, count, node, p, n>>

\* Mutants: prev->next is set first; the entry keeps its old prev pointer.
__list_add_between_first(c) ==
    \/ Runs(c, "add1") /\ SetNext(c, p[c], node[c], "add2")
    \/ Runs(c, "add2") /\ SetPrev(c, n[c], node[c], "add3")
    \/ Runs(c, "add3") /\ SetNext(c, node[c], n[c], "add4")
    \/ Runs(c, "add4") /\ SetPrev(c, node[c], p[c], "inc")
__list_add_between_no_prev(c) ==
    \/ Runs(c, "add1") /\ SetPrev(c, n[c], node[c], "add2")
    \/ Runs(c, "add2") /\ SetNext(c, node[c], n[c], "add4")
    \/ Runs(c, "add4") /\ SetNext(c, p[c], node[c], "inc")

__list_add_between(c) ==
    \/ Runs(c, "add1") /\ SetPrev(c, n[c], node[c], "add2")
    \/ Runs(c, "add2") /\ SetNext(c, node[c], n[c], "add3")
    \/ Runs(c, "add3") /\ SetPrev(c, node[c], p[c], "add4")
    \/ Runs(c, "add4") /\ SetNext(c, p[c], node[c], "inc")

__list_del_entry_valid(c) ==
    /\ Runs(c, "check_del")
    /\ p' = [p EXCEPT ![c] = prev[node[c]]] /\ n' = [n EXCEPT ![c] = next[node[c]]]
    /\ Go(c, IF next[p'[c]] = node[c] /\ prev[n'[c]] = node[c] THEN "del1" ELSE "spin")
    /\ UNCHANGED <<next, prev, count, node>>

\* Mutant: list_del() instead of list_del_init().
list_del_init_no_init(c) ==
    \/ Runs(c, "del1") /\ SetPrev(c, n[c], p[c], "del2")
    \/ Runs(c, "del2") /\ SetNext(c, p[c], n[c], "dec")

\* __list_del(), then INIT_LIST_S().
list_del_init(c) ==
    \/ Runs(c, "del1")  /\ SetPrev(c, n[c], p[c], "del2")
    \/ Runs(c, "del2")  /\ SetNext(c, p[c], n[c], "init1")
    \/ Runs(c, "init1") /\ SetNext(c, node[c], node[c], "init2")
    \/ Runs(c, "init2") /\ SetPrev(c, node[c], node[c], "dec")

\* lhdr_p->count++ and lhdr_p->count--
set_count(c) ==
    /\ \/ Runs(c, "inc") /\ count' = count + 1
       \/ Runs(c, "dec") /\ count' = count - 1
    /\ Return(c)
    /\ UNCHANGED <<next, prev>>

ListStep(c) ==
    \/ list_header_contains(c) \/ load(c)
    \/ __list_add_valid(c) \/ __list_add_between(c)
    \/ __list_del_entry_valid(c) \/ list_del_init(c)
    \/ set_count(c)

\* Nothing keeps the contexts apart.
ListNext == \E c \in Ctx : ListStep(c) \/ \E o \in Ops, x \in Node : start(c, o, x)

ListSpec == ListInit /\ [][ListNext]_listVars

-----------------------------------------------------------------------------
(* Properties *)

\* The nodes from the anchor along the pointers f, until they lead back to it (or
\* one too many if they never do).
Along(f) ==
    LET N == Cardinality(Node)
        walk[k \in 0..(N + 1)] == IF k = 0 THEN Anchor ELSE f[walk[k - 1]]
        Ends == {k \in 0..N : walk[k + 1] = Anchor}
        Length == IF Ends = {} THEN N + 1 ELSE CHOOSE k \in Ends : \A j \in Ends : k <= j
    IN  [i \in 1..Length |-> walk[i]]

Forward == Along(next)
Backward == Along(prev)

\* Between operations the ring reads the same in both directions, count is its
\* length, and an entry off the list points to itself (list_is_empty_entry() on
\* it is TRUE, which __prepare_to_swait() relies on).
RingWhole ==
    (\A c \in Ctx : at[c] = "idle") =>
        /\ \A i \in DOMAIN Forward : Backward[Len(Forward) + 1 - i] = Forward[i]
        /\ Len(Backward) = Len(Forward) /\ count = Len(Forward)
        /\ \A x \in Node \ Range(Forward) : next[x] = x /\ prev[x] = x

\* Wake-ups are serialized: no context finds a ring that another one has left
\* half changed, and none spins in __list_add_valid() or __list_del_entry_valid().
NoSpin == \A c \in Ctx : at[c] # "spin"

\* At every step the forward pointers are those of a list that one of the
\* operations of Deque has changed: a reader along next never leaves the list.
Abstract == INSTANCE Deque WITH q <- Forward
IsDeque == Abstract!DequeSpec
=============================================================================
