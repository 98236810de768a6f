-------------------------------- MODULE Slub --------------------------------
(***************************************************************************)
(* kmalloc() and kfree(): one kmem_cache (slub.c) and the blocks too large *)
(* for the caches (slab_common.c), on top of the page allocator's promises *)
(* (PageAlloc, which Buddy keeps).                                         *)
(* n->list_lock makes each locked section one step; tasks interleave       *)
(* between the sections.  A slab_s is the struct page of the first frame.  *)
(***************************************************************************)
EXTENDS PageAlloc, Sequences, Functions

CONSTANTS
    Task,           \* tasks that allocate and free
    SlabOrder,      \* oo_order(s->oo)
    Objects,        \* oo_objects(s->oo)
    MinPartial,     \* s->min_partial
    LargeOrder,     \* get_order() of a request above KMALLOC_MAX_CACHE_SIZE
    NoSlab

\* Frame numbers are natural numbers; the powers of two are positive, which the
\* proofs cannot derive.
ASSUME SlubAssumption ==
    /\ Frame \subseteq Nat /\ MaxOrder \in Nat
    /\ SlabOrder \in 0..MaxOrder /\ LargeOrder \in 1..MaxOrder
    /\ 2 ^ SlabOrder \in Nat \ {0} /\ 2 ^ LargeOrder \in Nat \ {0}
    /\ Objects \in Nat \ {0} /\ MinPartial \in Nat
    /\ NoSlab \notin Frame

VARIABLES
    partial, full,      \* the lists of kmem_cache_node_s, head first
    inuse, freelist,    \* slab_s
    nr_slabs,           \* kmem_cache_node_s.nr_slabs
    PG_slab,            \* the frames whose page has PG_slab
    live,               \* the objects callers hold: <<slab, index>> or <<block, 0>>
    pc, slab,           \* where a task is in slab_alloc() or slab_free(); its slab
    broken              \* a slab went back to the page allocator while in use

pageVars == <<free, held>>
listVars == <<partial, full, inuse, freelist, nr_slabs>>
slubVars == <<pageVars, listVars, PG_slab, live, pc, slab, broken>>

\* "alloc", "new", "online": slab_alloc(); "test", "offline", "discard": slab_free().
SlubPc == {"run", "alloc", "new", "online", "test", "offline", "discard"}

\* All of the memory is with the page allocator; the cache is as
\* simple_kmem_cache_open() leaves it.
SlubInit ==
    /\ free = Frame /\ held = {}
    /\ partial = <<>> /\ full = <<>>
    /\ inuse = [s \in Frame |-> 0] /\ freelist = [s \in Frame |-> <<>>]
    /\ nr_slabs = 0
    /\ PG_slab = {} /\ live = {}
    /\ pc = [t \in Task |-> "run"] /\ slab = [t \in Task |-> NoSlab]
    /\ broken = FALSE

Goto(t, p, q) == pc[t] = p /\ pc' = [pc EXCEPT ![t] = q]

\* list_header_delete_node(): nothing happens to a list without the slab.
DeleteSlab(list, s) ==
    IF s \notin Range(list) THEN list
    ELSE LET i == CHOOSE i \in DOMAIN list : list[i] = s
         IN  [j \in 1..(Len(list) - 1) |-> IF j < i THEN list[j] ELSE list[j + 1]]

-----------------------------------------------------------------------------
(* kmalloc(size): size <= KMALLOC_MAX_CACHE_SIZE is slab_alloc() *)

slab_alloc(t) ==
    /\ Goto(t, "run", "alloc")
    /\ UNCHANGED <<pageVars, listVars, PG_slab, live, slab, broken>>

\* Mutant: the slab stays on the partial list with its last object gone.
get_from_partial_list_stay(t) ==
    /\ partial # <<>> /\ Goto(t, "alloc", "run")
    /\ LET s == Head(partial) IN
       /\ live' = live \cup {<<s, Head(freelist[s])>>}
       /\ freelist' = [freelist EXCEPT ![s] = Tail(@)]
       /\ inuse' = [inuse EXCEPT ![s] = @ + 1]
    /\ UNCHANGED <<pageVars, partial, full, nr_slabs, PG_slab, slab, broken>>

\* alloc_single_from_partial() on the first slab; a slab that is now full moves.
get_from_partial_list(t) ==
    /\ partial # <<>> /\ Goto(t, "alloc", "run")
    /\ LET s == Head(partial) IN
       /\ live' = live \cup {<<s, Head(freelist[s])>>}
       /\ freelist' = [freelist EXCEPT ![s] = Tail(@)]
       /\ inuse' = [inuse EXCEPT ![s] = @ + 1]
       /\ IF inuse'[s] = Objects
          THEN partial' = Tail(partial) /\ full' = <<s>> \o full
          ELSE UNCHANGED <<partial, full>>
    /\ UNCHANGED <<pageVars, nr_slabs, PG_slab, slab, broken>>

partial_list_empty(t) ==
    /\ partial = <<>> /\ Goto(t, "alloc", "new")
    /\ UNCHANGED <<pageVars, listVars, PG_slab, live, slab, broken>>

\* alloc_init_new_slab(): every object of the new slab is on its freelist.
alloc_init_new_slab(t) ==
    /\ Goto(t, "new", "online")
    /\ \E s \in Frame :
           /\ Take(s, SlabOrder)
           /\ slab' = [slab EXCEPT ![t] = s]
           /\ PG_slab' = PG_slab \cup {s}
           /\ inuse' = [inuse EXCEPT ![s] = 0]
           /\ freelist' = [freelist EXCEPT ![s] = [i \in 1..Objects |-> i]]
    /\ UNCHANGED <<partial, full, nr_slabs, live, broken>>

\* No block is left: slab_alloc() returns NULL.
alloc_slab_fails(t) ==
    /\ Goto(t, "new", "run")
    /\ \A s \in Frame : ~(s % 2 ^ SlabOrder = 0 /\ Frames(s, SlabOrder) \subseteq free)
    /\ UNCHANGED <<pageVars, listVars, PG_slab, live, slab, broken>>

\* Mutant: the new slab is not listed.
online_new_empty_slab_lost(t) ==
    /\ Goto(t, "online", "alloc")
    /\ nr_slabs' = nr_slabs + 1
    /\ slab' = [slab EXCEPT ![t] = NoSlab]
    /\ UNCHANGED <<pageVars, partial, full, inuse, freelist, PG_slab, live, broken>>

\* ... and slab_alloc() looks at the partial list again.
online_new_empty_slab(t) ==
    /\ Goto(t, "online", "alloc")
    /\ partial' = <<slab[t]>> \o partial
    /\ nr_slabs' = nr_slabs + 1
    /\ slab' = [slab EXCEPT ![t] = NoSlab]
    /\ UNCHANGED <<pageVars, full, inuse, freelist, PG_slab, live, broken>>

kmalloc_large(t) ==
    /\ pc[t] = "run"
    /\ \E b \in Frame : Take(b, LargeOrder) /\ live' = live \cup {<<b, 0>>}
    /\ UNCHANGED <<listVars, PG_slab, pc, slab, broken>>

-----------------------------------------------------------------------------
(* kfree(object) *)

free_large_kmalloc(t, o) ==
    /\ pc[t] = "run" /\ o[1] \notin PG_slab
    /\ \E order \in 0..MaxOrder : Give(o[1], order)
    /\ live' = live \ {o}
    /\ UNCHANGED <<listVars, PG_slab, pc, slab, broken>>

\* free_to_partial_list(), with free_single_to_partial().
free_to_partial_list(t, o) ==
    LET s == o[1] IN
    /\ Goto(t, "run", "test") /\ s \in PG_slab
    /\ slab' = [slab EXCEPT ![t] = s]
    /\ live' = live \ {o}
    /\ IF inuse[s] = Objects
       THEN full' = DeleteSlab(full, s) /\ partial' = <<s>> \o partial
       ELSE UNCHANGED <<partial, full>>
    /\ inuse' = [inuse EXCEPT ![s] = @ - 1]
    /\ freelist' = [freelist EXCEPT ![s] = <<o[2]>> \o @]
    /\ UNCHANGED <<pageVars, nr_slabs, PG_slab, broken>>

Discardable(s) == inuse[s] = 0 \/ Len(partial) >= MinPartial

\* The test of slab_free(), after the lock has been dropped.
slab_free_test(t) ==
    /\ pc[t] = "test"
    /\ IF Discardable(slab[t])
       THEN Goto(t, "test", "offline") /\ UNCHANGED slab
       ELSE Goto(t, "test", "run") /\ slab' = [slab EXCEPT ![t] = NoSlab]
    /\ UNCHANGED <<pageVars, listVars, PG_slab, live, broken>>

offline_exceeded_empty_slab(t) ==
    /\ Goto(t, "offline", "discard")
    /\ partial' = DeleteSlab(partial, slab[t])
    /\ nr_slabs' = nr_slabs - 1
    /\ UNCHANGED <<pageVars, full, inuse, freelist, PG_slab, live, slab, broken>>

ObjectsOf(s) == {o \in live : o[1] = s /\ o[2] # 0}
Listed == Range(partial) \cup Range(full)

\* Somebody other than t has an object of the slab, finds it on a list, or is
\* itself between the unlock and the end of slab_free() with it.
InUse(t, s) ==
    \/ ObjectsOf(s) # {} \/ s \in Listed
    \/ \E u \in Task \ {t} : slab[u] = s

\* free_slab(): what happens after a slab in use has gone back to the page
\* allocator is not modelled.
free_slab(t) ==
    LET s == slab[t] IN
    /\ Goto(t, "discard", "run")
    /\ slab' = [slab EXCEPT ![t] = NoSlab]
    /\ PG_slab' = PG_slab \ {s}
    /\ Give(s, SlabOrder)
    /\ broken' = InUse(t, s)
    /\ UNCHANGED <<listVars, live>>

-----------------------------------------------------------------------------
kmalloc(t) ==
    \/ slab_alloc(t) \/ get_from_partial_list(t) \/ partial_list_empty(t)
    \/ alloc_init_new_slab(t) \/ alloc_slab_fails(t) \/ online_new_empty_slab(t)
    \/ kmalloc_large(t)

kfree(t) ==
    \/ \E o \in live : free_large_kmalloc(t, o) \/ free_to_partial_list(t, o)
    \/ slab_free_test(t) \/ offline_exceeded_empty_slab(t) \/ free_slab(t)

SlubNext == ~broken /\ \E t \in Task : kmalloc(t) \/ kfree(t)

SlubSpec == SlubInit /\ [][SlubNext]_slubVars

-----------------------------------------------------------------------------
(* Properties *)

\* Every listed slab tells the truth about its objects: the freelist holds exactly
\* those that no caller has, each once, inuse counts the others, and the slab is on
\* the full list or on the partial one, once, as inuse says.  So until a slab is
\* discarded in use get_from_partial_list() never takes an object from an empty
\* freelist and never hands out an object twice, however calls interleave.
FreelistExact ==
    /\ IsInjective(partial \o full)
    /\ \A s \in Listed :
           /\ IsInjective(freelist[s])
           /\ {<<s, i>> : i \in 1..Objects} = ObjectsOf(s) \cup {<<s, i>> : i \in Range(freelist[s])}
           /\ inuse[s] = Cardinality(ObjectsOf(s)) /\ inuse[s] + Len(freelist[s]) = Objects
           /\ s \in Range(full) <=> inuse[s] = Objects

\* No slab is lost: pages that went to the cache are on one of its lists, or some
\* task is about to list them or to give them back; and an object that a caller
\* holds lies in such pages, or in a block of its own.
SlabNotLost ==
    ~broken =>
        /\ \A s \in PG_slab : s \in Listed \/ \E t \in Task : slab[t] = s
        /\ held = {<<s, SlabOrder>> : s \in PG_slab}
                      \cup {<<o[1], LargeOrder>> : o \in {x \in live : x[2] = 0}}
        /\ \A o \in live : o[2] # 0 => o[1] \in PG_slab

\* "If the slab is empty, and node's partial list is full, it should be discarded."
DiscardsEmpty == \A t \in Task : pc[t] \in {"offline", "discard"} => ObjectsOf(slab[t]) = {}
=============================================================================
