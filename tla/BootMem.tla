------------------------------ MODULE BootMem ------------------------------
(***************************************************************************)
(* From memblock to the page allocator: mem_init() hands the memory that   *)
(* memblock reports free over to the buddy lists, from which it is then    *)
(* allocated.                                                              *)
(***************************************************************************)
EXTENDS Memblock, Buddy

ASSUME BootAssumption == (MaxPfn + 1) * PageSize <= PhysMax

VARIABLE handed     \* memblock_free_all() has begun

bootVars == <<memblockVars, vars, handed>>

BootInit == MemblockInit /\ BuddyInit /\ handed = FALSE

\* Mutant: partial pages are handed over, too.
FreePfns_partial(f) == [start |-> f.start \div PageSize, end |-> Smaller(f.end \div PageSize, MaxPfn)]

FreePfns(f) ==
    [start |-> RoundUp(f.start, PageSize) \div PageSize, end |-> Smaller(f.end \div PageSize, MaxPfn)]

\* memblock_free_all() takes its ranges; memblock's own data is not used again.
memblock_free_all ==
    /\ trimmed /\ ~bug /\ ~handed
    /\ handed' = TRUE
    /\ ranges' = {r \in {FreePfns(f) : f \in Range(free_mem_ranges)} : r.start < r.end}
    /\ memory' = <<>> /\ reserved' = <<>> /\ ram' = {} /\ taken' = {} /\ given' = <<>>
    /\ UNCHANGED <<to_reserve, to_add, trimmed, bug, start_pfn, free_area, meta, held, result>>

BootNext ==
    \/ ~handed /\ MemblockNext /\ UNCHANGED <<vars, handed>>
    \/ memblock_free_all
    \/ handed /\ BuddyNext /\ UNCHANGED <<memblockVars, handed>>

BootSpec == BootInit /\ [][BootNext]_bootVars

-----------------------------------------------------------------------------
(* Properties *)

\* Only whole pages of RAM that nobody has reserved or allocated are handed over,
\* and all of those that lie in one RAM entry; once, and as BuddySpec expects them.
HandsOverFreePages ==
    [][ranges' # ranges =>
          /\ ranges = {} /\ FreeRanges(ranges')
          /\ \A p \in 0..(MaxPfn - 1) :
              LET bytes == (p * PageSize) .. ((p + 1) * PageSize - 1) IN
              /\ p \in available' => bytes \subseteq AllBytes(ram) \ InUse
              /\ (\E r \in ram : bytes \subseteq Bytes(r)) /\ bytes \cap InUse = {} => p \in available']_bootVars
=============================================================================
