------------------------------ MODULE Memblock ------------------------------
(***************************************************************************)
(* The boot-time allocator (mm/early/memblock.c): sorted arrays of the     *)
(* regions that are memory and that are reserved.  setup_arch() reserves   *)
(* what is in use, adds the RAM of the E820 table and trims it to pages;   *)
(* then memory is allocated, bottom up, by reserving it.                   *)
(***************************************************************************)
EXTENDS Integers, Sequences, SequencesExt

CONSTANTS
    PhysMax,    \* 2^64: addresses and sizes wrap around
    PageSize,
    MaxRegions, \* INIT_MMBLK_MEMORY_REGIONS, INIT_MMBLK_RESERVED_REGIONS
    Reserves,   \* the sequences of ranges that setup_arch() may reserve
    E820,       \* the sequences of RAM entries that the firmware may report
    Allocs,     \* the (size, align, min_addr) that are asked for
    MaxAllocs   \* bound: allocations

Rgn(base, size) == [base |-> base, size |-> size]
End(r) == (r.base + r.size) % PhysMax
Bytes(r) == r.base .. (r.base + r.size - 1)

RoundUp(x, align) == ((x + align - 1) \div align) * align
RoundDown(x, align) == (x \div align) * align

ASSUME MemblockAssumption ==
    /\ PageSize \in Nat \ {0} /\ PhysMax % PageSize = 0 /\ MaxRegions > 2 /\ MaxAllocs \in Nat
    /\ \A s \in Reserves \cup E820 : \A i \in DOMAIN s : End(s[i]) < PhysMax

VARIABLES
    memory, reserved,   \* memblock.memory.regions, memblock.reserved.regions
    to_reserve, to_add, \* what setup_arch() has still to reserve and to add
    trimmed,            \* memblock_trim_memory() has run
    bug,                \* a BUG_ON() of memblock has failed
    ram, taken, given   \* what was added, what was reserved and what was allocated

memblockVars == <<memory, reserved, to_reserve, to_add, trimmed, bug, ram, taken, given>>

MemblockInit ==
    /\ memory = <<>> /\ reserved = <<>>
    /\ to_reserve \in Reserves /\ to_add \in E820
    /\ trimmed = FALSE /\ bug = FALSE
    /\ ram = {} /\ taken = {} /\ given = <<>>

-----------------------------------------------------------------------------
(* simple_mmblk_add_range(), with the index from 0 as in the code *)

\* simple_mmblk_merge_rgn() from region i on.
RECURSIVE Merge(_, _, _)
Merge(type, i, end_rgn) ==
    IF i >= end_rgn THEN [type |-> type, bug |-> FALSE]
    ELSE LET this == type[i + 1]
             next == type[i + 2]
         IN  IF End(this) # next.base
             THEN IF End(this) > next.base THEN [type |-> type, bug |-> TRUE]
                  ELSE Merge(type, i + 1, end_rgn)
             ELSE Merge(RemoveAt([type EXCEPT ![i + 1].size = (@ + next.size) % PhysMax], i + 2),
                        i, end_rgn - 1)

\* simple_mmblk_merge_rgn(type, idx - 1, idx): for idx = 0 the first argument is
\* ULONG_MAX, and i < end_rgn compares (unsigned long)-2.
simple_mmblk_merge_rgn(type, idx) ==
    IF idx = 0 THEN [type |-> type, bug |-> FALSE]
    ELSE Merge(type, IF idx = 1 THEN 0 ELSE idx - 2,
                     IF idx < Len(type) - 1 THEN idx ELSE Len(type) - 1)

\* The loop of simple_mmblk_add_range(), at region idx; from base on the range is
\* still to be inserted.
RECURSIVE AddFrom(_, _, _, _)
AddFrom(type, idx, base, end) ==
    LET rbase == type[idx + 1].base
        rend  == End(type[idx + 1])
        last  == idx = Len(type)
        above == last \/ rbase >= end
        size  == (IF above THEN end - base ELSE rbase - base) % PhysMax
        new   == simple_mmblk_merge_rgn(InsertAt(type, idx + 1, Rgn(base, size)), idx)
        base1 == IF above THEN end ELSE rend
    IN  IF idx > Len(type) THEN [type |-> type, bug |-> FALSE]
        ELSE IF idx > 0 /\ base < End(type[idx]) THEN [type |-> type, bug |-> TRUE]
        ELSE IF ~last /\ rend <= base THEN AddFrom(type, idx + 1, base, end)
        ELSE IF Len(type) >= MaxRegions \/ new.bug THEN [type |-> type, bug |-> TRUE]
        ELSE IF base1 >= end THEN new
        ELSE AddFrom(new.type, idx + 1, base1, end)

simple_mmblk_add_range(type, r) ==
    IF r.size = 0 THEN [type |-> type, bug |-> FALSE]
    ELSE LET new == AddFrom(type, 0, r.base, End(r))
         IN  [new EXCEPT !.bug = @ \/ Len(new.type) >= MaxRegions - 2]

-----------------------------------------------------------------------------
(* __simple_next_mem_range(): the ranges of memory that are not reserved *)

\* The gap below reserved region b, or above the last one.
GapStart(b) == IF b = 0 THEN 0 ELSE End(reserved[b])
GapEnd(b) == IF b < Len(reserved) THEN reserved[b + 1].base ELSE PhysMax - 1

Larger(x, y) == IF x > y THEN x ELSE y
Smaller(x, y) == IF x < y THEN x ELSE y

\* Mutant: the walk goes on with the next region of memory after every gap.
RECURSIVE FreeFrom_next(_, _)
FreeFrom_next(a, b) ==
    IF a >= Len(memory) \/ b > Len(reserved) THEN <<>>
    ELSE LET m == memory[a + 1] IN
         IF End(m) <= GapStart(b) THEN FreeFrom_next(a + 1, b)
         ELSE IF m.base >= GapEnd(b) THEN FreeFrom_next(a, b + 1)
         ELSE <<[start |-> Larger(m.base, GapStart(b)), end |-> Smaller(End(m), GapEnd(b))]>>
                  \o FreeFrom_next(a + 1, b)

RECURSIVE FreeFrom(_, _)
FreeFrom(a, b) ==
    IF a >= Len(memory) \/ b > Len(reserved) THEN <<>>
    ELSE LET m == memory[a + 1] IN
         IF End(m) <= GapStart(b) THEN FreeFrom(a + 1, b)
         ELSE IF m.base >= GapEnd(b) THEN FreeFrom(a, b + 1)
         ELSE <<[start |-> Larger(m.base, GapStart(b)), end |-> Smaller(End(m), GapEnd(b))]>>
                  \o IF End(m) <= GapEnd(b) THEN FreeFrom(a + 1, b) ELSE FreeFrom(a, b + 1)

\* for_each_free_mem_range()
free_mem_ranges == FreeFrom(0, 0)

-----------------------------------------------------------------------------
(* The steps of the boot *)

\* myos_init_early_memory_allocator(): the kernel, the first 64K, the BIOS, the brk.
simple_mmblk_reserve ==
    /\ ~bug /\ to_reserve # <<>>
    /\ LET new == simple_mmblk_add_range(reserved, Head(to_reserve))
       IN  reserved' = new.type /\ bug' = new.bug
    /\ taken' = taken \cup {Head(to_reserve)}
    /\ to_reserve' = Tail(to_reserve)
    /\ UNCHANGED <<memory, to_add, trimmed, ram, given>>

\* e820__memblock_setup()
simple_mmblk_add ==
    /\ ~bug /\ to_reserve = <<>> /\ to_add # <<>>
    /\ LET new == simple_mmblk_add_range(memory, Head(to_add))
       IN  memory' = new.type /\ bug' = new.bug
    /\ ram' = ram \cup {Head(to_add)}
    /\ to_add' = Tail(to_add)
    /\ UNCHANGED <<reserved, to_reserve, trimmed, taken, given>>

\* From the last region down; after a removal the next one is passed over.
RECURSIVE Trim(_, _)
Trim(type, k) ==
    IF k < 1 THEN type
    ELSE LET start == RoundUp(type[k].base, PageSize)
             end   == RoundDown(End(type[k]), PageSize)
         IN  IF start < end THEN Trim([type EXCEPT ![k] = Rgn(start, end - start)], k - 1)
             ELSE Trim(RemoveAt(type, k), k - 2)

memblock_trim_memory ==
    /\ ~bug /\ to_reserve = <<>> /\ to_add = <<>> /\ ~trimmed
    /\ memory' = Trim(memory, Len(memory))
    /\ trimmed' = TRUE
    /\ UNCHANGED <<reserved, to_reserve, to_add, bug, ram, taken, given>>

\* Where a free range has room for q above min; 0 if it has none.
Candidate(f, q, min) ==
    LET cand == RoundUp(Larger(f.start, min), q.align)
    IN  IF cand + q.size <= f.end THEN cand ELSE 0

\* __memblock_find_range_bottom_up() with no upper limit
find_range_bottom_up(q, min) ==
    LET Fits == {i \in DOMAIN free_mem_ranges : Candidate(free_mem_ranges[i], q, min) # 0}
    IN  IF Fits = {} THEN 0 ELSE Candidate(free_mem_ranges[Min(Fits)], q, min)

\* memblock_alloc_internal(): above min_addr, else anywhere above the first page.
memblock_alloc(q) ==
    LET high  == find_range_bottom_up(q, Larger(q.min, PageSize))
        found == IF high = 0 THEN find_range_bottom_up(q, PageSize) ELSE high
        new   == simple_mmblk_add_range(reserved, Rgn(found, q.size))
    IN  /\ ~bug /\ trimmed /\ found # 0
        /\ Len(given) < MaxAllocs
        /\ reserved' = new.type /\ bug' = new.bug
        /\ given' = Append(given, Rgn(found, q.size))
        /\ UNCHANGED <<memory, to_reserve, to_add, trimmed, ram, taken>>

MemblockNext ==
    \/ simple_mmblk_reserve \/ simple_mmblk_add \/ memblock_trim_memory
    \/ \E q \in Allocs : memblock_alloc(q)

MemblockSpec == MemblockInit /\ [][MemblockNext]_memblockVars

-----------------------------------------------------------------------------
(* Properties *)

AllBytes(S) == UNION {Bytes(r) : r \in S}
WholePages(r) == RoundUp(r.base, PageSize) .. (RoundDown(End(r), PageSize) - 1)

InUse == AllBytes(taken) \cup AllBytes(Range(given))
FreeBytes == UNION {f.start .. (f.end - 1) : f \in Range(free_mem_ranges)}

\* for_each_free_mem_range() "walks over free (memory && !reserved) areas": it
\* reports no byte that is not RAM or that is in use, and all unused bytes of the
\* pages that a RAM entry has whole.
FreeRangesExact ==
    /\ ~bug
    /\ FreeBytes \subseteq AllBytes(ram) \ InUse
    /\ UNION {WholePages(r) : r \in ram} \ InUse \subseteq FreeBytes

\* What memblock_alloc() returns is RAM, and nobody else has it.
BootAllocsDisjoint ==
    \A i \in DOMAIN given :
        /\ Bytes(given[i]) \subseteq AllBytes(ram) \ AllBytes(taken)
        /\ \A j \in 1..(i - 1) : Bytes(given[i]) \cap Bytes(given[j]) = {}

\* Both, at every step of the boot: the arrays of memblock describe the memory.
BootMemoryExact == FreeRangesExact /\ BootAllocsDisjoint

\* "The new region is allowed to overlap with existing ones - overlaps don't affect
\* already existing regions": what was reserved stays reserved.
OverlapsKept == ~bug => AllBytes(taken) \subseteq AllBytes(Range(reserved))

\* "@type is guaranteed to be minimal (all neighbouring compatible regions are merged)
\* after the addition": no region ends where the next one begins.
RegionsMinimal ==
    ~bug => \A type \in {memory, reserved} :
                \A i \in 1 .. (Len(type) - 1) : End(type[i]) # type[i + 1].base
=============================================================================
