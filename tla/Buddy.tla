------------------------------- MODULE Buddy -------------------------------
(***************************************************************************)
(* The page allocator (mm/page_alloc/buddy.c, buddy.h) and the hand-over   *)
(* of the free memory to it at boot (memblock_free_all).  A page is its    *)
(* frame number.  The free lists are sequences, as DoubleList justifies;   *)
(* an allocation and a free are one step each.                             *)
(***************************************************************************)
EXTENDS Integers, Sequences, FiniteSets, FiniteSetsExt, Functions

CONSTANTS
    MaxPfn,      \* max_low_pfn
    MaxOrder,    \* MAX_ORDER
    NrZones,     \* pgdat->nr_zones, set to MAX_NR_ZONES
    ZoneEnd,     \* max_zone_pfn of ZONE_DMA, ZONE_DMA32, ZONE_NORMAL
    Requests,    \* the (order, start, zero, comp) that callers ask for
    MaxHeld      \* bound: blocks held at once

Zone  == {"DMA", "DMA32", "NORMAL"}
Order == 0 .. MaxOrder
(* mem_map is rounded up to a whole block of the largest order *)
Page  == 0 .. (((MaxPfn + 2 ^ MaxOrder - 1) \div 2 ^ MaxOrder) * 2 ^ MaxOrder - 1)

ASSUME BuddyAssumption ==
    /\ MaxPfn \in Nat \ {0} /\ MaxOrder \in Nat /\ NrZones \in Nat /\ MaxHeld \in Nat
    /\ ZoneEnd \in [Zone -> 1 .. MaxPfn] /\ ZoneEnd["NORMAL"] = MaxPfn
    /\ ZoneEnd["DMA"] <= ZoneEnd["DMA32"] /\ ZoneEnd["DMA32"] <= MaxPfn
    /\ \A z \in Zone \ {"NORMAL"} : ZoneEnd[z] \in {MaxPfn} \cup {n \in Nat : n % 2 ^ MaxOrder = 0}
    /\ Requests \subseteq [order : Nat, start : 0 .. 2, zero : BOOLEAN, comp : BOOLEAN]

(* Arithmetic that the proofs cannot derive. *)
ASSUME PowersOfTwo == \A n \in Order : 2 ^ n \in Nat /\ 2 ^ (n + 1) = 2 * 2 ^ n

VARIABLES
    ranges,     \* the ranges of frames that memblock reports free
    start_pfn,  \* how far memblock_free_all has come
    free_area,  \* zone->free_area[order]
    private,    \* page->private, the order of a free block
    page_type,  \* page->page_type, as the set of its bits
    refd,       \* the pages whose _refcount is not 0
    head,       \* the pages whose flags have PG_head
    low,        \* the low byte of page->flags, where _flags_1 keeps an order
    tail,       \* the pages whose compound_head word has bit 0
    zeroed,     \* the pages whose contents are all zero
    held,       \* the blocks callers hold
    result      \* outcome of the last call of __myos_alloc_pages

meta == <<private, page_type, refd, head, low, tail, zeroed>>
vars == <<ranges, start_pfn, free_area, meta, held, result>>

Frames(pfn, order) == pfn .. (pfn + 2 ^ order - 1)

-----------------------------------------------------------------------------
(* page->page_type: a clear bit means the page has the type, provided the   *)
(* four base bits are set.  The memmap is zeroed and page_mapcount_reset(), *)
(* which would store -1, is not called.                                     *)
PageBuddy(p) == page_type[p] \cap {"base", "buddy"} = {"base"}

InitialType_reset == {"base", "buddy"}
InitialType == {}

memmap_init ==
    /\ free_area = [z \in Zone |-> [o \in Order |-> <<>>]]
    /\ private = [p \in Page |-> 0]
    /\ page_type = [p \in Page |-> InitialType]
    /\ refd = Page
    /\ head = {} /\ tail = {} /\ zeroed = {}
    /\ low = [p \in Page |-> 0]

myos_page_zone(p) ==
    CASE p < ZoneEnd["DMA"]   -> "DMA"
      [] p >= ZoneEnd["DMA"] /\ p < ZoneEnd["DMA32"] -> "DMA32"
      [] OTHER                -> "NORMAL"

(* page ^ (1 << order), for a page aligned to its order *)
__find_buddy_pfn(p, order) ==
    IF (p \div 2 ^ order) % 2 = 0 THEN p + 2 ^ order ELSE p - 2 ^ order

page_is_buddy(p, b, order) ==
    PageBuddy(b) /\ private[b] = order /\ myos_page_zone(p) = myos_page_zone(b)

-----------------------------------------------------------------------------
(* __myos_free_one_page: climb while the buddy is free, then list the block *)
(* at the order reached.  combined_pfn = buddy & pfn rounds pfn down.       *)
Combined(p, order) == p - (p % 2 ^ order)

CanMerge(p, order) ==
    /\ order < MaxOrder
    /\ LET c == Combined(p, order) IN page_is_buddy(c, __find_buddy_pfn(c, order), order)

MergedOrder(p, order) ==
    CHOOSE o \in order .. MaxOrder :
        ~CanMerge(p, o) /\ \A k \in order .. (o - 1) : CanMerge(p, k)

__free_pages_ok_dirty(p, order) ==
    /\ free_area' = [free_area EXCEPT ![myos_page_zone(p)][order] = <<p>> \o @]
    /\ private' = [private EXCEPT ![p] = order]
    /\ page_type' = [page_type EXCEPT ![p] = @ \ {"buddy"}]
    /\ tail' = tail \ {p}
    /\ UNCHANGED <<head, low>>

(* add_to_free_list: the list words of the page overwrite compound_head *)
__free_pages_ok(p, order) ==
    LET o == MergedOrder(p, order)
        c == Combined(p, o)
        z == myos_page_zone(p)
    IN  /\ free_area' = [free_area EXCEPT ![z][o] = <<c>> \o @]
        /\ private' = [private EXCEPT ![c] = o]
        /\ page_type' = [page_type EXCEPT ![c] = @ \ {"buddy"}]
        /\ head' = head \ {p}
        /\ low' = [low EXCEPT ![p] = 0]
        /\ tail' = tail \ {c}

-----------------------------------------------------------------------------
(* memblock_free_all: one chunk of the current range per step, of the       *)
(* largest order that start_pfn is aligned to and that fits the range.      *)
Pfns(r) == r.start .. (r.end - 1)
available == UNION {Pfns(r) : r \in ranges}

RangeEnd(p) == (CHOOSE r \in ranges : p \in Pfns(r)).end

ChunkOrder_single(p) == 0

ChunkOrder(p) ==
    Max({o \in Order : p % 2 ^ o = 0 /\ p + 2 ^ o <= RangeEnd(p)})

(* What for_each_free_mem_range() reports: ranges below max_low_pfn that are *)
(* not empty and do not overlap.                                            *)
FreeRanges(rs) ==
    /\ rs \subseteq [start : 0 .. MaxPfn, end : 0 .. MaxPfn]
    /\ \A r \in rs : r.start < r.end
    /\ \A r, s \in rs : r # s => Pfns(r) \cap Pfns(s) = {}

Remaining == {p \in available : p >= start_pfn}

memblock_free_pages ==
    /\ Remaining # {}
    /\ LET p == Min(Remaining)
           o == ChunkOrder(p)
       IN  /\ __free_pages_ok(p, o)
           /\ refd' = refd \ Frames(p, o)
           /\ start_pfn' = p + 2 ^ o
    /\ UNCHANGED <<ranges, zeroed, held, result>>

-----------------------------------------------------------------------------
(* __rmqueue_smallest: take the first block of the smallest order that has  *)
(* one and give back the upper halves that expand() cuts off.               *)
Usable(z, order) == {o \in order .. MaxOrder : free_area[z][o] # <<>>}

expand_lower(z, p, lowo, high) ==
    [o \in Order |->
        CASE o \in lowo .. (high - 1) -> <<p>> \o free_area[z][o]
          [] o = high                 -> Tail(free_area[z][o])
          [] OTHER                    -> free_area[z][o]]

expand(z, p, lowo, high) ==
    [o \in Order |->
        CASE o \in lowo .. (high - 1) -> <<p + 2 ^ o>> \o free_area[z][o]
          [] o = high                 -> Tail(free_area[z][o])
          [] OTHER                    -> free_area[z][o]]

(* prep_new_page: clear_page() is called on the block's address plus i      *)
(* bytes, so only the first page is sure to be cleared; __GFP_COMP makes    *)
(* the block compound, its order in the flags word of the second page.      *)
prep_new_page(p, r) ==
    /\ zeroed' = IF r.zero THEN zeroed \cup {p} ELSE zeroed
    /\ IF r.comp /\ r.order > 0
       THEN head' = head \cup {p} /\ low' = [low EXCEPT ![p + 1] = r.order]
       ELSE UNCHANGED <<head, low>>

__rmqueue_smallest(z, r) ==
    LET c     == Min(Usable(z, r.order))
        p     == Head(free_area[z][c])
        upper == {p + 2 ^ o : o \in r.order .. (c - 1)}
        tails == IF r.comp THEN Frames(p, r.order) \ {p} ELSE {}
    IN  /\ free_area' = [free_area EXCEPT ![z] = expand(z, p, r.order, c)]
        /\ private' = [x \in Page |->
               CASE x = p       -> 0
                 [] x \in upper -> CHOOSE o \in r.order .. (c - 1) : x = p + 2 ^ o
                 [] x \in tails -> 0
                 [] OTHER       -> private[x]]
        /\ page_type' = [x \in Page |->
               CASE x = p       -> page_type[x] \cup {"buddy"}
                 [] x \in upper -> page_type[x] \ {"buddy"}
                 [] OTHER       -> page_type[x]]
        /\ refd' = refd \cup Frames(p, r.order)
        /\ tail' = (tail \ upper) \cup tails
        /\ prep_new_page(p, r)
        /\ held' = held \cup {[pfn |-> p, req |-> r]}

(* prefered_zone_list *)
Prefered == <<"NORMAL", "DMA32", "DMA">>

Eligible_all(r) == {i \in 1 .. 3 : Usable(Prefered[i], r.order) # {}}

Eligible(r) == {i \in (r.start + 1) .. 3 : Usable(Prefered[i], r.order) # {}}

Booted == Remaining = {}

(* start_prefered_idx is 0, 1 (GFP_DMA32) or 2 (GFP_DMA) *)
__myos_alloc_pages(r) ==
    /\ Booted /\ result # "wild"
    /\ Cardinality(held) < MaxHeld
    /\ r.order <= MaxOrder
    /\ Eligible(r) # {}
    /\ __rmqueue_smallest(Prefered[Min(Eligible(r))], r)
    /\ result' = "page"
    /\ UNCHANGED <<ranges, start_pfn>>

alloc_bad_order(r) ==
    /\ Booted /\ result # "wild"
    /\ r.order > MaxOrder
    /\ result' = "null"
    /\ UNCHANGED <<ranges, start_pfn, free_area, meta, held>>

(* No zone of the list has a block, and the loop runs on to nr_zones: what  *)
(* it reads after the end of prefered_zone_list picks the next "zone".      *)
alloc_exhausted(r) ==
    /\ Booted /\ result # "wild"
    /\ r.order <= MaxOrder
    /\ Eligible(r) = {}
    /\ result' \in (IF NrZones > Len(Prefered) THEN {"null", "wild"} ELSE {"null"})
    /\ UNCHANGED <<ranges, start_pfn, free_area, meta, held>>

(* folio_order, compound_order *)
folio_order(p) == IF p \in head THEN low[p + 1] ELSE 0

(* A caller frees a block it holds.  Those that made it compound, and those *)
(* that took one page, let the page tell the order; the others pass it.     *)
__free_pages(b) ==
    /\ result # "wild"
    /\ b \in held
    /\ LET o == IF b.req.comp \/ b.req.order = 0 THEN folio_order(b.pfn) ELSE b.req.order
       IN  __free_pages_ok(b.pfn, o)
    /\ held' = held \ {b}
    /\ zeroed' = zeroed \ Frames(b.pfn, b.req.order)
    /\ UNCHANGED <<ranges, start_pfn, refd, result>>

-----------------------------------------------------------------------------
BuddyInit ==
    /\ ranges = {} /\ start_pfn = 0
    /\ memmap_init
    /\ held = {}
    /\ result = "none"

BuddyNext ==
    \/ memblock_free_pages
    \/ \E r \in Requests : __myos_alloc_pages(r) \/ alloc_bad_order(r) \/ alloc_exhausted(r)
    \/ \E b \in held : __free_pages(b)

(* The allocator with any memory map; BootMem has the one that memblock makes. *)
boot_ranges ==
    /\ ranges = {} /\ FreeRanges(ranges')
    /\ UNCHANGED <<start_pfn, free_area, meta, held, result>>

BuddySpec == BuddyInit /\ [][BuddyNext \/ boot_ranges]_vars

-----------------------------------------------------------------------------
(* The free blocks, with their place in the lists. *)
FreeBlock ==
    UNION {{[pfn |-> free_area[z][o][i], order |-> o, at |-> <<z, i>>] :
               i \in DOMAIN free_area[z][o]} : z \in Zone, o \in Order}

FreePages == UNION {Frames(f.pfn, f.order) : f \in FreeBlock}
HeldPages == UNION {Frames(b.pfn, b.req.order) : b \in held}

(* Type correctness of the allocator's state. *)
BuddyTypeOK ==
    /\ free_area \in [Zone -> [Order -> Seq(Page)]]
    /\ private \in [Page -> Order] /\ low \in [Page -> Order]
    /\ page_type \in [Page -> SUBSET {"base", "buddy"}]
    /\ refd \subseteq Page /\ head \subseteq Page /\ tail \subseteq Page /\ zeroed \subseteq Page
    /\ held \subseteq [pfn : Page, req : Requests]
    /\ result \in {"none", "page", "null", "wild"}
    /\ start_pfn \in 0 .. MaxPfn /\ available \subseteq Page

(* Every frame that memblock has handed over is in exactly one place: one   *)
(* free block, listed once, or one block that a caller holds.  Nothing is   *)
(* lost and nothing is given out twice, whatever is allocated, split and    *)
(* freed.                                                                   *)
PagesConserved ==
    /\ FreePages \cup HeldPages = {p \in available : p < start_pfn}
    /\ FreePages \cap HeldPages = {}
    /\ \A f, g \in FreeBlock : f # g => Frames(f.pfn, f.order) \cap Frames(g.pfn, g.order) = {}
    /\ \A b, c \in held : b # c => Frames(b.pfn, b.req.order) \cap Frames(c.pfn, c.req.order) = {}

(* A free block is listed in the zone of all its frames, under the order    *)
(* that its first page records, and a block a caller holds lies in a zone   *)
(* that its GFP flags allow.                                                *)
ZonesRespected ==
    /\ \A f \in FreeBlock :
          private[f.pfn] = f.order /\ \A p \in Frames(f.pfn, f.order) : myos_page_zone(p) = f.at[1]
    /\ \A b \in held : \A p \in Frames(b.pfn, b.req.order) :
          \E i \in (b.req.start + 1) .. 3 : myos_page_zone(p) = Prefered[i]

(* What a page tells of the order of a block is the order it was allocated  *)
(* with: kfree, free_slab and pagetable_free rely on it, and alloc_slab and *)
(* free_slab spin for ever on a single page that still has PG_head.         *)
OrderIsKnown ==
    \A b \in held :
        /\ b.req.comp \/ b.req.order = 0 => folio_order(b.pfn) = b.req.order
        /\ b.pfn \notin tail

Mergeable(f, g) ==
    /\ f.order = g.order /\ f.order < MaxOrder
    /\ g.pfn = __find_buddy_pfn(f.pfn, f.order)
    /\ f.at[1] = g.at[1]

(* Until the first allocation two free blocks that could be one larger      *)
(* block come from different ranges: memblock_free_all cuts each range that *)
(* it is given into as few blocks as possible, and what ranges it is given  *)
(* depends on which regions memblock has merged.                            *)
BootCutsCoarsely ==
    result = "none" =>
        \A f, g \in FreeBlock : Mergeable(f, g) => RangeEnd(f.pfn) # RangeEnd(g.pfn)

(* The allocator implements PageAlloc, its blocks naturally aligned. *)
Abstract == INSTANCE PageAlloc
    WITH Frame <- Page, free <- FreePages, held <- {<<b.pfn, b.req.order>> : b \in held}
IsPageAlloc == Abstract!PageAllocSpec

-----------------------------------------------------------------------------
(* "If a block is freed, and its buddy is also free, then this triggers     *)
(* coalescing into a block of larger size."                                 *)
Coalesced == \A f, g \in FreeBlock : ~Mergeable(f, g)

(* "Return: The page on success or NULL if allocation fails." *)
PageOrNull == result # "wild"

(* "We have to set the refcount of all involved pages to 0": the count of a *)
(* page in the free lists is 0.                                             *)
FreeUnreferenced == FreePages \cap refd = {}

(* "%__GFP_ZERO returns a zeroed page on success." *)
ZeroedOnRequest ==
    [][\A b \in held' \ held : b.req.zero => Frames(b.pfn, b.req.order) \subseteq zeroed']_vars

(* "Pages being prepped should not have these flags set." *)
PreppedClean ==
    [][\A b \in held' \ held : \A p \in Frames(b.pfn, b.req.order) : low[p] = 0]_vars
=============================================================================
