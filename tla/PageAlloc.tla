----------------------------- MODULE PageAlloc -----------------------------
(***************************************************************************)
(* What the page allocator promises: page frames are free or held, a block *)
(* handed out is made of free frames only, is naturally aligned, and comes *)
(* back whole.  Frames enter the allocator once, at boot.                  *)
(***************************************************************************)
EXTENDS Naturals, FiniteSets

CONSTANTS Frame, MaxOrder

VARIABLES free, held

Frames(pfn, order) == pfn .. (pfn + 2 ^ order - 1)
Held               == UNION {Frames(h[1], h[2]) : h \in held}

PageAllocInit == free = {} /\ held = {}

Release(s) == s \cap (free \cup Held) = {} /\ UNCHANGED held /\ free' = free \cup s

Take(pfn, order) ==
    /\ pfn % 2 ^ order = 0
    /\ held' = held \cup {<<pfn, order>>}
    /\ Frames(pfn, order) \subseteq free
    /\ free' = free \ Frames(pfn, order)

Give(pfn, order) ==
    /\ <<pfn, order>> \in held
    /\ held' = held \ {<<pfn, order>>}
    /\ free' = free \cup Frames(pfn, order)

PageAllocNext ==
    \/ \E b \in held : Give(b[1], b[2])
    \/ \E pfn \in free, order \in 0 .. MaxOrder : Take(pfn, order)
    \/ \E pfn \in Frame, order \in 0 .. MaxOrder : Release(Frames(pfn, order))

PageAllocSpec == PageAllocInit /\ [][PageAllocNext]_<<free, held>>
=============================================================================
