-------------------------------- MODULE Cow --------------------------------
(***************************************************************************)
(* User memory: fork()'s copy of the page tables, the page faults, the     *)
(* page cache they fill and the counts of the pages.  Every address space  *)
(* has one page of anonymous memory and one page of a privately mapped     *)
(* file, both writable.  A page holds one word.  One processor, its TLB    *)
(* included, runs all of them.  No address space is ever released:         *)
(* __mmput() is empty.  Nor is a page: __folio_put() is empty, so a page   *)
(* whose count reaches 0 stays out of the allocator's lists.               *)
(***************************************************************************)
EXTENDS Integers, FiniteSets

CONSTANTS
    MM,         \* address spaces
    Page,       \* physical pages
    Word,       \* what a page holds
    Zero,       \* the word of empty_zero_page
    FileWord,   \* the word of the file on disk
    zero_page,  \* empty_zero_page
    none        \* no page

VPage == {"anon", "file"}

VARIABLES
    mms,         \* the address spaces that exist
    pte,         \* their page tables: page and write bit
    page_array,  \* the page cache of the file, of one page
    allocated,   \* the pages that the allocator has given out
    count,       \* page_s._refcount
    data,        \* the word in a page
    cr3,         \* the address space that is loaded
    tlb,         \* what the TLB remembers of its page table
    view         \* what the programs ought to read: their own last write,
                 \* their parent's before fork(), or the initial word

cowVars == <<mms, pte, page_array, allocated, count, data, cr3, tlb, view>>

NonePte == [page |-> none, write |-> FALSE]

CowInit ==
    \E m \in MM :
        /\ mms = {m} /\ cr3 = m
        /\ pte = [x \in MM |-> [v \in VPage |-> NonePte]]
        /\ page_array = none
        /\ allocated = {} /\ count = [p \in Page |-> 0]
        /\ data = [p \in Page \cup {zero_page} |-> Zero]
        /\ tlb = [v \in VPage |-> NonePte]
        /\ view = [x \in MM |-> [v \in VPage |-> IF v = "file" THEN FileWord ELSE Zero]]

-----------------------------------------------------------------------------
(* The processor *)

Allows(e, write) == e.page # none /\ (write => e.write)

\* A translation that the TLB has, else the one of the page table.
Translation(v, write) == IF Allows(tlb[v], write) THEN tlb[v] ELSE pte[cr3][v]

\* A load or a store that does not fault.
Access(v, write, w) ==
    LET e == Translation(v, write) IN
    /\ Allows(e, write)
    /\ tlb' = [tlb EXCEPT ![v] = e]
    /\ IF write
       THEN /\ data' = [data EXCEPT ![e.page] = w]
            /\ view' = [view EXCEPT ![cr3][v] = w]
       ELSE UNCHANGED <<data, view>>
    /\ UNCHANGED <<mms, pte, page_array, allocated, count, cr3>>

\* switch_mm_irqs_off(): loading cr3 empties the TLB.
switch_mm(m) ==
    /\ m # cr3
    /\ cr3' = m
    /\ tlb' = [v \in VPage |-> NonePte]
    /\ UNCHANGED <<mms, pte, page_array, allocated, count, data, view>>

-----------------------------------------------------------------------------
(* fork() *)

\* A writable private page is write-protected in both; the page is not counted.
copy_present_pte(e) == [e EXCEPT !.write = FALSE]

\* dup_mmap(), copy_page_range().  "// flush_tlb_mm(oldmm)" is commented out.
dup_mmap(m) ==
    /\ pte' = [pte EXCEPT ![cr3] = [v \in VPage |-> copy_present_pte(@[v])],
                          ![m]   = [v \in VPage |-> copy_present_pte(pte[cr3][v])]]
    /\ mms' = mms \cup {m}
    /\ view' = [view EXCEPT ![m] = view[cr3]]
    /\ UNCHANGED <<page_array, allocated, count, data, cr3, tlb>>

-----------------------------------------------------------------------------
(* The page faults.  The processor drops the translation that faulted. *)

Faults(v, write) ==
    /\ ~Allows(tlb[v], write) /\ ~Allows(pte[cr3][v], write)
    /\ tlb' = [tlb EXCEPT ![v] = NonePte]
    /\ UNCHANGED <<mms, cr3, view>>

set_pte(v, p, write) == pte' = [pte EXCEPT ![cr3][v] = [page |-> p, write |-> write]]

\* folio_prealloc() does not look at need_zero: the page holds what it held, which
\* is Zero here, as for a page never used before.
folio_alloc(ps) == ps \cap allocated = {} /\ allocated' = allocated \cup ps

\* The reference count; at 0 folio_put() calls __folio_put(), which does nothing.
folio_get(n) == n + 1
folio_put(n) == n - 1

\* A read of untouched anonymous memory maps the zero page, a write a new page.
do_anonymous_page(write) ==
    /\ Faults("anon", write)
    /\ pte[cr3]["anon"].page = none
    /\ IF write
       THEN \E p \in Page :
                /\ folio_alloc({p})
                /\ count' = [count EXCEPT ![p] = 1]
                /\ set_pte("anon", p, TRUE)
       ELSE set_pte("anon", zero_page, FALSE) /\ UNCHANGED <<allocated, count>>
    /\ UNCHANGED <<page_array, data>>

\* simple_filemap_map_page() finds the page in the cache.
do_fault_around ==
    /\ Faults("file", FALSE)
    /\ pte[cr3]["file"].page = none /\ page_array # none
    /\ set_pte("file", page_array, FALSE)
    /\ UNCHANGED <<page_array, allocated, count, data>>

\* simple_filemap_fault() reads the page into the cache; finish_fault() maps it.
do_read_fault ==
    /\ Faults("file", FALSE)
    /\ pte[cr3]["file"].page = none /\ page_array = none
    /\ \E p \in Page :
           /\ folio_alloc({p})
           /\ page_array' = p
           /\ count' = [count EXCEPT ![p] = 1]
           /\ data' = [data EXCEPT ![p] = FileWord]
           /\ set_pte("file", p, FALSE)

\* The same for a write, with a copy; the page in the cache is put.
\* (If the cache holds the page already, simple_filemap_fault() is a BUG().)
do_cow_fault ==
    /\ Faults("file", TRUE)
    /\ pte[cr3]["file"].page = none /\ page_array = none
    /\ \E p, q \in Page :
           /\ p # q /\ folio_alloc({p, q})
           /\ page_array' = p
           /\ count' = [count EXCEPT ![q] = 1, ![p] = folio_put(1)]
           /\ data' = [data EXCEPT ![p] = FileWord, ![q] = FileWord]
           /\ set_pte("file", q, FALSE)

\* A new page takes the place of a present one.  The old page, if it is not the
\* zero page, was counted by do_wp_page() and is put twice.
wp_page_copy(v) ==
    LET old == pte[cr3][v].page IN
    /\ Faults(v, TRUE)
    /\ old # none
    /\ \E p \in Page :
           /\ folio_alloc({p})
           /\ set_pte(v, p, TRUE)
           /\ IF old = zero_page
              THEN count' = [count EXCEPT ![p] = 1] /\ UNCHANGED data
              ELSE /\ count' = [count EXCEPT ![p] = 1, ![old] = folio_put(folio_put(folio_get(@)))]
                   /\ data' = [data EXCEPT ![p] = data[old]]
    /\ UNCHANGED page_array

-----------------------------------------------------------------------------
handle_pte_fault ==
    \/ \E write \in BOOLEAN : do_anonymous_page(write)
    \/ do_fault_around \/ do_read_fault \/ do_cow_fault
    \/ \E v \in VPage : wp_page_copy(v)

CowNext ==
    \/ \E v \in VPage, write \in BOOLEAN, w \in Word : Access(v, write, w)
    \/ \E m \in mms : switch_mm(m)
    \/ \E m \in MM \ mms : dup_mmap(m)
    \/ handle_pte_fault

CowSpec == CowInit /\ [][CowNext]_cowVars

-----------------------------------------------------------------------------
(* Properties *)

Mapped == {pte[m][v].page : m \in mms, v \in VPage} \ {none, zero_page}

\* Copying a page on a write is done by "decrementing the shared-page counter for the
\* old page": a page that a page table still maps has a count, so that what
\* wp_page_copy() puts is never its last reference.
MappedCounted == \A p \in Mapped : count[p] > 0

\* A page in the page cache has a count: do_cow_fault() puts only what it got.
CacheCounted == page_array # none => count[page_array] > 0

\* A process reads what it wrote last, what its parent had written when it was
\* forked, or the initial word, whatever its relatives write.
WritesIsolated ==
    \A m \in mms, v \in VPage : pte[m][v].page # none => data[pte[m][v].page] = view[m][v]
=============================================================================
