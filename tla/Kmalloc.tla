------------------------------- MODULE Kmalloc -------------------------------
(***************************************************************************)
(* The choice among the kmalloc caches (slab_common.c) and of the order of *)
(* their slabs (slub.c), next to the cache that serves the request.        *)
(***************************************************************************)
EXTENDS Slub, FiniteSetsExt

\* kmalloc_info[].size; the caches of 16k and more are not created.
kmalloc_info == <<96, 192, 8, 16, 32, 64, 128, 256, 512, 1024, 2048, 4096, 8192>>

PAGE_SIZE == 4096
NR_PAGE_ORDERS == 11

\* The place, from 1, of the last bit set in n; 0 if there is none.  As fls64().
fls(n) == CHOOSE k \in 0..31 : n < 2 ^ k /\ (k > 0 => n >= 2 ^ (k - 1))

\* Mutant: the cases of the 96-byte cache start one too early.
size_to_index_early(bytes) ==
    LET c == (bytes - 1) \div 8 IN
    CASE c = 0 -> 3 [] c = 1 -> 4 [] c \in 2..3 -> 5 [] c \in 4..6 -> 6
      [] c \in 7..11 -> 1 [] c \in 12..15 -> 7 [] OTHER -> 2

size_to_index(bytes) ==
    LET c == (bytes - 1) \div 8 IN
    CASE c = 0 -> 3 [] c = 1 -> 4 [] c \in 2..3 -> 5 [] c \in 4..7 -> 6
      [] c \in 8..11 -> 1 [] c \in 12..15 -> 7 [] OTHER -> 2

\* The index of the cache that serves 0 < size <= KMALLOC_MAX_CACHE_SIZE.
kmalloc_slab(size) == IF size <= 192 THEN size_to_index(size) ELSE fls(size - 1)

get_order(size) == fls((size - 1) \div PAGE_SIZE)

\* simple_calculate_order(): the first order that wastes at most 1/64 of the slab.
calculate_order(size) ==
    LET slab_size(o) == PAGE_SIZE * 2 ^ o
        Good == {o \in get_order(4 * size)..(NR_PAGE_ORDERS - 1) :
                     slab_size(o) % size <= slab_size(o) \div 64}
    IN  IF Good = {} THEN NR_PAGE_ORDERS ELSE Min(Good)

-----------------------------------------------------------------------------
(* Properties *)

\* kmalloc() gets an object of the smallest cache that is large enough, and the
\* slabs of every cache hold at least the slub_min_objects objects wanted.  The
\* choice depends on the size alone: it is looked at before the first allocation.
KmallocFits ==
    held = {} /\ (\A t \in Task : pc[t] = "run") =>
        /\ \A size \in 1..PAGE_SIZE :
               kmalloc_info[kmalloc_slab(size)] =
                   Min({kmalloc_info[i] : i \in {j \in DOMAIN kmalloc_info : kmalloc_info[j] >= size}})
        /\ \A i \in DOMAIN kmalloc_info :
               LET o == calculate_order(kmalloc_info[i]) IN
               o < NR_PAGE_ORDERS /\ (PAGE_SIZE * 2 ^ o) \div kmalloc_info[i] >= 4
=============================================================================
