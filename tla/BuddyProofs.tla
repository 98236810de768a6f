---------------------------- MODULE BuddyProofs ----------------------------
(***************************************************************************)
(* The page allocator of Buddy with any memory map, any zones and any      *)
(* requests: every frame handed over is in exactly one place, the lists    *)
(* and the page descriptors tell the truth about the blocks, and the       *)
(* allocator implements PageAlloc.                                         *)
(***************************************************************************)
EXTENDS Buddy, WellFoundedInduction, TLAPS

-----------------------------------------------------------------------------
(* The inductive invariant *)

InList(z, o) == Range(free_area[z][o])

\* The blocks of memory, each with where it is.
Listed(z, o, p) == [pfn |-> p, order |-> o, at |-> <<"zone", z>>]
Lent(b)         == [pfn |-> b.pfn, order |-> b.req.order, at |-> <<"caller", b.req>>]
ListBlocks(z, o) == {Listed(z, o, p) : p \in InList(z, o)}
ZoneBlocks(z)    == UNION {ListBlocks(z, o) : o \in Order}
ListedBlocks     == UNION {ZoneBlocks(z) : z \in Zone}
LentBlocks       == {Lent(b) : b \in held}
Blocks           == ListedBlocks \cup LentBlocks

\* The blocks K cut the frames G into pieces.
Cuts(K, G) ==
    /\ \A a, b \in K : a # b => Frames(a.pfn, a.order) \cap Frames(b.pfn, b.order) = {}
    /\ G = UNION {Frames(a.pfn, a.order) : a \in K}

Given == {x \in available : x < start_pfn}

ListOK(z, o) ==
    /\ IsInjective(free_area[z][o])
    /\ \A p \in InList(z, o) :
           /\ p % 2 ^ o = 0 /\ myos_page_zone(p) = z
           /\ private[p] = o /\ p \notin tail

LentOK(b) ==
    /\ b.req.order \in Order /\ b.pfn % 2 ^ b.req.order = 0
    /\ \E i \in (b.req.start + 1) .. 3 : myos_page_zone(b.pfn) = Prefered[i]
    /\ b.pfn \notin tail
    /\ b.pfn \in head <=> b.req.comp /\ b.req.order > 0
    /\ b.pfn \in head => low[b.pfn + 1] = b.req.order

BuddyInv ==
    /\ BuddyTypeOK /\ FreeRanges(ranges)
    /\ ranges = {} => start_pfn = 0
    /\ \A p \in Page : page_type[p] \subseteq {"buddy"}
    /\ \A z \in Zone, o \in Order : ListOK(z, o)
    /\ \A b \in held : LentOK(b)
    /\ \A h \in head : \E b \in held : b.pfn = h
    /\ Cuts(Blocks, Given)

-----------------------------------------------------------------------------
(* Least and greatest numbers: the form that induction takes here *)

Below == {x \in Nat \X Nat : x[1] < x[2]}

\* A nonempty set of naturals has a least element.
LEMMA LeastNat ==
    ASSUME NEW S, S \subseteq Nat, S # {}
    PROVE  \E x \in S : \A y \in S : x <= y
<1>1. OpToRel(<, Nat) = Below
  BY Zenon DEF OpToRel, Below
<1>2. IsWellFoundedOn(Below, Nat)
  BY <1>1, NatLessThanWellFounded, Zenon
<1>3. PICK x \in S : \A y \in S : ~(<<y, x>> \in Below)
  BY <1>2, WFMin, Zenon
<1>4. ASSUME NEW y \in S PROVE x <= y
  <2>1. x \in Nat /\ y \in Nat
    BY Zenon
  <2>2. ~(<<y, x>> \in Below)
    BY <1>3, Zenon
  <2>3. ~(y < x)
    BY <2>1, <2>2, Zenon DEF Below
  <2>. QED  BY <2>1, <2>3
<1>. QED  BY <1>4, Zenon

\* Min() of a nonempty set of naturals is its least element.
LEMMA MinIsLeast ==
    ASSUME NEW S, S \subseteq Nat, S # {}
    PROVE  Min(S) \in S /\ \A y \in S : Min(S) <= y
<1>1. \E x \in S : \A y \in S : x <= y
  BY LeastNat, Zenon
<1>. QED  BY <1>1, Zenon DEF Min

\* Max() of a nonempty bounded set of naturals is one of its elements.
LEMMA MaxIsMember ==
    ASSUME NEW m \in Nat, NEW S, S \subseteq 0 .. m, S # {}
    PROVE  Max(S) \in S
<1>. DEFINE Bound == {n \in Nat : \A y \in S : n >= y}
<1>1. Bound \subseteq Nat /\ m \in Bound
  OBVIOUS
<1>2. PICK x \in Bound : \A y \in Bound : x <= y
  <2>. HIDE DEF Bound
  <2>. QED  BY <1>1, LeastNat, Zenon
<1>3. x \in S
  <2>1. SUFFICES ASSUME x \notin S PROVE FALSE
    BY Zenon
  <2>2. x \in Nat /\ \A y \in S : x >= y
    BY <1>2, Zenon
  <2>3. \A y \in S : y \in Nat /\ x > y
    BY <2>1, <2>2
  <2>4. x > 0 /\ x - 1 \in Nat
    <3>1. PICK s \in S : TRUE
      BY Zenon
    <3>2. s \in Nat /\ x > s
      BY <2>3, <3>1, Zenon
    <3>. QED  BY <2>2, <3>2
  <2>5. \A y \in S : x - 1 >= y
    BY <2>2, <2>3
  <2>. QED  BY <1>2, <2>2, <2>4, <2>5
<1>4. \E y \in S : \A w \in S : y >= w
  BY <1>2, <1>3, Zenon
<1>. QED  BY <1>4, Zenon DEF Max

-----------------------------------------------------------------------------
(* Multiples and powers of two *)

LEMMA Divided ==
    ASSUME NEW k \in Nat \ {0}, NEW x \in Nat, x % k = 0
    PROVE  \E a \in Nat : x = a * k
OBVIOUS

LEMMA Multiple ==
    ASSUME NEW k \in Nat \ {0}, NEW a \in Nat
    PROVE  (a * k) % k = 0
OBVIOUS

LEMMA NextMultiple ==
    ASSUME NEW k \in Nat \ {0}, NEW a \in Nat, NEW b \in Nat, a < b
    PROVE  a * k + k <= b * k
OBVIOUS

\* Two multiples of k are at least k apart.
LEMMA Apart ==
    ASSUME NEW k \in Nat \ {0}, NEW x \in Nat, NEW y \in Nat,
           x % k = 0, y % k = 0, x < y
    PROVE  x + k <= y
<1>1. PICK a \in Nat : x = a * k
  BY Divided, Zenon
<1>2. PICK b \in Nat : y = b * k
  BY Divided, Zenon
<1>3. a < b
  <2>1. SUFFICES ASSUME b <= a PROVE FALSE
    OBVIOUS
  <2>2. CASE b = a
    BY <1>1, <1>2, <2>2
  <2>3. CASE b < a
    <3>1. b * k + k <= a * k
      BY <2>3, NextMultiple, Zenon
    <3>. QED  BY <1>1, <1>2, <3>1
  <2>. QED  BY <2>1, <2>2, <2>3
<1>4. a * k + k <= b * k
  BY <1>3, NextMultiple, Zenon
<1>. QED  BY <1>1, <1>2, <1>4, Zenon

\* A power of two is positive.
LEMMA PowPos ==
    ASSUME NEW n \in Order
    PROVE  2 ^ n \in Nat \ {0}
<1>. DEFINE Bad == {i \in Nat : i \in Order /\ 2 ^ i = 0}
<1>0. 2 ^ 0 = 1
  OBVIOUS
<1>1. Bad = {}
  <2>1. SUFFICES ASSUME Bad # {} PROVE FALSE
    BY Zenon
  <2>2. PICK x \in Bad : \A y \in Bad : x <= y
    <3>1. Bad \subseteq Nat
      BY Zenon
    <3>. HIDE DEF Bad
    <3>. QED  BY <2>1, <3>1, LeastNat, Zenon
  <2>3. x # 0
    <3>1. 2 ^ x = 0
      BY <2>2, Zenon
    <3>2. SUFFICES ASSUME x = 0 PROVE FALSE
      BY Zenon
    <3>3. 2 ^ 0 = 0
      BY <3>1, <3>2, Zenon
    <3>. QED  BY <1>0, <3>3
  <2>4. x - 1 \in Order /\ x - 1 \in Nat /\ x - 1 < x
    BY <2>2, <2>3, BuddyAssumption DEF Order
  <2>5. 2 ^ (x - 1) \in Nat /\ 2 ^ (x - 1) # 0
    BY <2>2, <2>4, PowersOfTwo
  <2>6. 2 ^ ((x - 1) + 1) = 2 * 2 ^ (x - 1)
    BY <2>4, PowersOfTwo, Zenon
  <2>7. (x - 1) + 1 = x
    BY <2>2
  <2>. QED  BY <2>2, <2>5, <2>6, <2>7
<1>2. n \in Nat
  BY BuddyAssumption DEF Order
<1>. QED  BY <1>1, <1>2, PowersOfTwo, Zenon

\* A power of two is a multiple of the smaller ones.
LEMMA PowMultiple ==
    ASSUME NEW i \in Order, NEW j \in Order, i <= j
    PROVE  \E m \in Nat \ {0} : 2 ^ j = m * 2 ^ i
<1>. DEFINE Good(n) == \E m \in Nat \ {0} : 2 ^ n = m * 2 ^ i
            Bad == {n \in Nat : n \in Order /\ i <= n /\ ~Good(n)}
<1>0. i \in Nat /\ j \in Nat
  BY BuddyAssumption DEF Order
<1>1. Good(i)
  <2>1. 2 ^ i = 1 * 2 ^ i
    BY PowPos
  <2>. QED  BY <2>1
<1>2. Bad = {}
  <2>1. SUFFICES ASSUME Bad # {} PROVE FALSE
    BY Zenon
  <2>2. PICK x \in Bad : \A y \in Bad : x <= y
    <3>1. Bad \subseteq Nat
      BY Zenon
    <3>. HIDE DEF Bad
    <3>. QED  BY <2>1, <3>1, LeastNat, Zenon
  <2>3. x # i
    <3>. HIDE DEF Good
    <3>. QED  BY <1>1, <2>2, Zenon
  <2>4. x - 1 \in Order /\ x - 1 \in Nat /\ x - 1 < x /\ i <= x - 1
    <3>. HIDE DEF Good
    <3>. QED  BY <1>0, <2>2, <2>3, BuddyAssumption DEF Order
  <2>5. Good(x - 1)
    <3>. HIDE DEF Good
    <3>. QED  BY <2>2, <2>4
  <2>6. PICK m \in Nat \ {0} : 2 ^ (x - 1) = m * 2 ^ i
    BY <2>5, Zenon
  <2>7. 2 ^ ((x - 1) + 1) = 2 * 2 ^ (x - 1)
    BY <2>4, PowersOfTwo, Zenon
  <2>8. (x - 1) + 1 = x
    BY <2>2
  <2>9. 2 ^ x = 2 * (m * 2 ^ i)
    BY <2>6, <2>7, <2>8, Zenon
  <2>10. 2 ^ i \in Nat /\ 2 * m \in Nat \ {0}
    BY PowPos
  <2>11. 2 * (m * 2 ^ i) = (2 * m) * 2 ^ i
    BY <2>10
  <2>12. 2 ^ x = (2 * m) * 2 ^ i
    BY <2>9, <2>11, Zenon
  <2>13. Good(x)
    BY <2>10, <2>12, Zenon
  <2>. QED
    <3>. HIDE DEF Good
    <3>. QED  BY <2>2, <2>13, Zenon
<1>3. Good(j)
  <2>. HIDE DEF Good
  <2>. QED  BY <1>0, <1>2, Zenon
<1>. QED  BY <1>3, Zenon

LEMMA PowMono ==
    ASSUME NEW i \in Order, NEW j \in Order, i <= j
    PROVE  2 ^ i <= 2 ^ j
<1>1. PICK m \in Nat \ {0} : 2 ^ j = m * 2 ^ i
  BY PowMultiple, Zenon
<1>2. 2 ^ i \in Nat \ {0}
  BY PowPos, Zenon
<1>3. PICK k \in Nat \ {0} : k = 2 ^ i
  BY <1>2, Zenon
<1>4. m * k >= k
  OBVIOUS
<1>. QED  BY <1>1, <1>3, <1>4, Zenon

\* The first half of a block is smaller than the block.
LEMMA PowHalf ==
    ASSUME NEW i \in Order, NEW j \in Order, i < j
    PROVE  i + 1 \in Order /\ 2 ^ (i + 1) = 2 ^ i + 2 ^ i /\ 2 ^ (i + 1) <= 2 ^ j
<1>1. i + 1 \in Order /\ i + 1 <= j
  BY BuddyAssumption DEF Order
<1>2. 2 ^ i \in Nat /\ 2 ^ (i + 1) = 2 * 2 ^ i
  BY PowersOfTwo, Zenon
<1>. QED  BY <1>1, <1>2, PowMono

\* What is aligned to an order is aligned to the smaller ones.
LEMMA AlignedBelow ==
    ASSUME NEW x \in Nat, NEW i \in Order, NEW j \in Order, i <= j, x % 2 ^ j = 0
    PROVE  x % 2 ^ i = 0
<1>1. PICK m \in Nat \ {0} : 2 ^ j = m * 2 ^ i
  BY PowMultiple, Zenon
<1>2. 2 ^ i \in Nat \ {0} /\ 2 ^ j \in Nat \ {0}
  BY PowPos, Zenon
<1>3. PICK a \in Nat : x = a * 2 ^ j
  BY <1>2, Divided, Zenon
<1>4. PICK k \in Nat \ {0} : k = 2 ^ i
  BY <1>2, Zenon
<1>5. x = a * (m * k)
  BY <1>1, <1>3, <1>4, Zenon
<1>6. a * (m * k) = (a * m) * k /\ a * m \in Nat
  OBVIOUS
<1>7. ((a * m) * k) % k = 0
  BY <1>6, Multiple, Zenon
<1>. QED  BY <1>4, <1>5, <1>6, <1>7, Zenon

\* The upper half of an aligned block is aligned.
LEMMA AlignedHalf ==
    ASSUME NEW x \in Nat, NEW i \in Order, x % 2 ^ i = 0
    PROVE  (x + 2 ^ i) % 2 ^ i = 0
<1>1. PICK k \in Nat \ {0} : k = 2 ^ i
  BY PowPos, Zenon
<1>2. PICK a \in Nat : x = a * k
  BY <1>1, Divided, Zenon
<1>3. x + k = (a + 1) * k /\ a + 1 \in Nat
  BY <1>2
<1>4. ((a + 1) * k) % k = 0
  BY <1>3, Multiple, Zenon
<1>. QED  BY <1>1, <1>3, <1>4, Zenon

\* Every number from 2^i up to 2^j is in one of the halves between.
LEMMA Octave ==
    ASSUME NEW i \in Order, NEW j \in Order, i <= j, NEW x \in Nat,
           2 ^ i <= x, x < 2 ^ j
    PROVE  \E o \in Order : i <= o /\ o < j /\ 2 ^ o <= x /\ x < 2 ^ (o + 1)
<1>. DEFINE Above == {n \in Nat : n \in Order /\ i <= n /\ x < 2 ^ n}
<1>0. i \in Nat /\ j \in Nat
  BY BuddyAssumption DEF Order
<1>1. Above \subseteq Nat /\ j \in Above
  BY <1>0, Zenon
<1>2. PICK n \in Above : \A y \in Above : n <= y
  <2>. HIDE DEF Above
  <2>. QED  BY <1>1, LeastNat, Zenon
<1>3. n \in Order /\ n \in Nat /\ i <= n /\ x < 2 ^ n /\ n <= j
  BY <1>1, <1>2, Zenon
<1>4. 2 ^ n \in Nat /\ 2 ^ i \in Nat
  BY <1>3, PowersOfTwo, Zenon
<1>5. n # i
  BY <1>3, <1>4
<1>6. n - 1 \in Order /\ n - 1 \in Nat /\ i <= n - 1 /\ n - 1 < j /\ n - 1 < n
  BY <1>0, <1>3, <1>5, BuddyAssumption DEF Order
<1>7. 2 ^ (n - 1) \in Nat
  BY <1>6, PowersOfTwo, Zenon
<1>8. ~(x < 2 ^ (n - 1))
  <2>1. n - 1 \notin Above
    <3>. HIDE DEF Above
    <3>. QED  BY <1>2, <1>3, <1>6
  <2>. QED  BY <1>6, <2>1, Zenon
<1>9. 2 ^ (n - 1) <= x
  BY <1>7, <1>8
<1>10. (n - 1) + 1 = n
  BY <1>3
<1>. QED  BY <1>3, <1>6, <1>9, <1>10, Zenon

-----------------------------------------------------------------------------
(* Frames, pages and zones *)

LEMMA PageFacts ==
    /\ Page \subseteq Nat
    /\ \A x \in Nat : x < MaxPfn => x \in Page
    /\ \E n \in Nat : n % 2 ^ MaxOrder = 0 /\ \A x \in Nat : x \in Page <=> x < n
<1>1. MaxOrder \in Order /\ MaxPfn \in Nat
  BY BuddyAssumption DEF Order
<1>2. PICK k \in Nat \ {0} : k = 2 ^ MaxOrder
  BY <1>1, PowPos, Zenon
<1>3. PICK d \in Nat : d = (MaxPfn + k - 1) \div k
  BY <1>1
<1>4. d * k > MaxPfn - 1 /\ d * k \in Nat
  BY <1>1, <1>3
<1>5. Page = 0 .. (d * k - 1)
  BY <1>2, <1>3, Zenon DEF Page
<1>6. (d * k) % k = 0
  BY Multiple, Zenon
<1>7. PICK n \in Nat : n = d * k
  BY <1>4, Zenon
<1>8. n % 2 ^ MaxOrder = 0 /\ n > MaxPfn - 1 /\ Page = 0 .. (n - 1)
  BY <1>2, <1>4, <1>5, <1>6, <1>7, Zenon
<1>9. \A x \in Nat : x \in Page <=> x < n
  BY <1>8
<1>. QED  BY <1>1, <1>8, <1>9

LEMMA FrameIn ==
    ASSUME NEW p \in Nat, NEW o \in Order
    PROVE  /\ \A x : x \in Frames(p, o) <=> x \in Nat /\ p <= x /\ x < p + 2 ^ o
           /\ p \in Frames(p, o)
BY PowPos DEF Frames

\* A block does not cross the border of a zone.
LEMMA OneZone ==
    ASSUME NEW p \in Nat, NEW o \in Order, p % 2 ^ o = 0,
           NEW x \in Frames(p, o), x < MaxPfn
    PROVE  myos_page_zone(x) = myos_page_zone(p)
<1>1. x \in Nat /\ p <= x /\ x < p + 2 ^ o
  BY FrameIn, Zenon
<1>2. ASSUME NEW z \in {"DMA", "DMA32"} PROVE x < ZoneEnd[z] <=> p < ZoneEnd[z]
  <2>1. z \in Zone \ {"NORMAL"}
    BY Zenon DEF Zone
  <2>2. PICK e \in Nat : e = ZoneEnd[z] /\ (e = MaxPfn \/ e % 2 ^ MaxOrder = 0)
    BY <2>1, BuddyAssumption, Zenon
  <2>3. CASE e = MaxPfn
    BY <1>1, <2>2, <2>3
  <2>4. CASE e % 2 ^ MaxOrder = 0
    <3>1. MaxOrder \in Order /\ o <= MaxOrder
      BY BuddyAssumption DEF Order
    <3>2. e % 2 ^ o = 0
      BY <2>4, <3>1, AlignedBelow, Zenon
    <3>3. 2 ^ o \in Nat \ {0}
      BY PowPos, Zenon
    <3>4. p < e => p + 2 ^ o <= e
      BY <3>2, <3>3, Apart, Zenon
    <3>. QED  BY <1>1, <2>2, <3>3, <3>4
  <2>. QED  BY <2>2, <2>3, <2>4, Zenon
<1>3. x < ZoneEnd["DMA"] <=> p < ZoneEnd["DMA"]
  BY <1>2, Zenon
<1>4. x < ZoneEnd["DMA32"] <=> p < ZoneEnd["DMA32"]
  BY <1>2, Zenon
<1>5. ZoneEnd["DMA"] \in Nat
  BY BuddyAssumption, Zenon DEF Zone
<1>. QED  BY <1>1, <1>3, <1>4, <1>5 DEF myos_page_zone

\* The buddy of a page has a page descriptor.
LEMMA BuddyInPage ==
    ASSUME NEW p \in Page, NEW o \in Order, o < MaxOrder, p % 2 ^ o = 0
    PROVE  __find_buddy_pfn(p, o) \in Page
<1>1. PICK n \in Nat : n % 2 ^ MaxOrder = 0 /\ \A x \in Nat : x \in Page <=> x < n
  BY PageFacts, Zenon
<1>2. p \in Nat /\ p < n
  BY <1>1, PageFacts, Zenon
<1>3. PICK k \in Nat \ {0} : k = 2 ^ o
  BY PowPos, Zenon
<1>4. PICK a \in Nat : p = a * k
  BY <1>2, <1>3, Divided, Zenon
<1>5. MaxOrder \in Order
  BY BuddyAssumption DEF Order
<1>6. o + 1 \in Order /\ o + 1 <= MaxOrder /\ 2 ^ (o + 1) = 2 * k
  BY <1>3, <1>5, PowHalf, BuddyAssumption DEF Order
<1>7. p \div k = a
  BY <1>4
<1>8. CASE a % 2 = 0
  <2>1. PICK b \in Nat : a = b * 2
    BY <1>8, Divided
  <2>2. p = b * (2 * k)
    BY <1>4, <2>1
  <2>3. p % (2 * k) = 0
    <3>1. PICK k2 \in Nat \ {0} : k2 = 2 * k
      OBVIOUS
    <3>2. (b * k2) % k2 = 0
      BY Multiple, Zenon
    <3>. QED  BY <2>2, <3>1, <3>2, Zenon
  <2>4. n % (2 * k) = 0
    BY <1>1, <1>5, <1>6, AlignedBelow, Zenon
  <2>5. p + 2 * k <= n
    BY <1>2, <2>3, <2>4, Apart
  <2>6. p + k \in Page
    BY <1>1, <1>2, <2>5
  <2>. QED  BY <1>3, <1>7, <1>8, <2>6, Zenon DEF __find_buddy_pfn
<1>9. CASE a % 2 # 0
  <2>1. a # 0
    BY <1>9
  <2>2. p - k \in Nat
    <3>1. 0 * k + k <= a * k
      BY <2>1, NextMultiple
    <3>. QED  BY <1>4, <3>1
  <2>3. p - k \in Page
    BY <1>1, <1>2, <2>2
  <2>. QED  BY <1>3, <1>7, <1>9, <2>3, Zenon DEF __find_buddy_pfn
<1>. QED  BY <1>8, <1>9, Zenon

\* No block merges with its buddy, since no page is ever of type buddy.
LEMMA NoMerge ==
    ASSUME NEW p \in Page, NEW o \in Order, p % 2 ^ o = 0,
           \A x \in Page : page_type[x] \subseteq {"buddy"}
    PROVE  MergedOrder(p, o) = o /\ Combined(p, o) = p
<1>1. p \in Nat /\ o \in Nat /\ o <= MaxOrder /\ MaxOrder \in Nat
  BY PageFacts, BuddyAssumption DEF Order
<1>2. Combined(p, o) = p
  BY <1>1 DEF Combined
<1>3. ~CanMerge(p, o)
  <2>1. SUFFICES ASSUME CanMerge(p, o) PROVE FALSE
    BY Zenon
  <2>2. o < MaxOrder /\ PageBuddy(__find_buddy_pfn(p, o))
    BY <1>2, <2>1, Zenon DEF CanMerge, page_is_buddy
  <2>3. PICK b \in Page : b = __find_buddy_pfn(p, o)
    BY <2>2, BuddyInPage, Zenon
  <2>4. page_type[b] \cap {"base", "buddy"} = {"base"}
    BY <2>2, <2>3, Zenon DEF PageBuddy
  <2>5. "base" \in page_type[b]
    BY <2>4, Zenon
  <2>. QED  BY <2>5, Zenon
<1>4. o \in o .. MaxOrder /\ ~CanMerge(p, o) /\ \A k \in o .. (o - 1) : CanMerge(p, k)
  BY <1>1, <1>3
<1>5. ASSUME NEW j \in o .. MaxOrder, \A k \in o .. (j - 1) : CanMerge(p, k)
      PROVE  j = o
  <2>1. SUFFICES ASSUME j # o PROVE FALSE
    BY Zenon
  <2>2. o \in o .. (j - 1)
    BY <1>1, <2>1
  <2>. QED  BY <1>3, <1>5, <2>2, Zenon
<1>6. MergedOrder(p, o) = o
  <2>. HIDE DEF CanMerge
  <2>. QED  BY <1>4, <1>5, Zenon DEF MergedOrder
<1>. QED  BY <1>2, <1>6, Zenon

-----------------------------------------------------------------------------
(* Cutting memory into blocks *)

\* The lower part of a block and the halves that expand() cuts off.
LEMMA Halves ==
    ASSUME NEW p \in Nat, NEW lo \in Order, NEW hi \in Order, lo <= hi
    PROVE  /\ \A x : x \in Frames(p, hi) <=>
                 \/ x \in Frames(p, lo)
                 \/ \E o \in Order : lo <= o /\ o < hi /\ x \in Frames(p + 2 ^ o, o)
           /\ \A o \in Order : lo <= o /\ o < hi =>
                 \A x : ~(x \in Frames(p, lo) /\ x \in Frames(p + 2 ^ o, o))
           /\ \A o, j \in Order : lo <= o /\ o < j /\ j < hi =>
                 \A x : ~(x \in Frames(p + 2 ^ o, o) /\ x \in Frames(p + 2 ^ j, j))
<1>0. \A o \in Order : o \in Nat /\ 2 ^ o \in Nat \ {0} /\ p + 2 ^ o \in Nat
  BY PowPos, BuddyAssumption DEF Order
<1>1. ASSUME NEW o \in Order, lo <= o, o < hi
      PROVE  /\ \A x : x \in Frames(p + 2 ^ o, o) <=>
                    x \in Nat /\ p + 2 ^ o <= x /\ x < p + 2 ^ (o + 1)
             /\ o + 1 \in Order /\ 2 ^ (o + 1) \in Nat
             /\ 2 ^ (o + 1) <= 2 ^ hi /\ 2 ^ lo <= 2 ^ o
  <2>1. o + 1 \in Order /\ 2 ^ (o + 1) = 2 ^ o + 2 ^ o /\ 2 ^ (o + 1) <= 2 ^ hi
    BY <1>1, PowHalf, Zenon
  <2>2. 2 ^ lo <= 2 ^ o
    BY <1>1, PowMono, Zenon
  <2>3. \A x : x \in Frames(p + 2 ^ o, o) <=> x \in Nat /\ p + 2 ^ o <= x /\ x < (p + 2 ^ o) + 2 ^ o
    BY <1>0, FrameIn, Zenon
  <2>4. (p + 2 ^ o) + 2 ^ o = p + 2 ^ (o + 1)
    BY <1>0, <2>1
  <2>. QED  BY <1>0, <2>1, <2>2, <2>3, <2>4, Zenon
<1>2. \A x : x \in Frames(p, lo) <=> x \in Nat /\ p <= x /\ x < p + 2 ^ lo
  BY FrameIn, Zenon
<1>3. \A x : x \in Frames(p, hi) <=> x \in Nat /\ p <= x /\ x < p + 2 ^ hi
  BY FrameIn, Zenon
<1>4. 2 ^ lo <= 2 ^ hi
  BY PowMono, Zenon
<1>5. ASSUME NEW x \in Frames(p, hi), x \notin Frames(p, lo)
      PROVE  \E o \in Order : lo <= o /\ o < hi /\ x \in Frames(p + 2 ^ o, o)
  <2>1. x \in Nat /\ p <= x /\ x < p + 2 ^ hi /\ ~(x < p + 2 ^ lo)
    BY <1>2, <1>3, <1>5, Zenon
  <2>2. PICK y \in Nat : y = x - p
    BY <2>1
  <2>3. 2 ^ lo <= y /\ y < 2 ^ hi
    BY <1>0, <2>1, <2>2
  <2>4. PICK o \in Order : lo <= o /\ o < hi /\ 2 ^ o <= y /\ y < 2 ^ (o + 1)
    BY <2>3, Octave, Zenon
  <2>5. 2 ^ (o + 1) \in Nat /\ 2 ^ o \in Nat
    BY <1>0, <1>1, <2>4, Zenon
  <2>6. p + 2 ^ o <= x /\ x < p + 2 ^ (o + 1)
    BY <2>1, <2>2, <2>4, <2>5
  <2>. QED  BY <1>1, <2>1, <2>4, <2>6, Zenon
<1>6. ASSUME NEW x, NEW o \in Order, lo <= o, o < hi, x \in Frames(p + 2 ^ o, o)
      PROVE  x \in Frames(p, hi) /\ x \notin Frames(p, lo)
  <2>1. /\ x \in Nat /\ p + 2 ^ o <= x /\ x < p + 2 ^ (o + 1)
        /\ 2 ^ (o + 1) \in Nat /\ 2 ^ (o + 1) <= 2 ^ hi /\ 2 ^ lo <= 2 ^ o
    BY <1>1, <1>6, Zenon
  <2>2. 2 ^ o \in Nat /\ 2 ^ lo \in Nat /\ 2 ^ hi \in Nat
    BY <1>0, Zenon
  <2>3. p <= x /\ x < p + 2 ^ hi /\ ~(x < p + 2 ^ lo)
    BY <2>1, <2>2
  <2>. QED  BY <1>2, <1>3, <2>1, <2>3, Zenon
<1>7. ASSUME NEW x \in Frames(p, lo) PROVE x \in Frames(p, hi)
  <2>1. x \in Nat /\ p <= x /\ x < p + 2 ^ lo /\ 2 ^ lo \in Nat /\ 2 ^ hi \in Nat
    BY <1>0, <1>2, Zenon
  <2>2. x < p + 2 ^ hi
    BY <1>4, <2>1
  <2>. QED  BY <1>3, <2>1, <2>2, Zenon
<1>8. ASSUME NEW o \in Order, NEW j \in Order, lo <= o, o < j, j < hi,
             NEW x \in Frames(p + 2 ^ o, o), x \in Frames(p + 2 ^ j, j)
      PROVE  FALSE
  <2>1. lo <= j /\ o < hi
    BY <1>0, <1>8
  <2>2. x \in Nat /\ x < p + 2 ^ (o + 1) /\ 2 ^ (o + 1) \in Nat
    BY <1>1, <1>8, <2>1, Zenon
  <2>3. p + 2 ^ j <= x /\ 2 ^ j \in Nat
    BY <1>0, <1>1, <1>8, <2>1, Zenon
  <2>4. 2 ^ (o + 1) <= 2 ^ j
    BY <1>8, PowHalf, Zenon
  <2>. QED  BY <2>2, <2>3, <2>4
<1>9. \A x : x \in Frames(p, hi) <=>
          \/ x \in Frames(p, lo)
          \/ \E o \in Order : lo <= o /\ o < hi /\ x \in Frames(p + 2 ^ o, o)
  BY <1>5, <1>6, <1>7, Zenon
<1>10. \A o \in Order : lo <= o /\ o < hi =>
          \A x : ~(x \in Frames(p, lo) /\ x \in Frames(p + 2 ^ o, o))
  BY <1>6, Zenon
<1>11. \A o, j \in Order : lo <= o /\ o < j /\ j < hi =>
          \A x : ~(x \in Frames(p + 2 ^ o, o) /\ x \in Frames(p + 2 ^ j, j))
  BY <1>8, Zenon
<1>. QED  BY <1>9, <1>10, <1>11, Zenon

\* Cutting some of the blocks anew.
LEMMA Recut ==
    ASSUME NEW K, NEW G, NEW A, NEW B, NEW H,
           Cuts(K, G), A \subseteq K, Cuts(A, H), Cuts(B, H)
    PROVE  Cuts((K \ A) \cup B, G)
<1>. DEFINE F(k) == Frames(k.pfn, k.order)
<1>1. ASSUME NEW a \in K, NEW b \in K, a # b, NEW x, x \in F(a), x \in F(b) PROVE FALSE
  BY <1>1, Zenon DEF Cuts
<1>2. ASSUME NEW a \in B, NEW b \in B, a # b, NEW x, x \in F(a), x \in F(b) PROVE FALSE
  BY <1>2, Zenon DEF Cuts
<1>3. \A x : x \in G <=> \E a \in K : x \in F(a)
  BY Zenon DEF Cuts
<1>4. \A x : x \in H <=> \E a \in A : x \in F(a)
  BY Zenon DEF Cuts
<1>5. \A x : x \in H <=> \E a \in B : x \in F(a)
  BY Zenon DEF Cuts
<1>. HIDE DEF F
<1>6. ASSUME NEW a \in K \ A, NEW b \in B, NEW x, x \in F(a), x \in F(b) PROVE FALSE
  <2>1. PICK c \in A : x \in F(c)
    BY <1>4, <1>5, <1>6, Zenon
  <2>. QED  BY <1>1, <1>6, <2>1, Zenon
<1>7. ASSUME NEW a \in (K \ A) \cup B, NEW b \in (K \ A) \cup B, a # b, NEW x, x \in F(a), x \in F(b)
      PROVE FALSE
  BY <1>1, <1>2, <1>6, <1>7, Zenon
<1>8. \A x : x \in G <=> \E a \in (K \ A) \cup B : x \in F(a)
  BY <1>3, <1>4, <1>5, Zenon
<1>9. \A a, b \in (K \ A) \cup B : a # b => F(a) \cap F(b) = {}
  BY <1>7, Zenon
<1>10. G = UNION {F(a) : a \in (K \ A) \cup B}
  BY <1>8, Zenon
<1>. QED  BY <1>9, <1>10, Zenon DEF Cuts, F

\* A block of frames that were not there before.
LEMMA CutMore ==
    ASSUME NEW K, NEW G, NEW k, Cuts(K, G),
           \A x \in Frames(k.pfn, k.order) : x \notin G
    PROVE  Cuts(K \cup {k}, G \cup Frames(k.pfn, k.order))
<1>. DEFINE F(a) == Frames(a.pfn, a.order)
<1>1. \A x : x \in G <=> \E a \in K : x \in F(a)
  BY Zenon DEF Cuts
<1>2. ASSUME NEW a \in K, NEW b \in K, a # b, NEW x, x \in F(a), x \in F(b) PROVE FALSE
  BY <1>2, Zenon DEF Cuts
<1>3. \A x \in F(k) : x \notin G
  BY Zenon
<1>. HIDE DEF F
<1>4. ASSUME NEW a \in K \cup {k}, NEW b \in K \cup {k}, a # b, NEW x, x \in F(a), x \in F(b)
      PROVE FALSE
  BY <1>1, <1>2, <1>3, <1>4, Zenon
<1>5. \A a, b \in K \cup {k} : a # b => F(a) \cap F(b) = {}
  BY <1>4, Zenon
<1>6. G \cup F(k) = UNION {F(a) : a \in K \cup {k}}
  BY <1>1, Zenon
<1>. QED  BY <1>5, <1>6, Zenon DEF Cuts, F

-----------------------------------------------------------------------------
(* The free lists: sequences without repetitions *)

\* Taking the head off a queue without repetitions.
LEMMA TailQueue ==
    ASSUME NEW S, NEW q \in Seq(S), q # <<>>, IsInjective(q)
    PROVE  /\ Head(q) \in S /\ Tail(q) \in Seq(S)
           /\ IsInjective(Tail(q))
           /\ \A y : y \in Range(Tail(q)) <=> y \in Range(q) /\ y # Head(q)
           /\ Head(q) \in Range(q)
<1>1. /\ Head(q) = q[1] /\ Len(q) \in Nat \ {0} /\ DOMAIN q = 1..Len(q)
      /\ Tail(q) \in Seq(S) /\ Len(Tail(q)) = Len(q) - 1
      /\ \A i \in 1..(Len(q) - 1) : Tail(q)[i] = q[i+1]
  OBVIOUS
<1>2. DOMAIN Tail(q) = 1..(Len(q) - 1)
  BY <1>1
<1>3. IsInjective(Tail(q))
  BY <1>1, <1>2 DEF IsInjective
<1>4. Range(Tail(q)) = Range(q) \ {Head(q)}
  <2>1. ASSUME NEW x \in Range(Tail(q)) PROVE x \in Range(q) \ {Head(q)}
    BY <2>1, <1>1, <1>2 DEF Range, IsInjective
  <2>2. ASSUME NEW x \in Range(q) \ {Head(q)} PROVE x \in Range(Tail(q))
    <3>1. PICK i \in DOMAIN q : q[i] = x
      BY <2>2, Zenon DEF Range
    <3>2. i - 1 \in DOMAIN Tail(q) /\ Tail(q)[i-1] = x
      BY <3>1, <2>2, <1>1, <1>2
    <3>. QED  BY <3>2, Zenon DEF Range
  <2>. QED  BY <2>1, <2>2, Zenon
<1>5. Head(q) \in S /\ Head(q) \in Range(q)
  <2>1. 1 \in DOMAIN q
    BY <1>1
  <2>. QED  BY <2>1, <1>1 DEF Range
<1>. QED  BY <1>1, <1>3, <1>4, <1>5, Zenon

\* Adding an entry in front; named, so that the provers use the lemma.
Push(q, x) == <<x>> \o q

LEMMA PushQueue ==
    ASSUME NEW S, NEW q \in Seq(S), IsInjective(q), NEW x \in S, x \notin Range(q)
    PROVE  /\ Push(q, x) \in Seq(S)
           /\ IsInjective(Push(q, x))
           /\ \A y : y \in Range(Push(q, x)) <=> y \in Range(q) \/ y = x
<1>. DEFINE r == <<x>> \o q
<1>1. /\ r \in Seq(S) /\ DOMAIN r = 1..(Len(q) + 1) /\ DOMAIN q = 1..Len(q)
      /\ Len(q) \in Nat /\ Len(r) = Len(q) + 1 /\ r[1] = x
      /\ \A i \in 1..Len(q) : r[i+1] = q[i]
  OBVIOUS
<1>2. \A i \in 2..(Len(q) + 1) : i - 1 \in DOMAIN q /\ r[i] = q[i-1]
  BY <1>1
<1>. HIDE DEF r
<1>3. IsInjective(r)
  <2>. SUFFICES ASSUME NEW i \in DOMAIN r, NEW j \in DOMAIN r, r[i] = r[j] PROVE i = j
    BY Zenon DEF IsInjective
  <2>1. CASE i = 1
    BY <2>1, <1>1, <1>2 DEF Range
  <2>2. CASE j = 1
    BY <2>2, <1>1, <1>2 DEF Range
  <2>3. CASE i # 1 /\ j # 1
    <3>1. q[i-1] = q[j-1] /\ i - 1 \in DOMAIN q /\ j - 1 \in DOMAIN q
      BY <2>3, <1>1, <1>2
    <3>2. i - 1 = j - 1
      BY <3>1, Zenon DEF IsInjective
    <3>. QED  BY <3>2, <1>1
  <2>. QED  BY <2>1, <2>2, <2>3, Zenon
<1>4. Range(r) = Range(q) \cup {x}
  <2>1. ASSUME NEW y \in Range(r) PROVE y \in Range(q) \cup {x}
    <3>1. PICK i \in DOMAIN r : r[i] = y
      BY <2>1, Zenon DEF Range
    <3>2. CASE i = 1
      BY <3>1, <3>2, <1>1, Zenon
    <3>3. CASE i # 1
      <4>1. i - 1 \in DOMAIN q /\ q[i-1] = y
        BY <3>1, <3>3, <1>1, <1>2
      <4>. QED  BY <4>1, Zenon DEF Range
    <3>. QED  BY <3>2, <3>3, Zenon
  <2>2. ASSUME NEW y \in Range(q) PROVE y \in Range(r)
    <3>1. PICK i \in DOMAIN q : q[i] = y
      BY <2>2, Zenon DEF Range
    <3>2. i + 1 \in DOMAIN r /\ r[i+1] = y
      BY <3>1, <1>1
    <3>. QED  BY <3>2, Zenon DEF Range
  <2>3. x \in Range(r)
    <3>1. 1 \in DOMAIN r
      BY <1>1
    <3>. QED  BY <3>1, <1>1, Zenon DEF Range
  <2>. QED  BY <2>1, <2>2, <2>3, Zenon
<1>. QED  BY <1>1, <1>3, <1>4, Zenon DEF r, Push


-----------------------------------------------------------------------------
(* The ranges that memblock reports *)

LEMMA RangeFacts ==
    ASSUME FreeRanges(ranges)
    PROVE  /\ \A x : x \in available <=> \E r \in ranges : x \in Pfns(r)
           /\ \A x \in available : x \in Nat /\ x < MaxPfn /\ x \in Page
<1>1. \A x : x \in available <=> \E r \in ranges : x \in Pfns(r)
  BY Zenon DEF available
<1>2. ASSUME NEW x \in available PROVE x \in Nat /\ x < MaxPfn
  <2>1. PICK r \in ranges : x \in Pfns(r)
    BY <1>1, Zenon
  <2>2. r \in [start : 0 .. MaxPfn, end : 0 .. MaxPfn]
    BY Zenon DEF FreeRanges
  <2>. QED  BY <2>1, <2>2, BuddyAssumption DEF Pfns
<1>3. \A x \in available : x \in Page
  BY <1>2, PageFacts, Zenon
<1>. QED  BY <1>1, <1>2, <1>3, Zenon

\* A chunk is aligned and does not leave its range.
LEMMA ChunkFits ==
    ASSUME FreeRanges(ranges), NEW p \in available
    PROVE  LET o == ChunkOrder(p)
           IN  /\ o \in Order /\ p % 2 ^ o = 0 /\ p + 2 ^ o <= MaxPfn
               /\ \A x \in Frames(p, o) : x \in available
<1>1. p \in Nat
  BY RangeFacts, Zenon
<1>2. PICK r \in ranges : p \in Pfns(r) /\ RangeEnd(p) = r.end
  <2>1. \E r \in ranges : p \in Pfns(r)
    BY RangeFacts, Zenon
  <2>. QED  BY <2>1, Zenon DEF RangeEnd
<1>3. r.start \in Nat /\ r.end \in Nat /\ r.end <= MaxPfn
  <2>1. r \in [start : 0 .. MaxPfn, end : 0 .. MaxPfn]
    BY DEF FreeRanges
  <2>. QED  BY <2>1, BuddyAssumption
<1>4. r.start <= p /\ p < r.end
  BY <1>1, <1>2, <1>3 DEF Pfns
<1>. DEFINE S == {o \in Order : p % 2 ^ o = 0 /\ p + 2 ^ o <= RangeEnd(p)}
<1>5. 0 \in S
  <2>1. 2 ^ 0 = 1 /\ 0 \in Order
    BY BuddyAssumption DEF Order
  <2>2. p % 1 = 0 /\ p + 1 <= RangeEnd(p)
    BY <1>1, <1>2, <1>3, <1>4
  <2>. QED  BY <2>1, <2>2, Zenon
<1>6. S \subseteq 0 .. MaxOrder /\ MaxOrder \in Nat
  BY BuddyAssumption, Zenon DEF Order
<1>7. PICK o \in S : o = ChunkOrder(p)
  <2>1. ChunkOrder(p) = Max(S)
    BY Zenon DEF ChunkOrder
  <2>. HIDE DEF S
  <2>2. Max(S) \in S
    BY <1>5, <1>6, MaxIsMember, Zenon
  <2>. QED  BY <2>1, <2>2, Zenon
<1>8. o \in Order /\ p % 2 ^ o = 0 /\ p + 2 ^ o <= r.end
  BY <1>2, <1>7, Zenon
<1>9. p + 2 ^ o <= MaxPfn
  BY <1>1, <1>3, <1>8, PowPos, BuddyAssumption
<1>10. ASSUME NEW x \in Frames(p, o) PROVE x \in available
  <2>1. x \in Nat /\ p <= x /\ x < p + 2 ^ o
    BY <1>1, <1>8, FrameIn, Zenon
  <2>2. x \in Pfns(r)
    BY <1>1, <1>3, <1>4, <1>8, <2>1, PowPos DEF Pfns
  <2>. QED  BY <2>2, RangeFacts, Zenon
<1>. QED  BY <1>7, <1>8, <1>9, <1>10, Zenon

-----------------------------------------------------------------------------
(* The blocks *)

LEMMA InBlocks ==
    \A k : k \in Blocks <=>
        \/ \E z \in Zone, o \in Order : \E p \in InList(z, o) : k = Listed(z, o, p)
        \/ \E b \in held : k = Lent(b)
<1>1. \A k, z, o : k \in ListBlocks(z, o) <=> \E p \in InList(z, o) : k = Listed(z, o, p)
  BY Zenon DEF ListBlocks
<1>2. \A k, z : k \in ZoneBlocks(z) <=> \E o \in Order : k \in ListBlocks(z, o)
  BY Zenon DEF ZoneBlocks
<1>3. \A k : k \in Blocks <=> (\E z \in Zone : k \in ZoneBlocks(z)) \/ \E b \in held : k = Lent(b)
  <2>1. \A k : k \in ListedBlocks <=> \E z \in Zone : k \in ZoneBlocks(z)
    BY Zenon DEF ListedBlocks
  <2>2. \A k : k \in LentBlocks <=> \E b \in held : k = Lent(b)
    BY Zenon DEF LentBlocks
  <2>3. \A k : k \in Blocks <=> k \in ListedBlocks \/ k \in LentBlocks
    BY Zenon DEF Blocks
  <2>. QED  BY <2>1, <2>2, <2>3, Zenon
<1>4. ASSUME NEW k \in Blocks, ~ \E b \in held : k = Lent(b)
      PROVE  \E z \in Zone, o \in Order : \E p \in InList(z, o) : k = Listed(z, o, p)
  <2>1. PICK z \in Zone : k \in ZoneBlocks(z)
    BY <1>3, <1>4, Zenon
  <2>2. PICK o \in Order : k \in ListBlocks(z, o)
    BY <1>2, <2>1, Zenon
  <2>3. PICK p \in InList(z, o) : k = Listed(z, o, p)
    BY <1>1, <2>2
  <2>. QED  BY <2>3, Zenon
<1>5. ASSUME NEW k, NEW z \in Zone, NEW o \in Order, NEW p \in InList(z, o), k = Listed(z, o, p)
      PROVE  k \in Blocks
  <2>1. k \in ListBlocks(z, o)
    BY <1>1, <1>5, Zenon
  <2>2. k \in ZoneBlocks(z)
    BY <1>2, <2>1, Zenon
  <2>. QED  BY <1>3, <2>2, Zenon
<1>. QED  BY <1>3, <1>4, <1>5, Zenon

LEMMA ListedDiffers ==
    ASSUME NEW z, NEW o, NEW p
    PROVE  /\ Listed(z, o, p).pfn = p /\ Listed(z, o, p).order = o
           /\ \A y, j, q : Listed(z, o, p) = Listed(y, j, q) => z = y /\ o = j /\ p = q
           /\ \A b : Listed(z, o, p) # Lent(b)
<1>1. Listed(z, o, p).pfn = p /\ Listed(z, o, p).order = o /\ Listed(z, o, p).at = <<"zone", z>>
  BY Zenon DEF Listed
<1>2. ASSUME NEW y, NEW j, NEW q, Listed(z, o, p) = Listed(y, j, q)
      PROVE  z = y /\ o = j /\ p = q
  <2>1. Listed(y, j, q).pfn = q /\ Listed(y, j, q).order = j /\ Listed(y, j, q).at = <<"zone", y>>
    BY DEF Listed
  <2>2. <<"zone", z>> = <<"zone", y>>
    BY <1>1, <1>2, <2>1, Zenon
  <2>. QED  BY <1>1, <1>2, <2>1, <2>2, Zenon
<1>3. ASSUME NEW b PROVE Listed(z, o, p) # Lent(b)
  <2>1. Lent(b).at = <<"caller", b.req>>
    BY Zenon DEF Lent
  <2>2. <<"caller", b.req>> # <<"zone", z>>
    BY Zenon
  <2>. QED  BY <1>1, <2>1, <2>2, Zenon
<1>. QED  BY <1>1, <1>2, <1>3, Zenon

LEMMA LentDiffers ==
    ASSUME NEW P, NEW R, NEW b \in [pfn : P, req : R]
    PROVE  /\ Lent(b).pfn = b.pfn /\ Lent(b).order = b.req.order
           /\ \A c \in [pfn : P, req : R] : Lent(b) = Lent(c) => b = c
<1>1. Lent(b).pfn = b.pfn /\ Lent(b).order = b.req.order /\ Lent(b).at = <<"caller", b.req>>
  BY Zenon DEF Lent
<1>2. ASSUME NEW c \in [pfn : P, req : R], Lent(b) = Lent(c) PROVE b = c
  <2>1. Lent(c).pfn = c.pfn /\ Lent(c).at = <<"caller", c.req>>
    BY Zenon DEF Lent
  <2>2. b.pfn = c.pfn /\ b.req = c.req
    BY <1>1, <1>2, <2>1
  <2>. QED  BY <2>2
<1>. QED  BY <1>1, <1>2, Zenon

\* One block is cut as itself.
LEMMA CutOne ==
    ASSUME NEW k
    PROVE  Cuts({k}, Frames(k.pfn, k.order))
BY Zenon DEF Cuts

\* What the invariant says of two blocks, and of the frames of one.
LEMMA BlockFacts ==
    ASSUME BuddyInv
    PROVE  /\ \A z \in Zone, o \in Order : \A p \in InList(z, o) :
                 /\ p \in Page /\ p \in Nat
                 /\ \A x \in Frames(p, o) : x \in Given
           /\ \A b \in held :
                 /\ b \in [pfn : Page, req : Requests] /\ b.pfn \in Page /\ b.pfn \in Nat
                 /\ b.req \in Requests /\ b.req.order \in Order
                 /\ \A x \in Frames(b.pfn, b.req.order) : x \in Given
           /\ \A z, y \in Zone, o, j \in Order : \A p \in InList(z, o), q \in InList(y, j) : \A x :
                 x \in Frames(p, o) /\ x \in Frames(q, j) => z = y /\ o = j /\ p = q
           /\ \A b, c \in held : \A x :
                 x \in Frames(b.pfn, b.req.order) /\ x \in Frames(c.pfn, c.req.order) => b = c
           /\ \A z \in Zone, o \in Order, b \in held : \A p \in InList(z, o) : \A x :
                 ~(x \in Frames(p, o) /\ x \in Frames(b.pfn, b.req.order))
           /\ \A x \in Given :
                 \/ \E z \in Zone, o \in Order : \E p \in InList(z, o) : x \in Frames(p, o)
                 \/ \E b \in held : x \in Frames(b.pfn, b.req.order)
           /\ \A x \in Given : x \in available /\ x \in Page /\ x \in Nat /\ x < MaxPfn /\ x < start_pfn
<1>. DEFINE F(k) == Frames(k.pfn, k.order)
<1>1. ASSUME NEW a \in Blocks, NEW b \in Blocks, NEW x, x \in F(a), x \in F(b) PROVE a = b
  BY <1>1, Zenon DEF BuddyInv, Cuts
<1>2. \A x : x \in Given <=> \E a \in Blocks : x \in F(a)
  BY Zenon DEF BuddyInv, Cuts
<1>3. \A x \in Given : x \in available /\ x \in Page /\ x \in Nat /\ x < MaxPfn /\ x < start_pfn
  BY RangeFacts, Zenon DEF BuddyInv, Given
<1>4. ASSUME NEW z \in Zone, NEW o \in Order, NEW p \in InList(z, o)
      PROVE  /\ p \in Page /\ p \in Nat /\ Listed(z, o, p) \in Blocks
             /\ \A x : x \in F(Listed(z, o, p)) <=> x \in Frames(p, o)
  <2>1. free_area[z][o] \in Seq(Page)
    BY DEF BuddyInv, BuddyTypeOK
  <2>2. p \in Page
    BY <2>1 DEF InList, Range
  <2>. QED  BY <2>2, InBlocks, ListedDiffers, PageFacts
<1>5. ASSUME NEW b \in held
      PROVE  /\ b \in [pfn : Page, req : Requests] /\ b.pfn \in Page /\ b.pfn \in Nat
             /\ b.req \in Requests /\ b.req.order \in Order
             /\ Lent(b) \in Blocks
             /\ \A x : x \in F(Lent(b)) <=> x \in Frames(b.pfn, b.req.order)
  <2>1. b \in [pfn : Page, req : Requests] /\ b.req.order \in Order
    BY Zenon DEF BuddyInv, BuddyTypeOK, LentOK
  <2>2. b.pfn \in Page /\ b.req \in Requests
    BY <2>1, Zenon
  <2>3. Lent(b).pfn = b.pfn /\ Lent(b).order = b.req.order
    BY <2>1, LentDiffers, Zenon
  <2>4. Lent(b) \in Blocks
    BY InBlocks, Zenon
  <2>5. \A x : x \in F(Lent(b)) <=> x \in Frames(b.pfn, b.req.order)
    BY <2>3, Zenon
  <2>. QED  BY <2>1, <2>2, <2>4, <2>5, PageFacts, Zenon
<1>. HIDE DEF F
<1>6. ASSUME NEW z \in Zone, NEW y \in Zone, NEW o \in Order, NEW j \in Order,
             NEW p \in InList(z, o), NEW q \in InList(y, j),
             NEW x, x \in Frames(p, o), x \in Frames(q, j)
      PROVE  z = y /\ o = j /\ p = q
  <2>1. Listed(z, o, p) \in Blocks /\ x \in F(Listed(z, o, p))
    BY <1>4, <1>6, Zenon
  <2>2. Listed(y, j, q) \in Blocks /\ x \in F(Listed(y, j, q))
    BY <1>4, <1>6, Zenon
  <2>3. Listed(z, o, p) = Listed(y, j, q)
    BY <1>1, <2>1, <2>2, Zenon
  <2>. QED  BY <2>3, ListedDiffers
<1>7. ASSUME NEW b \in held, NEW c \in held, NEW x,
             x \in Frames(b.pfn, b.req.order), x \in Frames(c.pfn, c.req.order)
      PROVE  b = c
  <2>1. Lent(b) \in Blocks /\ x \in F(Lent(b)) /\ b \in [pfn : Page, req : Requests]
    BY <1>5, <1>7, Zenon
  <2>2. Lent(c) \in Blocks /\ x \in F(Lent(c)) /\ c \in [pfn : Page, req : Requests]
    BY <1>5, <1>7, Zenon
  <2>3. Lent(b) = Lent(c)
    BY <1>1, <2>1, <2>2, Zenon
  <2>. QED  BY <2>1, <2>2, <2>3, LentDiffers, Zenon
<1>8. ASSUME NEW z \in Zone, NEW o \in Order, NEW b \in held, NEW p \in InList(z, o),
             NEW x, x \in Frames(p, o), x \in Frames(b.pfn, b.req.order)
      PROVE  FALSE
  <2>1. Listed(z, o, p) \in Blocks /\ x \in F(Listed(z, o, p))
    BY <1>4, <1>8, Zenon
  <2>2. Lent(b) \in Blocks /\ x \in F(Lent(b))
    BY <1>5, <1>8, Zenon
  <2>3. Listed(z, o, p) = Lent(b)
    BY <1>1, <2>1, <2>2, Zenon
  <2>. QED  BY <2>3, ListedDiffers
<1>9. ASSUME NEW x \in Given, ~ \E b \in held : x \in Frames(b.pfn, b.req.order)
      PROVE  \E z \in Zone, o \in Order : \E p \in InList(z, o) : x \in Frames(p, o)
  <2>1. PICK k \in Blocks : x \in F(k)
    BY <1>2, Zenon
  <2>2. ASSUME NEW b \in held, k = Lent(b) PROVE FALSE
    BY <1>5, <1>9, <2>1, <2>2, Zenon
  <2>3. PICK z \in Zone, o \in Order : \E p \in InList(z, o) : k = Listed(z, o, p)
    BY <2>2, InBlocks, Zenon
  <2>4. PICK p \in InList(z, o) : k = Listed(z, o, p)
    BY <2>3, Zenon
  <2>5. x \in F(Listed(z, o, p))
    BY <2>1, <2>4, Zenon
  <2>. QED  BY <1>4, <2>5, Zenon
<1>10. \A z \in Zone, o \in Order : \A p \in InList(z, o) : \A x \in Frames(p, o) : x \in Given
  BY <1>2, <1>4, Zenon
<1>11. \A b \in held : \A x \in Frames(b.pfn, b.req.order) : x \in Given
  BY <1>2, <1>5, Zenon
<1>12. \A z, y \in Zone, o, j \in Order : \A p \in InList(z, o), q \in InList(y, j) : \A x :
          x \in Frames(p, o) /\ x \in Frames(q, j) => z = y /\ o = j /\ p = q
  BY <1>6
<1>13. \A b, c \in held : \A x :
          x \in Frames(b.pfn, b.req.order) /\ x \in Frames(c.pfn, c.req.order) => b = c
  BY <1>7, Zenon
<1>14. \A x \in Given :
          \/ \E z \in Zone, o \in Order : \E p \in InList(z, o) : x \in Frames(p, o)
          \/ \E b \in held : x \in Frames(b.pfn, b.req.order)
  BY <1>9, Zenon
<1>. QED  BY <1>3, <1>4, <1>5, <1>8, <1>10, <1>11, <1>12, <1>13, <1>14, Zenon

\* Blocks that share a frame are one block.
LEMMA Separate ==
    ASSUME BuddyInv
    PROVE  /\ \A z, y \in Zone, o, j \in Order : \A p \in InList(z, o), q \in InList(y, j) : \A x :
                 x \in Frames(p, o) /\ x \in Frames(q, j) => z = y /\ o = j /\ p = q
           /\ \A z \in Zone, o \in Order, b \in held : \A p \in InList(z, o) : \A x :
                 ~(x \in Frames(p, o) /\ x \in Frames(b.pfn, b.req.order))
BY BlockFacts, Zenon

\* A listed block does not begin inside another one.
LEMMA Elsewhere ==
    ASSUME BuddyInv, NEW z \in Zone, NEW y \in Zone, NEW o \in Order, NEW j \in Order,
           NEW p \in InList(z, o), NEW q \in InList(y, j), ~(y = z /\ j = o /\ q = p)
    PROVE  q \notin Frames(p, o)
<1>1. q \in Nat
  BY BlockFacts, Zenon
<1>2. q \in Frames(q, j)
  BY <1>1, FrameIn, Zenon
<1>3. \A x : x \in Frames(p, o) /\ x \in Frames(q, j) => z = y /\ o = j /\ p = q
  BY BlockFacts
<1>. QED  BY <1>2, <1>3, Zenon

-----------------------------------------------------------------------------
(* Giving a block to the lists: memblock_free_pages() and __free_pages() *)

Put(p, o) ==
    /\ free_area' = [free_area EXCEPT ![myos_page_zone(p)][o] = Push(@, p)]
    /\ private' = [private EXCEPT ![p] = o]
    /\ page_type' = [page_type EXCEPT ![p] = @ \ {"buddy"}]
    /\ head' = head \ {p}
    /\ low' = [low EXCEPT ![p] = 0]
    /\ tail' = tail \ {p}

LEMMA FreeIsPut ==
    ASSUME BuddyInv, NEW p \in Page, NEW o \in Order, p % 2 ^ o = 0, __free_pages_ok(p, o)
    PROVE  Put(p, o)
<1>1. MergedOrder(p, o) = o /\ Combined(p, o) = p
  BY NoMerge, Zenon DEF BuddyInv
<1>. QED  BY <1>1, Zenon DEF __free_pages_ok, Put, Push

LEMMA ZoneIn == \A p : myos_page_zone(p) \in Zone
BY Zenon DEF myos_page_zone, Zone

LEMMA TypeFacts ==
    ASSUME BuddyInv
    PROVE  /\ free_area \in [Zone -> [Order -> Seq(Page)]]
           /\ private \in [Page -> Order] /\ low \in [Page -> Order]
           /\ page_type \in [Page -> SUBSET {"base", "buddy"}]
           /\ \A x \in Page : page_type[x] \subseteq {"buddy"}
           /\ head \subseteq Page /\ tail \subseteq Page /\ refd \subseteq Page /\ zeroed \subseteq Page
           /\ held \subseteq [pfn : Page, req : Requests]
           /\ result \in {"none", "page", "null", "wild"}
           /\ start_pfn \in Nat /\ start_pfn <= MaxPfn /\ MaxPfn \in Nat
           /\ FreeRanges(ranges) /\ (ranges = {} => start_pfn = 0)
           /\ \A z \in Zone, o \in Order : ListOK(z, o)
           /\ \A b \in held : LentOK(b)
           /\ \A h \in head : \E b \in held : b.pfn = h
           /\ Cuts(Blocks, Given)
BY BuddyAssumption DEF BuddyInv, BuddyTypeOK

LEMMA PutLists ==
    ASSUME BuddyInv, NEW p \in Page, NEW o \in Order, p % 2 ^ o = 0, Put(p, o),
           \A z \in Zone, j \in Order : p \notin InList(z, j)
    PROVE  /\ free_area' \in [Zone -> [Order -> Seq(Page)]]
           /\ \A z \in Zone, j \in Order : \A x :
                 x \in InList(z, j)' <=> x \in InList(z, j) \/ (z = myos_page_zone(p) /\ j = o /\ x = p)
           /\ \A z \in Zone, j \in Order : ListOK(z, j)'
           /\ private' \in [Page -> Order] /\ low' \in [Page -> Order]
           /\ page_type' \in [Page -> SUBSET {"base", "buddy"}]
           /\ \A x \in Page : page_type'[x] \subseteq {"buddy"}
           /\ head' \subseteq Page /\ tail' \subseteq Page
<1>. PICK y \in Zone : y = myos_page_zone(p)
  BY ZoneIn, Zenon
<1>0. free_area \in [Zone -> [Order -> Seq(Page)]]
  BY TypeFacts, Zenon
<1>1. free_area' = [free_area EXCEPT ![y][o] = Push(@, p)]
  BY Zenon DEF Put
<1>2. free_area[y][o] \in Seq(Page) /\ IsInjective(free_area[y][o]) /\ p \notin Range(free_area[y][o])
  BY <1>0, TypeFacts DEF ListOK, InList
<1>3. /\ Push(free_area[y][o], p) \in Seq(Page)
      /\ IsInjective(Push(free_area[y][o], p))
      /\ \A x : x \in Range(Push(free_area[y][o], p)) <=> x \in Range(free_area[y][o]) \/ x = p
  BY <1>2, PushQueue, Zenon
<1>4. /\ free_area'[y][o] = Push(free_area[y][o], p)
      /\ \A z \in Zone, j \in Order : ~(z = y /\ j = o) => free_area'[z][j] = free_area[z][j]
  BY <1>0, <1>1, Zenon
<1>5. free_area' \in [Zone -> [Order -> Seq(Page)]]
  BY <1>0, <1>1, <1>3, Zenon
<1>6. ASSUME NEW z \in Zone, NEW j \in Order, NEW x
      PROVE  x \in InList(z, j)' <=> x \in InList(z, j) \/ (z = y /\ j = o /\ x = p)
  <2>1. CASE z = y /\ j = o
    BY <1>3, <1>4, <2>1, Zenon DEF InList
  <2>2. CASE ~(z = y /\ j = o)
    BY <1>4, <2>2, Zenon DEF InList
  <2>. QED  BY <2>1, <2>2, Zenon
<1>7. /\ private' = [private EXCEPT ![p] = o] /\ private \in [Page -> Order]
      /\ low' = [low EXCEPT ![p] = 0] /\ low \in [Page -> Order]
      /\ page_type' = [page_type EXCEPT ![p] = @ \ {"buddy"}]
      /\ page_type \in [Page -> SUBSET {"base", "buddy"}]
      /\ head' = head \ {p} /\ tail' = tail \ {p} /\ head \subseteq Page /\ tail \subseteq Page
  BY TypeFacts, Zenon DEF Put
<1>8. private' \in [Page -> Order] /\ private'[p] = o /\ \A x \in Page : x # p => private'[x] = private[x]
  BY <1>7, Zenon
<1>9. 0 \in Order
  BY BuddyAssumption DEF Order
<1>10. low' \in [Page -> Order]
  BY <1>7, <1>9, Zenon
<1>11. page_type' \in [Page -> SUBSET {"base", "buddy"}] /\ \A x \in Page : page_type'[x] \subseteq page_type[x]
  BY <1>7, Zenon
<1>12. \A x \in Page : page_type'[x] \subseteq {"buddy"}
  BY <1>11, TypeFacts, Zenon
<1>13. ASSUME NEW z \in Zone, NEW j \in Order PROVE ListOK(z, j)'
  <2>1. IsInjective(free_area'[z][j])
    <3>1. CASE z = y /\ j = o
      BY <1>3, <1>4, <3>1, Zenon
    <3>2. CASE ~(z = y /\ j = o)
      BY <1>4, <3>2, TypeFacts DEF ListOK
    <3>. QED  BY <3>1, <3>2, Zenon
  <2>2. ASSUME NEW x \in InList(z, j)'
        PROVE  x % 2 ^ j = 0 /\ myos_page_zone(x) = z /\ private'[x] = j /\ x \notin tail'
    <3>1. CASE x \in InList(z, j)
      <4>1. x # p /\ x \in Page
        BY <3>1, BlockFacts
      <4>2. x % 2 ^ j = 0 /\ myos_page_zone(x) = z /\ private[x] = j /\ x \notin tail
        BY <3>1, TypeFacts, Zenon DEF ListOK
      <4>3. private'[x] = private[x] /\ x \notin tail'
        BY <1>7, <1>8, <4>1, <4>2, Zenon
      <4>. QED  BY <4>2, <4>3, Zenon
    <3>2. CASE z = y /\ j = o /\ x = p
      BY <1>7, <1>8, <3>2, Zenon
    <3>. QED  BY <1>6, <3>1, <3>2, Zenon
  <2>. QED  BY <2>1, <2>2, Zenon DEF ListOK
<1>14. head' \subseteq Page /\ tail' \subseteq Page
  BY <1>7, Zenon
<1>. QED  BY <1>5, <1>6, <1>8, <1>10, <1>11, <1>12, <1>13, <1>14, Zenon

\* A compound block has a second page, which keeps its order.
LEMMA SecondPage ==
    ASSUME BuddyInv, NEW b \in held, b.pfn \in head
    PROVE  b.pfn + 1 \in Frames(b.pfn, b.req.order) /\ b.pfn + 1 \in Page
<1>1. LentOK(b) /\ b.pfn \in Nat
  BY TypeFacts, BlockFacts, Zenon
<1>2. PICK o \in Order : o = b.req.order
  BY BlockFacts, Zenon
<1>3. o > 0
  BY <1>1, <1>2, Zenon DEF LentOK
<1>4. 0 \in Order /\ 0 < o
  BY <1>3, BuddyAssumption DEF Order
<1>5. 2 ^ (0 + 1) = 2 ^ 0 + 2 ^ 0 /\ 2 ^ (0 + 1) <= 2 ^ o
  BY <1>4, PowHalf, Zenon
<1>6. 2 ^ 0 = 1 /\ 2 ^ o \in Nat
  BY PowPos
<1>7. 2 <= 2 ^ o
  BY <1>5, <1>6
<1>8. b.pfn + 1 \in Frames(b.pfn, o)
  BY <1>1, <1>6, <1>7, FrameIn
<1>9. b.pfn + 1 \in Given
  BY <1>2, <1>8, BlockFacts, Zenon
<1>. QED  BY <1>2, <1>8, <1>9, BlockFacts, Zenon

LEMMA PutLent ==
    ASSUME BuddyInv, NEW p \in Page, NEW o \in Order, Put(p, o),
           NEW b \in held, p \notin Frames(b.pfn, b.req.order)
    PROVE  LentOK(b)'
<1>1. LentOK(b) /\ b.pfn \in Nat /\ b.req.order \in Order /\ low \in [Page -> Order]
  BY TypeFacts, BlockFacts, Zenon
<1>2. b.pfn # p
  BY <1>1, FrameIn, Zenon
<1>3. head' = head \ {p} /\ low' = [low EXCEPT ![p] = 0] /\ tail' = tail \ {p}
  BY Zenon DEF Put
<1>4. b.pfn \in head => b.pfn + 1 \in Frames(b.pfn, b.req.order) /\ b.pfn + 1 \in Page
  BY SecondPage, Zenon
<1>5. b.pfn \in head => low'[b.pfn + 1] = low[b.pfn + 1]
  BY <1>1, <1>3, <1>4, Zenon
<1>6. (b.pfn \in head' <=> b.pfn \in head) /\ (b.pfn \notin tail => b.pfn \notin tail')
  BY <1>2, <1>3, Zenon
<1>. QED  BY <1>1, <1>5, <1>6, Zenon DEF LentOK

IsListed(k) == \E z \in Zone, o \in Order : \E p \in InList(z, o) : k = Listed(z, o, p)
IsLent(k)   == \E b \in held : k = Lent(b)
BlocksAre   == \A k : k \in Blocks <=> IsListed(k) \/ IsLent(k)

LEMMA BlocksOK == BlocksAre
BY InBlocks, Zenon DEF BlocksAre, IsListed, IsLent

LEMMA BlocksNext == BlocksAre'
BY BlocksOK, PTL

LEMMA PutBlocks ==
    ASSUME NEW p, NEW o \in Order, NEW y \in Zone,
           \A z \in Zone, j \in Order : \A x :
               x \in InList(z, j)' <=> x \in InList(z, j) \/ (z = y /\ j = o /\ x = p)
    PROVE  \A k : IsListed(k)' <=> IsListed(k) \/ k = Listed(y, o, p)
<1>1. ASSUME NEW k, IsListed(k)', ~IsListed(k) PROVE k = Listed(y, o, p)
  <2>1. PICK z \in Zone, j \in Order : \E x \in InList(z, j)' : k = Listed(z, j, x)
    BY <1>1, Zenon DEF IsListed
  <2>2. PICK x \in InList(z, j)' : k = Listed(z, j, x)
    BY <2>1, Zenon
  <2>3. x \notin InList(z, j)
    BY <1>1, <2>2, Zenon DEF IsListed
  <2>4. z = y /\ j = o /\ x = p
    BY <2>2, <2>3, Zenon
  <2>. QED  BY <2>2, <2>4, Zenon
<1>2. ASSUME NEW k, k = Listed(y, o, p) PROVE IsListed(k)'
  <2>1. p \in InList(y, o)'
    BY Zenon
  <2>. QED  BY <1>2, <2>1, Zenon DEF IsListed
<1>3. ASSUME NEW k, IsListed(k) PROVE IsListed(k)'
  <2>1. PICK z \in Zone, j \in Order : \E x \in InList(z, j) : k = Listed(z, j, x)
    BY <1>3, Zenon DEF IsListed
  <2>2. PICK x \in InList(z, j) : k = Listed(z, j, x)
    BY <2>1, Zenon
  <2>3. x \in InList(z, j)'
    BY Zenon
  <2>. QED  BY <2>2, <2>3, Zenon DEF IsListed
<1>. QED  BY <1>1, <1>2, <1>3, Zenon

\* The rest of the invariant after a block is listed.
LEMMA PutTypes ==
    ASSUME BuddyInv, NEW p \in Page, NEW o \in Order, p % 2 ^ o = 0, Put(p, o),
           \A z \in Zone, j \in Order : p \notin InList(z, j),
           ranges' = ranges, held' \subseteq held, refd' \subseteq refd, zeroed' \subseteq zeroed,
           result' = result, start_pfn' \in 0 .. MaxPfn, ranges = {} => start_pfn' = 0,
           \A b \in held' : p \notin Frames(b.pfn, b.req.order),
           \A h \in head' : \E b \in held' : b.pfn = h,
           Cuts(Blocks, Given)'
    PROVE  BuddyInv'
<1>1. /\ free_area' \in [Zone -> [Order -> Seq(Page)]]
      /\ \A z \in Zone, j \in Order : ListOK(z, j)'
      /\ private' \in [Page -> Order] /\ low' \in [Page -> Order]
      /\ page_type' \in [Page -> SUBSET {"base", "buddy"}]
      /\ \A x \in Page : page_type'[x] \subseteq {"buddy"}
      /\ head' \subseteq Page /\ tail' \subseteq Page
  BY PutLists, Zenon
<1>2. \A b \in held' : LentOK(b)'
  BY PutLent, Zenon
<1>3. /\ refd' \subseteq Page /\ zeroed' \subseteq Page /\ held' \subseteq [pfn : Page, req : Requests]
      /\ result' \in {"none", "page", "null", "wild"}
  BY TypeFacts, Zenon
<1>4. FreeRanges(ranges') /\ available' \subseteq Page
  <2>1. FreeRanges(ranges) /\ available \subseteq Page
    BY TypeFacts, RangeFacts, Zenon
  <2>. QED  BY <2>1, Zenon DEF available
<1>. QED  BY <1>1, <1>2, <1>3, <1>4, Zenon DEF BuddyInv, BuddyTypeOK

\* memblock_free_pages() gives the lists a block of new frames.
LEMMA BootFacts ==
    ASSUME BuddyInv, memblock_free_pages
    PROVE  \E p \in Page, o \in Order :
               /\ p = Min(Remaining) /\ o = ChunkOrder(p) /\ p % 2 ^ o = 0
               /\ Put(p, o)
               /\ \A x \in Frames(p, o) : x \notin Given
               /\ Given' = Given \cup Frames(p, o)
               /\ start_pfn' \in 0 .. MaxPfn
<1>1. FreeRanges(ranges) /\ start_pfn \in Nat /\ MaxPfn \in Nat
  BY TypeFacts, Zenon
<1>2. \A x : x \in Remaining <=> x \in available /\ x >= start_pfn
  BY Zenon DEF Remaining
<1>3. Remaining \subseteq Nat /\ Remaining # {}
  BY <1>1, <1>2, RangeFacts, Zenon DEF memblock_free_pages
<1>4. PICK p \in Remaining : p = Min(Remaining) /\ \A y \in Remaining : p <= y
  BY <1>3, MinIsLeast, Zenon
<1>5. p \in available /\ p \in Nat /\ p \in Page /\ p >= start_pfn
  BY <1>1, <1>2, RangeFacts, Zenon
<1>6. PICK o \in Order : /\ o = ChunkOrder(p) /\ p % 2 ^ o = 0 /\ p + 2 ^ o <= MaxPfn
                         /\ \A x \in Frames(p, o) : x \in available
  BY <1>1, <1>5, ChunkFits, Zenon
<1>7. __free_pages_ok(p, o) /\ start_pfn' = p + 2 ^ o /\ ranges' = ranges
  BY <1>4, <1>6, Zenon DEF memblock_free_pages
<1>8. Put(p, o)
  BY <1>5, <1>6, <1>7, FreeIsPut, Zenon
<1>9. 2 ^ o \in Nat \ {0}
  BY PowPos, Zenon
<1>10. start_pfn' \in 0 .. MaxPfn
  BY <1>1, <1>5, <1>6, <1>7, <1>9
<1>11. \A x \in Frames(p, o) : x \in Nat /\ p <= x /\ x < p + 2 ^ o
  BY <1>5, FrameIn, Zenon
<1>12. \A x \in Frames(p, o) : x \notin Given
  BY <1>1, <1>5, <1>11 DEF Given
<1>13. available' = available
  BY <1>7, Zenon DEF available
<1>14. ASSUME NEW x \in available PROVE x < p + 2 ^ o <=> x < start_pfn \/ x \in Frames(p, o)
  <2>1. x \in Nat
    BY <1>1, RangeFacts, Zenon
  <2>2. x >= start_pfn => p <= x
    BY <1>2, <1>4, Zenon
  <2>3. x \in Frames(p, o) <=> p <= x /\ x < p + 2 ^ o
    BY <1>5, <2>1, FrameIn, Zenon
  <2>. QED  BY <1>1, <1>5, <1>9, <2>1, <2>2, <2>3
<1>15. \A x : x \in Given <=> x \in available /\ x < start_pfn
  BY Zenon DEF Given
<1>16. \A x : x \in Given' <=> x \in available /\ x < p + 2 ^ o
  BY <1>7, <1>13, Zenon DEF Given
<1>17. Given' = Given \cup Frames(p, o)
  <2>1. \A x : x \in Given' <=> x \in Given \/ x \in Frames(p, o)
    BY <1>6, <1>14, <1>15, <1>16, Zenon
  <2>. QED  BY <2>1, Zenon
<1>. QED  BY <1>4, <1>5, <1>6, <1>8, <1>10, <1>12, <1>17, Zenon

LEMMA BootStep == BuddyInv /\ memblock_free_pages => BuddyInv'
<1>. SUFFICES ASSUME BuddyInv, memblock_free_pages PROVE BuddyInv'
  BY Zenon
<1>1. PICK p \in Page, o \in Order :
          /\ p = Min(Remaining) /\ o = ChunkOrder(p) /\ p % 2 ^ o = 0
          /\ Put(p, o)
          /\ \A x \in Frames(p, o) : x \notin Given
          /\ Given' = Given \cup Frames(p, o)
          /\ start_pfn' \in 0 .. MaxPfn
  BY BootFacts, Zenon
<1>2. /\ ranges' = ranges /\ held' = held /\ zeroed' = zeroed /\ result' = result
      /\ refd' \subseteq refd
  BY Zenon DEF memblock_free_pages
<1>3. p \in Nat /\ p \in Frames(p, o) /\ p \notin Given
  BY <1>1, PageFacts, FrameIn, Zenon
<1>4. \A z \in Zone, j \in Order : p \notin InList(z, j)
  BY <1>3, BlockFacts, FrameIn
<1>5. \A b \in held' : p \notin Frames(b.pfn, b.req.order)
  BY <1>2, <1>3, BlockFacts, Zenon
<1>6. \A h \in head' : \E b \in held' : b.pfn = h
  BY <1>1, <1>2, TypeFacts, Zenon DEF Put
<1>7. PICK y \in Zone : y = myos_page_zone(p)
  BY ZoneIn, Zenon
<1>8. PICK k : k = Listed(y, o, p)
  BY Zenon
<1>9. \A z \in Zone, j \in Order : \A x :
          x \in InList(z, j)' <=> x \in InList(z, j) \/ (z = y /\ j = o /\ x = p)
  BY <1>1, <1>4, <1>7, PutLists
<1>10. Blocks' = Blocks \cup {k}
  <2>1. \A a : IsListed(a)' <=> IsListed(a) \/ a = k
    BY <1>8, <1>9, PutBlocks
  <2>2. \A a : IsLent(a)' <=> IsLent(a)
    BY <1>2, Zenon DEF IsLent
  <2>3. \A a : a \in Blocks' <=> a \in Blocks \/ a = k
    BY <2>1, <2>2, BlocksOK, BlocksNext, Zenon DEF BlocksAre
  <2>. QED  BY <2>3, Zenon
<1>11. k.pfn = p /\ k.order = o
  BY <1>8, ListedDiffers
<1>12. Cuts(Blocks \cup {k}, Given \cup Frames(p, o))
  <2>1. \A x \in Frames(k.pfn, k.order) : x \notin Given
    BY <1>1, <1>11, Zenon
  <2>2. Cuts(Blocks \cup {k}, Given \cup Frames(k.pfn, k.order))
    BY <2>1, TypeFacts, CutMore, Zenon
  <2>. QED  BY <1>11, <2>2, Zenon
<1>13. Cuts(Blocks, Given)'
  BY <1>1, <1>10, <1>12, Zenon DEF Cuts
<1>14. ranges # {}
  BY Zenon DEF memblock_free_pages, Remaining, available
<1>. QED  BY <1>1, <1>2, <1>4, <1>5, <1>6, <1>13, <1>14, PutTypes, Zenon

\* The page of a compound block, or of a single page, tells the order of the block.
LEMMA FolioOrder ==
    ASSUME BuddyInv, NEW b \in held, b.req.comp \/ b.req.order = 0
    PROVE  folio_order(b.pfn) = b.req.order
<1>1. LentOK(b) /\ b.req.order \in Order
  BY TypeFacts, BlockFacts, Zenon
<1>2. CASE b.pfn \in head
  BY <1>1, <1>2, Zenon DEF LentOK, folio_order
<1>3. CASE b.pfn \notin head
  <2>1. ~(b.req.order > 0)
    BY <1>1, <1>3 DEF LentOK
  <2>2. b.req.order \in Nat
    BY <1>1, BuddyAssumption DEF Order
  <2>3. b.req.order = 0
    BY <2>1, <2>2
  <2>. QED  BY <1>3, <2>3, Zenon DEF folio_order
<1>. QED  BY <1>2, <1>3, Zenon

\* __free_pages() lists the block under the order it was allocated with.
LEMMA FreeFacts ==
    ASSUME BuddyInv, NEW b \in held, __free_pages(b)
    PROVE  /\ Put(b.pfn, b.req.order) /\ b.pfn \in Page /\ b.pfn \in Nat
           /\ b.req.order \in Order /\ b.pfn % 2 ^ b.req.order = 0
<1>1. LentOK(b) /\ b.pfn \in Page /\ b.pfn \in Nat /\ b.req.order \in Order
  BY TypeFacts, BlockFacts, Zenon
<1>2. b.req.comp \/ b.req.order = 0 => folio_order(b.pfn) = b.req.order
  BY FolioOrder, Zenon
<1>3. __free_pages_ok(b.pfn, b.req.order)
  BY <1>2, Zenon DEF __free_pages
<1>4. b.pfn % 2 ^ b.req.order = 0
  BY <1>1, Zenon DEF LentOK
<1>. QED  BY <1>1, <1>3, <1>4, FreeIsPut, Zenon

LEMMA FreeStep ==
    ASSUME NEW b \in held
    PROVE  BuddyInv /\ __free_pages(b) => BuddyInv'
<1>. SUFFICES ASSUME BuddyInv, __free_pages(b) PROVE BuddyInv'
  BY Zenon
<1>. PICK p \in Page, o \in Order : p = b.pfn /\ o = b.req.order
  BY FreeFacts, Zenon
<1>1. Put(p, o) /\ p \in Nat /\ p % 2 ^ o = 0
  BY FreeFacts, Zenon
<1>2. /\ ranges' = ranges /\ start_pfn' = start_pfn /\ held' = held \ {b}
      /\ zeroed' \subseteq zeroed /\ result' = result /\ refd' \subseteq refd
  BY Zenon DEF __free_pages
<1>3. p \in Frames(p, o)
  BY <1>1, FrameIn, Zenon
<1>4. \A z \in Zone, j \in Order : p \notin InList(z, j)
  BY <1>3, BlockFacts, FrameIn, Zenon
<1>5. \A c \in held' : p \notin Frames(c.pfn, c.req.order)
  BY <1>2, <1>3, BlockFacts, Zenon
<1>6. \A h \in head' : \E c \in held' : c.pfn = h
  <2>1. ASSUME NEW h \in head' PROVE \E c \in held' : c.pfn = h
    <3>1. h \in head /\ h # p
      BY <1>1, Zenon DEF Put
    <3>2. PICK c \in held : c.pfn = h
      BY <3>1, TypeFacts, Zenon
    <3>. QED  BY <1>2, <3>1, <3>2, Zenon
  <2>. QED  BY <2>1, Zenon
<1>7. PICK y \in Zone : y = myos_page_zone(p)
  BY ZoneIn, Zenon
<1>8. PICK k, l : k = Listed(y, o, p) /\ l = Lent(b)
  BY Zenon
<1>9. \A z \in Zone, j \in Order : \A x :
          x \in InList(z, j)' <=> x \in InList(z, j) \/ (z = y /\ j = o /\ x = p)
  BY <1>1, <1>4, <1>7, PutLists
<1>10. b \in [pfn : Page, req : Requests] /\ \A c \in held : c \in [pfn : Page, req : Requests]
  BY BlockFacts, Zenon
<1>11. k.pfn = p /\ k.order = o /\ l.pfn = p /\ l.order = o
  BY <1>8, <1>10, ListedDiffers, LentDiffers
<1>12. Blocks' = (Blocks \ {l}) \cup {k}
  <2>1. \A a : IsListed(a)' <=> IsListed(a) \/ a = k
    BY <1>8, <1>9, PutBlocks
  <2>2. \A a : IsLent(a)' <=> IsLent(a) /\ a # l
    BY <1>2, <1>8, <1>10, LentDiffers, Zenon DEF IsLent
  <2>3. \A a : IsListed(a) => a # l
    BY <1>8, ListedDiffers DEF IsListed
  <2>4. \A a : a \in Blocks' <=> (a \in Blocks /\ a # l) \/ a = k
    BY <2>1, <2>2, <2>3, BlocksOK, BlocksNext, Zenon DEF BlocksAre
  <2>. QED  BY <2>4, Zenon
<1>13. Cuts((Blocks \ {l}) \cup {k}, Given)
  <2>1. {l} \subseteq Blocks
    BY <1>8, InBlocks, Zenon
  <2>2. Cuts({l}, Frames(p, o)) /\ Cuts({k}, Frames(p, o))
    BY <1>11, CutOne, Zenon
  <2>. QED  BY <2>1, <2>2, TypeFacts, Recut, Zenon
<1>14. Given' = Given
  BY <1>2, Zenon DEF Given, available
<1>15. Cuts(Blocks, Given)'
  BY <1>12, <1>13, <1>14, Zenon DEF Cuts
<1>16. start_pfn' \in 0 .. MaxPfn
  BY <1>2, TypeFacts
<1>17. held' \subseteq held
  BY <1>2, Zenon
<1>18. ranges = {} => start_pfn' = 0
  BY <1>2, TypeFacts, Zenon
<1>. QED  BY <1>1, <1>2, <1>4, <1>5, <1>6, <1>15, <1>16, <1>17, <1>18, PutTypes, Zenon

-----------------------------------------------------------------------------
(* Taking a block off the lists: __rmqueue_smallest() *)

\* What becomes of the block p of order c when r is served from it.
Cut(z, p, c, r) ==
    {Lent([pfn |-> p, req |-> r])} \cup {Listed(z, o, p + 2 ^ o) : o \in r.order .. (c - 1)}

LEMMA CutIs ==
    ASSUME NEW z, NEW p \in Nat, NEW r, r.order \in Order, NEW c \in Order
    PROVE  \A k : k \in Cut(z, p, c, r) <=>
               \/ k = Lent([pfn |-> p, req |-> r])
               \/ \E o \in Order : r.order <= o /\ o < c /\ k = Listed(z, o, p + 2 ^ o)
<1>1. PICK lo \in Order : lo = r.order
  BY Zenon
<1>2. \A o : o \in lo .. (c - 1) <=> o \in Order /\ lo <= o /\ o < c
  BY BuddyAssumption DEF Order
<1>3. \A k : k \in Cut(z, p, c, r) <=>
          \/ k = Lent([pfn |-> p, req |-> r])
          \/ \E o \in lo .. (c - 1) : k = Listed(z, o, p + 2 ^ o)
  BY <1>1, Zenon DEF Cut
<1>. QED  BY <1>1, <1>2, <1>3, Zenon

LEMMA Expanded ==
    ASSUME NEW z, NEW p \in Nat, NEW r, r.order \in Order, NEW c \in Order, r.order <= c
    PROVE  Cuts(Cut(z, p, c, r), Frames(p, c))
<1>. DEFINE F(k) == Frames(k.pfn, k.order)
<1>1. PICK lo \in Order : lo = r.order
  BY Zenon
<1>2. PICK l : l = Lent([pfn |-> p, req |-> r])
  BY Zenon
<1>3. \A x : x \in F(l) <=> x \in Frames(p, lo)
  <2>1. l.pfn = p /\ l.order = lo
    BY <1>1, <1>2, Zenon DEF Lent
  <2>. QED  BY <2>1, Zenon
<1>4. \A o : \A x : x \in F(Listed(z, o, p + 2 ^ o)) <=> x \in Frames(p + 2 ^ o, o)
  BY ListedDiffers
<1>5. \A k : k \in Cut(z, p, c, r) <=>
          k = l \/ \E o \in Order : lo <= o /\ o < c /\ k = Listed(z, o, p + 2 ^ o)
  BY <1>1, <1>2, CutIs
<1>6. \A x : x \in Frames(p, c) <=>
          \/ x \in Frames(p, lo)
          \/ \E o \in Order : lo <= o /\ o < c /\ x \in Frames(p + 2 ^ o, o)
  BY <1>1, Halves
<1>7. \A o \in Order : lo <= o /\ o < c =>
          \A x : ~(x \in Frames(p, lo) /\ x \in Frames(p + 2 ^ o, o))
  BY <1>1, Halves
<1>8. \A o, j \in Order : lo <= o /\ o < j /\ j < c =>
          \A x : ~(x \in Frames(p + 2 ^ o, o) /\ x \in Frames(p + 2 ^ j, j))
  BY <1>1, Halves
<1>9. \A o, j \in Order : o < j \/ j < o \/ o = j
  BY BuddyAssumption DEF Order
<1>. HIDE DEF F
<1>10. \A x : x \in Frames(p, c) <=> \E k \in Cut(z, p, c, r) : x \in F(k)
  <2>1. ASSUME NEW x \in Frames(p, c) PROVE \E k \in Cut(z, p, c, r) : x \in F(k)
    <3>1. CASE x \in Frames(p, lo)
      BY <1>3, <1>5, <3>1, Zenon
    <3>2. ASSUME NEW o \in Order, lo <= o, o < c, x \in Frames(p + 2 ^ o, o)
          PROVE  \E k \in Cut(z, p, c, r) : x \in F(k)
      <4>1. x \in F(Listed(z, o, p + 2 ^ o)) /\ Listed(z, o, p + 2 ^ o) \in Cut(z, p, c, r)
        BY <1>4, <1>5, <3>2, Zenon
      <4>. QED  BY <4>1, Zenon
    <3>. QED  BY <1>6, <3>1, <3>2, Zenon
  <2>2. ASSUME NEW k \in Cut(z, p, c, r), NEW x, x \in F(k) PROVE x \in Frames(p, c)
    <3>1. CASE k = l
      BY <1>3, <1>6, <2>2, <3>1, Zenon
    <3>2. ASSUME NEW o \in Order, lo <= o, o < c, k = Listed(z, o, p + 2 ^ o)
          PROVE  x \in Frames(p, c)
      <4>1. x \in F(Listed(z, o, p + 2 ^ o))
        BY <2>2, <3>2, Zenon
      <4>. QED  BY <1>4, <1>6, <3>2, <4>1, Zenon
    <3>. QED  BY <1>5, <3>1, <3>2, Zenon
  <2>. QED  BY <2>1, <2>2, Zenon
<1>11. ASSUME NEW o \in Order, NEW x, lo <= o, o < c, x \in F(l), x \in F(Listed(z, o, p + 2 ^ o))
       PROVE  FALSE
  BY <1>3, <1>4, <1>7, <1>11, Zenon
<1>12. ASSUME NEW o \in Order, NEW j \in Order, NEW x, lo <= o, o < c, lo <= j, j < c, o # j,
              x \in F(Listed(z, o, p + 2 ^ o)), x \in F(Listed(z, j, p + 2 ^ j))
       PROVE  FALSE
  BY <1>4, <1>8, <1>9, <1>12, Zenon
<1>13. ASSUME NEW a \in Cut(z, p, c, r), NEW b \in Cut(z, p, c, r), a # b,
              NEW x, x \in F(a), x \in F(b)
       PROVE  FALSE
  <2>1. CASE a = l
    <3>1. PICK o \in Order : lo <= o /\ o < c /\ b = Listed(z, o, p + 2 ^ o)
      BY <1>5, <1>13, <2>1, Zenon
    <3>. QED  BY <1>11, <1>13, <2>1, <3>1, Zenon
  <2>2. CASE b = l
    <3>1. PICK o \in Order : lo <= o /\ o < c /\ a = Listed(z, o, p + 2 ^ o)
      BY <1>5, <1>13, <2>2, Zenon
    <3>. QED  BY <1>11, <1>13, <2>2, <3>1, Zenon
  <2>3. CASE a # l /\ b # l
    <3>1. PICK o \in Order : lo <= o /\ o < c /\ a = Listed(z, o, p + 2 ^ o)
      BY <1>5, <2>3, Zenon
    <3>2. PICK j \in Order : lo <= j /\ j < c /\ b = Listed(z, j, p + 2 ^ j)
      BY <1>5, <2>3, Zenon
    <3>3. o # j
      BY <1>13, <3>1, <3>2, Zenon
    <3>. QED  BY <1>12, <1>13, <3>1, <3>2, <3>3, Zenon
  <2>. QED  BY <2>1, <2>2, <2>3, Zenon
<1>14. \A a, b \in Cut(z, p, c, r) : a # b => F(a) \cap F(b) = {}
  BY <1>13, Zenon
<1>15. Frames(p, c) = UNION {F(a) : a \in Cut(z, p, c, r)}
  BY <1>10, Zenon
<1>. QED  BY <1>14, <1>15, Zenon DEF Cuts, F

\* Which block __myos_alloc_pages() takes, and what it does.
Upper(p, lo, c) == {p + 2 ^ o : o \in lo .. (c - 1)}
Tails(p, r)     == IF r.comp THEN Frames(p, r.order) \ {p} ELSE {}

Taken(z, c, p, r) ==
    /\ free_area' = [free_area EXCEPT ![z] = expand(z, p, r.order, c)]
    /\ private' = [x \in Page |->
           CASE x = p -> 0
             [] x \in Upper(p, r.order, c) -> CHOOSE o \in r.order .. (c - 1) : x = p + 2 ^ o
             [] x \in Tails(p, r) -> 0
             [] OTHER -> private[x]]
    /\ page_type' = [x \in Page |->
           CASE x = p -> page_type[x] \cup {"buddy"}
             [] x \in Upper(p, r.order, c) -> page_type[x] \ {"buddy"}
             [] OTHER -> page_type[x]]
    /\ refd' = refd \cup Frames(p, r.order)
    /\ tail' = (tail \ Upper(p, r.order, c)) \cup Tails(p, r)
    /\ prep_new_page(p, r)
    /\ held' = held \cup {[pfn |-> p, req |-> r]}

LEMMA AllocFacts ==
    ASSUME BuddyInv, NEW r \in Requests, __myos_alloc_pages(r)
    PROVE  \E z \in Zone, c \in Order : \E p \in InList(z, c) :
               /\ r.order \in Order /\ r.order <= c
               /\ \E i \in (r.start + 1) .. 3 : z = Prefered[i]
               /\ free_area[z][c] # <<>> /\ p = Head(free_area[z][c])
               /\ Taken(z, c, p, r)
<1>1. r \in [order : Nat, start : 0 .. 2, zero : BOOLEAN, comp : BOOLEAN] /\ MaxOrder \in Nat
  BY BuddyAssumption, Zenon
<1>2. r.order \in Order /\ r.order \in Nat /\ r.start \in 0 .. 2
  BY <1>1 DEF __myos_alloc_pages, Order
<1>3. Eligible(r) \subseteq Nat /\ Eligible(r) # {}
  BY <1>2 DEF Eligible, __myos_alloc_pages
<1>4. PICK i \in Eligible(r) : i = Min(Eligible(r))
  BY <1>3, MinIsLeast, Zenon
<1>5. i \in (r.start + 1) .. 3 /\ Usable(Prefered[i], r.order) # {}
  BY Zenon DEF Eligible
<1>6. Prefered[i] \in Zone
  <2>1. i = 1 \/ i = 2 \/ i = 3
    BY <1>2, <1>5
  <2>. QED  BY <2>1 DEF Prefered, Zone
<1>7. PICK z \in Zone : z = Prefered[i]
  BY <1>6, Zenon
<1>8. Usable(z, r.order) \subseteq Nat /\ Usable(z, r.order) # {}
  BY <1>1, <1>2, <1>5, <1>7 DEF Usable
<1>9. PICK c \in Usable(z, r.order) : c = Min(Usable(z, r.order))
  BY <1>8, MinIsLeast, Zenon
<1>10. c \in Order /\ r.order <= c /\ free_area[z][c] # <<>>
  BY <1>1, <1>2 DEF Usable, Order
<1>11. PICK p \in InList(z, c) : p = Head(free_area[z][c])
  <2>1. free_area[z][c] \in Seq(Page) /\ IsInjective(free_area[z][c])
    BY <1>10, TypeFacts DEF ListOK
  <2>2. Head(free_area[z][c]) \in Range(free_area[z][c])
    BY <1>10, <2>1, TailQueue, Zenon
  <2>. QED  BY <2>2, Zenon DEF InList
<1>12. __rmqueue_smallest(z, r)
  BY <1>4, <1>7, Zenon DEF __myos_alloc_pages
<1>13. Taken(z, c, p, r)
  <2>1. LET m == Min(Usable(z, r.order)) IN Taken(z, m, Head(free_area[z][m]), r)
    BY <1>12, Zenon DEF __rmqueue_smallest, Taken, Upper, Tails
  <2>2. Taken(z, c, Head(free_area[z][c]), r)
    BY <1>9, <2>1, Zenon
  <2>. QED  BY <1>11, <2>2, Zenon
<1>. QED  BY <1>2, <1>5, <1>7, <1>10, <1>11, <1>13, Zenon

\* The pages that __rmqueue_smallest() writes to are in the block it takes.
LEMMA TakenPages ==
    ASSUME NEW p \in Nat, NEW r, r.order \in Order, NEW c \in Order, r.order <= c
    PROVE  /\ p \in Frames(p, c)
           /\ \A x \in Frames(p, r.order) : x \in Frames(p, c)
           /\ \A x \in Tails(p, r) : x \in Frames(p, c) /\ x # p
           /\ \A x : x \in Upper(p, r.order, c) <=>
                  \E o \in Order : r.order <= o /\ o < c /\ x = p + 2 ^ o
           /\ \A o \in Order : r.order <= o /\ o < c =>
                  /\ p + 2 ^ o \in Frames(p, c) /\ p + 2 ^ o # p /\ p + 2 ^ o \notin Tails(p, r)
                  /\ (CHOOSE j \in r.order .. (c - 1) : p + 2 ^ o = p + 2 ^ j) = o
           /\ r.order > 0 => p + 1 \in Frames(p, c)
<1>1. PICK lo \in Order : lo = r.order
  OBVIOUS
<1>2. p \in Frames(p, c)
  BY FrameIn, Zenon
<1>3. \A x \in Frames(p, lo) : x \in Frames(p, c)
  BY <1>1, Halves, Zenon
<1>4. \A x \in Tails(p, r) : x \in Frames(p, lo) /\ x # p
  BY <1>1, Zenon DEF Tails
<1>5. \A o : o \in lo .. (c - 1) <=> o \in Order /\ lo <= o /\ o < c
  BY BuddyAssumption DEF Order
<1>6. \A x : x \in Upper(p, lo, c) <=> \E o \in lo .. (c - 1) : x = p + 2 ^ o
  BY Zenon DEF Upper
<1>7. \A x : x \in Upper(p, lo, c) <=> \E o \in Order : lo <= o /\ o < c /\ x = p + 2 ^ o
  BY <1>5, <1>6, Zenon
<1>8. ASSUME NEW o \in Order, lo <= o, o < c
      PROVE  /\ p + 2 ^ o \in Frames(p, c) /\ p + 2 ^ o # p /\ p + 2 ^ o \notin Tails(p, r)
             /\ (CHOOSE j \in lo .. (c - 1) : p + 2 ^ o = p + 2 ^ j) = o
  <2>1. \A j \in Order : 2 ^ j \in Nat \ {0} /\ p + 2 ^ j \in Nat
    BY PowPos
  <2>2. \A j \in Order : p + 2 ^ j \in Frames(p + 2 ^ j, j)
    BY <2>1, FrameIn, Zenon
  <2>3. p + 2 ^ o \in Frames(p, c) /\ p + 2 ^ o \notin Frames(p, lo)
    BY <1>1, <1>8, <2>2, Halves
  <2>4. ASSUME NEW j \in Order, lo <= j, j < c, p + 2 ^ o = p + 2 ^ j PROVE j = o
    <3>1. p + 2 ^ o \in Frames(p + 2 ^ j, j) /\ p + 2 ^ o \in Frames(p + 2 ^ o, o)
      BY <2>2, <2>4, Zenon
    <3>2. ~(o < j) /\ ~(j < o)
      BY <1>1, <1>8, <2>4, <3>1, Halves
    <3>. QED  BY <3>2, BuddyAssumption DEF Order
  <2>5. (CHOOSE j \in lo .. (c - 1) : p + 2 ^ o = p + 2 ^ j) = o
    <3>1. o \in lo .. (c - 1) /\ p + 2 ^ o = p + 2 ^ o
      BY <1>5, <1>8, Zenon
    <3>2. \A j \in lo .. (c - 1) : p + 2 ^ o = p + 2 ^ j => j = o
      BY <1>5, <2>4, Zenon
    <3>. QED  BY <3>1, <3>2, Zenon
  <2>6. p + 2 ^ o # p
    BY <2>1
  <2>. QED  BY <1>4, <2>3, <2>5, <2>6, Zenon
<1>9. ASSUME r.order > 0 PROVE p + 1 \in Frames(p, c)
  <2>1. 0 \in Order /\ 0 < c
    BY <1>1, <1>9, BuddyAssumption DEF Order
  <2>2. 2 ^ (0 + 1) = 2 ^ 0 + 2 ^ 0 /\ 2 ^ (0 + 1) <= 2 ^ c
    BY <2>1, PowHalf, Zenon
  <2>3. 2 ^ 0 = 1 /\ 2 ^ c \in Nat
    BY PowPos
  <2>4. 2 <= 2 ^ c
    BY <2>2, <2>3
  <2>. QED  BY <2>3, <2>4, FrameIn
<1>. QED  BY <1>1, <1>2, <1>3, <1>4, <1>7, <1>8, <1>9

\* The lists after Taken(): p has gone, and its upper halves are listed.
ListsTaken(z, c, p, r) ==
    /\ free_area' \in [Zone -> [Order -> Seq(Page)]]
    /\ \A y \in Zone, j \in Order : IsInjective(free_area'[y][j])
    /\ \A y \in Zone, j \in Order : \A x : x \in InList(y, j)' <=>
           \/ x \in InList(y, j) /\ ~(y = z /\ j = c /\ x = p)
           \/ y = z /\ r.order <= j /\ j < c /\ x = p + 2 ^ j

LEMMA TakenLists ==
    ASSUME BuddyInv, NEW r \in Requests, NEW z \in Zone, NEW c \in Order, NEW p \in InList(z, c),
           r.order \in Order, r.order <= c,
           free_area[z][c] # <<>>, p = Head(free_area[z][c]), Taken(z, c, p, r)
    PROVE  ListsTaken(z, c, p, r)
<1>1. PICK lo \in Order : lo = r.order
  BY Zenon
<1>2. p \in Nat /\ p \in Page
  BY BlockFacts, Zenon
<1>3. free_area \in [Zone -> [Order -> Seq(Page)]] /\ \A j \in Order : IsInjective(free_area[z][j])
  BY TypeFacts, Zenon DEF ListOK
<1>4. ASSUME NEW j \in Order, lo <= j, j < c
      PROVE  p + 2 ^ j \in Page /\ p + 2 ^ j \notin Range(free_area[z][j])
  <2>1. p + 2 ^ j \in Frames(p, c) /\ p + 2 ^ j # p
    BY <1>1, <1>2, <1>4, TakenPages, Zenon
  <2>2. p + 2 ^ j \in Page
    BY <2>1, BlockFacts
  <2>3. ASSUME p + 2 ^ j \in InList(z, j) PROVE FALSE
    <3>1. p + 2 ^ j \in Frames(p + 2 ^ j, j)
      BY <2>2, PageFacts, FrameIn, Zenon
    <3>2. j = c
      BY <2>1, <2>3, <3>1, BlockFacts
    <3>. QED  BY <1>4, <3>2, BuddyAssumption DEF Order
  <2>. QED  BY <2>2, <2>3, Zenon DEF InList
<1>5. \A j : j \in lo .. (c - 1) <=> j \in Order /\ lo <= j /\ j < c
  BY BuddyAssumption DEF Order
<1>6. c \notin lo .. (c - 1)
  BY BuddyAssumption DEF Order
<1>7. free_area' = [free_area EXCEPT ![z] = expand(z, p, lo, c)]
  BY <1>1, Zenon DEF Taken
<1>8. \A y \in Zone, j \in Order : y # z => free_area'[y][j] = free_area[y][j]
  BY <1>3, <1>7, Zenon
<1>9. \A j \in Order : free_area'[z][j] = expand(z, p, lo, c)[j]
  BY <1>3, <1>7, Zenon
<1>10. \A j \in Order : lo <= j /\ j < c => free_area'[z][j] = Push(free_area[z][j], p + 2 ^ j)
  <2>1. ASSUME NEW j \in Order, j \in lo .. (c - 1)
        PROVE  expand(z, p, lo, c)[j] = <<p + 2 ^ j>> \o free_area[z][j]
    <3>1. j # c
      BY <1>6, <2>1, Zenon
    <3>. QED  BY <2>1, <3>1, Zenon DEF expand
  <2>2. \A j \in Order : j \in lo .. (c - 1) => expand(z, p, lo, c)[j] = Push(free_area[z][j], p + 2 ^ j)
    BY <2>1, Zenon DEF Push
  <2>. QED  BY <1>5, <1>9, <2>2, Zenon
<1>11. free_area'[z][c] = Tail(free_area[z][c])
  BY <1>6, <1>9, Zenon DEF expand
<1>12. \A j \in Order : ~(lo <= j /\ j < c) /\ j # c => free_area'[z][j] = free_area[z][j]
  BY <1>5, <1>9, Zenon DEF expand
<1>13. ASSUME NEW y \in Zone, NEW j \in Order
       PROVE  /\ free_area'[y][j] \in Seq(Page) /\ IsInjective(free_area'[y][j])
              /\ \A x : x \in InList(y, j)' <=>
                    \/ x \in InList(y, j) /\ ~(y = z /\ j = c /\ x = p)
                    \/ y = z /\ lo <= j /\ j < c /\ x = p + 2 ^ j
  <2>0. free_area[y][j] \in Seq(Page) /\ IsInjective(free_area[y][j])
    BY TypeFacts DEF ListOK
  <2>1. CASE y # z \/ (~(lo <= j /\ j < c) /\ j # c)
    <3>1. free_area'[y][j] = free_area[y][j]
      BY <1>8, <1>12, <2>1, Zenon
    <3>. QED  BY <2>0, <2>1, <3>1, Zenon DEF InList
  <2>2. CASE y = z /\ lo <= j /\ j < c
    <3>1. PICK u : u = p + 2 ^ j
      BY Zenon
    <3>2. free_area'[z][j] = Push(free_area[z][j], u) /\ u \in Page /\ u \notin Range(free_area[z][j])
      BY <1>4, <1>10, <2>2, <3>1, Zenon
    <3>3. /\ Push(free_area[z][j], u) \in Seq(Page)
          /\ IsInjective(Push(free_area[z][j], u))
          /\ \A x : x \in Range(Push(free_area[z][j], u)) <=> x \in Range(free_area[z][j]) \/ x = u
      BY <2>0, <2>2, <3>2, PushQueue, Zenon
    <3>4. j # c
      BY <2>2, BuddyAssumption DEF Order
    <3>. QED  BY <2>2, <3>1, <3>2, <3>3, <3>4, Zenon DEF InList
  <2>3. CASE y = z /\ j = c
    <3>1. /\ Tail(free_area[z][c]) \in Seq(Page) /\ IsInjective(Tail(free_area[z][c]))
          /\ \A x : x \in Range(Tail(free_area[z][c])) <=> x \in Range(free_area[z][c]) /\ x # p
      BY <2>0, <2>3, TailQueue, Zenon
    <3>2. ~(c < c)
      BY BuddyAssumption DEF Order
    <3>3. /\ free_area'[y][j] \in Seq(Page) /\ IsInjective(free_area'[y][j])
          /\ \A x : x \in Range(free_area'[y][j]) <=> x \in Range(free_area[y][j]) /\ x # p
      BY <1>11, <2>3, <3>1, Zenon
    <3>. QED  BY <2>3, <3>2, <3>3, Zenon DEF InList
  <2>. QED  BY <2>1, <2>2, <2>3, Zenon
<1>14. free_area' \in [Zone -> [Order -> Seq(Page)]]
  <2>1. expand(z, p, lo, c) \in [Order -> Seq(Page)]
    <3>1. expand(z, p, lo, c) = [j \in Order |-> free_area'[z][j]]
      BY <1>9, Zenon DEF expand
    <3>. QED  BY <1>13, <3>1, Zenon
  <2>. QED  BY <1>3, <1>7, <2>1, Zenon
<1>. QED  BY <1>1, <1>13, <1>14, Zenon DEF ListsTaken

\* What __rmqueue_smallest() writes to the page descriptors.
LEMMA TakenMeta ==
    ASSUME BuddyInv, NEW r \in Requests, NEW z \in Zone, NEW c \in Order, NEW p \in InList(z, c),
           r.order \in Order, r.order <= c, Taken(z, c, p, r)
    PROVE  /\ private' \in [Page -> Order]
           /\ page_type' \in [Page -> SUBSET {"base", "buddy"}]
           /\ \A x \in Page : page_type'[x] \subseteq {"buddy"}
           /\ \A x \in Page : x \notin Frames(p, c) =>
                  /\ private'[x] = private[x]
                  /\ x \in tail' => x \in tail
                  /\ x \in head' => x \in head
           /\ \A o \in Order : r.order <= o /\ o < c =>
                  private'[p + 2 ^ o] = o /\ p + 2 ^ o \notin tail'
           /\ p \notin tail'
           /\ refd' \subseteq Page /\ zeroed' \subseteq Page /\ tail' \subseteq Page
<1>1. PICK lo \in Order : lo = r.order
  BY Zenon
<1>2. p \in Nat /\ p \in Page /\ \A x \in Frames(p, c) : x \in Page
  BY BlockFacts, Zenon
<1>. DEFINE U == Upper(p, r.order, c)
            T == Tails(p, r)
<1>3. /\ p \in Frames(p, c)
      /\ \A x \in Frames(p, r.order) : x \in Frames(p, c)
      /\ \A x \in T : x \in Frames(p, c) /\ x # p
      /\ \A x : x \in U <=> \E o \in Order : r.order <= o /\ o < c /\ x = p + 2 ^ o
      /\ \A o \in Order : r.order <= o /\ o < c =>
             /\ p + 2 ^ o \in Frames(p, c) /\ p + 2 ^ o # p /\ p + 2 ^ o \notin T
             /\ (CHOOSE j \in r.order .. (c - 1) : p + 2 ^ o = p + 2 ^ j) = o
      /\ r.order > 0 => p + 1 \in Frames(p, c)
  BY <1>2, TakenPages, Zenon
<1>4. /\ private' = [x \in Page |->
             CASE x = p -> 0
               [] x \in U -> CHOOSE o \in r.order .. (c - 1) : x = p + 2 ^ o
               [] x \in T -> 0
               [] OTHER -> private[x]]
      /\ page_type' = [x \in Page |->
             CASE x = p -> page_type[x] \cup {"buddy"}
               [] x \in U -> page_type[x] \ {"buddy"}
               [] OTHER -> page_type[x]]
      /\ refd' = refd \cup Frames(p, r.order)
      /\ tail' = (tail \ U) \cup T
      /\ prep_new_page(p, r)
  BY Zenon DEF Taken
<1>. HIDE DEF U, T
<1>5. \A x \in U : x \in Frames(p, c) /\ x # p /\ x \notin T
  BY <1>3
<1>6. ASSUME NEW x \in Page, x \notin Frames(p, c) PROVE private'[x] = private[x]
  <2>1. x # p /\ x \notin U /\ x \notin T
    BY <1>3, <1>5, <1>6, Zenon
  <2>. QED  BY <1>4, <2>1, Zenon
<1>7. ASSUME NEW o \in Order, r.order <= o, o < c PROVE private'[p + 2 ^ o] = o
  <2>1. PICK x \in Page : x = p + 2 ^ o
    BY <1>2, <1>3, <1>7, Zenon
  <2>2. x # p /\ x \in U /\ x \notin T
    BY <1>3, <1>7, <2>1, Zenon
  <2>3. private'[x] = CHOOSE j \in r.order .. (c - 1) : x = p + 2 ^ j
    BY <1>4, <2>2, Zenon
  <2>4. (CHOOSE j \in r.order .. (c - 1) : p + 2 ^ o = p + 2 ^ j) = o
    BY <1>3, <1>7, Zenon
  <2>. QED  BY <2>1, <2>3, <2>4, Zenon
<1>8. ASSUME NEW x \in Page PROVE private'[x] \in Order
  <2>0. 0 \in Order
    BY BuddyAssumption DEF Order
  <2>1. CASE x = p
    <3>1. x \notin U /\ x \notin T
      BY <1>3, <1>5, <2>1, Zenon
    <3>2. private'[x] = 0
      BY <1>4, <2>1, <3>1, Zenon
    <3>. QED  BY <2>0, <3>2, Zenon
  <2>2. CASE x \in U
    <3>1. PICK o \in Order : r.order <= o /\ o < c /\ x = p + 2 ^ o
      BY <1>3, <2>2
    <3>. QED  BY <1>7, <3>1, Zenon
  <2>3. CASE x # p /\ x \notin U /\ x \in T
    <3>1. private'[x] = 0
      BY <1>4, <2>3, Zenon
    <3>. QED  BY <2>0, <3>1
  <2>4. CASE x # p /\ x \notin U /\ x \notin T
    <3>1. private'[x] = private[x]
      BY <1>4, <2>4, Zenon
    <3>. QED  BY <3>1, TypeFacts, Zenon
  <2>. QED  BY <2>1, <2>2, <2>3, <2>4, Zenon
<1>9. private' \in [Page -> Order]
  <2>1. private' = [x \in Page |-> private'[x]]
    BY <1>4
  <2>. QED  BY <1>8, <2>1, Zenon
<1>10. ASSUME NEW x \in Page PROVE page_type'[x] \subseteq {"buddy"}
  <2>0. page_type[x] \subseteq {"buddy"}
    BY TypeFacts, Zenon
  <2>1. CASE x = p
    <3>1. x \notin U
      BY <1>5, <2>1, Zenon
    <3>2. page_type'[x] = page_type[x] \cup {"buddy"}
      BY <1>4, <2>1, <3>1, Zenon
    <3>. QED  BY <2>0, <3>2, Zenon
  <2>2. CASE x # p /\ x \in U
    <3>1. page_type'[x] = page_type[x] \ {"buddy"}
      BY <1>4, <2>2, Zenon
    <3>. QED  BY <2>0, <3>1, Zenon
  <2>3. CASE x # p /\ x \notin U
    <3>1. page_type'[x] = page_type[x]
      BY <1>4, <2>3, Zenon
    <3>. QED  BY <2>0, <3>1, Zenon
  <2>. QED  BY <2>1, <2>2, <2>3, Zenon
<1>11. page_type' \in [Page -> SUBSET {"base", "buddy"}]
  <2>1. page_type' = [x \in Page |-> page_type'[x]]
    BY <1>4
  <2>. QED  BY <1>10, <2>1, Zenon
<1>12. \A x \in Page : x \notin Frames(p, c) => (x \in tail' => x \in tail)
  BY <1>3, <1>4, Zenon
<1>13. \A x \in Page : x \notin Frames(p, c) => (x \in head' => x \in head)
  BY <1>3, <1>4 DEF prep_new_page
<1>14. \A o \in Order : r.order <= o /\ o < c => p + 2 ^ o \notin tail'
  BY <1>3, <1>4, Zenon
<1>15. p \notin tail
  BY TypeFacts, Zenon DEF ListOK
<1>16. p \notin tail'
  BY <1>3, <1>4, <1>15, Zenon
<1>17. refd' \subseteq Page /\ tail' \subseteq Page
  BY <1>2, <1>3, <1>4, TypeFacts
<1>18. zeroed' \subseteq Page
  BY <1>2, <1>4, TypeFacts DEF prep_new_page
<1>. QED  BY <1>6, <1>7, <1>9, <1>10, <1>11, <1>12, <1>13, <1>14, <1>16, <1>17, <1>18

LEMMA TakenListOK ==
    ASSUME BuddyInv, NEW r \in Requests, NEW z \in Zone, NEW c \in Order, NEW p \in InList(z, c),
           r.order \in Order, r.order <= c, Taken(z, c, p, r), ListsTaken(z, c, p, r),
           NEW y \in Zone, NEW j \in Order
    PROVE  ListOK(y, j)'
<1>1. p \in Nat /\ \A x \in Frames(p, c) : x \in Page /\ x < MaxPfn
  BY BlockFacts, Zenon
<1>2. p % 2 ^ c = 0 /\ myos_page_zone(p) = z
  BY TypeFacts, Zenon DEF ListOK
<1>3. ASSUME NEW x \in InList(y, j), ~(y = z /\ j = c /\ x = p)
      PROVE  x % 2 ^ j = 0 /\ myos_page_zone(x) = y /\ private'[x] = j /\ x \notin tail'
  <2>1. x \in Nat /\ x \in Page /\ x \in Frames(x, j)
    BY BlockFacts, FrameIn, Zenon
  <2>2. x \notin Frames(p, c)
    BY <1>3, Elsewhere, Zenon
  <2>3. x % 2 ^ j = 0 /\ myos_page_zone(x) = y /\ private[x] = j /\ x \notin tail
    BY TypeFacts, Zenon DEF ListOK
  <2>4. private'[x] = private[x] /\ (x \in tail' => x \in tail)
    <3>1. \A w \in Page : w \notin Frames(p, c) => private'[w] = private[w] /\ (w \in tail' => w \in tail)
      BY TakenMeta
    <3>. QED  BY <2>1, <2>2, <3>1, Zenon
  <2>. QED  BY <2>3, <2>4, Zenon
<1>4. ASSUME y = z, r.order <= j, j < c, NEW x, x = p + 2 ^ j
      PROVE  x % 2 ^ j = 0 /\ myos_page_zone(x) = y /\ private'[x] = j /\ x \notin tail'
  <2>1. j <= c
    BY <1>4, BuddyAssumption DEF Order
  <2>2. p % 2 ^ j = 0
    BY <1>1, <1>2, <2>1, AlignedBelow, Zenon
  <2>3. x % 2 ^ j = 0
    BY <1>1, <1>4, <2>2, AlignedHalf, Zenon
  <2>4. x \in Frames(p, c)
    BY <1>1, <1>4, TakenPages, Zenon
  <2>5. myos_page_zone(x) = z
    BY <1>1, <1>2, <2>4, OneZone, Zenon
  <2>6. private'[x] = j /\ x \notin tail'
    BY <1>4, TakenMeta
  <2>. QED  BY <1>4, <2>3, <2>5, <2>6, Zenon
<1>5. \A x \in InList(y, j)' :
          x % 2 ^ j = 0 /\ myos_page_zone(x) = y /\ private'[x] = j /\ x \notin tail'
  <2>. SUFFICES ASSUME NEW x \in InList(y, j)'
                PROVE  x % 2 ^ j = 0 /\ myos_page_zone(x) = y /\ private'[x] = j /\ x \notin tail'
    BY Zenon
  <2>1. CASE x \in InList(y, j) /\ ~(y = z /\ j = c /\ x = p)
    BY <1>3, <2>1, Zenon
  <2>2. CASE y = z /\ r.order <= j /\ j < c /\ x = p + 2 ^ j
    BY <1>4, <2>2, Zenon
  <2>3. \/ x \in InList(y, j) /\ ~(y = z /\ j = c /\ x = p)
        \/ y = z /\ r.order <= j /\ j < c /\ x = p + 2 ^ j
    BY Zenon DEF ListsTaken
  <2>. QED  BY <2>1, <2>2, <2>3, Zenon
<1>6. IsInjective(free_area'[y][j])
  BY Zenon DEF ListsTaken
<1>. QED  BY <1>5, <1>6, Zenon DEF ListOK

LEMMA TakenLent ==
    ASSUME BuddyInv, NEW r \in Requests, NEW z \in Zone, NEW c \in Order, NEW p \in InList(z, c),
           r.order \in Order, r.order <= c, \E i \in (r.start + 1) .. 3 : z = Prefered[i],
           Taken(z, c, p, r)
    PROVE  /\ head' \subseteq Page /\ low' \in [Page -> Order]
           /\ held' = held \cup {[pfn |-> p, req |-> r]}
           /\ \A b \in held' : LentOK(b)'
           /\ \A h \in head' : \E b \in held' : b.pfn = h
<1>1. /\ p \in Nat /\ p \in Page /\ p \in Frames(p, c)
      /\ \A x \in Frames(p, c) : x \in Page /\ x < MaxPfn
  BY BlockFacts, FrameIn, Zenon
<1>2. p % 2 ^ c = 0 /\ myos_page_zone(p) = z
  BY TypeFacts, Zenon DEF ListOK
<1>3. PICK n : n = [pfn |-> p, req |-> r]
  BY Zenon
<1>4. held' = held \cup {n} /\ n.pfn = p /\ n.req = r
  BY <1>3, Zenon DEF Taken
<1>5. prep_new_page(p, r)
  BY Zenon DEF Taken
<1>6. \A b \in held : b.pfn \in Frames(b.pfn, b.req.order) /\ b.pfn \notin Frames(p, c) /\ b.pfn \in Page
  <2>1. \A b \in held : b.pfn \in Page /\ b.pfn \in Nat /\ b.req.order \in Order
    BY BlockFacts, Zenon
  <2>2. \A b \in held : b.pfn \in Frames(b.pfn, b.req.order)
    BY <2>1, FrameIn, Zenon
  <2>. QED  BY <2>1, <2>2, Separate, Zenon
<1>7. \A b \in held : b.pfn # p
  BY <1>1, <1>6, Zenon
<1>8. p \notin head
  BY <1>7, TypeFacts, Zenon
<1>9. r.order > 0 => p + 1 \in Page
  BY <1>1, TakenPages, Zenon
<1>10. head' \subseteq Page /\ low' \in [Page -> Order]
  BY <1>1, <1>5, TypeFacts DEF prep_new_page
<1>11. ASSUME NEW h \in head' PROVE \E b \in held' : b.pfn = h
  <2>1. h \in head \/ h = p
    BY <1>5, Zenon DEF prep_new_page
  <2>. QED  BY <1>4, <2>1, TypeFacts, Zenon
<1>12. ASSUME NEW b \in held PROVE LentOK(b)'
  <2>1. LentOK(b) /\ b.pfn \in Page /\ b.pfn \in Nat
    BY TypeFacts, BlockFacts, Zenon
  <2>2. b.pfn \in head' <=> b.pfn \in head
    BY <1>5, <1>7, Zenon DEF prep_new_page
  <2>3. b.pfn \in tail' => b.pfn \in tail
    BY <1>6, TakenMeta, Zenon
  <2>4. b.pfn + 1 # p + 1
    BY <1>1, <1>7, <2>1
  <2>5. b.pfn \in head => low'[b.pfn + 1] = low[b.pfn + 1]
    <3>1. low' = low \/ low' = [low EXCEPT ![p + 1] = r.order]
      BY <1>5, Zenon DEF prep_new_page
    <3>2. low \in [Page -> Order] /\ (b.pfn \in head => b.pfn + 1 \in Page)
      BY TypeFacts, SecondPage, Zenon
    <3>. QED  BY <2>4, <3>1, <3>2, Zenon
  <2>. QED  BY <2>1, <2>2, <2>3, <2>5, Zenon DEF LentOK
<1>13. LentOK(n)'
  <2>1. p % 2 ^ r.order = 0
    BY <1>1, <1>2, AlignedBelow, Zenon
  <2>2. p \notin tail'
    BY TakenMeta, Zenon
  <2>3. p \in head' <=> r.comp /\ r.order > 0
    BY <1>5, <1>8, Zenon DEF prep_new_page
  <2>4. p \in head' => low'[p + 1] = r.order
    BY <1>5, <1>9, <2>3, TypeFacts, Zenon DEF prep_new_page
  <2>. QED  BY <1>2, <1>4, <2>1, <2>2, <2>3, <2>4 DEF LentOK
<1>. QED  BY <1>3, <1>4, <1>10, <1>11, <1>12, <1>13

LEMMA TakenBlocks ==
    ASSUME NEW r, NEW z \in Zone, NEW c \in Order, NEW p \in Nat, r.order \in Order,
           ListsTaken(z, c, p, r)
    PROVE  \A k : IsListed(k)' <=>
               \/ IsListed(k) /\ k # Listed(z, c, p)
               \/ \E o \in Order : r.order <= o /\ o < c /\ k = Listed(z, o, p + 2 ^ o)
<1>0. \A y \in Zone, j \in Order : \A x : x \in InList(y, j)' <=>
          \/ x \in InList(y, j) /\ ~(y = z /\ j = c /\ x = p)
          \/ y = z /\ r.order <= j /\ j < c /\ x = p + 2 ^ j
  BY Zenon DEF ListsTaken
<1>1. ASSUME NEW k, IsListed(k)',
             ~ \E o \in Order : r.order <= o /\ o < c /\ k = Listed(z, o, p + 2 ^ o)
      PROVE  IsListed(k) /\ k # Listed(z, c, p)
  <2>1. PICK y \in Zone, j \in Order : \E x \in InList(y, j)' : k = Listed(y, j, x)
    BY <1>1, Zenon DEF IsListed
  <2>2. PICK x \in InList(y, j)' : k = Listed(y, j, x)
    BY <2>1, Zenon
  <2>3. x \in InList(y, j) /\ ~(y = z /\ j = c /\ x = p)
    BY <1>0, <1>1, <2>2, Zenon
  <2>4. IsListed(k)
    BY <2>2, <2>3, Zenon DEF IsListed
  <2>5. k # Listed(z, c, p)
    BY <2>2, <2>3, ListedDiffers
  <2>. QED  BY <2>4, <2>5, Zenon
<1>2. ASSUME NEW k, NEW o \in Order, r.order <= o, o < c, k = Listed(z, o, p + 2 ^ o)
      PROVE  IsListed(k)'
  <2>1. PICK x : x = p + 2 ^ o
    BY Zenon
  <2>2. x \in InList(z, o)'
    BY <1>0, <1>2, <2>1, Zenon
  <2>3. k = Listed(z, o, x)
    BY <1>2, <2>1, Zenon
  <2>. QED  BY <2>2, <2>3, Zenon DEF IsListed
<1>3. ASSUME NEW k, IsListed(k), k # Listed(z, c, p) PROVE IsListed(k)'
  <2>1. PICK y \in Zone, j \in Order : \E x \in InList(y, j) : k = Listed(y, j, x)
    BY <1>3, Zenon DEF IsListed
  <2>2. PICK x \in InList(y, j) : k = Listed(y, j, x)
    BY <2>1, Zenon
  <2>3. ~(y = z /\ j = c /\ x = p)
    BY <1>3, <2>2, Zenon
  <2>4. x \in InList(y, j)'
    BY <1>0, <2>3, Zenon
  <2>. QED  BY <2>2, <2>4, Zenon DEF IsListed
<1>. QED  BY <1>1, <1>2, <1>3, Zenon

LEMMA AllocStep ==
    ASSUME NEW r \in Requests
    PROVE  BuddyInv /\ __myos_alloc_pages(r) => BuddyInv'
<1>. SUFFICES ASSUME BuddyInv, __myos_alloc_pages(r) PROVE BuddyInv'
  BY Zenon
<1>1. PICK z \in Zone, c \in Order, p \in Page :
          /\ p \in InList(z, c)
          /\ r.order \in Order /\ r.order <= c
          /\ \E i \in (r.start + 1) .. 3 : z = Prefered[i]
          /\ Taken(z, c, p, r) /\ ListsTaken(z, c, p, r)
  <2>1. PICK z \in Zone, c \in Order : \E p \in InList(z, c) :
            /\ r.order \in Order /\ r.order <= c
            /\ \E i \in (r.start + 1) .. 3 : z = Prefered[i]
            /\ free_area[z][c] # <<>> /\ p = Head(free_area[z][c])
            /\ Taken(z, c, p, r)
    BY AllocFacts, Zenon
  <2>2. PICK p \in InList(z, c) :
            /\ r.order \in Order /\ r.order <= c
            /\ \E i \in (r.start + 1) .. 3 : z = Prefered[i]
            /\ free_area[z][c] # <<>> /\ p = Head(free_area[z][c])
            /\ Taken(z, c, p, r)
    BY <2>1, Zenon
  <2>3. p \in Page
    BY BlockFacts, Zenon
  <2>4. ListsTaken(z, c, p, r)
    BY <2>2, TakenLists, Zenon
  <2>. QED  BY <2>2, <2>3, <2>4, Zenon
<1>2. p \in Nat
  BY PageFacts, Zenon
<1>3. \A y \in Zone, j \in Order : ListOK(y, j)'
  BY <1>1, TakenListOK, Zenon
<1>4. /\ private' \in [Page -> Order]
      /\ page_type' \in [Page -> SUBSET {"base", "buddy"}]
      /\ \A x \in Page : page_type'[x] \subseteq {"buddy"}
      /\ refd' \subseteq Page /\ zeroed' \subseteq Page /\ tail' \subseteq Page
  BY <1>1, TakenMeta, Zenon
<1>5. /\ head' \subseteq Page /\ low' \in [Page -> Order]
      /\ held' = held \cup {[pfn |-> p, req |-> r]}
      /\ \A b \in held' : LentOK(b)'
      /\ \A h \in head' : \E b \in held' : b.pfn = h
  BY <1>1, TakenLent, Zenon
<1>6. held' \subseteq [pfn : Page, req : Requests]
  BY <1>5, TypeFacts
<1>7. ranges' = ranges /\ start_pfn' = start_pfn /\ result' = "page"
  BY Zenon DEF __myos_alloc_pages
<1>8. /\ FreeRanges(ranges') /\ available' \subseteq Page /\ start_pfn' \in 0 .. MaxPfn
      /\ Given' = Given
  <2>1. FreeRanges(ranges) /\ available \subseteq Page /\ start_pfn \in 0 .. MaxPfn
    BY TypeFacts, RangeFacts
  <2>. QED  BY <1>7, <2>1, Zenon DEF available, Given
<1>9. PICK k, l : k = Listed(z, c, p) /\ l = Lent([pfn |-> p, req |-> r])
  BY Zenon
<1>10. PICK B : B = Cut(z, p, c, r)
  BY Zenon
<1>11. \A a : a \in B <=>
           a = l \/ \E o \in Order : r.order <= o /\ o < c /\ a = Listed(z, o, p + 2 ^ o)
  <2>1. r.order \in Order
    BY <1>1, Zenon
  <2>2. \A a : a \in Cut(z, p, c, r) <=>
            \/ a = Lent([pfn |-> p, req |-> r])
            \/ \E o \in Order : r.order <= o /\ o < c /\ a = Listed(z, o, p + 2 ^ o)
    BY <1>2, <2>1, CutIs
  <2>. QED  BY <1>9, <1>10, <2>2, Zenon
<1>12. \A a : IsListed(a)' <=>
           \/ IsListed(a) /\ a # k
           \/ \E o \in Order : r.order <= o /\ o < c /\ a = Listed(z, o, p + 2 ^ o)
  <2>1. r.order \in Order
    BY <1>1, Zenon
  <2>2. ListsTaken(z, c, p, r)
    BY <1>1, Zenon
  <2>3. \A a : IsListed(a)' <=>
            \/ IsListed(a) /\ a # Listed(z, c, p)
            \/ \E o \in Order : r.order <= o /\ o < c /\ a = Listed(z, o, p + 2 ^ o)
    BY <1>2, <2>1, <2>2, TakenBlocks
  <2>. QED  BY <1>9, <2>3, Zenon
<1>13. \A a : IsLent(a)' <=> IsLent(a) \/ a = l
  BY <1>5, <1>9, Zenon DEF IsLent
<1>14. \A a : IsLent(a) => a # k
  BY <1>9, ListedDiffers DEF IsLent
<1>15. Blocks' = (Blocks \ {k}) \cup B
  <2>1. \A a : a \in Blocks' <=> (a \in Blocks /\ a # k) \/ a \in B
    BY <1>11, <1>12, <1>13, <1>14, BlocksOK, BlocksNext, Zenon DEF BlocksAre
  <2>. QED  BY <2>1, Zenon
<1>16. Cuts((Blocks \ {k}) \cup B, Given)
  <2>1. {k} \subseteq Blocks
    BY <1>1, <1>9, InBlocks, Zenon
  <2>2. k.pfn = p /\ k.order = c
    BY <1>9, ListedDiffers
  <2>3. Cuts({k}, Frames(p, c))
    BY <2>2, CutOne, Zenon
  <2>4. Cuts(B, Frames(p, c))
    BY <1>1, <1>2, <1>10, Expanded, Zenon
  <2>. QED  BY <2>1, <2>3, <2>4, TypeFacts, Recut, Zenon
<1>17. Cuts(Blocks, Given)'
  BY <1>8, <1>15, <1>16, Zenon DEF Cuts
<1>18. BuddyTypeOK'
  <2>1. free_area' \in [Zone -> [Order -> Seq(Page)]]
    BY <1>1, Zenon DEF ListsTaken
  <2>. QED  BY <1>4, <1>5, <1>6, <1>7, <1>8, <2>1 DEF BuddyTypeOK
<1>19. ranges' = {} => start_pfn' = 0
  BY <1>7, TypeFacts, Zenon
<1>. QED  BY <1>3, <1>4, <1>5, <1>8, <1>17, <1>18, <1>19 DEF BuddyInv

-----------------------------------------------------------------------------
(* The invariant *)

LEMMA BuddyInvInit == BuddyInit => BuddyInv
<1>. SUFFICES ASSUME BuddyInit PROVE BuddyInv
  BY Zenon
<1>1. /\ ranges = {} /\ start_pfn = 0 /\ held = {} /\ result = "none"
      /\ free_area = [z \in Zone |-> [o \in Order |-> <<>>]]
      /\ private = [p \in Page |-> 0] /\ low = [p \in Page |-> 0]
      /\ page_type = [p \in Page |-> {}]
      /\ refd = Page /\ head = {} /\ tail = {} /\ zeroed = {}
  BY Zenon DEF BuddyInit, memmap_init, InitialType
<1>2. 0 \in Order /\ MaxPfn \in Nat
  BY BuddyAssumption DEF Order
<1>3. available = {} /\ FreeRanges(ranges)
  BY <1>1, Zenon DEF available, FreeRanges
<1>4. BuddyTypeOK
  BY <1>1, <1>2, <1>3 DEF BuddyTypeOK
<1>5. \A z \in Zone, o \in Order : InList(z, o) = {} /\ ListOK(z, o)
  BY <1>1 DEF InList, ListOK, Range, IsInjective
<1>6. Blocks = {}
  BY <1>1, <1>5, InBlocks, Zenon
<1>7. Given = {}
  BY <1>3, Zenon DEF Given
<1>8. Cuts(Blocks, Given)
  BY <1>6, <1>7, Zenon DEF Cuts
<1>. QED  BY <1>1, <1>3, <1>4, <1>5, <1>8, Zenon DEF BuddyInv

\* The steps that leave the lists and the blocks alone.
LEMMA StillStep ==
    ASSUME BuddyInv, free_area' = free_area, meta' = meta, held' = held, start_pfn' = start_pfn,
           result' \in {"none", "page", "null", "wild"}, FreeRanges(ranges'),
           ranges' = ranges \/ (ranges = {} /\ available' \subseteq Page /\ Given' = Given)
    PROVE  BuddyInv'
<1>1. /\ private' = private /\ page_type' = page_type /\ refd' = refd /\ head' = head
      /\ low' = low /\ tail' = tail /\ zeroed' = zeroed
  BY Zenon DEF meta
<1>2. available' \subseteq Page /\ Given' = Given
  <2>1. available \subseteq Page
    BY TypeFacts, RangeFacts, Zenon
  <2>. QED  BY <2>1, Zenon DEF available, Given
<1>3. BuddyTypeOK'
  BY <1>1, <1>2, Zenon DEF BuddyInv, BuddyTypeOK
<1>4. \A z \in Zone, o \in Order : InList(z, o)' = InList(z, o) /\ ListOK(z, o)'
  BY <1>1, TypeFacts DEF InList, ListOK
<1>5. \A b \in held' : LentOK(b)'
  BY <1>1, TypeFacts, Zenon DEF LentOK
<1>6. \A a : (IsListed(a)' <=> IsListed(a)) /\ (IsLent(a)' <=> IsLent(a))
  BY <1>4, Zenon DEF IsListed, IsLent
<1>7. Blocks' = Blocks
  BY <1>6, BlocksOK, BlocksNext, Zenon DEF BlocksAre
<1>8. Cuts(Blocks, Given)'
  BY <1>2, <1>7, TypeFacts, Zenon DEF Cuts
<1>9. ranges' = {} => start_pfn' = 0
  BY TypeFacts, Zenon
<1>. QED  BY <1>1, <1>3, <1>4, <1>5, <1>8, <1>9, TypeFacts DEF BuddyInv

LEMMA BuddyInvNext == BuddyInv /\ [BuddyNext \/ boot_ranges]_vars => BuddyInv'
<1>. SUFFICES ASSUME BuddyInv, [BuddyNext \/ boot_ranges]_vars PROVE BuddyInv'
  BY Zenon
<1>0. FreeRanges(ranges) /\ result \in {"none", "page", "null", "wild"}
  BY TypeFacts, Zenon
<1>1. CASE memblock_free_pages
  BY <1>1, BootStep, Zenon
<1>2. ASSUME NEW r \in Requests, __myos_alloc_pages(r) PROVE BuddyInv'
  BY <1>2, AllocStep, Zenon
<1>3. ASSUME NEW r \in Requests, alloc_bad_order(r) PROVE BuddyInv'
  BY <1>0, <1>3, StillStep, Zenon DEF alloc_bad_order
<1>4. ASSUME NEW r \in Requests, alloc_exhausted(r) PROVE BuddyInv'
  <2>1. result' \in {"none", "page", "null", "wild"}
    BY <1>4, Zenon DEF alloc_exhausted
  <2>. QED  BY <1>0, <1>4, <2>1, StillStep, Zenon DEF alloc_exhausted
<1>5. ASSUME NEW b \in held, __free_pages(b) PROVE BuddyInv'
  BY <1>5, FreeStep, Zenon
<1>6. CASE boot_ranges
  <2>1. /\ ranges = {} /\ FreeRanges(ranges') /\ start_pfn' = start_pfn
        /\ free_area' = free_area /\ meta' = meta /\ held' = held /\ result' = result
    BY <1>6, Zenon DEF boot_ranges
  <2>2. Given = {}
    BY <2>1, Zenon DEF Given, available
  <2>3. available' \subseteq Page
    <3>1. \A rs : FreeRanges(rs) => UNION {Pfns(s) : s \in rs} \subseteq Page
      <4>. SUFFICES ASSUME NEW rs, FreeRanges(rs), NEW s \in rs, NEW x \in Pfns(s) PROVE x \in Page
        BY Zenon
      <4>1. s \in [start : 0 .. MaxPfn, end : 0 .. MaxPfn]
        BY Zenon DEF FreeRanges
      <4>2. x \in Nat /\ x < MaxPfn
        BY <4>1, BuddyAssumption DEF Pfns
      <4>. QED  BY <4>2, PageFacts, Zenon
    <3>. QED  BY <2>1, <3>1, Zenon DEF available
  <2>4. start_pfn' = 0 /\ \A x \in available' : x \in Nat
    BY <2>1, <2>3, TypeFacts, PageFacts, Zenon
  <2>5. Given' = Given
    BY <2>2, <2>4 DEF Given
  <2>. QED  BY <1>0, <2>1, <2>3, <2>5, StillStep
<1>7. CASE UNCHANGED vars
  BY <1>0, <1>7, StillStep, Zenon DEF vars
<1>. QED  BY <1>1, <1>2, <1>3, <1>4, <1>5, <1>6, <1>7 DEF BuddyNext

\* The invariant of the page allocator.
THEOREM BuddyInvariance == BuddySpec => []BuddyInv
BY BuddyInvInit, BuddyInvNext, PTL DEF BuddySpec

-----------------------------------------------------------------------------
(* What follows from it *)

\* The free blocks of FreeBlock are the entries of the lists.
LEMMA FreeBlockIs ==
    /\ \A f \in FreeBlock :
          \E z \in Zone, o \in Order : \E i \in DOMAIN free_area[z][o] :
              f = [pfn |-> free_area[z][o][i], order |-> o, at |-> <<z, i>>]
    /\ \A z \in Zone, o \in Order : \A i \in DOMAIN free_area[z][o] :
          [pfn |-> free_area[z][o][i], order |-> o, at |-> <<z, i>>] \in FreeBlock
<1>. DEFINE E(z, o, i) == [pfn |-> free_area[z][o][i], order |-> o, at |-> <<z, i>>]
            S(z, o) == {E(z, o, i) : i \in DOMAIN free_area[z][o]}
<1>1. FreeBlock = UNION {S(z, o) : z \in Zone, o \in Order}
  BY DEF FreeBlock
<1>2. \A z, o, f : f \in S(z, o) <=> \E i \in DOMAIN free_area[z][o] : f = E(z, o, i)
  BY Zenon
<1>. HIDE DEF S
<1>3. \A f : f \in FreeBlock <=> \E z \in Zone, o \in Order : f \in S(z, o)
  BY <1>1
<1>. HIDE DEF E
<1>4. \A f \in FreeBlock :
          \E z \in Zone, o \in Order : \E i \in DOMAIN free_area[z][o] : f = E(z, o, i)
  BY <1>2, <1>3
<1>5. \A z \in Zone, o \in Order : \A i \in DOMAIN free_area[z][o] : E(z, o, i) \in FreeBlock
  BY <1>2, <1>3, Zenon
<1>. QED  BY <1>4, <1>5 DEF E

Entry(f, z, o, i) ==
    /\ f = [pfn |-> free_area[z][o][i], order |-> o, at |-> <<z, i>>]
    /\ f.pfn = free_area[z][o][i] /\ f.pfn \in InList(z, o)
    /\ f.order = o /\ f.at = <<z, i>>

LEMMA FreeBlockIn ==
    ASSUME NEW f \in FreeBlock
    PROVE  \E z \in Zone, o \in Order : \E i \in DOMAIN free_area[z][o] :
               Entry(f, z, o, i)
<1>1. PICK z \in Zone, o \in Order : \E i \in DOMAIN free_area[z][o] :
          f = [pfn |-> free_area[z][o][i], order |-> o, at |-> <<z, i>>]
  BY FreeBlockIs, Zenon
<1>2. PICK i \in DOMAIN free_area[z][o] :
          f = [pfn |-> free_area[z][o][i], order |-> o, at |-> <<z, i>>]
  BY <1>1, Zenon
<1>3. f.pfn = free_area[z][o][i] /\ f.order = o /\ f.at = <<z, i>>
  BY <1>2, Zenon
<1>4. f.pfn \in InList(z, o)
  BY <1>3, Zenon DEF InList, Range
<1>. QED  BY <1>2, <1>3, <1>4, Zenon DEF Entry

LEMMA FreePagesAre ==
    \A x : x \in FreePages <=>
        \E z \in Zone, o \in Order : \E p \in InList(z, o) : x \in Frames(p, o)
<1>1. \A x : x \in FreePages <=> \E f \in FreeBlock : x \in Frames(f.pfn, f.order)
  BY Zenon DEF FreePages
<1>2. ASSUME NEW f \in FreeBlock, NEW x \in Frames(f.pfn, f.order)
      PROVE  \E z \in Zone, o \in Order : \E p \in InList(z, o) : x \in Frames(p, o)
  <2>1. PICK z \in Zone, o \in Order : f.pfn \in InList(z, o) /\ f.order = o
    BY FreeBlockIn, Zenon DEF Entry
  <2>2. x \in Frames(f.pfn, o)
    BY <2>1, Zenon
  <2>. QED  BY <2>1, <2>2, Zenon
<1>3. ASSUME NEW z \in Zone, NEW o \in Order, NEW p \in InList(z, o), NEW x \in Frames(p, o)
      PROVE  \E f \in FreeBlock : x \in Frames(f.pfn, f.order)
  <2>1. PICK i \in DOMAIN free_area[z][o] : p = free_area[z][o][i]
    BY Zenon DEF InList, Range
  <2>2. PICK f \in FreeBlock : f = [pfn |-> free_area[z][o][i], order |-> o, at |-> <<z, i>>]
    BY FreeBlockIs, Zenon
  <2>3. f.pfn = p /\ f.order = o
    BY <2>1, <2>2, Zenon
  <2>. QED  BY <2>3, Zenon
<1>. QED  BY <1>1, <1>2, <1>3, Zenon

LEMMA HeldPagesAre ==
    \A x : x \in HeldPages <=> \E b \in held : x \in Frames(b.pfn, b.req.order)
BY Zenon DEF HeldPages

LEMMA Conserved == BuddyInv => PagesConserved
<1>. SUFFICES ASSUME BuddyInv PROVE PagesConserved
  BY Zenon
<1>1. \A x : x \in Given <=> x \in FreePages \/ x \in HeldPages
  BY FreePagesAre, HeldPagesAre, BlockFacts, Zenon
<1>2. FreePages \cup HeldPages = {p \in available : p < start_pfn}
  BY <1>1, Zenon DEF Given
<1>3. FreePages \cap HeldPages = {}
  <2>1. ASSUME NEW x \in FreePages, x \in HeldPages PROVE FALSE
    <3>1. PICK z \in Zone, o \in Order : \E p \in InList(z, o) : x \in Frames(p, o)
      BY FreePagesAre, Zenon
    <3>2. PICK p \in InList(z, o) : x \in Frames(p, o)
      BY <3>1, Zenon
    <3>3. PICK b \in held : x \in Frames(b.pfn, b.req.order)
      BY <2>1, HeldPagesAre, Zenon
    <3>. QED  BY <3>2, <3>3, BlockFacts, Zenon
  <2>. QED  BY <2>1, Zenon
<1>4. ASSUME NEW f \in FreeBlock, NEW g \in FreeBlock, f # g
      PROVE  Frames(f.pfn, f.order) \cap Frames(g.pfn, g.order) = {}
  <2>1. SUFFICES ASSUME NEW x, x \in Frames(f.pfn, f.order), x \in Frames(g.pfn, g.order) PROVE FALSE
    BY Zenon
  <2>. PICK z \in Zone, o \in Order : \E i \in DOMAIN free_area[z][o] : Entry(f, z, o, i)
    BY FreeBlockIn, Zenon
  <2>. PICK i \in DOMAIN free_area[z][o] : Entry(f, z, o, i)
    BY Zenon
  <2>2. /\ f = [pfn |-> free_area[z][o][i], order |-> o, at |-> <<z, i>>]
        /\ f.pfn = free_area[z][o][i] /\ f.pfn \in InList(z, o) /\ f.order = o
    BY Zenon DEF Entry
  <2>. PICK y \in Zone, j \in Order : \E k \in DOMAIN free_area[y][j] : Entry(g, y, j, k)
    BY FreeBlockIn, Zenon
  <2>. PICK k \in DOMAIN free_area[y][j] : Entry(g, y, j, k)
    BY Zenon
  <2>3. /\ g = [pfn |-> free_area[y][j][k], order |-> j, at |-> <<y, k>>]
        /\ g.pfn = free_area[y][j][k] /\ g.pfn \in InList(y, j) /\ g.order = j
    BY Zenon DEF Entry
  <2>4. x \in Frames(f.pfn, o) /\ x \in Frames(g.pfn, j)
    BY <2>1, <2>2, <2>3, Zenon
  <2>5. z = y /\ o = j /\ f.pfn = g.pfn
    <3>1. f.pfn \in InList(z, o) /\ g.pfn \in InList(y, j)
      BY <2>2, <2>3, Zenon
    <3>. QED  BY <2>4, <3>1, Separate
  <2>6. IsInjective(free_area[z][o])
    BY TypeFacts, Zenon DEF ListOK
  <2>7. i = k
    BY <2>2, <2>3, <2>5, <2>6, Zenon DEF IsInjective
  <2>. QED  BY <1>4, <2>2, <2>3, <2>5, <2>7
<1>5. ASSUME NEW b \in held, NEW c \in held, b # c
      PROVE  Frames(b.pfn, b.req.order) \cap Frames(c.pfn, c.req.order) = {}
  BY <1>5, BlockFacts, Zenon
<1>. QED  BY <1>2, <1>3, <1>4, <1>5, Zenon DEF PagesConserved

\* With any memory map and for any requests, every frame that memblock has handed over
\* is in exactly one place, one free block or one block that a caller holds, whatever
\* is allocated, split by expand() and freed.
THEOREM BuddyConserves == BuddySpec => []PagesConserved
BY BuddyInvariance, Conserved, PTL

\* With any memory map and any zones, a free block is listed in the zone of all its
\* frames under the order its first page records, and __myos_alloc_pages() serves a
\* request from a zone that its GFP flags allow.
THEOREM BuddyRespectsZones == BuddySpec => []ZonesRespected
<1>1. BuddyInv => ZonesRespected
  <2>. SUFFICES ASSUME BuddyInv PROVE ZonesRespected
    OBVIOUS
  <2>1. ASSUME NEW f \in FreeBlock
        PROVE  /\ private[f.pfn] = f.order
               /\ \A x \in Frames(f.pfn, f.order) : myos_page_zone(x) = f.at[1]
    <3>1. PICK z \in Zone, o \in Order :
              f.pfn \in InList(z, o) /\ f.order = o /\ f.at[1] = z
      BY FreeBlockIn DEF Entry
    <3>2. PICK p \in InList(z, o) : p = f.pfn
      BY <3>1, Zenon
    <3>3. /\ p \in Nat /\ p % 2 ^ o = 0 /\ myos_page_zone(p) = z /\ private[p] = o
          /\ \A x \in Frames(p, o) : x < MaxPfn
      BY TypeFacts, BlockFacts DEF ListOK
    <3>4. \A x \in Frames(p, o) : myos_page_zone(x) = z
      BY <3>3, OneZone, Zenon
    <3>. QED  BY <3>1, <3>2, <3>3, <3>4, Zenon
  <2>2. ASSUME NEW b \in held, NEW x \in Frames(b.pfn, b.req.order)
        PROVE  \E i \in (b.req.start + 1) .. 3 : myos_page_zone(x) = Prefered[i]
    <3>1. LentOK(b) /\ b.pfn \in Nat /\ b.req.order \in Order /\ x < MaxPfn
      BY TypeFacts, BlockFacts, Zenon
    <3>2. myos_page_zone(x) = myos_page_zone(b.pfn)
      BY <3>1, OneZone DEF LentOK
    <3>. QED  BY <3>1, <3>2, Zenon DEF LentOK
  <2>. QED  BY <2>1, <2>2, Zenon DEF ZonesRespected
<1>. QED  BY <1>1, BuddyInvariance, PTL

\* With any memory map and for any requests, folio_order() of a block that was made
\* compound, or is a single page, is the order it was allocated with, which is what
\* kfree(), free_slab() and pagetable_free() give back.
THEOREM BuddyKnowsOrders == BuddySpec => []OrderIsKnown
<1>1. BuddyInv => OrderIsKnown
  <2>. SUFFICES ASSUME BuddyInv, NEW b \in held
                PROVE  /\ b.req.comp \/ b.req.order = 0 => folio_order(b.pfn) = b.req.order
                       /\ b.pfn \notin tail
    BY Zenon DEF OrderIsKnown
  <2>1. LentOK(b)
    BY TypeFacts, Zenon
  <2>2. ASSUME b.req.comp \/ b.req.order = 0 PROVE folio_order(b.pfn) = b.req.order
    BY <2>2, FolioOrder, Zenon
  <2>. QED  BY <2>1, <2>2, Zenon DEF LentOK
<1>. QED  BY <1>1, BuddyInvariance, PTL

-----------------------------------------------------------------------------
(* The refinement of PageAlloc *)

absHeld == {<<b.pfn, b.req.order>> : b \in held}

LEMMA AbsHeldIs == \A h : h \in absHeld <=> \E b \in held : h = <<b.pfn, b.req.order>>
BY Zenon DEF absHeld

\* The frames that PageAlloc takes to be held.
LEMMA AbsHeldPages == Abstract!Held = HeldPages
<1>1. ASSUME NEW x \in HeldPages PROVE x \in Abstract!Held
  <2>1. PICK b \in held : x \in Frames(b.pfn, b.req.order)
    BY HeldPagesAre, Zenon
  <2>2. PICK h \in absHeld : h = <<b.pfn, b.req.order>>
    BY AbsHeldIs, Zenon
  <2>3. x \in Abstract!Frames(h[1], h[2])
    BY <2>1, <2>2, Zenon DEF Frames, Abstract!Frames
  <2>. QED  BY <2>3, Zenon DEF Abstract!Held, absHeld
<1>2. ASSUME NEW x \in Abstract!Held PROVE x \in HeldPages
  <2>1. PICK h \in absHeld : x \in Abstract!Frames(h[1], h[2])
    BY Zenon DEF Abstract!Held, absHeld
  <2>2. PICK b \in held : h = <<b.pfn, b.req.order>>
    BY AbsHeldIs, Zenon
  <2>3. x \in Frames(b.pfn, b.req.order)
    BY <2>1, <2>2, Zenon DEF Frames, Abstract!Frames
  <2>. QED  BY <2>3, HeldPagesAre, Zenon
<1>. QED  BY <1>1, <1>2, Zenon

ConservedPoint ==
    \A x : x \in FreePages <=> x \in Given /\ x \notin HeldPages

LEMMA FreeIsRest == BuddyInv => ConservedPoint
<1>. SUFFICES ASSUME BuddyInv PROVE ConservedPoint
  OBVIOUS
<1>1. FreePages \cup HeldPages = Given /\ FreePages \cap HeldPages = {}
  BY Conserved, Zenon DEF PagesConserved, Given
<1>. QED  BY <1>1, Zenon DEF ConservedPoint

LEMMA FreeIsRestNext == BuddyInv' => ConservedPoint'
BY FreeIsRest, PTL

LEMMA AbsHeldNext == \A h : h \in absHeld' <=> \E b \in held' : h = <<b.pfn, b.req.order>>
BY Zenon DEF absHeld

LEMMA HeldPagesNext ==
    \A x : x \in HeldPages' <=> \E b \in held' : x \in Frames(b.pfn, b.req.order)
BY Zenon DEF HeldPages, Frames

LEMMA SameFrames == \A p, o : Abstract!Frames(p, o) = Frames(p, o)
BY Zenon DEF Frames, Abstract!Frames

\* A chunk that memblock hands over is released to the abstract allocator.
LEMMA BootReleases ==
    ASSUME BuddyInv, BuddyInv', memblock_free_pages
    PROVE  \E p \in Page, o \in Order : Abstract!Release(Frames(p, o))
<1>1. PICK p \in Page, o \in Order :
          (\A x \in Frames(p, o) : x \notin Given) /\ Given' = Given \cup Frames(p, o)
  BY BootFacts, Zenon
<1>2. held' = held /\ HeldPages' = HeldPages /\ absHeld' = absHeld
  BY Zenon DEF memblock_free_pages, HeldPages, absHeld, Frames
<1>3. \A x \in HeldPages : x \in Given
  BY HeldPagesAre, BlockFacts, Zenon
<1>4. \A x : x \in FreePages <=> x \in Given /\ x \notin HeldPages
  BY FreeIsRest, Zenon DEF ConservedPoint
<1>5. \A x : x \in FreePages' <=> x \in Given' /\ x \notin HeldPages
  BY <1>2, FreeIsRestNext, Zenon DEF ConservedPoint
<1>6. Frames(p, o) \cap (FreePages \cup Abstract!Held) = {}
  BY <1>1, <1>3, <1>4, AbsHeldPages
<1>7. FreePages' = FreePages \cup Frames(p, o)
  BY <1>1, <1>3, <1>4, <1>5
<1>. QED  BY <1>2, <1>6, <1>7, Zenon DEF Abstract!Release, absHeld

\* An allocation takes an aligned block of free frames.
LEMMA AllocTakes ==
    ASSUME BuddyInv, BuddyInv', NEW r \in Requests, __myos_alloc_pages(r)
    PROVE  \E p \in FreePages, o \in Order : Abstract!Take(p, o)
<1>1. PICK z \in Zone, c \in Order : \E p \in InList(z, c) :
          r.order \in Order /\ r.order <= c /\ Taken(z, c, p, r)
  BY AllocFacts, Zenon
<1>2. PICK p \in InList(z, c) : r.order \in Order /\ r.order <= c /\ Taken(z, c, p, r)
  BY <1>1, Zenon
<1>. PICK o \in Order : o = r.order
  BY <1>2, Zenon
<1>3. PICK n : n = [pfn |-> p, req |-> r]
  BY Zenon
<1>4. /\ held' = held \cup {n} /\ n.pfn = p /\ n.req = r /\ n.req.order = o
  BY <1>2, <1>3, Zenon DEF Taken
<1>5. p \in Nat /\ Frames(p, c) \subseteq FreePages
  BY FreePagesAre, BlockFacts, Zenon
<1>6. p % 2 ^ o = 0
  <2>1. LentOK(n)'
    BY <1>4, Zenon DEF BuddyInv
  <2>. QED  BY <1>4, <2>1, Zenon DEF LentOK
<1>7. p \in Frames(p, o) /\ Frames(p, o) \subseteq Frames(p, c)
  BY <1>2, <1>3, <1>5, TakenPages, FrameIn
<1>8. Given' = Given
  BY Zenon DEF __myos_alloc_pages, Given, available
<1>9. \A x : x \in HeldPages' <=> x \in HeldPages \/ x \in Frames(p, o)
  BY <1>4, HeldPagesAre, HeldPagesNext
<1>10. \A h : h \in absHeld' <=> h \in absHeld \/ h = <<p, o>>
  BY <1>4, AbsHeldIs, AbsHeldNext
<1>11. FreePages' = FreePages \ Frames(p, o)
  BY <1>8, <1>9, FreeIsRest, FreeIsRestNext DEF ConservedPoint
<1>12. absHeld' = absHeld \cup {<<p, o>>}
  BY <1>10, Zenon
<1>13. Abstract!Frames(p, o) = Frames(p, o)
  BY SameFrames, Zenon
<1>14. Abstract!Take(p, o)
  BY <1>5, <1>6, <1>7, <1>11, <1>12, <1>13 DEF Abstract!Take, absHeld
<1>. QED  BY <1>5, <1>7, <1>14

\* A free gives the block back whole.
LEMMA FreeGives ==
    ASSUME BuddyInv, BuddyInv', NEW b \in held, __free_pages(b)
    PROVE  \E h \in absHeld : Abstract!Give(h[1], h[2])
<1>1. held' = held \ {b} /\ Given' = Given
  BY Zenon DEF __free_pages, Given, available
<1>2. PICK p \in Page, o \in Order : p = b.pfn /\ o = b.req.order
  BY BlockFacts, Zenon
<1>3. p \in Frames(p, o)
  BY <1>2, BlockFacts, FrameIn
<1>4. \A d \in held : p \in Frames(d.pfn, d.req.order) => d = b
  BY <1>2, <1>3, BlockFacts, Zenon
<1>5. \A x : x \in HeldPages' <=> x \in HeldPages /\ x \notin Frames(p, o)
  BY <1>1, <1>2, BlockFacts, HeldPagesAre, HeldPagesNext, Zenon
<1>6. \A x \in Frames(p, o) : x \in Given /\ x \in HeldPages
  BY <1>2, BlockFacts, HeldPagesAre
<1>7. FreePages' = FreePages \cup Frames(p, o)
  BY <1>1, <1>5, <1>6, FreeIsRest, FreeIsRestNext DEF ConservedPoint
<1>8. PICK h : h = <<p, o>>
  BY Zenon
<1>9. h \in absHeld
  BY <1>2, <1>8, AbsHeldIs
<1>10. \A d \in held : h = <<d.pfn, d.req.order>> => d = b
  BY <1>3, <1>4, <1>8
<1>11. \A g : g \in absHeld' <=> g \in absHeld /\ g # h
  BY <1>1, <1>2, <1>8, <1>10, AbsHeldIs, AbsHeldNext
<1>12. absHeld' = absHeld \ {<<p, o>>}
  BY <1>8, <1>11, Zenon
<1>13. Abstract!Give(p, o)
  BY <1>7, <1>8, <1>9, <1>12, SameFrames, Zenon DEF Abstract!Give, absHeld
<1>14. h[1] = p /\ h[2] = o
  BY <1>8, Zenon
<1>. QED  BY <1>9, <1>13, <1>14

LEMMA AbstractInit == BuddyInit => Abstract!PageAllocInit
<1>. SUFFICES ASSUME BuddyInit PROVE Abstract!PageAllocInit
  OBVIOUS
<1>1. held = {} /\ \A z \in Zone, o \in Order : free_area[z][o] = <<>>
  BY Zenon DEF BuddyInit, memmap_init
<1>2. \A z \in Zone, o \in Order : InList(z, o) = {}
  BY <1>1 DEF InList, Range
<1>3. FreePages = {}
  BY <1>2, FreePagesAre, Zenon
<1>. QED  BY <1>1, <1>3, Zenon DEF Abstract!PageAllocInit

LEMMA AbstractStep ==
    BuddyInv /\ BuddyInv' /\ [BuddyNext \/ boot_ranges]_vars =>
        [Abstract!PageAllocNext]_<<FreePages, {<<b.pfn, b.req.order>> : b \in held}>>
<1>. SUFFICES ASSUME BuddyInv, BuddyInv', [BuddyNext \/ boot_ranges]_vars
              PROVE  [Abstract!PageAllocNext]_<<FreePages, absHeld>>
  BY Zenon DEF absHeld
<1>1. CASE memblock_free_pages
  <2>1. PICK p \in Page, o \in Order : Abstract!Release(Frames(p, o))
    BY <1>1, BootReleases, Zenon
  <2>2. Abstract!Release(Abstract!Frames(p, o))
    BY <2>1, SameFrames, Zenon
  <2>. QED  BY <2>2, Zenon DEF Abstract!PageAllocNext, Order
<1>2. ASSUME NEW r \in Requests, __myos_alloc_pages(r) PROVE Abstract!PageAllocNext
  <2>1. PICK p \in FreePages, o \in Order : Abstract!Take(p, o)
    BY <1>2, AllocTakes, Zenon
  <2>. QED  BY <2>1, Zenon DEF Abstract!PageAllocNext, Order
<1>3. ASSUME NEW b \in held, __free_pages(b) PROVE Abstract!PageAllocNext
  <2>1. PICK h \in absHeld : Abstract!Give(h[1], h[2])
    BY <1>3, FreeGives
  <2>. QED  BY <2>1, Zenon DEF Abstract!PageAllocNext, absHeld
<1>4. ASSUME free_area' = free_area, held' = held PROVE UNCHANGED <<FreePages, absHeld>>
  BY <1>4 DEF FreePages, FreeBlock, Frames, absHeld
<1>5. ASSUME NEW r \in Requests, alloc_bad_order(r) \/ alloc_exhausted(r)
      PROVE  free_area' = free_area /\ held' = held
  BY <1>5, Zenon DEF alloc_bad_order, alloc_exhausted
<1>6. CASE boot_ranges \/ UNCHANGED vars
  BY <1>4, <1>6, Zenon DEF boot_ranges, vars
<1>. QED  BY <1>1, <1>2, <1>3, <1>4, <1>5, <1>6 DEF BuddyNext

\* The lists, the splitting and the freeing of the buddy allocator implement the
\* abstract allocator of PageAlloc with any memory map, zones and requests: what
\* __myos_alloc_pages() hands out is a naturally aligned block of free frames, and
\* __free_pages() gives back exactly the frames that were handed out.
THEOREM BuddyImplementsPageAlloc == BuddySpec => IsPageAlloc
<1>. QED  BY BuddyInvariance, AbstractInit, AbstractStep, PTL
           DEF BuddySpec, IsPageAlloc, Abstract!PageAllocSpec
=============================================================================
