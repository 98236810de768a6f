----------------------------- MODULE SlubProofs -----------------------------
(***************************************************************************)
(* The cache of Slub on any memory, for any number of tasks and objects:   *)
(* every listed slab tells the truth about its objects, and no slab is     *)
(* lost, up to the moment when one is discarded in use.                    *)
(***************************************************************************)
EXTENDS Slub, FiniteSetTheorems, TLAPS

-----------------------------------------------------------------------------
(* The inductive invariant *)

SlubTypes ==
    /\ partial \in Seq(Frame) /\ full \in Seq(Frame)
    /\ inuse \in [Frame -> Nat] /\ freelist \in [Frame -> Seq(1..Objects)]
    /\ PG_slab \subseteq Frame
    /\ live \subseteq Frame \X (0..Objects)
    /\ pc \in [Task -> SlubPc] /\ slab \in [Task -> Frame \cup {NoSlab}]
    /\ broken \in BOOLEAN

ListsOK ==
    /\ IsInjective(partial) /\ IsInjective(full)
    /\ \A s \in Range(partial) : s \notin Range(full)

\* The freelist and the callers share the objects of s.
Shares(s) ==
    /\ IsInjective(freelist[s])
    /\ \A i \in 1..Objects : <<s, i>> \in live <=> i \notin Range(freelist[s])
    /\ IsFiniteSet(ObjectsOf(s))
    /\ inuse[s] = Cardinality(ObjectsOf(s)) /\ inuse[s] + Len(freelist[s]) = Objects

SlabOK(s) == Shares(s) /\ (s \in Range(full) <=> inuse[s] = Objects)

\* A task has a slab from alloc_init_new_slab() to online_new_empty_slab(), when
\* nobody else knows it, and from free_to_partial_list() to the end of slab_free().
NoSlabPc == {"run", "alloc", "new"}

TaskOK(t) ==
    /\ pc[t] \in NoSlabPc => slab[t] = NoSlab
    /\ pc[t] \notin NoSlabPc => slab[t] \in PG_slab
    /\ pc[t] = "online" =>
           /\ slab[t] \notin Listed /\ inuse[slab[t]] = 0
           /\ \A u \in Task \ {t} : slab[u] # slab[t]

\* A slab that is not listed is with a task that will list it or give it back.
SlabOwned(s) == s \in Listed \/ \E t \in Task : pc[t] \in {"online", "discard"} /\ slab[t] = s

\* kfree() tells the blocks from the objects of slabs by PG_slab.
ObjectOK(o) == o[2] = 0 <=> o[1] \notin PG_slab

HeldOK ==
    held = {<<s, SlabOrder>> : s \in PG_slab}
               \cup {<<o[1], LargeOrder>> : o \in {x \in live : x[2] = 0}}

\* The page allocator has handed out every block once.
BlocksOK ==
    /\ \A h \in held : Frames(h[1], h[2]) \cap free = {}
    /\ \A h, k \in held : h # k => Frames(h[1], h[2]) \cap Frames(k[1], k[2]) = {}

WholeOK ==
    /\ Listed \subseteq PG_slab
    /\ \A s \in PG_slab : SlabOK(s) /\ SlabOwned(s)
    /\ \A t \in Task : TaskOK(t)
    /\ \A o \in live : ObjectOK(o)
    /\ HeldOK /\ BlocksOK

SlubInv ==
    /\ SlubTypes /\ ListsOK
    /\ \A s \in Listed : SlabOK(s)
    /\ ~broken => WholeOK

-----------------------------------------------------------------------------
(* Lists: sequences without repetitions *)

\* Taking the head off a queue without repetitions.
LEMMA TailQueue ==
    ASSUME NEW S, NEW q \in Seq(S), q # <<>>, IsInjective(q)
    PROVE  /\ Head(q) \in S /\ Tail(q) \in Seq(S)
           /\ IsInjective(Tail(q))
           /\ Range(Tail(q)) = Range(q) \ {Head(q)}
           /\ Head(q) \in Range(q)
<1>1. /\ Head(q) = q[1] /\ Len(q) \in Nat \ {0} /\ DOMAIN q = 1..Len(q)
      /\ Tail(q) \in Seq(S) /\ Len(Tail(q)) = Len(q) - 1
      /\ \A i \in 1..(Len(q) - 1) : Tail(q)[i] = q[i+1]
  OBVIOUS
<1>2. DOMAIN Tail(q) = 1..(Len(q) - 1)
  BY <1>1
<1>3. IsInjective(Tail(q))
  BY <1>1, <1>2 DEF IsInjective
<1>4. Range(Tail(q)) = Range(q) \ {Head(q)}
  <2>1. ASSUME NEW x \in Range(Tail(q)) PROVE x \in Range(q) \ {Head(q)}
    BY <2>1, <1>1, <1>2 DEF Range, IsInjective
  <2>2. ASSUME NEW x \in Range(q) \ {Head(q)} PROVE x \in Range(Tail(q))
    <3>1. PICK i \in DOMAIN q : q[i] = x
      BY <2>2 DEF Range
    <3>2. i - 1 \in DOMAIN Tail(q) /\ Tail(q)[i-1] = x
      BY <3>1, <2>2, <1>1, <1>2
    <3>. QED  BY <3>2 DEF Range
  <2>. QED  BY <2>1, <2>2
<1>5. Head(q) \in S /\ Head(q) \in Range(q)
  <2>1. 1 \in DOMAIN q
    BY <1>1
  <2>. QED  BY <2>1, <1>1 DEF Range
<1>. QED  BY <1>1, <1>3, <1>4, <1>5

\* Adding an entry in front; named, so that the provers use the lemma.
Push(q, x) == <<x>> \o q

LEMMA PushQueue ==
    ASSUME NEW S, NEW q \in Seq(S), IsInjective(q), NEW x \in S, x \notin Range(q)
    PROVE  /\ Push(q, x) \in Seq(S)
           /\ Len(Push(q, x)) = Len(q) + 1
           /\ IsInjective(Push(q, x))
           /\ \A y : y \in Range(Push(q, x)) <=> y \in Range(q) \/ y = x
<1>. DEFINE r == <<x>> \o q
<1>1. /\ r \in Seq(S) /\ DOMAIN r = 1..(Len(q) + 1) /\ DOMAIN q = 1..Len(q)
      /\ Len(q) \in Nat /\ Len(r) = Len(q) + 1 /\ r[1] = x
      /\ \A i \in 1..Len(q) : r[i+1] = q[i]
  OBVIOUS
<1>2. \A i \in 2..(Len(q) + 1) : i - 1 \in DOMAIN q /\ r[i] = q[i-1]
  BY <1>1
<1>. HIDE DEF r
<1>3. IsInjective(r)
  <2>. SUFFICES ASSUME NEW i \in DOMAIN r, NEW j \in DOMAIN r, r[i] = r[j] PROVE i = j
    BY DEF IsInjective
  <2>1. CASE i = 1
    BY <2>1, <1>1, <1>2 DEF Range
  <2>2. CASE j = 1
    BY <2>2, <1>1, <1>2 DEF Range
  <2>3. CASE i # 1 /\ j # 1
    <3>1. q[i-1] = q[j-1] /\ i - 1 \in DOMAIN q /\ j - 1 \in DOMAIN q
      BY <2>3, <1>1, <1>2
    <3>2. i - 1 = j - 1
      BY <3>1 DEF IsInjective
    <3>. QED  BY <3>2, <1>1
  <2>. QED  BY <2>1, <2>2, <2>3
<1>4. Range(r) = Range(q) \cup {x}
  <2>1. ASSUME NEW y \in Range(r) PROVE y \in Range(q) \cup {x}
    <3>1. PICK i \in DOMAIN r : r[i] = y
      BY <2>1 DEF Range
    <3>2. CASE i = 1
      BY <3>1, <3>2, <1>1
    <3>3. CASE i # 1
      <4>1. i - 1 \in DOMAIN q /\ q[i-1] = y
        BY <3>1, <3>3, <1>1, <1>2
      <4>. QED  BY <4>1 DEF Range
    <3>. QED  BY <3>2, <3>3
  <2>2. ASSUME NEW y \in Range(q) PROVE y \in Range(r)
    <3>1. PICK i \in DOMAIN q : q[i] = y
      BY <2>2 DEF Range
    <3>2. i + 1 \in DOMAIN r /\ r[i+1] = y
      BY <3>1, <1>1
    <3>. QED  BY <3>2 DEF Range
  <2>3. x \in Range(r)
    <3>1. 1 \in DOMAIN r
      BY <1>1
    <3>. QED  BY <3>1, <1>1, Zenon DEF Range
  <2>. QED  BY <2>1, <2>2, <2>3
<1>. QED  BY <1>1, <1>3, <1>4, Zenon DEF r, Push

\* list_header_delete_node() takes exactly the slab off.
LEMMA DeleteQueue ==
    ASSUME NEW S, NEW q \in Seq(S), IsInjective(q), NEW t
    PROVE  /\ DeleteSlab(q, t) \in Seq(S)
           /\ IsInjective(DeleteSlab(q, t))
           /\ Range(DeleteSlab(q, t)) = Range(q) \ {t}
<1>1. CASE t \notin Range(q)
  BY <1>1, Zenon DEF DeleteSlab
<1>2. CASE t \in Range(q)
  <2>. DEFINE i == CHOOSE i \in DOMAIN q : q[i] = t
              r == [j \in 1..(Len(q) - 1) |-> IF j < i THEN q[j] ELSE q[j + 1]]
  <2>1. i \in DOMAIN q /\ q[i] = t
    BY <1>2, Zenon DEF Range
  <2>2. DeleteSlab(q, t) = r
    BY <1>2, Zenon DEF DeleteSlab
  <2>. HIDE DEF i
  <2>3. Len(q) \in Nat \ {0} /\ DOMAIN q = 1..Len(q) /\ i \in 1..Len(q)
    BY <2>1
  <2>4. r \in Seq(S)
    BY <2>3
  <2>5. /\ DOMAIN r = 1..(Len(q) - 1)
        /\ \A j \in 1..(Len(q) - 1) : r[j] = IF j < i THEN q[j] ELSE q[j + 1]
    BY Zenon
  <2>. HIDE DEF r
  <2>6. IsInjective(r)
    <3>. SUFFICES ASSUME NEW j \in 1..(Len(q) - 1), NEW k \in 1..(Len(q) - 1), r[j] = r[k]
                  PROVE  j = k
      BY <2>5, Zenon DEF IsInjective
    <3>. DEFINE at(n) == IF n < i THEN n ELSE n + 1
    <3>1. at(j) \in DOMAIN q /\ at(k) \in DOMAIN q /\ q[at(j)] = q[at(k)]
      BY <2>3, <2>5
    <3>2. at(j) = at(k)
      BY <3>1, Zenon DEF IsInjective
    <3>. QED  BY <3>2, <2>3
  <2>7. Range(r) = Range(q) \ {t}
    <3>1. ASSUME NEW x \in Range(r) PROVE x \in Range(q) \ {t}
      <4>1. PICK j \in 1..(Len(q) - 1) : r[j] = x
        BY <3>1, <2>5, Zenon DEF Range
      <4>2. CASE j < i
        BY <4>1, <4>2, <2>1, <2>3, <2>5 DEF Range, IsInjective
      <4>3. CASE ~(j < i)
        <5>1. j + 1 \in DOMAIN q /\ j + 1 # i /\ x = q[j + 1]
          BY <4>1, <4>3, <2>3, <2>5
        <5>. QED  BY <5>1, <2>1, Zenon DEF Range, IsInjective
      <4>. QED  BY <4>2, <4>3, Zenon
    <3>2. ASSUME NEW x \in Range(q) \ {t} PROVE x \in Range(r)
      <4>1. PICK k \in 1..Len(q) : q[k] = x
        BY <3>2, <2>3, Zenon DEF Range
      <4>2. CASE k < i
        BY <4>1, <4>2, <2>3, <2>5 DEF Range
      <4>3. CASE k > i
        <5>1. k - 1 \in DOMAIN r /\ r[k - 1] = x
          BY <4>1, <4>3, <2>3, <2>5
        <5>. QED  BY <5>1, Zenon DEF Range
      <4>. QED  BY <4>1, <4>2, <4>3, <3>2, <2>1, <2>3
    <3>. QED  BY <3>1, <3>2, Zenon
  <2>. QED  BY <2>2, <2>4, <2>6, <2>7, Zenon
<1>. QED  BY <1>1, <1>2, Zenon

-----------------------------------------------------------------------------
(* The objects of one slab *)

\* A slab that a step leaves alone.
LEMMA SlabKept ==
    ASSUME NEW s, SlabOK(s), freelist'[s] = freelist[s], inuse'[s] = inuse[s],
           \A i \in 1..Objects : <<s, i>> \in live' <=> <<s, i>> \in live,
           ObjectsOf(s)' = ObjectsOf(s),
           s \in Range(full') <=> s \in Range(full)
    PROVE  SlabOK(s)'
BY Zenon DEF SlabOK, Shares

\* alloc_single_from_partial(): the first free object goes to the caller.
LEMMA AllocObject ==
    ASSUME SlubTypes, NEW s \in Frame, Shares(s), inuse[s] # Objects,
           live' = live \cup {<<s, Head(freelist[s])>>},
           freelist' = [freelist EXCEPT ![s] = Tail(@)],
           inuse' = [inuse EXCEPT ![s] = @ + 1]
    PROVE  /\ Head(freelist[s]) \in 1..Objects
           /\ <<s, Head(freelist[s])>> \notin live
           /\ freelist' \in [Frame -> Seq(1..Objects)] /\ inuse' \in [Frame -> Nat]
           /\ Shares(s)'
<1>. DEFINE q == freelist[s]
            i == Head(q)
            O == ObjectsOf(s)
<1>1. /\ q \in Seq(1..Objects) /\ inuse[s] \in Nat /\ IsInjective(q)
      /\ IsFiniteSet(O) /\ inuse[s] = Cardinality(O) /\ inuse[s] + Len(q) = Objects
      /\ \A j \in 1..Objects : <<s, j>> \in live <=> j \notin Range(q)
  BY Zenon DEF SlubTypes, Shares
<1>2. q # <<>>
  BY <1>1, SlubAssumption
<1>3. /\ i \in 1..Objects /\ i \in Range(q)
      /\ Tail(q) \in Seq(1..Objects) /\ IsInjective(Tail(q)) /\ Range(Tail(q)) = Range(q) \ {i}
  BY <1>1, <1>2, TailQueue, Zenon
<1>4. Len(Tail(q)) = Len(q) - 1
  BY <1>1, <1>2
<1>5. freelist'[s] = Tail(q) /\ inuse'[s] = inuse[s] + 1
  BY Zenon DEF SlubTypes
<1>6. <<s, i>> \notin live
  BY <1>1, <1>3, Zenon
<1>7. O' = O \cup {<<s, i>>} /\ <<s, i>> \notin O
  <2>. HIDE DEF i
  <2>1. i # 0 /\ live' = live \cup {<<s, i>>}
    BY <1>3, SlubAssumption DEF i
  <2>. QED  BY <2>1, <1>6 DEF ObjectsOf
<1>8. IsFiniteSet(O') /\ Cardinality(O') = Cardinality(O) + 1
  <2>. HIDE DEF O
  <2>1. /\ IsFiniteSet(O \cup {<<s, i>>})
        /\ Cardinality(O \cup {<<s, i>>}) = IF <<s, i>> \in O THEN Cardinality(O) ELSE Cardinality(O)+1
    BY <1>1, FS_AddElement, Zenon
  <2>. QED  BY <2>1, <1>7, Zenon
<1>9. \A j \in 1..Objects : <<s, j>> \in live' <=> j \notin Range(Tail(q))
  <2>. HIDE DEF i, q
  <2>1. ASSUME NEW j \in 1..Objects PROVE <<s, j>> \in live' <=> <<s, j>> \in live \/ j = i
    BY DEF i, q
  <2>. QED  BY <2>1, <1>1, <1>3, Zenon
<1>10. inuse'[s] + Len(freelist'[s]) = Objects
  <2>. HIDE DEF q
  <2>1. Len(q) \in Nat
    BY <1>1
  <2>2. inuse'[s] + Len(freelist'[s]) = (inuse[s] + 1) + (Len(q) - 1)
    BY <1>4, <1>5, Zenon
  <2>3. ASSUME NEW m \in Nat, NEW n \in Nat, m + n = Objects PROVE (m + 1) + (n - 1) = Objects
    BY <2>3
  <2>. QED  BY <2>1, <2>2, <2>3, <1>1, Zenon
<1>11. freelist' \in [Frame -> Seq(1..Objects)] /\ inuse' \in [Frame -> Nat]
  <2>1. inuse[s] + 1 \in Nat
    BY <1>1
  <2>. QED  BY <2>1, <1>3, Zenon DEF SlubTypes
<1>. QED  BY <1>1, <1>3, <1>5, <1>6, <1>8, <1>9, <1>10, <1>11, Zenon DEF Shares

\* free_single_to_partial(): the object is the first free one.
LEMMA FreeObject ==
    ASSUME SlubTypes, NEW s \in Frame, Shares(s), NEW i \in 1..Objects, <<s, i>> \in live,
           live' = live \ {<<s, i>>},
           freelist' = [freelist EXCEPT ![s] = Push(@, i)],
           inuse' = [inuse EXCEPT ![s] = @ - 1]
    PROVE  /\ inuse[s] # 0 /\ inuse'[s] = inuse[s] - 1
           /\ freelist' \in [Frame -> Seq(1..Objects)] /\ inuse' \in [Frame -> Nat]
           /\ Shares(s)'
<1>. DEFINE q == freelist[s]
            O == ObjectsOf(s)
<1>1. /\ q \in Seq(1..Objects) /\ inuse[s] \in Nat /\ IsInjective(q)
      /\ IsFiniteSet(O) /\ inuse[s] = Cardinality(O) /\ inuse[s] + Len(q) = Objects
      /\ \A j \in 1..Objects : <<s, j>> \in live <=> j \notin Range(q)
  BY Zenon DEF SlubTypes, Shares
<1>2. i \notin Range(q)
  BY <1>1, Zenon
<1>3. /\ Push(q, i) \in Seq(1..Objects) /\ IsInjective(Push(q, i))
      /\ \A j : j \in Range(Push(q, i)) <=> j \in Range(q) \/ j = i
      /\ Len(Push(q, i)) = Len(q) + 1
  <2>1. q \in Seq(1..Objects) /\ IsInjective(q)
    BY <1>1, Zenon
  <2>. QED  BY <2>1, <1>2, PushQueue, Zenon
<1>5. freelist'[s] = Push(q, i) /\ inuse'[s] = inuse[s] - 1
  BY Zenon DEF SlubTypes
<1>7. O' = O \ {<<s, i>>} /\ <<s, i>> \in O
  BY SlubAssumption DEF ObjectsOf
<1>8. IsFiniteSet(O') /\ Cardinality(O') = Cardinality(O) - 1
  <2>. HIDE DEF O
  <2>1. /\ IsFiniteSet(O \ {<<s, i>>})
        /\ Cardinality(O \ {<<s, i>>}) = IF <<s, i>> \in O THEN Cardinality(O)-1 ELSE Cardinality(O)
    BY <1>1, FS_RemoveElement, Zenon
  <2>. QED  BY <2>1, <1>7, Zenon
<1>n. inuse[s] # 0
  BY <1>1, <1>7, FS_EmptySet, Zenon
<1>9. \A j \in 1..Objects : <<s, j>> \in live' <=> j \notin Range(Push(q, i))
  <2>1. ASSUME NEW j \in 1..Objects PROVE <<s, j>> \in live' <=> <<s, j>> \in live /\ j # i
    OBVIOUS
  <2>. QED  BY <2>1, <1>1, <1>3, Zenon
<1>10. inuse'[s] + Len(freelist'[s]) = Objects
  <2>. HIDE DEF q
  <2>1. Len(q) \in Nat
    BY <1>1
  <2>2. inuse'[s] + Len(freelist'[s]) = (inuse[s] - 1) + (Len(q) + 1)
    BY <1>3, <1>5, Zenon
  <2>3. ASSUME NEW m \in Nat, NEW n \in Nat, m + n = Objects PROVE (m - 1) + (n + 1) = Objects
    BY <2>3
  <2>. QED  BY <2>1, <2>2, <2>3, <1>1, Zenon
<1>11. freelist' \in [Frame -> Seq(1..Objects)] /\ inuse' \in [Frame -> Nat]
  <2>1. inuse[s] - 1 \in Nat
    BY <1>1, <1>n
  <2>. QED  BY <2>1, <1>3, Zenon DEF SlubTypes
<1>. QED  BY <1>1, <1>3, <1>5, <1>8, <1>n, <1>9, <1>10, <1>11, Zenon DEF Shares

-----------------------------------------------------------------------------
(* The pages *)

LEMMA StartsWith ==
    ASSUME NEW b \in Frame, NEW order \in {SlabOrder, LargeOrder}
    PROVE  b \in Frames(b, order)
BY SlubAssumption DEF Frames

LEMMA TakeBlock ==
    ASSUME BlocksOK, NEW b, NEW order, Take(b, order)
    PROVE  held' = held \cup {<<b, order>>} /\ BlocksOK'
<1>1. /\ held' = held \cup {<<b, order>>} /\ Frames(b, order) \subseteq free
      /\ free' = free \ Frames(b, order)
  BY Zenon DEF Take
<1>. DEFINE F(h) == Frames(h[1], h[2])
<1>2. F(<<b, order>>) = Frames(b, order)
  OBVIOUS
<1>3. /\ \A h \in held : F(h) \cap free = {}
      /\ \A h, k \in held : h # k => F(h) \cap F(k) = {}
  BY Zenon DEF BlocksOK
<1>. HIDE DEF F
<1>4. \A h \in held' : F(h) \cap free' = {}
  BY <1>1, <1>2, <1>3
<1>5. \A h, k \in held' : h # k => F(h) \cap F(k) = {}
  BY <1>1, <1>2, <1>3
<1>. QED  BY <1>1, <1>4, <1>5, Zenon DEF BlocksOK, F, Frames

LEMMA GiveBlock ==
    ASSUME BlocksOK, NEW b, NEW order, Give(b, order)
    PROVE  held' = held \ {<<b, order>>} /\ BlocksOK'
<1>1. /\ held' = held \ {<<b, order>>} /\ <<b, order>> \in held
      /\ free' = free \cup Frames(b, order)
  BY Zenon DEF Give
<1>. DEFINE F(h) == Frames(h[1], h[2])
<1>2. F(<<b, order>>) = Frames(b, order)
  OBVIOUS
<1>3. /\ \A h \in held : F(h) \cap free = {}
      /\ \A h, k \in held : h # k => F(h) \cap F(k) = {}
  BY Zenon DEF BlocksOK
<1>. HIDE DEF F
<1>4. \A h \in held' : F(h) \cap free' = {}
  BY <1>1, <1>2, <1>3
<1>5. \A h, k \in held' : h # k => F(h) \cap F(k) = {}
  BY <1>1, <1>3, Zenon
<1>. QED  BY <1>1, <1>4, <1>5, Zenon DEF BlocksOK, F, Frames

\* A block that the page allocator hands out is neither a slab nor a large block.
LEMMA TakeNew ==
    ASSUME SlubTypes, HeldOK, BlocksOK, NEW b \in Frame,
           NEW order \in {SlabOrder, LargeOrder}, Take(b, order)
    PROVE  b \notin PG_slab /\ \A x \in live : x[2] = 0 => x[1] # b
<1>1. b \in free
  BY StartsWith, Zenon DEF Take
<1>2. ASSUME b \in PG_slab PROVE FALSE
  <2>1. <<b, SlabOrder>> \in held
    BY <1>2, Zenon DEF HeldOK
  <2>2. Frames(b, SlabOrder) \cap free = {}
    BY <2>1 DEF BlocksOK
  <2>. QED  BY <2>2, <1>1, StartsWith, Zenon
<1>3. ASSUME NEW x \in live, x[2] = 0, x[1] = b PROVE FALSE
  <2>1. <<b, LargeOrder>> \in held
    BY <1>3, Zenon DEF HeldOK
  <2>2. Frames(b, LargeOrder) \cap free = {}
    BY <2>1 DEF BlocksOK
  <2>. QED  BY <2>2, <1>1, StartsWith, Zenon
<1>. QED  BY <1>2, <1>3, Zenon

-----------------------------------------------------------------------------
(* The steps *)

\* A task that a step leaves alone; the slab it is about to list stays its own.
LEMMA TaskKept ==
    ASSUME NEW u, TaskOK(u), pc'[u] = pc[u], slab'[u] = slab[u],
           slab[u] \in PG_slab => slab[u] \in PG_slab',
           pc[u] = "online" =>
               /\ slab[u] \notin Listed' /\ inuse'[slab[u]] = 0
               /\ \A v \in Task \ {u} : slab'[v] # slab[u]
    PROVE  TaskOK(u)'
<1>1. /\ pc'[u] \in NoSlabPc => slab'[u] = NoSlab
      /\ pc'[u] \notin NoSlabPc => slab'[u] \in PG_slab'
  BY Zenon DEF TaskOK
<1>2. ASSUME pc'[u] = "online"
      PROVE  /\ slab'[u] \notin Listed' /\ inuse'[slab'[u]] = 0
             /\ \A v \in Task \ {u} : slab'[v] # slab'[u]
  BY <1>2, Zenon
<1>. QED  BY <1>1, <1>2, Zenon DEF TaskOK

\* A step that moves one task, and leaves the cache and the pages alone.
LEMMA TaskInv ==
    ASSUME SlubInv, ~broken, NEW t \in Task, pc[t] \notin {"online", "discard"},
           NEW p \in SlubPc \ {"online"}, pc' = [pc EXCEPT ![t] = p],
           NEW x, slab' = [slab EXCEPT ![t] = x],
           \/ p \in NoSlabPc /\ x = NoSlab
           \/ pc[t] \notin NoSlabPc /\ p \notin NoSlabPc /\ x = slab[t],
           UNCHANGED <<pageVars, partial, full, inuse, freelist, PG_slab, live, broken>>
    PROVE  SlubInv'
<1>1. /\ free' = free /\ held' = held /\ partial' = partial /\ full' = full /\ inuse' = inuse
      /\ freelist' = freelist /\ PG_slab' = PG_slab /\ live' = live /\ broken' = broken
  BY Zenon DEF pageVars
<1>2. SlubTypes /\ ListsOK /\ WholeOK
  BY Zenon DEF SlubInv
<1>3. x \in Frame \cup {NoSlab} /\ pc'[t] = p /\ slab'[t] = x
      /\ \A u \in Task \ {t} : pc'[u] = pc[u] /\ slab'[u] = slab[u]
  BY <1>2, Zenon DEF SlubTypes
<1>4. SlubTypes'
  BY <1>1, <1>2, <1>3, Zenon DEF SlubTypes
<1>5. ListsOK' /\ HeldOK' /\ BlocksOK' /\ Listed' = Listed
  BY <1>1, <1>2, Zenon DEF WholeOK, ListsOK, HeldOK, BlocksOK, Listed
<1>6. \A s \in PG_slab' : SlabOK(s)'
  BY <1>1, <1>2, Zenon DEF WholeOK, SlabOK, Shares, ObjectsOf
<1>7. ASSUME NEW s \in PG_slab' PROVE SlabOwned(s)'
  <2>1. SlabOwned(s)
    BY <1>1, <1>2, Zenon DEF WholeOK
  <2>. QED  BY <2>1, <1>3, <1>5, Zenon DEF SlabOwned
<1>8. ASSUME NEW u \in Task PROVE TaskOK(u)'
  <2>1. TaskOK(u) /\ TaskOK(t)
    BY <1>2, Zenon DEF WholeOK
  <2>2. CASE u = t
    BY <2>1, <2>2, <1>1, <1>3, Zenon DEF TaskOK
  <2>3. CASE u # t
    <3>1. slab'[t] = slab[t] \/ slab'[t] = NoSlab
      BY <1>3, Zenon
    <3>2. pc[u] = "online" => slab[u] # NoSlab
      BY <2>1, <1>2, SlubAssumption, Zenon DEF TaskOK, NoSlabPc, SlubTypes
    <3>3. pc[u] = "online" => \A v \in Task \ {u} : slab'[v] # slab[u]
      BY <2>1, <2>3, <3>1, <3>2, <1>3, Zenon DEF TaskOK
    <3>4. pc[u] = "online" => slab[u] \notin Listed' /\ inuse'[slab[u]] = 0
      BY <2>1, <1>1, <1>5, Zenon DEF TaskOK
    <3>. QED  BY <2>1, <2>3, <3>3, <3>4, <1>1, <1>3, TaskKept, Zenon
  <2>. QED  BY <2>2, <2>3, Zenon
<1>9. \A o \in live' : ObjectOK(o)'
  BY <1>1, <1>2, Zenon DEF WholeOK, ObjectOK
<1>10. (Listed \subseteq PG_slab)'
  BY <1>1, <1>2, <1>5, Zenon DEF WholeOK
<1>. QED  BY <1>4, <1>5, <1>6, <1>7, <1>8, <1>9, <1>10, Zenon DEF SlubInv, WholeOK

\* get_from_partial_list(): the slab stays where inuse says.
LEMMA GetInv ==
    ASSUME SlubInv, ~broken, NEW t \in Task, get_from_partial_list(t) PROVE SlubInv'
<1>s. PICK s : s = Head(partial)
  BY Zenon
<1>i. PICK i : i = Head(freelist[s])
  BY Zenon
<1>1. /\ partial # <<>> /\ pc[t] = "alloc" /\ pc' = [pc EXCEPT ![t] = "run"]
      /\ live' = live \cup {<<s, i>>}
      /\ freelist' = [freelist EXCEPT ![s] = Tail(@)]
      /\ inuse' = [inuse EXCEPT ![s] = @ + 1]
      /\ IF inuse'[s] = Objects
         THEN partial' = Tail(partial) /\ full' = Push(full, s)
         ELSE partial' = partial /\ full' = full
      /\ free' = free /\ held' = held /\ PG_slab' = PG_slab /\ slab' = slab /\ broken' = broken
  BY <1>s, <1>i, Zenon DEF get_from_partial_list, Goto, pageVars, Push
<1>2. SlubTypes /\ ListsOK /\ WholeOK
  BY Zenon DEF SlubInv
<1>3. /\ partial \in Seq(Frame) /\ full \in Seq(Frame) /\ IsInjective(partial) /\ IsInjective(full)
      /\ \A r \in Range(partial) : r \notin Range(full)
      /\ inuse \in [Frame -> Nat] /\ freelist \in [Frame -> Seq(1..Objects)]
      /\ pc \in [Task -> SlubPc] /\ PG_slab \subseteq Frame
  BY <1>2, Zenon DEF SlubTypes, ListsOK
<1>4. /\ s \in Frame /\ s \in Range(partial) /\ Tail(partial) \in Seq(Frame)
      /\ IsInjective(Tail(partial)) /\ Range(Tail(partial)) = Range(partial) \ {s}
  BY <1>s, <1>1, <1>3, TailQueue, Zenon
<1>5. s \in Listed /\ s \in PG_slab /\ SlabOK(s) /\ s \notin Range(full)
  BY <1>2, <1>3, <1>4, Zenon DEF Listed, WholeOK
<1>6. Shares(s) /\ inuse[s] # Objects
  BY <1>5, Zenon DEF SlabOK
<1>7. /\ i \in 1..Objects /\ freelist' \in [Frame -> Seq(1..Objects)] /\ inuse' \in [Frame -> Nat]
      /\ Shares(s)'
  BY <1>i, <1>1, <1>2, <1>4, <1>6, AllocObject, Zenon
<1>8. i # 0 /\ <<s, i>> \in Frame \X (0..Objects)
  BY <1>4, <1>7, SlubAssumption
<1>9. /\ Push(full, s) \in Seq(Frame) /\ IsInjective(Push(full, s))
      /\ \A y : y \in Range(Push(full, s)) <=> y \in Range(full) \/ y = s
  BY <1>3, <1>4, <1>5, PushQueue, Zenon
<1>10. /\ partial' \in Seq(Frame) /\ full' \in Seq(Frame) /\ ListsOK'
       /\ Listed' = Listed /\ \A r : r # s => (r \in Range(full') <=> r \in Range(full))
       /\ s \in Range(full') <=> inuse'[s] = Objects
  <2>1. CASE inuse'[s] = Objects
    <3>1. partial' = Tail(partial) /\ full' = Push(full, s)
      BY <2>1, <1>1, Zenon
    <3>2. ListsOK'
      BY <3>1, <1>3, <1>4, <1>9, Zenon DEF ListsOK
    <3>3. \A r : r \in Listed' <=> r \in Listed
      BY <3>1, <1>4, <1>9, Zenon DEF Listed
    <3>4. Listed' = Listed
      BY <3>3, Zenon
    <3>. QED  BY <2>1, <3>1, <3>2, <3>4, <1>4, <1>9, Zenon
  <2>2. CASE inuse'[s] # Objects
    BY <2>2, <1>1, <1>2, <1>3, <1>5, Zenon DEF ListsOK, Listed
  <2>. QED  BY <2>1, <2>2, Zenon
<1>11. SlubTypes'
  <2>1. live' \subseteq Frame \X (0..Objects)
    BY <1>1, <1>2, <1>8, Zenon DEF SlubTypes
  <2>2. pc' \in [Task -> SlubPc]
    BY <1>1, <1>3, Zenon DEF SlubPc
  <2>. QED  BY <2>1, <2>2, <1>1, <1>2, <1>7, <1>10, Zenon DEF SlubTypes
<1>12. ASSUME NEW r \in PG_slab' PROVE SlabOK(r)'
  <2>1. CASE r = s
    BY <2>1, <1>7, <1>10, Zenon DEF SlabOK
  <2>2. CASE r # s
    <3>1. r \in Frame /\ SlabOK(r)
      BY <1>1, <1>2, <1>3, Zenon DEF WholeOK
    <3>2. freelist'[r] = freelist[r] /\ inuse'[r] = inuse[r]
      BY <2>2, <3>1, <1>1, <1>3, Zenon
    <3>3. \A j \in 1..Objects : <<r, j>> \in live' <=> <<r, j>> \in live
      BY <2>2, <1>1
    <3>4. ObjectsOf(r)' = ObjectsOf(r)
      BY <2>2, <1>1 DEF ObjectsOf
    <3>5. r \in Range(full') <=> r \in Range(full)
      BY <2>2, <1>10, Zenon
    <3>. QED  BY <3>1, <3>2, <3>3, <3>4, <3>5, SlabKept, Zenon
  <2>. QED  BY <2>1, <2>2, Zenon
<1>p. pc'[t] = "run" /\ \A u \in Task \ {t} : pc'[u] = pc[u]
  BY <1>1, <1>3, Zenon
<1>13. ASSUME NEW r \in PG_slab' PROVE SlabOwned(r)'
  <2>1. SlabOwned(r)
    BY <1>1, <1>2, Zenon DEF WholeOK
  <2>. QED  BY <2>1, <1>1, <1>10, <1>p, Zenon DEF SlabOwned
<1>14. ASSUME NEW u \in Task PROVE TaskOK(u)'
  <2>1. TaskOK(u) /\ TaskOK(t)
    BY <1>2, Zenon DEF WholeOK
  <2>2. CASE u = t
    BY <2>1, <2>2, <1>1, <1>p, Zenon DEF TaskOK, NoSlabPc
  <2>3. CASE u # t
    <3>1. pc'[u] = pc[u] /\ slab'[u] = slab[u] /\ PG_slab' = PG_slab
      BY <2>3, <1>1, <1>p, Zenon
    <3>2. ASSUME pc[u] = "online"
          PROVE  /\ slab[u] \notin Listed' /\ inuse'[slab[u]] = 0
                 /\ \A v \in Task \ {u} : slab'[v] # slab[u]
      <4>1. /\ slab[u] \notin Listed /\ inuse[slab[u]] = 0 /\ slab[u] \in PG_slab
            /\ \A v \in Task \ {u} : slab[v] # slab[u]
        BY <2>1, <3>2, Zenon DEF TaskOK, NoSlabPc
      <4>2. inuse'[slab[u]] = inuse[slab[u]]
        BY <4>1, <1>1, <1>3, <1>5, Zenon
      <4>. QED  BY <4>1, <4>2, <1>1, <1>10, Zenon
    <3>. QED  BY <2>1, <3>1, <3>2, TaskKept, Zenon
  <2>. QED  BY <2>2, <2>3, Zenon
<1>15. ASSUME NEW o \in live' PROVE ObjectOK(o)'
  <2>1. CASE o \in live
    BY <2>1, <1>1, <1>2, Zenon DEF WholeOK, ObjectOK
  <2>2. CASE o = <<s, i>>
    BY <2>2, <1>1, <1>5, <1>8 DEF ObjectOK
  <2>. QED  BY <2>1, <2>2, <1>1, Zenon
<1>16. HeldOK' /\ BlocksOK'
  <2>1. {x \in live' : x[2] = 0} = {x \in live : x[2] = 0}
    BY <1>1, <1>8
  <2>2. HeldOK'
    BY <2>1, <1>1, <1>2, Zenon DEF WholeOK, HeldOK
  <2>. QED  BY <2>2, <1>1, <1>2, Zenon DEF WholeOK, BlocksOK, Frames
<1>17. (Listed \subseteq PG_slab)'
  BY <1>1, <1>2, <1>10, Zenon DEF WholeOK
<1>. QED  BY <1>10, <1>11, <1>12, <1>13, <1>14, <1>15, <1>16, <1>17, Zenon DEF SlubInv, WholeOK

\* alloc_init_new_slab(): nobody else knows the new slab.
LEMMA NewInv ==
    ASSUME SlubInv, ~broken, NEW t \in Task, alloc_init_new_slab(t) PROVE SlubInv'
<1>1. PICK s \in Frame :
         /\ pc[t] = "new" /\ pc' = [pc EXCEPT ![t] = "online"]
         /\ Take(s, SlabOrder)
         /\ slab' = [slab EXCEPT ![t] = s]
         /\ PG_slab' = PG_slab \cup {s}
         /\ inuse' = [inuse EXCEPT ![s] = 0]
         /\ freelist' = [freelist EXCEPT ![s] = [j \in 1..Objects |-> j]]
         /\ partial' = partial /\ full' = full /\ live' = live /\ broken' = broken
  BY Zenon DEF alloc_init_new_slab, Goto
<1>2. SlubTypes /\ ListsOK /\ WholeOK
  BY Zenon DEF SlubInv
<1>3. /\ inuse \in [Frame -> Nat] /\ freelist \in [Frame -> Seq(1..Objects)]
      /\ pc \in [Task -> SlubPc] /\ PG_slab \subseteq Frame /\ slab \in [Task -> Frame \cup {NoSlab}]
      /\ live \subseteq Frame \X (0..Objects)
  BY <1>2, Zenon DEF SlubTypes
<1>4. s \notin PG_slab /\ \A x \in live : x[2] = 0 => x[1] # s
  BY <1>1, <1>2, TakeNew, Zenon DEF WholeOK
<1>5. \A x \in live : x[1] # s
  BY <1>2, <1>4, Zenon DEF WholeOK, ObjectOK
<1>6. s \notin Listed /\ s \notin Range(full) /\ Listed' = Listed
  BY <1>1, <1>2, <1>4, Zenon DEF WholeOK, Listed
<1>. DEFINE all == [j \in 1..Objects |-> j]
<1>7. /\ all \in Seq(1..Objects) /\ Len(all) = Objects /\ IsInjective(all) /\ 0 \in Nat
      /\ \A j \in 1..Objects : j \in Range(all)
  BY SlubAssumption DEF IsInjective, Range
<1>. HIDE DEF all
<1>8. inuse'[s] = 0 /\ freelist'[s] = all
      /\ \A r \in Frame \ {s} : inuse'[r] = inuse[r] /\ freelist'[r] = freelist[r]
  BY <1>1, <1>3, Zenon DEF all
<1>p. pc'[t] = "online" /\ slab'[t] = s
      /\ \A u \in Task \ {t} : pc'[u] = pc[u] /\ slab'[u] = slab[u]
  BY <1>1, <1>3, Zenon
<1>9. SlubTypes'
  <2>1. inuse' \in [Frame -> Nat] /\ freelist' \in [Frame -> Seq(1..Objects)]
    BY <1>1, <1>3, <1>7, Zenon DEF all
  <2>2. pc' \in [Task -> SlubPc] /\ slab' \in [Task -> Frame \cup {NoSlab}] /\ PG_slab' \subseteq Frame
    BY <1>1, <1>3, Zenon DEF SlubPc
  <2>. QED  BY <2>1, <2>2, <1>1, <1>2, Zenon DEF SlubTypes
<1>10. ListsOK' /\ (Listed \subseteq PG_slab)'
  BY <1>1, <1>2, <1>6, Zenon DEF ListsOK, WholeOK
<1>11. SlabOK(s)'
  <2>1. ObjectsOf(s)' = {}
    BY <1>1, <1>5, Zenon DEF ObjectsOf
  <2>2. IsFiniteSet(ObjectsOf(s)') /\ Cardinality(ObjectsOf(s)') = 0
    BY <2>1, FS_EmptySet, Zenon
  <2>3. \A j \in 1..Objects : <<s, j>> \in live' <=> j \notin Range(all)
    BY <1>1, <1>5, <1>7
  <2>4. inuse'[s] + Len(freelist'[s]) = Objects /\ inuse'[s] # Objects
    BY <1>7, <1>8, SlubAssumption
  <2>. QED  BY <2>2, <2>3, <2>4, <1>1, <1>6, <1>7, <1>8, Zenon DEF SlabOK, Shares
<1>12. ASSUME NEW r \in PG_slab PROVE SlabOK(r)'
  <2>1. r \in Frame \ {s} /\ SlabOK(r)
    BY <1>2, <1>3, <1>4, Zenon DEF WholeOK
  <2>2. ObjectsOf(r)' = ObjectsOf(r)
    BY <1>1, Zenon DEF ObjectsOf
  <2>. QED  BY <2>1, <2>2, <1>1, <1>8, SlabKept, Zenon
<1>13. ASSUME NEW r \in PG_slab' PROVE SlabOwned(r)'
  <2>1. CASE r = s
    BY <2>1, <1>p, Zenon DEF SlabOwned
  <2>2. CASE r # s
    <3>1. SlabOwned(r)
      BY <2>2, <1>1, <1>2, Zenon DEF WholeOK
    <3>. QED  BY <3>1, <1>1, <1>6, <1>p, Zenon DEF SlabOwned
  <2>. QED  BY <2>1, <2>2, Zenon
<1>14. ASSUME NEW u \in Task PROVE TaskOK(u)'
  <2>1. \A v \in Task : slab[v] # s
    <3>1. \A v \in Task : slab[v] \in PG_slab \/ slab[v] = NoSlab
      BY <1>2, Zenon DEF WholeOK, TaskOK
    <3>. QED  BY <3>1, <1>4, SlubAssumption, Zenon
  <2>2. CASE u = t
    <3>1. pc'[u] = "online" /\ slab'[u] = s /\ s \in PG_slab' /\ s \notin Listed' /\ inuse'[s] = 0
      BY <2>2, <1>1, <1>6, <1>8, <1>p, Zenon
    <3>2. \A v \in Task \ {u} : slab'[v] # s
      BY <2>1, <2>2, <1>p, Zenon
    <3>. QED  BY <3>1, <3>2, Zenon DEF TaskOK, NoSlabPc
  <2>3. CASE u # t
    <3>1. TaskOK(u) /\ pc'[u] = pc[u] /\ slab'[u] = slab[u]
      BY <2>3, <1>2, <1>p, Zenon DEF WholeOK
    <3>2. ASSUME pc[u] = "online"
          PROVE  /\ slab[u] \notin Listed' /\ inuse'[slab[u]] = 0
                 /\ \A v \in Task \ {u} : slab'[v] # slab[u]
      <4>1. /\ slab[u] \notin Listed /\ inuse[slab[u]] = 0 /\ slab[u] \in PG_slab
            /\ \A v \in Task \ {u} : slab[v] # slab[u]
        BY <3>1, <3>2, Zenon DEF TaskOK, NoSlabPc
      <4>2. inuse'[slab[u]] = 0
        BY <4>1, <2>1, <1>3, <1>8, Zenon
      <4>. QED  BY <4>1, <4>2, <2>1, <1>6, <1>p, Zenon
    <3>. QED  BY <3>1, <3>2, <1>1, TaskKept, Zenon
  <2>. QED  BY <2>2, <2>3, Zenon
<1>15. ASSUME NEW o \in live' PROVE ObjectOK(o)'
  BY <1>1, <1>2, <1>5, Zenon DEF WholeOK, ObjectOK
<1>16. HeldOK' /\ BlocksOK'
  <2>1. BlocksOK' /\ held' = held \cup {<<s, SlabOrder>>}
    BY <1>1, <1>2, TakeBlock, Zenon DEF WholeOK
  <2>2. HeldOK
    BY <1>2, Zenon DEF WholeOK
  <2>. QED  BY <2>1, <2>2, <1>1 DEF HeldOK
<1>17. \A r \in PG_slab' : SlabOK(r)'
  BY <1>1, <1>11, <1>12, Zenon
<1>. QED  BY <1>9, <1>10, <1>13, <1>14, <1>15, <1>16, <1>17, Zenon DEF SlubInv, WholeOK

\* online_new_empty_slab(): the slab gets known.
LEMMA OnlineInv ==
    ASSUME SlubInv, ~broken, NEW t \in Task, online_new_empty_slab(t) PROVE SlubInv'
<1>s. PICK s : s = slab[t]
  BY Zenon
<1>1. /\ pc[t] = "online" /\ pc' = [pc EXCEPT ![t] = "alloc"]
      /\ partial' = Push(partial, s) /\ slab' = [slab EXCEPT ![t] = NoSlab]
      /\ full' = full /\ inuse' = inuse /\ freelist' = freelist /\ free' = free /\ held' = held
      /\ PG_slab' = PG_slab /\ live' = live /\ broken' = broken
  BY <1>s, Zenon DEF online_new_empty_slab, Goto, pageVars, Push
<1>2. SlubTypes /\ ListsOK /\ WholeOK
  BY Zenon DEF SlubInv
<1>3. /\ partial \in Seq(Frame) /\ full \in Seq(Frame) /\ IsInjective(partial) /\ IsInjective(full)
      /\ \A r \in Range(partial) : r \notin Range(full)
      /\ pc \in [Task -> SlubPc] /\ slab \in [Task -> Frame \cup {NoSlab}] /\ PG_slab \subseteq Frame
  BY <1>2, Zenon DEF SlubTypes, ListsOK
<1>4. /\ s \in PG_slab /\ s \in Frame /\ s \notin Listed /\ \A u \in Task \ {t} : slab[u] # s
      /\ s \notin Range(partial) /\ s \notin Range(full)
  BY <1>s, <1>1, <1>2, <1>3, Zenon DEF WholeOK, TaskOK, NoSlabPc, Listed
<1>5. /\ Push(partial, s) \in Seq(Frame) /\ IsInjective(Push(partial, s))
      /\ \A y : y \in Range(Push(partial, s)) <=> y \in Range(partial) \/ y = s
  BY <1>3, <1>4, PushQueue, Zenon
<1>6. ListsOK' /\ \A r : r \in Listed' <=> r \in Listed \/ r = s
  BY <1>1, <1>3, <1>4, <1>5, Zenon DEF ListsOK, Listed
<1>p. pc'[t] = "alloc" /\ slab'[t] = NoSlab
      /\ \A u \in Task \ {t} : pc'[u] = pc[u] /\ slab'[u] = slab[u]
  BY <1>1, <1>3, Zenon
<1>7. SlubTypes'
  <2>1. pc' \in [Task -> SlubPc] /\ slab' \in [Task -> Frame \cup {NoSlab}]
    BY <1>1, <1>3, Zenon DEF SlubPc
  <2>. QED  BY <2>1, <1>1, <1>2, <1>5, Zenon DEF SlubTypes
<1>8. \A r \in PG_slab' : SlabOK(r)'
  BY <1>1, <1>2, Zenon DEF WholeOK, SlabOK, Shares, ObjectsOf
<1>9. ASSUME NEW r \in PG_slab' PROVE SlabOwned(r)'
  <2>1. CASE r = s
    BY <2>1, <1>6, Zenon DEF SlabOwned
  <2>2. CASE r # s
    <3>1. SlabOwned(r)
      BY <1>1, <1>2, Zenon DEF WholeOK
    <3>. QED  BY <2>2, <3>1, <1>s, <1>6, <1>p, Zenon DEF SlabOwned
  <2>. QED  BY <2>1, <2>2, Zenon
<1>10. ASSUME NEW u \in Task PROVE TaskOK(u)'
  <2>2. CASE u = t
    BY <2>2, <1>p, Zenon DEF TaskOK, NoSlabPc
  <2>3. CASE u # t
    <3>1. TaskOK(u) /\ pc'[u] = pc[u] /\ slab'[u] = slab[u]
      BY <2>3, <1>2, <1>p, Zenon DEF WholeOK
    <3>2. ASSUME pc[u] = "online"
          PROVE  /\ slab[u] \notin Listed' /\ inuse'[slab[u]] = 0
                 /\ \A v \in Task \ {u} : slab'[v] # slab[u]
      <4>1. /\ slab[u] \notin Listed /\ inuse[slab[u]] = 0 /\ slab[u] \in PG_slab
            /\ \A v \in Task \ {u} : slab[v] # slab[u]
        BY <3>1, <3>2, Zenon DEF TaskOK, NoSlabPc
      <4>2. slab[u] # s /\ slab[u] # NoSlab
        BY <2>3, <4>1, <1>3, <1>4, SlubAssumption, Zenon
      <4>. QED  BY <4>1, <4>2, <1>1, <1>6, <1>p, Zenon
    <3>. QED  BY <3>1, <3>2, <1>1, TaskKept, Zenon
  <2>. QED  BY <2>2, <2>3, Zenon
<1>11. (\A o \in live : ObjectOK(o))' /\ HeldOK' /\ BlocksOK'
  BY <1>1, <1>2, Zenon DEF WholeOK, ObjectOK, HeldOK, BlocksOK
<1>12. (Listed \subseteq PG_slab)'
  BY <1>1, <1>2, <1>4, <1>6, Zenon DEF WholeOK
<1>. QED  BY <1>6, <1>7, <1>8, <1>9, <1>10, <1>11, <1>12, Zenon DEF SlubInv, WholeOK

\* kmalloc_large() and free_large_kmalloc(): the cache does not notice.
LEMMA LargeKept ==
    ASSUME SlubInv, ~broken, NEW b \in Frame, live \ {<<b, 0>>} = live' \ {<<b, 0>>},
           b \notin PG_slab, <<b, 0>> \in live' => <<b, 0>> \in Frame \X (0..Objects),
           HeldOK', BlocksOK', UNCHANGED <<listVars, PG_slab, pc, slab, broken>>
    PROVE  SlubInv'
<1>1. /\ partial' = partial /\ full' = full /\ inuse' = inuse /\ freelist' = freelist
      /\ PG_slab' = PG_slab /\ pc' = pc /\ slab' = slab /\ broken' = broken
  BY Zenon DEF listVars
<1>2. SlubTypes /\ ListsOK /\ WholeOK
  BY Zenon DEF SlubInv
<1>3. \A o : o # <<b, 0>> => (o \in live' <=> o \in live)
  BY Zenon
<1>4. SlubTypes'
  <2>1. live' \subseteq Frame \X (0..Objects)
    BY <1>2, <1>3, Zenon DEF SlubTypes
  <2>. QED  BY <2>1, <1>1, <1>2, Zenon DEF SlubTypes
<1>5. ListsOK' /\ Listed' = Listed /\ (Listed \subseteq PG_slab)'
  BY <1>1, <1>2, Zenon DEF ListsOK, Listed, WholeOK
<1>6. ASSUME NEW r \in PG_slab' PROVE SlabOK(r)'
  <2>1. \A j \in 1..Objects : <<r, j>> # <<b, 0>>
    BY SlubAssumption
  <2>2. \A o : o[1] = r /\ o[2] # 0 => o # <<b, 0>>
    OBVIOUS
  <2>3. \A j \in 1..Objects : <<r, j>> \in live' <=> <<r, j>> \in live
    BY <2>1, <1>3, Zenon
  <2>4. ObjectsOf(r)' = ObjectsOf(r)
    BY <2>2, <1>3, Zenon DEF ObjectsOf
  <2>. QED  BY <2>3, <2>4, <1>1, <1>2, SlabKept, Zenon DEF WholeOK
<1>7. \A r \in PG_slab' : SlabOwned(r)'
  BY <1>1, <1>2, <1>5, Zenon DEF WholeOK, SlabOwned
<1>8. \A u \in Task : TaskOK(u)'
  BY <1>1, <1>2, <1>5, Zenon DEF WholeOK, TaskOK
<1>9. ASSUME NEW o \in live' PROVE ObjectOK(o)'
  <2>1. CASE o = <<b, 0>>
    BY <2>1, <1>1 DEF ObjectOK
  <2>2. CASE o # <<b, 0>>
    BY <2>2, <1>1, <1>2, <1>3, Zenon DEF WholeOK, ObjectOK
  <2>. QED  BY <2>1, <2>2, Zenon
<1>. QED  BY <1>4, <1>5, <1>6, <1>7, <1>8, <1>9, Zenon DEF SlubInv, WholeOK

LEMMA LargeInv ==
    ASSUME SlubInv, ~broken, NEW t \in Task, kmalloc_large(t) PROVE SlubInv'
<1>1. PICK b \in Frame : Take(b, LargeOrder) /\ live' = live \cup {<<b, 0>>}
  BY Zenon DEF kmalloc_large
<1>2. SlubTypes /\ HeldOK /\ BlocksOK
  BY Zenon DEF SlubInv, WholeOK
<1>3. b \notin PG_slab
  BY <1>1, <1>2, TakeNew, Zenon
<1>4. BlocksOK' /\ held' = held \cup {<<b, LargeOrder>>} /\ PG_slab' = PG_slab
  BY <1>1, <1>2, TakeBlock, Zenon DEF kmalloc_large
<1>5. HeldOK'
  <2>1. PICK Z : Z = {x \in live : x[2] = 0}
    BY Zenon
  <2>2. {x \in live' : x[2] = 0} = Z \cup {<<b, 0>>}
    BY <2>1, <1>1
  <2>3. {<<x[1], LargeOrder>> : x \in Z \cup {<<b, 0>>}} =
            {<<x[1], LargeOrder>> : x \in Z} \cup {<<b, LargeOrder>>}
    <3>1. <<b, 0>>[1] = b
      OBVIOUS
    <3>2. PICK z : z = <<b, 0>>
      BY Zenon
    <3>3. {<<x[1], LargeOrder>> : x \in Z \cup {z}} =
              {<<x[1], LargeOrder>> : x \in Z} \cup {<<z[1], LargeOrder>>}
      BY Zenon
    <3>. QED  BY <3>1, <3>2, <3>3, Zenon
  <2>4. held = {<<s, SlabOrder>> : s \in PG_slab} \cup {<<x[1], LargeOrder>> : x \in Z}
    BY <2>1, <1>2, Zenon DEF HeldOK
  <2>5. held' = {<<s, SlabOrder>> : s \in PG_slab'} \cup {<<x[1], LargeOrder>> : x \in Z \cup {<<b, 0>>}}
    BY <2>3, <2>4, <1>4, Zenon
  <2>. QED  BY <2>2, <2>5, Zenon DEF HeldOK
<1>6. <<b, 0>> \in Frame \X (0..Objects) /\ live \ {<<b, 0>>} = live' \ {<<b, 0>>}
  BY <1>1, SlubAssumption
<1>. QED  BY <1>3, <1>4, <1>5, <1>6, LargeKept, Zenon DEF kmalloc_large

LEMMA FreeLargeInv ==
    ASSUME SlubInv, ~broken, NEW t \in Task, NEW o \in live, free_large_kmalloc(t, o)
    PROVE  SlubInv'
<1>1. PICK order \in 0..MaxOrder : Give(o[1], order)
  BY Zenon DEF free_large_kmalloc
<1>2. o[1] \notin PG_slab /\ live' = live \ {o} /\ PG_slab' = PG_slab
  BY Zenon DEF free_large_kmalloc
<1>3. SlubTypes /\ HeldOK /\ BlocksOK /\ ObjectOK(o)
  BY Zenon DEF SlubInv, WholeOK
<1>4. o = <<o[1], 0>> /\ o[1] \in Frame /\ live \subseteq Frame \X (0..Objects)
  BY <1>2, <1>3 DEF ObjectOK, SlubTypes
<1>5. BlocksOK' /\ held' = held \ {<<o[1], order>>} /\ <<o[1], order>> \in held
  BY <1>1, <1>3, GiveBlock, Zenon DEF Give
<1>6. order = LargeOrder
  BY <1>2, <1>3, <1>5 DEF HeldOK
<1>7. HeldOK'
  BY <1>2, <1>3, <1>4, <1>5, <1>6 DEF HeldOK
<1>8. live \ {<<o[1], 0>>} = live' \ {<<o[1], 0>>} /\ <<o[1], 0>> \notin live'
  BY <1>2, <1>4, Zenon
<1>. QED  BY <1>2, <1>4, <1>5, <1>7, <1>8, LargeKept, Zenon DEF free_large_kmalloc

\* free_to_partial_list(): a full slab becomes a partial one.
LEMMA FreeInv ==
    ASSUME SlubInv, ~broken, NEW t \in Task, NEW o \in live, free_to_partial_list(t, o)
    PROVE  SlubInv'
<1>s. PICK s : s = o[1]
  BY Zenon
<1>i. PICK i : i = o[2]
  BY Zenon
<1>1. /\ pc[t] = "run" /\ pc' = [pc EXCEPT ![t] = "test"] /\ s \in PG_slab
      /\ slab' = [slab EXCEPT ![t] = s] /\ live' = live \ {o}
      /\ IF inuse[s] = Objects
         THEN full' = DeleteSlab(full, s) /\ partial' = Push(partial, s)
         ELSE partial' = partial /\ full' = full
      /\ inuse' = [inuse EXCEPT ![s] = @ - 1]
      /\ freelist' = [freelist EXCEPT ![s] = Push(@, i)]
      /\ free' = free /\ held' = held /\ PG_slab' = PG_slab /\ broken' = broken
  BY <1>s, <1>i, Zenon DEF free_to_partial_list, Goto, pageVars, Push
<1>2. SlubTypes /\ ListsOK /\ WholeOK
  BY Zenon DEF SlubInv
<1>3. /\ partial \in Seq(Frame) /\ full \in Seq(Frame) /\ IsInjective(partial) /\ IsInjective(full)
      /\ \A r \in Range(partial) : r \notin Range(full)
      /\ inuse \in [Frame -> Nat] /\ freelist \in [Frame -> Seq(1..Objects)]
      /\ pc \in [Task -> SlubPc] /\ slab \in [Task -> Frame \cup {NoSlab}] /\ PG_slab \subseteq Frame
      /\ live \subseteq Frame \X (0..Objects)
  BY <1>2, Zenon DEF SlubTypes, ListsOK
<1>4. s \in Frame /\ SlabOK(s) /\ ObjectOK(o)
  BY <1>1, <1>2, <1>3, Zenon DEF WholeOK
<1>5. o = <<s, i>> /\ i \in 1..Objects
  <2>1. i # 0
    BY <1>s, <1>i, <1>1, <1>4, Zenon DEF ObjectOK
  <2>. QED  BY <2>1, <1>s, <1>i, <1>3, SlubAssumption
<1>6. live' = live \ {<<s, i>>} /\ <<s, i>> \in live /\ Shares(s) /\ (s \in Range(full) <=> inuse[s] = Objects)
  BY <1>1, <1>4, <1>5, Zenon DEF SlabOK
<1>7. /\ inuse[s] # 0 /\ inuse'[s] = inuse[s] - 1
      /\ freelist' \in [Frame -> Seq(1..Objects)] /\ inuse' \in [Frame -> Nat]
      /\ Shares(s)'
  BY <1>1, <1>2, <1>4, <1>5, <1>6, FreeObject, Zenon
<1>8. inuse'[s] # Objects
  <2>1. inuse[s] \in Nat /\ inuse[s] + Len(freelist[s]) = Objects /\ freelist[s] \in Seq(1..Objects)
    BY <1>3, <1>4, <1>6, Zenon DEF Shares
  <2>2. Len(freelist[s]) \in Nat
    BY <2>1
  <2>. QED  BY <2>1, <2>2, <1>7, SlubAssumption
<1>9. /\ partial' \in Seq(Frame) /\ full' \in Seq(Frame) /\ ListsOK'
      /\ Listed' = Listed /\ \A r : r # s => (r \in Range(full') <=> r \in Range(full))
      /\ s \notin Range(full')
  <2>1. CASE inuse[s] = Objects
    <3>1. partial' = Push(partial, s) /\ full' = DeleteSlab(full, s)
      BY <2>1, <1>1, Zenon
    <3>2. s \in Range(full) /\ s \notin Range(partial)
      BY <2>1, <1>3, <1>6, Zenon
    <3>3. /\ Push(partial, s) \in Seq(Frame) /\ IsInjective(Push(partial, s))
          /\ \A y : y \in Range(Push(partial, s)) <=> y \in Range(partial) \/ y = s
      BY <3>2, <1>3, <1>4, PushQueue, Zenon
    <3>4. /\ DeleteSlab(full, s) \in Seq(Frame) /\ IsInjective(DeleteSlab(full, s))
          /\ Range(DeleteSlab(full, s)) = Range(full) \ {s}
      BY <1>3, DeleteQueue, Zenon
    <3>5. ListsOK'
      BY <3>1, <3>3, <3>4, <1>3, Zenon DEF ListsOK
    <3>6. \A r : r \in Listed' <=> r \in Listed
      BY <3>1, <3>2, <3>3, <3>4, Zenon DEF Listed
    <3>7. Listed' = Listed
      BY <3>6, Zenon
    <3>. QED  BY <3>1, <3>3, <3>4, <3>5, <3>7, Zenon
  <2>2. CASE inuse[s] # Objects
    BY <2>2, <1>1, <1>2, <1>3, <1>6, Zenon DEF ListsOK, Listed
  <2>. QED  BY <2>1, <2>2, Zenon
<1>p. pc'[t] = "test" /\ slab'[t] = s
      /\ \A u \in Task \ {t} : pc'[u] = pc[u] /\ slab'[u] = slab[u]
  BY <1>1, <1>3, Zenon
<1>11. SlubTypes'
  <2>1. live' \subseteq Frame \X (0..Objects)
    BY <1>1, <1>3, Zenon
  <2>2. pc' \in [Task -> SlubPc] /\ slab' \in [Task -> Frame \cup {NoSlab}]
    BY <1>1, <1>3, <1>4, Zenon DEF SlubPc
  <2>. QED  BY <2>1, <2>2, <1>1, <1>2, <1>7, <1>9, Zenon DEF SlubTypes
<1>12. ASSUME NEW r \in PG_slab' PROVE SlabOK(r)'
  <2>1. CASE r = s
    BY <2>1, <1>7, <1>8, <1>9, Zenon DEF SlabOK
  <2>2. CASE r # s
    <3>1. r \in Frame /\ SlabOK(r)
      BY <1>1, <1>2, <1>3, Zenon DEF WholeOK
    <3>2. freelist'[r] = freelist[r] /\ inuse'[r] = inuse[r]
      BY <2>2, <3>1, <1>1, <1>3, Zenon
    <3>3. \A j \in 1..Objects : <<r, j>> \in live' <=> <<r, j>> \in live
      BY <2>2, <1>6
    <3>4. ObjectsOf(r)' = ObjectsOf(r)
      BY <2>2, <1>6 DEF ObjectsOf
    <3>5. r \in Range(full') <=> r \in Range(full)
      BY <2>2, <1>9, Zenon
    <3>. QED  BY <3>1, <3>2, <3>3, <3>4, <3>5, SlabKept, Zenon
  <2>. QED  BY <2>1, <2>2, Zenon
<1>13. ASSUME NEW r \in PG_slab' PROVE SlabOwned(r)'
  <2>1. SlabOwned(r)
    BY <1>1, <1>2, Zenon DEF WholeOK
  <2>. QED  BY <2>1, <1>1, <1>9, <1>p, Zenon DEF SlabOwned
<1>14. ASSUME NEW u \in Task PROVE TaskOK(u)'
  <2>2. CASE u = t
    <3>1. s \in PG_slab /\ PG_slab' = PG_slab
      BY <1>1, Zenon
    <3>2. s \in PG_slab'
      BY <3>1, Zenon
    <3>3. pc'[u] = "test" /\ slab'[u] = s
      BY <2>2, <1>p, Zenon
    <3>4. slab'[u] \in PG_slab'
      BY <3>2, <3>3, Zenon
    <3>5. pc'[u] \notin NoSlabPc /\ pc'[u] # "online"
      BY <3>3 DEF NoSlabPc
    <3>. QED  BY <3>4, <3>5, Zenon DEF TaskOK
  <2>3. CASE u # t
    <3>1. TaskOK(u) /\ pc'[u] = pc[u] /\ slab'[u] = slab[u] /\ PG_slab' = PG_slab
      BY <2>3, <1>1, <1>2, <1>p, Zenon DEF WholeOK
    <3>2. ASSUME pc[u] = "online"
          PROVE  /\ slab[u] \notin Listed' /\ inuse'[slab[u]] = 0
                 /\ \A v \in Task \ {u} : slab'[v] # slab[u]
      <4>1. /\ slab[u] \notin Listed /\ inuse[slab[u]] = 0 /\ slab[u] \in PG_slab
            /\ \A v \in Task \ {u} : slab[v] # slab[u]
        BY <3>1, <3>2, Zenon DEF TaskOK, NoSlabPc
      <4>2. slab[u] # s
        BY <4>1, <1>7, Zenon
      <4>3. inuse'[slab[u]] = inuse[slab[u]]
        BY <4>1, <4>2, <1>1, <1>3, Zenon
      <4>. QED  BY <4>1, <4>2, <4>3, <1>9, <1>p, Zenon
    <3>. QED  BY <3>1, <3>2, TaskKept, Zenon
  <2>. QED  BY <2>2, <2>3, Zenon
<1>15. \A x \in live' : ObjectOK(x)'
  BY <1>1, <1>2, Zenon DEF WholeOK, ObjectOK
<1>16. HeldOK' /\ BlocksOK'
  <2>1. {x \in live' : x[2] = 0} = {x \in live : x[2] = 0}
    BY <1>5, <1>6, SlubAssumption
  <2>2. HeldOK'
    BY <2>1, <1>1, <1>2, Zenon DEF WholeOK, HeldOK
  <2>. QED  BY <2>2, <1>1, <1>2, Zenon DEF WholeOK, BlocksOK, Frames
<1>17. (Listed \subseteq PG_slab)'
  BY <1>1, <1>2, <1>9, Zenon DEF WholeOK
<1>. QED  BY <1>9, <1>11, <1>12, <1>13, <1>14, <1>15, <1>16, <1>17, Zenon DEF SlubInv, WholeOK

\* offline_exceeded_empty_slab(): the task will give the slab back.
LEMMA OfflineInv ==
    ASSUME SlubInv, ~broken, NEW t \in Task, offline_exceeded_empty_slab(t) PROVE SlubInv'
<1>s. PICK s : s = slab[t]
  BY Zenon
<1>1. /\ pc[t] = "offline" /\ pc' = [pc EXCEPT ![t] = "discard"]
      /\ partial' = DeleteSlab(partial, s) /\ slab' = slab
      /\ full' = full /\ inuse' = inuse /\ freelist' = freelist /\ free' = free /\ held' = held
      /\ PG_slab' = PG_slab /\ live' = live /\ broken' = broken
  BY <1>s, Zenon DEF offline_exceeded_empty_slab, Goto, pageVars
<1>2. SlubTypes /\ ListsOK /\ WholeOK
  BY Zenon DEF SlubInv
<1>3. /\ partial \in Seq(Frame) /\ full \in Seq(Frame) /\ IsInjective(partial) /\ IsInjective(full)
      /\ \A r \in Range(partial) : r \notin Range(full)
      /\ pc \in [Task -> SlubPc]
  BY <1>2, Zenon DEF SlubTypes, ListsOK
<1>4. /\ DeleteSlab(partial, s) \in Seq(Frame) /\ IsInjective(DeleteSlab(partial, s))
      /\ Range(DeleteSlab(partial, s)) = Range(partial) \ {s}
  BY <1>3, DeleteQueue, Zenon
<1>5. ListsOK' /\ \A r : r # s => (r \in Listed' <=> r \in Listed)
  BY <1>1, <1>3, <1>4, Zenon DEF ListsOK, Listed
<1>6. \A r : r \in Listed' => r \in Listed
  BY <1>1, <1>4, Zenon DEF Listed
<1>p. pc'[t] = "discard" /\ \A u \in Task \ {t} : pc'[u] = pc[u]
  BY <1>1, <1>3, Zenon
<1>7. SlubTypes'
  <2>1. pc' \in [Task -> SlubPc]
    BY <1>1, <1>3, Zenon DEF SlubPc
  <2>. QED  BY <2>1, <1>1, <1>2, <1>4, Zenon DEF SlubTypes
<1>8. \A r \in PG_slab' : SlabOK(r)'
  BY <1>1, <1>2, Zenon DEF WholeOK, SlabOK, Shares, ObjectsOf
<1>9. ASSUME NEW r \in PG_slab' PROVE SlabOwned(r)'
  <2>1. CASE r = s
    BY <2>1, <1>s, <1>1, <1>p, Zenon DEF SlabOwned
  <2>2. CASE r # s
    <3>1. SlabOwned(r)
      BY <1>1, <1>2, Zenon DEF WholeOK
    <3>. QED  BY <2>2, <3>1, <1>1, <1>5, <1>p, Zenon DEF SlabOwned
  <2>. QED  BY <2>1, <2>2, Zenon
<1>10. ASSUME NEW u \in Task PROVE TaskOK(u)'
  <2>1. TaskOK(u)
    BY <1>2, Zenon DEF WholeOK
  <2>2. CASE u = t
    BY <2>1, <2>2, <1>1, <1>p, Zenon DEF TaskOK, NoSlabPc
  <2>3. CASE u # t
    BY <2>1, <2>3, <1>1, <1>6, <1>p, Zenon DEF TaskOK
  <2>. QED  BY <2>2, <2>3, Zenon
<1>11. (\A o \in live : ObjectOK(o))' /\ HeldOK' /\ BlocksOK'
  BY <1>1, <1>2, Zenon DEF WholeOK, ObjectOK, HeldOK, BlocksOK
<1>12. (Listed \subseteq PG_slab)'
  BY <1>1, <1>2, <1>6, Zenon DEF WholeOK
<1>. QED  BY <1>5, <1>7, <1>8, <1>9, <1>10, <1>11, <1>12, Zenon DEF SlubInv, WholeOK

\* free_slab(): the pages of a slab that nobody uses go back; of a slab in use, the
\* lists still tell the truth.
LEMMA FreeSlabInv ==
    ASSUME SlubInv, ~broken, NEW t \in Task, free_slab(t) PROVE SlubInv'
<1>s. PICK s : s = slab[t]
  BY Zenon
<1>1. /\ pc[t] = "discard" /\ pc' = [pc EXCEPT ![t] = "run"]
      /\ slab' = [slab EXCEPT ![t] = NoSlab] /\ PG_slab' = PG_slab \ {s}
      /\ Give(s, SlabOrder) /\ broken' = InUse(t, s)
      /\ partial' = partial /\ full' = full /\ inuse' = inuse /\ freelist' = freelist /\ live' = live
  BY <1>s, Zenon DEF free_slab, Goto, listVars
<1>2. SlubTypes /\ ListsOK /\ WholeOK
  BY Zenon DEF SlubInv
<1>3. pc \in [Task -> SlubPc] /\ slab \in [Task -> Frame \cup {NoSlab}] /\ PG_slab \subseteq Frame
  BY <1>2, Zenon DEF SlubTypes
<1>p. pc'[t] = "run" /\ slab'[t] = NoSlab
      /\ \A u \in Task \ {t} : pc'[u] = pc[u] /\ slab'[u] = slab[u]
  BY <1>1, <1>3, Zenon
<1>4. SlubTypes'
  <2>1. pc' \in [Task -> SlubPc] /\ slab' \in [Task -> Frame \cup {NoSlab}] /\ PG_slab' \subseteq Frame
    BY <1>1, <1>3, Zenon DEF SlubPc
  <2>2. broken' \in BOOLEAN
    BY <1>1, Zenon DEF InUse
  <2>. QED  BY <2>1, <2>2, <1>1, <1>2, Zenon DEF SlubTypes
<1>5. ListsOK' /\ Listed' = Listed
  BY <1>1, <1>2, Zenon DEF ListsOK, Listed
<1>6. \A r \in PG_slab : SlabOK(r)'
  BY <1>1, <1>2, Zenon DEF WholeOK, SlabOK, Shares, ObjectsOf
<1>7. \A r \in Listed' : SlabOK(r)'
  BY <1>2, <1>5, <1>6, Zenon DEF WholeOK
<1>8. ASSUME ~InUse(t, s) PROVE WholeOK'
  <2>1. /\ ObjectsOf(s) = {} /\ s \notin Listed /\ \A u \in Task \ {t} : slab[u] # s
    BY <1>8, Zenon DEF InUse
  <2>2. (Listed \subseteq PG_slab)'
    BY <2>1, <1>1, <1>2, <1>5, Zenon DEF WholeOK
  <2>3. ASSUME NEW r \in PG_slab' PROVE SlabOK(r)' /\ SlabOwned(r)'
    <3>1. r \in PG_slab /\ r # s /\ SlabOwned(r)
      BY <1>1, <1>2, Zenon DEF WholeOK
    <3>2. SlabOwned(r)'
      BY <3>1, <1>s, <1>5, <1>p, Zenon DEF SlabOwned
    <3>. QED  BY <3>1, <3>2, <1>6, Zenon
  <2>4. ASSUME NEW u \in Task PROVE TaskOK(u)'
    <3>1. CASE u = t
      BY <3>1, <1>p, Zenon DEF TaskOK, NoSlabPc
    <3>2. CASE u # t
      <4>1. TaskOK(u) /\ pc'[u] = pc[u] /\ slab'[u] = slab[u] /\ slab[u] # s
        BY <3>2, <2>1, <1>2, <1>p, Zenon DEF WholeOK
      <4>2. slab[u] \in PG_slab => slab[u] \in PG_slab'
        BY <4>1, <1>1, Zenon
      <4>3. ASSUME pc[u] = "online"
            PROVE  /\ slab[u] \notin Listed' /\ inuse'[slab[u]] = 0
                   /\ \A v \in Task \ {u} : slab'[v] # slab[u]
        <5>1. /\ slab[u] \notin Listed /\ inuse[slab[u]] = 0 /\ slab[u] \in PG_slab
              /\ \A v \in Task \ {u} : slab[v] # slab[u]
          BY <4>1, <4>3, Zenon DEF TaskOK, NoSlabPc
        <5>2. slab[u] # NoSlab
          BY <5>1, <1>3, SlubAssumption, Zenon
        <5>. QED  BY <5>1, <5>2, <1>1, <1>5, <1>p, Zenon
      <4>. QED  BY <4>1, <4>2, <4>3, TaskKept, Zenon
    <3>. QED  BY <3>1, <3>2, Zenon
  <2>5. ASSUME NEW o \in live' PROVE ObjectOK(o)'
    <3>1. o \in live /\ ObjectOK(o)
      BY <1>1, <1>2, Zenon DEF WholeOK
    <3>2. s \in PG_slab
      BY <1>s, <1>1, <1>2, Zenon DEF WholeOK, TaskOK, NoSlabPc
    <3>3. o[1] # s
      BY <3>1, <3>2, <2>1, Zenon DEF ObjectsOf, ObjectOK
    <3>. QED  BY <3>1, <3>3, <1>1, Zenon DEF ObjectOK
  <2>6. HeldOK' /\ BlocksOK'
    <3>1. BlocksOK' /\ held' = held \ {<<s, SlabOrder>>}
      BY <1>1, <1>2, GiveBlock, Zenon DEF WholeOK
    <3>2. HeldOK /\ \A o \in live : ObjectOK(o)
      BY <1>2, Zenon DEF WholeOK
    <3>3. s \in PG_slab
      BY <1>s, <1>1, <1>2, Zenon DEF WholeOK, TaskOK, NoSlabPc
    <3>4. \A x \in live : x[2] = 0 => x[1] # s
      BY <3>2, <3>3, Zenon DEF ObjectOK
    <3>. QED  BY <3>1, <3>2, <3>4, <1>1 DEF HeldOK
  <2>. QED  BY <2>2, <2>3, <2>4, <2>5, <2>6, Zenon DEF WholeOK
<1>. QED  BY <1>1, <1>4, <1>5, <1>7, <1>8, Zenon DEF SlubInv

-----------------------------------------------------------------------------
(* The theorems *)

\* A cache without slabs.
LEMMA SlubInvInit == SlubInit => SlubInv
<1>. SUFFICES ASSUME SlubInit PROVE SlubInv
  OBVIOUS
<1>1. /\ held = {} /\ partial = <<>> /\ full = <<>> /\ PG_slab = {} /\ live = {} /\ broken = FALSE
      /\ inuse = [s \in Frame |-> 0] /\ freelist = [s \in Frame |-> <<>>]
      /\ pc = [t \in Task |-> "run"] /\ slab = [t \in Task |-> NoSlab]
  BY Zenon DEF SlubInit
<1>2. SlubTypes
  <2>1. partial \in Seq(Frame) /\ full \in Seq(Frame)
    BY <1>1
  <2>2. inuse \in [Frame -> Nat]
    BY <1>1
  <2>3. <<>> \in Seq(1..Objects)
    OBVIOUS
  <2>4. freelist \in [Frame -> Seq(1..Objects)]
    BY <2>3, <1>1, Zenon
  <2>5. pc \in [Task -> SlubPc]
    BY <1>1, Zenon DEF SlubPc
  <2>6. slab \in [Task -> Frame \cup {NoSlab}]
    BY <1>1
  <2>. QED  BY <2>1, <2>2, <2>4, <2>5, <2>6, <1>1, Zenon DEF SlubTypes
<1>3. Range(partial) = {} /\ Range(full) = {} /\ IsInjective(partial) /\ IsInjective(full)
  BY <1>1 DEF Range, IsInjective
<1>4. ListsOK /\ Listed = {}
  BY <1>3 DEF ListsOK, Listed
<1>5. ASSUME NEW t \in Task PROVE TaskOK(t)
  <2>1. pc[t] = "run" /\ slab[t] = NoSlab
    BY <1>1, Zenon
  <2>. QED  BY <2>1, Zenon DEF TaskOK, NoSlabPc
<1>6. HeldOK
  BY <1>1 DEF HeldOK
<1>7. BlocksOK
  BY <1>1, Zenon DEF BlocksOK
<1>8. WholeOK
  BY <1>1, <1>4, <1>5, <1>6, <1>7, Zenon DEF WholeOK
<1>. QED  BY <1>2, <1>4, <1>8, Zenon DEF SlubInv

\* The steps that change only the place of the task.
LEMMA QuietInv ==
    ASSUME SlubInv, ~broken, NEW t \in Task,
           slab_alloc(t) \/ partial_list_empty(t) \/ alloc_slab_fails(t) \/ slab_free_test(t)
    PROVE  SlubInv'
<1>1. /\ slab \in [Task -> Frame \cup {NoSlab}] /\ TaskOK(t)
  BY Zenon DEF SlubInv, SlubTypes, WholeOK
<1>2. slab = [slab EXCEPT ![t] = slab[t]]
  BY <1>1
<1>3. pc[t] \in NoSlabPc => slab[t] = NoSlab
  BY <1>1, Zenon DEF TaskOK
<1>4. CASE slab_alloc(t) \/ partial_list_empty(t) \/ alloc_slab_fails(t)
  <2>1. PICK p \in NoSlabPc : pc' = [pc EXCEPT ![t] = p]
    BY <1>4, Zenon DEF slab_alloc, partial_list_empty, alloc_slab_fails, Goto, NoSlabPc
  <2>2. pc[t] \in NoSlabPc
    BY <1>4, Zenon DEF slab_alloc, partial_list_empty, alloc_slab_fails, Goto, NoSlabPc
  <2>3. slab' = slab /\ UNCHANGED <<pageVars, partial, full, inuse, freelist, PG_slab, live, broken>>
    BY <1>4, Zenon DEF slab_alloc, partial_list_empty, alloc_slab_fails, listVars
  <2>4. slab' = [slab EXCEPT ![t] = slab[t]] /\ slab[t] = NoSlab
    BY <1>2, <1>3, <2>2, <2>3, Zenon
  <2>5. pc[t] \notin {"online", "discard"} /\ p \in SlubPc \ {"online"}
    BY <2>1, <2>2, Zenon DEF NoSlabPc, SlubPc
  <2>. QED  BY <2>1, <2>3, <2>4, <2>5, TaskInv, Zenon
<1>5. CASE slab_free_test(t)
  <2>1. pc[t] = "test" /\ UNCHANGED <<pageVars, partial, full, inuse, freelist, PG_slab, live, broken>>
    BY <1>5, Zenon DEF slab_free_test, listVars
  <2>2. CASE Discardable(slab[t])
    <3>1. pc' = [pc EXCEPT ![t] = "offline"] /\ slab' = slab
      BY <1>5, <2>2, Zenon DEF slab_free_test, Goto
    <3>2. slab' = [slab EXCEPT ![t] = slab[t]]
      BY <1>2, <3>1, Zenon
    <3>3. /\ pc[t] \notin NoSlabPc /\ pc[t] \notin {"online", "discard"}
          /\ "offline" \notin NoSlabPc /\ "offline" \in SlubPc \ {"online"}
      BY <2>1, Zenon DEF NoSlabPc, SlubPc
    <3>. QED  BY <2>1, <3>1, <3>2, <3>3, TaskInv, Zenon
  <2>3. CASE ~Discardable(slab[t])
    <3>1. pc' = [pc EXCEPT ![t] = "run"] /\ slab' = [slab EXCEPT ![t] = NoSlab]
      BY <1>5, <2>3, Zenon DEF slab_free_test, Goto
    <3>2. /\ pc[t] \notin {"online", "discard"}
          /\ "run" \in NoSlabPc /\ "run" \in SlubPc \ {"online"}
      BY <2>1, Zenon DEF NoSlabPc, SlubPc
    <3>. QED  BY <2>1, <3>1, <3>2, TaskInv, Zenon
  <2>. QED  BY <2>2, <2>3, Zenon
<1>. QED  BY <1>4, <1>5, Zenon

LEMMA SlubInvNext == SlubInv /\ [SlubNext]_slubVars => SlubInv'
<1>. SUFFICES ASSUME SlubInv, [SlubNext]_slubVars PROVE SlubInv'
  OBVIOUS
<1>1. CASE UNCHANGED slubVars
  <2>1. /\ free' = free /\ held' = held /\ partial' = partial /\ full' = full /\ inuse' = inuse
        /\ freelist' = freelist /\ PG_slab' = PG_slab /\ live' = live /\ broken' = broken
        /\ pc' = pc /\ slab' = slab
    BY <1>1, Zenon DEF slubVars, listVars, pageVars
  <2>2. SlubTypes' /\ ListsOK' /\ Listed' = Listed
    BY <2>1, Zenon DEF SlubInv, SlubTypes, ListsOK, Listed
  <2>3. \A s : SlabOK(s) => SlabOK(s)'
    BY <2>1, Zenon DEF SlabOK, Shares, ObjectsOf
  <2>4. \A s : SlabOwned(s) => SlabOwned(s)'
    BY <2>1, <2>2, Zenon DEF SlabOwned
  <2>5. \A t : TaskOK(t) => TaskOK(t)'
    BY <2>1, <2>2, Zenon DEF TaskOK
  <2>6. /\ HeldOK => HeldOK'
        /\ BlocksOK => BlocksOK'
        /\ \A o : ObjectOK(o) => ObjectOK(o)'
    BY <2>1, Zenon DEF HeldOK, BlocksOK, ObjectOK
  <2>7. WholeOK => WholeOK'
    BY <2>1, <2>2, <2>3, <2>4, <2>5, <2>6, Zenon DEF WholeOK
  <2>. QED  BY <2>1, <2>2, <2>3, <2>7, Zenon DEF SlubInv
<1>2. CASE SlubNext
  <2>1. PICK t \in Task : kmalloc(t) \/ kfree(t)
    BY <1>2, Zenon DEF SlubNext
  <2>2. ~broken
    BY <1>2, Zenon DEF SlubNext
  <2>3. CASE kmalloc(t)
    <3>1. \/ slab_alloc(t) \/ partial_list_empty(t) \/ alloc_slab_fails(t) \/ get_from_partial_list(t)
          \/ alloc_init_new_slab(t) \/ online_new_empty_slab(t) \/ kmalloc_large(t)
      BY <2>3, Zenon DEF kmalloc
    <3>. QED  BY <3>1, <2>2, QuietInv, GetInv, NewInv, OnlineInv, LargeInv, Zenon
  <2>4. CASE kfree(t)
    <3>1. \/ \E o \in live : free_large_kmalloc(t, o) \/ free_to_partial_list(t, o)
          \/ slab_free_test(t) \/ offline_exceeded_empty_slab(t) \/ free_slab(t)
      BY <2>4, Zenon DEF kfree
    <3>. QED  BY <3>1, <2>2, QuietInv, FreeLargeInv, FreeInv, OfflineInv, FreeSlabInv, Zenon
  <2>. QED  BY <2>1, <2>3, <2>4, Zenon
<1>. QED  BY <1>1, <1>2, Zenon

\* The invariant of the cache.
THEOREM SlubInvariance == SlubSpec => []SlubInv
  BY SlubInvInit, SlubInvNext, PTL DEF SlubSpec

\* The two lists hold no slab twice when neither does and they share none.
LEMMA TwoLists ==
    ASSUME NEW S, NEW p \in Seq(S), NEW q \in Seq(S), IsInjective(p), IsInjective(q),
           \A s \in Range(p) : s \notin Range(q)
    PROVE  IsInjective(p \o q)
<1>. DEFINE r == p \o q
<1>1. /\ Len(p) \in Nat /\ Len(q) \in Nat /\ DOMAIN r = 1..(Len(p) + Len(q))
      /\ DOMAIN p = 1..Len(p) /\ DOMAIN q = 1..Len(q)
      /\ \A i \in 1..(Len(p) + Len(q)) : r[i] = IF i <= Len(p) THEN p[i] ELSE q[i - Len(p)]
  OBVIOUS
<1>. HIDE DEF r
<1>2. \A i \in DOMAIN r :
          \/ i \in DOMAIN p /\ r[i] = p[i]
          \/ i - Len(p) \in DOMAIN q /\ r[i] = q[i - Len(p)] /\ i > Len(p)
  BY <1>1
<1>3. (\A i \in DOMAIN p : p[i] \in Range(p)) /\ (\A i \in DOMAIN q : q[i] \in Range(q))
  BY Zenon DEF Range
<1>4. ASSUME NEW i \in DOMAIN r, NEW j \in DOMAIN r, r[i] = r[j] PROVE i = j
  <2>1. CASE i \in DOMAIN p /\ r[i] = p[i] /\ j \in DOMAIN p /\ r[j] = p[j]
    BY <2>1, <1>4, Zenon DEF IsInjective
  <2>2. CASE /\ i - Len(p) \in DOMAIN q /\ r[i] = q[i - Len(p)]
             /\ j - Len(p) \in DOMAIN q /\ r[j] = q[j - Len(p)]
    <3>1. i - Len(p) = j - Len(p)
      BY <2>2, <1>4, Zenon DEF IsInjective
    <3>. QED  BY <3>1, <1>1, <1>4
  <2>. QED  BY <2>1, <2>2, <1>2, <1>3, <1>4, Zenon
<1>5. IsInjective(r)
  BY <1>4, Zenon DEF IsInjective
<1>. QED  BY <1>5 DEF r

\* The entries of a sequence.
LEMMA RangeSeq ==
    ASSUME NEW S, NEW f \in Seq(S) PROVE Range(f) \subseteq S
<1>1. \A i \in DOMAIN f : f[i] \in S
  OBVIOUS
<1>. QED  BY <1>1, Zenon DEF Range

\* The objects of a slab are those on its freelist and those the callers have.
LEMMA SharesAll ==
    ASSUME NEW s \in Frame, Shares(s), freelist[s] \in Seq(1..Objects),
           live \subseteq Frame \X (0..Objects)
    PROVE  {<<s, i>> : i \in 1..Objects} = ObjectsOf(s) \cup {<<s, i>> : i \in Range(freelist[s])}
<1>1. Range(freelist[s]) \subseteq 1..Objects
  BY RangeSeq, Zenon
<1>2. \A i \in 1..Objects : <<s, i>> \in live <=> i \notin Range(freelist[s])
  BY Zenon DEF Shares
<1>3. ASSUME NEW o \in ObjectsOf(s) PROVE \E i \in 1..Objects : o = <<s, i>>
  BY SlubAssumption DEF ObjectsOf
<1>4. ASSUME NEW i \in 1..Objects
      PROVE  <<s, i>> \in ObjectsOf(s) \/ i \in Range(freelist[s])
  BY <1>2, SlubAssumption DEF ObjectsOf
<1>. HIDE DEF ObjectsOf
<1>5. ASSUME NEW o \in {<<s, i>> : i \in 1..Objects}
      PROVE  o \in ObjectsOf(s) \cup {<<s, i>> : i \in Range(freelist[s])}
  BY <1>4, Zenon
<1>6. ASSUME NEW o \in ObjectsOf(s) \cup {<<s, i>> : i \in Range(freelist[s])}
      PROVE  o \in {<<s, i>> : i \in 1..Objects}
  BY <1>1, <1>3, Zenon
<1>. QED  BY <1>5, <1>6, Zenon

\* On any memory and for any number of tasks and objects, every listed slab has on
\* its freelist exactly the objects that no caller has: until a slab is discarded in
\* use no interleaving of kmalloc() and kfree() hands out an object twice.
THEOREM FreelistsAreExact == SlubSpec => []FreelistExact
<1>1. SlubInv => FreelistExact
  <2>. SUFFICES ASSUME SlubInv PROVE FreelistExact
    OBVIOUS
  <2>1. /\ partial \in Seq(Frame) /\ full \in Seq(Frame) /\ freelist \in [Frame -> Seq(1..Objects)]
        /\ live \subseteq Frame \X (0..Objects) /\ IsInjective(partial) /\ IsInjective(full)
        /\ \A s \in Range(partial) : s \notin Range(full)
        /\ \A s \in Listed : SlabOK(s)
    BY Zenon DEF SlubInv, SlubTypes, ListsOK
  <2>2. IsInjective(partial \o full)
    BY <2>1, TwoLists, Zenon
  <2>3. Listed \subseteq Frame
    BY <2>1 DEF Listed, Range
  <2>4. ASSUME NEW s \in Listed
        PROVE  /\ IsInjective(freelist[s])
               /\ {<<s, i>> : i \in 1..Objects} = ObjectsOf(s) \cup {<<s, i>> : i \in Range(freelist[s])}
               /\ inuse[s] = Cardinality(ObjectsOf(s)) /\ inuse[s] + Len(freelist[s]) = Objects
               /\ s \in Range(full) <=> inuse[s] = Objects
    <3>1. s \in Frame /\ Shares(s) /\ (s \in Range(full) <=> inuse[s] = Objects)
      BY <2>1, <2>3, Zenon DEF SlabOK
    <3>2. {<<s, i>> : i \in 1..Objects} = ObjectsOf(s) \cup {<<s, i>> : i \in Range(freelist[s])}
      BY <3>1, <2>1, SharesAll, Zenon
    <3>. QED  BY <3>1, <3>2, Zenon DEF Shares
  <2>. QED  BY <2>2, <2>4, Zenon DEF FreelistExact
<1>. QED  BY <1>1, SlubInvariance, PTL

\* On any memory and for any number of tasks, no pages of the cache are lost until a
\* slab is discarded in use.
THEOREM NoSlabLost == SlubSpec => []SlabNotLost
<1>1. SlubInv => SlabNotLost
  <2>. SUFFICES ASSUME SlubInv, ~broken PROVE SlabNotLost
    BY Zenon DEF SlabNotLost
  <2>1. WholeOK
    BY Zenon DEF SlubInv
  <2>2. \A s \in PG_slab : s \in Listed \/ \E t \in Task : slab[t] = s
    BY <2>1, Zenon DEF WholeOK, SlabOwned
  <2>3. \A o \in live : o[2] # 0 => o[1] \in PG_slab
    BY <2>1, Zenon DEF WholeOK, ObjectOK
  <2>. QED  BY <2>1, <2>2, <2>3, Zenon DEF SlabNotLost, WholeOK, HeldOK
<1>. QED  BY <1>1, SlubInvariance, PTL
=============================================================================
