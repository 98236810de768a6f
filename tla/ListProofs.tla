----------------------------- MODULE ListProofs -----------------------------
(***************************************************************************)
(* The ring of double_list.h for any number of entries: what the pointers  *)
(* say along next and along prev, and what each operation does to them     *)
(* while no other context is at work on the list.                          *)
(***************************************************************************)
EXTENDS DoubleList, FiniteSetTheorems, WellFoundedInduction, TLAPS

-----------------------------------------------------------------------------
(* Chains of pointers *)

Below == {x \in Nat \X Nat : x[1] < x[2]}

\* A nonempty set of naturals has a least element.
LEMMA LeastNat ==
    ASSUME NEW S, S \subseteq Nat, S # {}
    PROVE  \E x \in S : \A y \in S : x <= y
<1>1. OpToRel(<, Nat) = Below
  BY Zenon DEF OpToRel, Below
<1>2. IsWellFoundedOn(Below, Nat)
  BY <1>1, NatLessThanWellFounded, Zenon
<1>3. PICK x \in S : \A y \in S : ~(<<y, x>> \in Below)
  BY <1>2, WFMin, Zenon
<1>4. ASSUME NEW y \in S PROVE x <= y
  <2>1. x \in Nat /\ y \in Nat
    BY Zenon
  <2>2. ~(<<y, x>> \in Below)
    BY <1>3, Zenon
  <2>3. ~(y < x)
    BY <2>1, <2>2, Zenon DEF Below
  <2>. QED  BY <2>1, <2>3
<1>. QED  BY <1>4, Zenon

\* v is the walk of k steps along f.
IsWalk(f, v, m) == v = [k \in 0..m |-> IF k = 0 THEN Anchor ELSE f[v[k - 1]]]

LEMMA WalkExists ==
    ASSUME NEW f, NEW N \in Nat
    PROVE  \E v : IsWalk(f, v, N)
<1>. DEFINE S == {m \in Nat : ~\E v : IsWalk(f, v, m)}
<1>. SUFFICES ASSUME S # {} PROVE FALSE
  BY Zenon
<1>1. PICK m \in S : \A j \in S : m <= j
  <2>1. S \subseteq Nat
    BY Zenon
  <2>. HIDE DEF S
  <2>. QED  BY <2>1, LeastNat, Zenon
<1>2. CASE m = 0
  <2>. DEFINE u == [k \in 0..0 |-> Anchor]
  <2>1. u = [k \in 0..0 |-> IF k = 0 THEN Anchor ELSE f[u[k - 1]]]
    OBVIOUS
  <2>. QED  BY <2>1, <1>1, <1>2, Zenon DEF IsWalk
<1>3. CASE m # 0
  <2>1. m \in Nat /\ m - 1 \in Nat /\ ~(m <= m - 1)
    BY <1>3
  <2>2. PICK v : IsWalk(f, v, m - 1)
    BY <2>1, <1>1, Zenon
  <2>3. PICK u : u = [k \in 0..m |-> IF k = m THEN f[v[m - 1]] ELSE v[k]]
    BY Zenon
  <2>4. ASSUME NEW k \in 0..m PROVE u[k] = IF k = 0 THEN Anchor ELSE f[u[k - 1]]
    <3>1. u[k] = IF k = m THEN f[v[m - 1]] ELSE v[k]
      BY <2>3, Zenon
    <3>2. k # m => v[k] = IF k = 0 THEN Anchor ELSE f[v[k - 1]]
      <4>1. k # m => k \in 0..(m - 1)
        BY <2>1
      <4>. QED  BY <4>1, <2>2, Zenon DEF IsWalk
    <3>3. k # 0 => u[k - 1] = v[k - 1]
      <4>1. k # 0 => k - 1 \in 0..m /\ k - 1 # m
        BY <2>1
      <4>. QED  BY <4>1, <2>3, Zenon
    <3>. QED  BY <3>1, <3>2, <3>3, <1>3, Zenon
  <2>5. IsWalk(f, u, m)
    BY <2>3, <2>4, Zenon DEF IsWalk
  <2>. QED  BY <2>5, <1>1, Zenon
<1>. QED  BY <1>2, <1>3, Zenon

\* Node i of s; the anchor stands before the first and behind the last one.
Nth(s, i) == IF i \in 1..Len(s) THEN s[i] ELSE Anchor

\* The pointers f lead from the anchor along the nodes of s and back to it.
Chain(f, s) ==
    /\ s \in Seq(Node) /\ \A i, j \in 1..Len(s) : s[i] = s[j] => i = j
    /\ \A i \in 0..Len(s) : f[Nth(s, i)] = Nth(s, i + 1)

\* Different nodes are not more than there are.
LEMMA ChainLength ==
    ASSUME NEW s \in Seq(Node), \A i, j \in 1..Len(s) : s[i] = s[j] => i = j
    PROVE  Cardinality(Node) \in Nat /\ Len(s) \in Nat /\ Len(s) <= Cardinality(Node)
<1>. DEFINE L == Len(s)
<1>1. L \in Nat /\ s \in [1..L -> Node]
  OBVIOUS
<1>. HIDE DEF L
<1>2. IsFiniteSet(Node)
  BY ListAssumption, Zenon
<1>3. Cardinality(Node) \in Nat
  BY <1>2, FS_CardinalityType, Zenon
<1>4. IsFiniteSet(1..L) /\ Cardinality(1..L) = L
  <2>1. 1 \in Int /\ L \in Int
    BY <1>1
  <2>2. IsFiniteSet(1..L) /\ Cardinality(1..L) = IF 1 > L THEN 0 ELSE L - 1 + 1
    BY <2>1, FS_Interval, Zenon
  <2>. QED  BY <2>2, <1>1
<1>5. ~(Cardinality(Node) < L)
  <2>1. SUFFICES ASSUME Cardinality(Node) < Cardinality(1..L) PROVE FALSE
    BY <1>4, Zenon
  <2>2. \E i, j \in 1..L : i # j /\ s[i] = s[j]
    BY <2>1, <1>1, <1>2, <1>4, FS_PigeonHole, Zenon
  <2>. QED  BY <2>2, Zenon DEF L
<1>6. L <= Cardinality(Node)
  BY <1>1, <1>3, <1>5
<1>. QED  BY <1>1, <1>3, <1>6, Zenon DEF L

\* The walk finds the chain.
LEMMA AlongChain ==
    ASSUME NEW f, NEW s, Chain(f, s)
    PROVE  Along(f) = s
<1>. DEFINE L == Len(s)
            N == Cardinality(Node)
            walk == CHOOSE v : v = [k \in 0..(N + 1) |-> IF k = 0 THEN Anchor ELSE f[v[k - 1]]]
            Ends == {k \in 0..N : walk[k + 1] = Anchor}
            Length == IF Ends = {} THEN N + 1 ELSE CHOOSE k \in Ends : \A j \in Ends : k <= j
<1>1. Along(f) = [i \in 1..Length |-> walk[i]]
  BY Zenon DEF Along
<1>2. /\ s \in Seq(Node) /\ \A i \in 0..L : f[Nth(s, i)] = Nth(s, i + 1)
      /\ L \in Nat /\ N \in Nat /\ L <= N
  BY ChainLength, Zenon DEF Chain
<1>3. ASSUME NEW k \in 0..(N + 1) PROVE walk[k] = IF k = 0 THEN Anchor ELSE f[walk[k - 1]]
  <2>1. N + 1 \in Nat
    BY <1>2
  <2>2. \E v : v = [j \in 0..(N + 1) |-> IF j = 0 THEN Anchor ELSE f[v[j - 1]]]
    BY <2>1, WalkExists, Zenon DEF IsWalk
  <2>3. walk = [j \in 0..(N + 1) |-> IF j = 0 THEN Anchor ELSE f[walk[j - 1]]]
    BY <2>2, Zenon
  <2>. HIDE DEF walk
  <2>4. walk[k] = [j \in 0..(N + 1) |-> IF j = 0 THEN Anchor ELSE f[walk[j - 1]]][k]
    BY <2>3, Zenon
  <2>. QED  BY <2>4, Zenon
<1>. HIDE DEF walk
<1>4. ASSUME NEW k \in 0..(L + 1) PROVE walk[k] = Nth(s, k)
  <2>. DEFINE S == {i \in 0..(L + 1) : walk[i] # Nth(s, i)}
  <2>. SUFFICES ASSUME S # {} PROVE FALSE
    BY Zenon
  <2>1. PICK m \in S : \A j \in S : m <= j
    <3>1. S \subseteq Nat
      BY <1>2
    <3>. HIDE DEF S
    <3>. QED  BY <3>1, LeastNat, Zenon
  <2>2. m \in 0..(L + 1) /\ m \in 0..(N + 1) /\ walk[m] # Nth(s, m)
    BY <1>2
  <2>3. m # 0
    <3>1. Nth(s, 0) = Anchor
      BY DEF Nth
    <3>. QED  BY <3>1, <2>2, <1>3, Zenon
  <2>4. m - 1 \in 0..L /\ m - 1 \in 0..(L + 1) /\ ~(m <= m - 1) /\ (m - 1) + 1 = m
    BY <2>2, <2>3, <1>2
  <2>5. walk[m - 1] = Nth(s, m - 1)
    BY <2>1, <2>4, Zenon
  <2>6. walk[m] = f[Nth(s, m - 1)]
    BY <2>2, <2>3, <2>5, <1>3, Zenon
  <2>7. f[Nth(s, m - 1)] = Nth(s, m)
    BY <1>2, <2>4, Zenon
  <2>. QED  BY <2>2, <2>6, <2>7, Zenon
<1>5. ASSUME NEW i \in 1..L PROVE walk[i] = s[i] /\ s[i] \in Node /\ s[i] # Anchor
  <2>1. i \in 0..(L + 1) /\ s[i] \in Node
    BY <1>2
  <2>2. walk[i] = s[i]
    BY <2>1, <1>4, Zenon DEF Nth
  <2>. QED  BY <2>1, <2>2, ListAssumption, Zenon
<1>6. L \in Ends
  <2>1. L \in 0..N /\ L + 1 \in 0..(L + 1) /\ ~(L + 1 \in 1..L)
    BY <1>2
  <2>2. walk[L + 1] = Anchor
    BY <2>1, <1>4, Zenon DEF Nth
  <2>. QED  BY <2>1, <2>2, Zenon
<1>7. ASSUME NEW j \in Ends PROVE L <= j
  <2>1. j \in 0..N /\ walk[j + 1] = Anchor
    BY Zenon
  <2>2. j + 1 \notin 1..L
    BY <2>1, <1>5, Zenon
  <2>. QED  BY <2>1, <2>2, <1>2
<1>8. ASSUME NEW k \in Ends, \A j \in Ends : k <= j PROVE k = L
  <2>1. k <= L /\ L <= k /\ k \in 0..N
    BY <1>6, <1>7, <1>8, Zenon
  <2>. QED  BY <2>1, <1>2
<1>9. Length = L
  <2>. HIDE DEF Ends, L
  <2>. QED  BY <1>6, <1>7, <1>8, Zenon
<1>10. Along(f) = [i \in 1..L |-> s[i]]
  <2>. HIDE DEF Length
  <2>. QED  BY <1>1, <1>5, <1>9, Zenon
<1>11. s = [i \in 1..L |-> s[i]]
  BY <1>2
<1>. QED  BY <1>10, <1>11, Zenon

\* g leads along s backwards.
Back(g, s) == \A i \in 0..Len(s) : g[Nth(s, i + 1)] = Nth(s, i)

\* f and g are the ring of the nodes in s, and the others point to themselves.
Linked(f, g, s) ==
    /\ Chain(f, s) /\ Back(g, s)
    /\ \A x \in Node \ Range(s) : f[x] = x /\ g[x] = x

\* Where the nodes of a chain are.
LEMMA ChainNth ==
    ASSUME NEW f, NEW s, Chain(f, s)
    PROVE  /\ s \in Seq(Node) /\ Len(s) \in Nat /\ Range(s) = {s[i] : i \in 1..Len(s)}
           /\ Nth(s, 0) = Anchor /\ Nth(s, Len(s) + 1) = Anchor /\ Anchor \notin Range(s)
           /\ \A i \in 1..Len(s) : Nth(s, i) = s[i] /\ Nth(s, i) \in Range(s) /\ Nth(s, i) \in Node
           /\ \A i \in 0..(Len(s) + 1) : Nth(s, i) \in Range(s) \cup {Anchor} /\ Nth(s, i) \in Ptr
           /\ \A i, j \in 0..Len(s) : Nth(s, i) = Nth(s, j) => i = j
           /\ \A i, j \in 1..(Len(s) + 1) : Nth(s, i) = Nth(s, j) => i = j
<1>1. s \in Seq(Node) /\ \A i, j \in 1..Len(s) : s[i] = s[j] => i = j
  BY Zenon DEF Chain
<1>2. Len(s) \in Nat /\ DOMAIN s = 1..Len(s) /\ \A i \in 1..Len(s) : s[i] \in Node
  BY <1>1
<1>3. Range(s) = {s[i] : i \in 1..Len(s)}
  BY <1>2, Zenon DEF Range
<1>4. Nth(s, 0) = Anchor /\ Nth(s, Len(s) + 1) = Anchor
  BY <1>2 DEF Nth
<1>5. Anchor \notin Range(s)
  BY <1>2, <1>3, ListAssumption, Zenon
<1>6. \A i \in 1..Len(s) : Nth(s, i) = s[i] /\ Nth(s, i) \in Range(s) /\ Nth(s, i) \in Node
  BY <1>2, <1>3, Zenon DEF Nth
<1>7. ASSUME NEW i \in 0..Len(s), NEW j \in 0..Len(s), Nth(s, i) = Nth(s, j) PROVE i = j
  <2>1. /\ i = 0 \/ i \in 1..Len(s)
        /\ j = 0 \/ j \in 1..Len(s)
    BY <1>2
  <2>. QED  BY <2>1, <1>1, <1>4, <1>5, <1>6, <1>7, Zenon
<1>8. ASSUME NEW i \in 1..(Len(s) + 1), NEW j \in 1..(Len(s) + 1), Nth(s, i) = Nth(s, j) PROVE i = j
  <2>1. /\ i = Len(s) + 1 \/ i \in 1..Len(s)
        /\ j = Len(s) + 1 \/ j \in 1..Len(s)
    BY <1>2
  <2>. QED  BY <2>1, <1>1, <1>4, <1>5, <1>6, <1>8, Zenon
<1>9. ASSUME NEW i \in 0..(Len(s) + 1) PROVE Nth(s, i) \in Range(s) \cup {Anchor} /\ Nth(s, i) \in Ptr
  <2>1. i = 0 \/ i = Len(s) + 1 \/ i \in 1..Len(s)
    BY <1>2
  <2>. QED  BY <2>1, <1>4, <1>6, Zenon DEF Ptr
<1>. QED  BY <1>1, <1>2, <1>3, <1>4, <1>5, <1>6, <1>7, <1>8, <1>9, Zenon

\* The same, one fact at a time.
LEMMA ChainSeq ==
    ASSUME NEW f, NEW s, Chain(f, s) PROVE s \in Seq(Node) /\ Len(s) \in Nat
BY ChainNth, Zenon

LEMMA ChainEnds ==
    ASSUME NEW f, NEW s, Chain(f, s) PROVE Nth(s, 0) = Anchor /\ Nth(s, Len(s) + 1) = Anchor
BY ChainNth, Zenon

LEMMA ChainIn ==
    ASSUME NEW f, NEW s, Chain(f, s), NEW i \in 0..(Len(s) + 1)
    PROVE  Nth(s, i) \in Range(s) \cup {Anchor} /\ Nth(s, i) \in Ptr
BY ChainNth, Zenon

LEMMA ChainNext ==
    ASSUME NEW f, NEW s, Chain(f, s), NEW i \in 0..Len(s) PROVE f[Nth(s, i)] = Nth(s, i + 1)
BY Zenon DEF Chain

LEMMA BackNext ==
    ASSUME NEW g, NEW s, Back(g, s), NEW i \in 0..Len(s) PROVE g[Nth(s, i + 1)] = Nth(s, i)
BY Zenon DEF Back

LEMMA ChainSame ==
    ASSUME NEW f, NEW s, Chain(f, s), NEW i \in 0..Len(s), NEW j \in 0..Len(s), Nth(s, i) = Nth(s, j)
    PROVE  i = j
BY ChainNth, Zenon

LEMMA ChainSameBack ==
    ASSUME NEW f, NEW s, Chain(f, s), NEW i \in 1..(Len(s) + 1), NEW j \in 1..(Len(s) + 1),
           Nth(s, i) = Nth(s, j)
    PROVE  i = j
BY ChainNth, Zenon

\* e behind the first m nodes of s, and s without its node m.
Ins(s, m, e) == [i \in 1..(Len(s) + 1) |-> IF i <= m THEN s[i] ELSE IF i = m + 1 THEN e ELSE s[i - 1]]
Del(s, m)    == [i \in 1..(Len(s) - 1) |-> IF i < m THEN s[i] ELSE s[i + 1]]

LEMMA InsNth ==
    ASSUME NEW s \in Seq(Node), NEW m \in 0..Len(s), NEW e \in Node
    PROVE  /\ Ins(s, m, e) \in Seq(Node) /\ Len(Ins(s, m, e)) = Len(s) + 1
           /\ \A i \in 0..m : Nth(Ins(s, m, e), i) = Nth(s, i)
           /\ Nth(Ins(s, m, e), m + 1) = e
           /\ \A i \in (m + 2)..(Len(s) + 2) : Nth(Ins(s, m, e), i) = Nth(s, i - 1)
<1>. DEFINE r == Ins(s, m, e)
<1>1. Len(s) \in Nat /\ s \in [1..Len(s) -> Node]
  OBVIOUS
<1>2. ASSUME NEW i \in 1..(Len(s) + 1)
      PROVE  /\ r[i] = IF i <= m THEN s[i] ELSE IF i = m + 1 THEN e ELSE s[i - 1]
             /\ r[i] \in Node
  <2>1. r[i] = IF i <= m THEN s[i] ELSE IF i = m + 1 THEN e ELSE s[i - 1]
    BY Zenon DEF Ins
  <2>2. (i <= m => i \in 1..Len(s)) /\ (~(i <= m) /\ i # m + 1 => i - 1 \in 1..Len(s))
    BY <1>1
  <2>. QED  BY <2>1, <2>2, <1>1, Zenon
<1>3. r \in [1..(Len(s) + 1) -> Node]
  BY <1>2, Zenon DEF Ins
<1>. HIDE DEF r
<1>4. r \in Seq(Node) /\ Len(r) = Len(s) + 1
  BY <1>1, <1>3
<1>5. \A i \in 0..m : Nth(r, i) = Nth(s, i)
  BY <1>1, <1>2, <1>4 DEF Nth
<1>6. Nth(r, m + 1) = e
  BY <1>1, <1>2, <1>4 DEF Nth
<1>7. \A i \in (m + 2)..(Len(s) + 2) : Nth(r, i) = Nth(s, i - 1)
  BY <1>1, <1>2, <1>4 DEF Nth
<1>. QED  BY <1>4, <1>5, <1>6, <1>7, Zenon DEF r

LEMMA DelNth ==
    ASSUME NEW s \in Seq(Node), NEW m \in 1..Len(s)
    PROVE  /\ Del(s, m) \in Seq(Node) /\ Len(Del(s, m)) = Len(s) - 1
           /\ \A i \in 0..(m - 1) : Nth(Del(s, m), i) = Nth(s, i)
           /\ \A i \in m..Len(s) : Nth(Del(s, m), i) = Nth(s, i + 1)
<1>. DEFINE r == Del(s, m)
<1>1. Len(s) \in Nat /\ s \in [1..Len(s) -> Node]
  OBVIOUS
<1>2. ASSUME NEW i \in 1..(Len(s) - 1)
      PROVE  r[i] = (IF i < m THEN s[i] ELSE s[i + 1]) /\ r[i] \in Node
  <2>1. r[i] = IF i < m THEN s[i] ELSE s[i + 1]
    BY Zenon DEF Del
  <2>2. i \in 1..Len(s) /\ i + 1 \in 1..Len(s)
    BY <1>1
  <2>. QED  BY <2>1, <2>2, <1>1, Zenon
<1>3. r \in [1..(Len(s) - 1) -> Node]
  BY <1>2, Zenon DEF Del
<1>. HIDE DEF r
<1>4. r \in Seq(Node) /\ Len(r) = Len(s) - 1
  <2>1. Len(s) - 1 \in Nat
    BY <1>1
  <2>. QED  BY <2>1, <1>3
<1>5. \A i \in 0..(m - 1) : Nth(r, i) = Nth(s, i)
  BY <1>1, <1>2, <1>4 DEF Nth
<1>6. \A i \in m..Len(s) : Nth(r, i) = Nth(s, i + 1)
  BY <1>1, <1>2, <1>4 DEF Nth
<1>. QED  BY <1>4, <1>5, <1>6, Zenon DEF r

\* A new node e behind node m of the chain.
LEMMA ChainInsert ==
    ASSUME NEW f, NEW s, Chain(f, s), NEW m \in 0..Len(s), NEW e \in Node, e \notin Range(s),
           NEW F, F[Nth(s, m)] = e, F[e] = Nth(s, m + 1),
           \A x \in Ptr \ {Nth(s, m), e} : F[x] = f[x]
    PROVE  Chain(F, Ins(s, m, e))
<1>. DEFINE r == Ins(s, m, e)
            L == Len(s)
<1>1. s \in Seq(Node) /\ L \in Nat
  BY ChainSeq, Zenon
<1>2. ASSUME NEW i \in 0..L
      PROVE  /\ f[Nth(s, i)] = Nth(s, i + 1) /\ Nth(s, i) \in Ptr /\ Nth(s, i) # e
             /\ \A j \in 0..L : Nth(s, i) = Nth(s, j) => i = j
  <2>1. i \in 0..(L + 1)
    BY <1>1
  <2>2. Nth(s, i) \in Range(s) \cup {Anchor} /\ Nth(s, i) \in Ptr
    BY <2>1, ChainIn, Zenon
  <2>3. Nth(s, i) # e
    BY <2>2, ListAssumption, Zenon
  <2>4. \A j \in 0..L : Nth(s, i) = Nth(s, j) => i = j
    BY ChainSame, Zenon
  <2>. QED  BY <2>2, <2>3, <2>4, Zenon DEF Chain
<1>3. /\ r \in Seq(Node) /\ Len(r) = L + 1 /\ Nth(r, m + 1) = e
      /\ \A i \in 0..m : Nth(r, i) = Nth(s, i)
      /\ \A i \in (m + 2)..(L + 2) : Nth(r, i) = Nth(s, i - 1)
  <2>1. s \in Seq(Node)
    BY <1>1, Zenon
  <2>2. /\ r \in Seq(Node) /\ Len(r) = Len(s) + 1
        /\ \A i \in 0..m : Nth(r, i) = Nth(s, i)
        /\ Nth(r, m + 1) = e
        /\ \A i \in (m + 2)..(Len(s) + 2) : Nth(r, i) = Nth(s, i - 1)
    BY <2>1, InsNth, Zenon
  <2>. QED  BY <2>2, Zenon
<1>4. ASSUME NEW i \in 0..L, i # m PROVE F[Nth(s, i)] = Nth(s, i + 1)
  <2>1. Nth(s, i) \in Ptr /\ Nth(s, i) # e /\ Nth(s, i) # Nth(s, m)
    BY <1>4, <1>2, Zenon
  <2>. QED  BY <2>1, <1>2, Zenon
<1>. HIDE DEF r
<1>5. ASSUME NEW i \in 0..(L + 1) PROVE F[Nth(r, i)] = Nth(r, i + 1)
  <2>1. CASE i < m
    <3>1. i \in 0..m /\ i + 1 \in 0..m /\ i \in 0..L /\ i # m
      BY <2>1, <1>1
    <3>. QED  BY <3>1, <1>3, <1>4, Zenon
  <2>2. CASE i = m
    <3>1. i \in 0..m
      BY <2>2, <1>1
    <3>. QED  BY <3>1, <2>2, <1>3, Zenon
  <2>3. CASE i = m + 1
    <3>1. i + 1 \in (m + 2)..(L + 2) /\ (i + 1) - 1 = m + 1
      BY <2>3, <1>1
    <3>. QED  BY <3>1, <2>3, <1>3, Zenon
  <2>4. CASE i > m + 1
    <3>1. /\ i \in (m + 2)..(L + 2) /\ i + 1 \in (m + 2)..(L + 2) /\ i - 1 \in 0..L /\ i - 1 # m
          /\ (i + 1) - 1 = (i - 1) + 1
      BY <2>4, <1>1
    <3>. QED  BY <3>1, <1>3, <1>4, Zenon
  <2>. QED  BY <2>1, <2>2, <2>3, <2>4, <1>1
<1>6. ASSUME NEW i \in 1..(L + 1), NEW j \in 1..(L + 1), r[i] = r[j] PROVE i = j
  <2>1. Nth(r, i) = r[i] /\ Nth(r, j) = r[j]
    BY <1>3, Zenon DEF Nth
  <2>2. ASSUME NEW k \in 1..(L + 1), k # m + 1
        PROVE  \E l \in 1..L : Nth(r, k) = Nth(s, l) /\ k = IF l <= m THEN l ELSE l + 1
    <3>1. CASE k <= m
      <4>1. k \in 0..m /\ k \in 1..L
        BY <3>1, <1>1
      <4>. QED  BY <4>1, <3>1, <1>3, Zenon
    <3>2. CASE ~(k <= m)
      <4>1. k \in (m + 2)..(L + 2) /\ k - 1 \in 1..L /\ ~(k - 1 <= m) /\ k = (k - 1) + 1
        BY <3>2, <2>2, <1>1
      <4>. QED  BY <4>1, <1>3, Zenon
    <3>. QED  BY <3>1, <3>2, Zenon
  <2>3. \A l \in 1..L : l \in 0..L
    BY <1>1
  <2>4. CASE i = m + 1 \/ j = m + 1
    <3>1. ASSUME NEW k \in 1..(L + 1), k # m + 1 PROVE Nth(r, k) # e
      <4>1. PICK l \in 1..L : Nth(r, k) = Nth(s, l)
        BY <3>1, <2>2, Zenon
      <4>2. Nth(s, l) # e
        BY <2>3, <1>2, Zenon
      <4>. QED  BY <4>1, <4>2, Zenon
    <3>. QED  BY <3>1, <2>1, <2>4, <1>3, <1>6, Zenon
  <2>5. CASE i # m + 1 /\ j # m + 1
    <3>1. PICK l \in 1..L : Nth(r, i) = Nth(s, l) /\ i = IF l <= m THEN l ELSE l + 1
      BY <2>2, <2>5, Zenon
    <3>2. PICK k \in 1..L : Nth(r, j) = Nth(s, k) /\ j = IF k <= m THEN k ELSE k + 1
      BY <2>2, <2>5, Zenon
    <3>3. l = k
      BY <3>1, <3>2, <2>1, <2>3, <1>2, <1>6, Zenon
    <3>. QED  BY <3>1, <3>2, <3>3, Zenon
  <2>. QED  BY <2>4, <2>5, Zenon
<1>7. Chain(F, r)
  BY <1>3, <1>5, <1>6, Zenon DEF Chain
<1>. QED  BY <1>7, Zenon DEF r

LEMMA BackInsert ==
    ASSUME NEW f, NEW g, NEW s, Chain(f, s), Back(g, s), NEW m \in 0..Len(s), NEW e \in Node, e \notin Range(s),
           NEW G, G[Nth(s, m + 1)] = e, G[e] = Nth(s, m),
           \A x \in Ptr \ {Nth(s, m + 1), e} : G[x] = g[x]
    PROVE  Back(G, Ins(s, m, e))
<1>. DEFINE r == Ins(s, m, e)
            L == Len(s)
<1>1. s \in Seq(Node) /\ L \in Nat
  BY ChainSeq, Zenon
<1>2. ASSUME NEW i \in 1..(L + 1)
      PROVE  /\ Nth(s, i) \in Ptr /\ Nth(s, i) # e
             /\ \A j \in 1..(L + 1) : Nth(s, i) = Nth(s, j) => i = j
  <2>1. i \in 0..(L + 1)
    BY <1>1
  <2>2. Nth(s, i) \in Range(s) \cup {Anchor} /\ Nth(s, i) \in Ptr
    BY <2>1, ChainIn, Zenon
  <2>3. Nth(s, i) # e
    BY <2>2, ListAssumption, Zenon
  <2>. QED  BY <2>2, <2>3, ChainSameBack, Zenon
<1>3. /\ Len(r) = L + 1 /\ Nth(r, m + 1) = e
      /\ \A i \in 0..m : Nth(r, i) = Nth(s, i)
      /\ \A i \in (m + 2)..(L + 2) : Nth(r, i) = Nth(s, i - 1)
  <2>1. s \in Seq(Node)
    BY <1>1, Zenon
  <2>2. /\ r \in Seq(Node) /\ Len(r) = Len(s) + 1
        /\ \A i \in 0..m : Nth(r, i) = Nth(s, i)
        /\ Nth(r, m + 1) = e
        /\ \A i \in (m + 2)..(Len(s) + 2) : Nth(r, i) = Nth(s, i - 1)
    BY <2>1, InsNth, Zenon
  <2>. QED  BY <2>2, Zenon
<1>4. ASSUME NEW i \in 0..L, i # m PROVE G[Nth(s, i + 1)] = Nth(s, i)
  <2>1. i + 1 \in 1..(L + 1) /\ m + 1 \in 1..(L + 1) /\ i + 1 # m + 1
    BY <1>1, <1>4
  <2>2. Nth(s, i + 1) \in Ptr /\ Nth(s, i + 1) # e /\ Nth(s, i + 1) # Nth(s, m + 1)
    BY <2>1, <1>2, Zenon
  <2>. QED  BY <2>2, Zenon DEF Back
<1>. HIDE DEF r
<1>5. ASSUME NEW i \in 0..(L + 1) PROVE G[Nth(r, i + 1)] = Nth(r, i)
  <2>1. CASE i < m
    <3>1. i \in 0..m /\ i + 1 \in 0..m /\ i \in 0..L /\ i # m
      BY <2>1, <1>1
    <3>. QED  BY <3>1, <1>3, <1>4, Zenon
  <2>2. CASE i = m
    <3>1. i \in 0..m
      BY <2>2, <1>1
    <3>. QED  BY <3>1, <2>2, <1>3, Zenon
  <2>3. CASE i = m + 1
    <3>1. i + 1 \in (m + 2)..(L + 2) /\ (i + 1) - 1 = m + 1
      BY <2>3, <1>1
    <3>. QED  BY <3>1, <2>3, <1>3, Zenon
  <2>4. CASE i > m + 1
    <3>1. /\ i \in (m + 2)..(L + 2) /\ i + 1 \in (m + 2)..(L + 2) /\ i - 1 \in 0..L /\ i - 1 # m
          /\ (i + 1) - 1 = (i - 1) + 1
      BY <2>4, <1>1
    <3>. QED  BY <3>1, <1>3, <1>4, Zenon
  <2>. QED  BY <2>1, <2>2, <2>3, <2>4, <1>1
<1>6. Back(G, r)
  BY <1>3, <1>5, Zenon DEF Back
<1>. QED  BY <1>6, Zenon DEF r

\* Node m leaves the chain.
LEMMA ChainDelete ==
    ASSUME NEW f, NEW s, Chain(f, s), NEW m \in 1..Len(s),
           NEW F, F[Nth(s, m - 1)] = Nth(s, m + 1),
           \A x \in Ptr \ {Nth(s, m - 1), Nth(s, m)} : F[x] = f[x]
    PROVE  Chain(F, Del(s, m))
<1>. DEFINE r == Del(s, m)
            L == Len(s)
<1>1. s \in Seq(Node) /\ L \in Nat
  BY ChainSeq, Zenon
<1>2. ASSUME NEW i \in 0..L
      PROVE  /\ f[Nth(s, i)] = Nth(s, i + 1) /\ Nth(s, i) \in Ptr
             /\ \A j \in 0..L : Nth(s, i) = Nth(s, j) => i = j
  <2>1. i \in 0..(L + 1)
    BY <1>1
  <2>2. Nth(s, i) \in Ptr
    BY <2>1, ChainIn, Zenon
  <2>3. \A j \in 0..L : Nth(s, i) = Nth(s, j) => i = j
    BY ChainSame, Zenon
  <2>. QED  BY <2>2, <2>3, Zenon DEF Chain
<1>3. /\ r \in Seq(Node) /\ Len(r) = L - 1
      /\ \A i \in 0..(m - 1) : Nth(r, i) = Nth(s, i)
      /\ \A i \in m..L : Nth(r, i) = Nth(s, i + 1)
  BY <1>1, DelNth, Zenon
<1>4. ASSUME NEW i \in 0..L, i \notin {m - 1, m} PROVE F[Nth(s, i)] = Nth(s, i + 1)
  <2>1. m - 1 \in 0..L /\ m \in 0..L
    BY <1>1
  <2>2. Nth(s, i) \in Ptr /\ Nth(s, i) # Nth(s, m - 1) /\ Nth(s, i) # Nth(s, m)
    BY <2>1, <1>4, <1>2, Zenon
  <2>. QED  BY <2>2, <1>2, Zenon
<1>. HIDE DEF r
<1>5. ASSUME NEW i \in 0..(L - 1) PROVE F[Nth(r, i)] = Nth(r, i + 1)
  <2>1. CASE i < m - 1
    <3>1. i \in 0..(m - 1) /\ i + 1 \in 0..(m - 1) /\ i \in 0..L /\ i \notin {m - 1, m}
      BY <2>1, <1>1
    <3>. QED  BY <3>1, <1>3, <1>4, Zenon
  <2>2. CASE i = m - 1
    <3>1. i \in 0..(m - 1) /\ i + 1 \in m..L /\ i + 1 = m
      BY <2>2, <1>1
    <3>. QED  BY <3>1, <2>2, <1>3, Zenon
  <2>3. CASE i > m - 1
    <3>1. i \in m..L /\ i + 1 \in m..L /\ i + 1 \in 0..L /\ i + 1 \notin {m - 1, m}
      BY <2>3, <1>1
    <3>. QED  BY <3>1, <1>3, <1>4, Zenon
  <2>. QED  BY <2>1, <2>2, <2>3, <1>1
<1>6. ASSUME NEW i \in 1..(L - 1), NEW j \in 1..(L - 1), r[i] = r[j] PROVE i = j
  <2>1. Nth(r, i) = r[i] /\ Nth(r, j) = r[j]
    BY <1>3, Zenon DEF Nth
  <2>2. ASSUME NEW k \in 1..(L - 1)
        PROVE  \E l \in 0..L : Nth(r, k) = Nth(s, l) /\ k = IF l < m THEN l ELSE l - 1
    <3>1. CASE k < m
      <4>1. k \in 0..(m - 1) /\ k \in 0..L
        BY <3>1, <1>1
      <4>. QED  BY <4>1, <3>1, <1>3, Zenon
    <3>2. CASE ~(k < m)
      <4>1. k \in m..L /\ k + 1 \in 0..L /\ ~(k + 1 < m) /\ k = (k + 1) - 1
        BY <3>2, <1>1
      <4>. QED  BY <4>1, <1>3, Zenon
    <3>. QED  BY <3>1, <3>2, Zenon
  <2>3. PICK l \in 0..L : Nth(r, i) = Nth(s, l) /\ i = IF l < m THEN l ELSE l - 1
    BY <2>2, Zenon
  <2>4. PICK k \in 0..L : Nth(r, j) = Nth(s, k) /\ j = IF k < m THEN k ELSE k - 1
    BY <2>2, Zenon
  <2>5. l = k
    BY <2>3, <2>4, <2>1, <1>2, <1>6, Zenon
  <2>. QED  BY <2>3, <2>4, <2>5, Zenon
<1>7. Chain(F, r)
  <2>. HIDE DEF L
  <2>. QED  BY <1>3, <1>5, <1>6, Zenon DEF Chain
<1>. QED  BY <1>7, Zenon DEF r

LEMMA BackDelete ==
    ASSUME NEW f, NEW g, NEW s, Chain(f, s), Back(g, s), NEW m \in 1..Len(s),
           NEW G, G[Nth(s, m + 1)] = Nth(s, m - 1),
           \A x \in Ptr \ {Nth(s, m + 1), Nth(s, m)} : G[x] = g[x]
    PROVE  Back(G, Del(s, m))
<1>. DEFINE r == Del(s, m)
            L == Len(s)
<1>1. s \in Seq(Node) /\ L \in Nat
  BY ChainSeq, Zenon
<1>2. ASSUME NEW i \in 1..(L + 1)
      PROVE  /\ Nth(s, i) \in Ptr
             /\ \A j \in 1..(L + 1) : Nth(s, i) = Nth(s, j) => i = j
  <2>1. i \in 0..(L + 1)
    BY <1>1
  <2>2. Nth(s, i) \in Ptr
    BY <2>1, ChainIn, Zenon
  <2>. QED  BY <2>2, ChainSameBack, Zenon
<1>3. /\ Len(r) = L - 1
      /\ \A i \in 0..(m - 1) : Nth(r, i) = Nth(s, i)
      /\ \A i \in m..L : Nth(r, i) = Nth(s, i + 1)
  BY <1>1, DelNth, Zenon
<1>4. ASSUME NEW i \in 0..L, i \notin {m - 1, m} PROVE G[Nth(s, i + 1)] = Nth(s, i)
  <2>1. /\ m + 1 \in 1..(L + 1) /\ m \in 1..(L + 1) /\ i + 1 \in 1..(L + 1)
        /\ i + 1 # m + 1 /\ i + 1 # m
    BY <1>1, <1>4
  <2>2. /\ Nth(s, i + 1) \in Ptr /\ Nth(s, i + 1) # Nth(s, m + 1)
        /\ Nth(s, i + 1) # Nth(s, m)
    BY <2>1, <1>2, Zenon
  <2>. QED  BY <2>2, Zenon DEF Back
<1>. HIDE DEF r
<1>5. ASSUME NEW i \in 0..(L - 1) PROVE G[Nth(r, i + 1)] = Nth(r, i)
  <2>1. CASE i < m - 1
    <3>1. i \in 0..(m - 1) /\ i + 1 \in 0..(m - 1) /\ i \in 0..L /\ i \notin {m - 1, m}
      BY <2>1, <1>1
    <3>. QED  BY <3>1, <1>3, <1>4, Zenon
  <2>2. CASE i = m - 1
    <3>1. i \in 0..(m - 1) /\ i + 1 \in m..L /\ i + 1 = m
      BY <2>2, <1>1
    <3>. QED  BY <3>1, <2>2, <1>3, Zenon
  <2>3. CASE i > m - 1
    <3>1. i \in m..L /\ i + 1 \in m..L /\ i + 1 \in 0..L /\ i + 1 \notin {m - 1, m}
      BY <2>3, <1>1
    <3>. QED  BY <3>1, <1>3, <1>4, Zenon
  <2>. QED  BY <2>1, <2>2, <2>3, <1>1
<1>6. Back(G, r)
  <2>. HIDE DEF L
  <2>. QED  BY <1>3, <1>5, Zenon DEF Back
<1>. QED  BY <1>6, Zenon DEF r

\* What is in the longer and the shorter list.
LEMMA InRange ==
    ASSUME NEW s \in Seq(Node), NEW i \in 1..Len(s) PROVE Nth(s, i) = s[i] /\ s[i] \in Range(s)
<1>1. DOMAIN s = 1..Len(s)
  OBVIOUS
<1>. QED  BY <1>1, Zenon DEF Nth, Range

LEMMA RangeIndex ==
    ASSUME NEW s \in Seq(Node), NEW x \in Range(s) PROVE \E i \in 1..Len(s) : s[i] = x
<1>1. DOMAIN s = 1..Len(s)
  OBVIOUS
<1>. QED  BY <1>1, Zenon DEF Range

LEMMA InsRange ==
    ASSUME NEW s \in Seq(Node), NEW m \in 0..Len(s), NEW e \in Node
    PROVE  e \in Range(Ins(s, m, e)) /\ \A x \in Range(s) : x \in Range(Ins(s, m, e))
<1>. DEFINE r == Ins(s, m, e)
<1>1. Len(s) \in Nat
  OBVIOUS
<1>2. /\ r \in Seq(Node) /\ Len(r) = Len(s) + 1
      /\ \A i \in 0..m : Nth(r, i) = Nth(s, i)
      /\ Nth(r, m + 1) = e
      /\ \A i \in (m + 2)..(Len(s) + 2) : Nth(r, i) = Nth(s, i - 1)
  BY InsNth, Zenon
<1>. HIDE DEF r
<1>3. ASSUME NEW i \in 1..(Len(s) + 1) PROVE Nth(r, i) \in Range(r)
  <2>1. i \in 1..Len(r)
    BY <1>2, Zenon
  <2>. QED  BY <2>1, <1>2, InRange, Zenon
<1>4. e \in Range(r)
  <2>1. m + 1 \in 1..(Len(s) + 1)
    BY <1>1
  <2>. QED  BY <2>1, <1>2, <1>3, Zenon
<1>5. ASSUME NEW x \in Range(s) PROVE x \in Range(r)
  <2>1. PICK i \in 1..Len(s) : s[i] = x
    BY RangeIndex, Zenon
  <2>2. Nth(s, i) = x
    BY <2>1, InRange, Zenon
  <2>3. CASE i <= m
    <3>1. i \in 0..m /\ i \in 1..(Len(s) + 1)
      BY <2>3, <1>1
    <3>. QED  BY <3>1, <2>2, <1>2, <1>3, Zenon
  <2>4. CASE ~(i <= m)
    <3>1. i + 1 \in (m + 2)..(Len(s) + 2) /\ i + 1 \in 1..(Len(s) + 1) /\ (i + 1) - 1 = i
      BY <2>4, <1>1
    <3>. QED  BY <3>1, <2>2, <1>2, <1>3, Zenon
  <2>. QED  BY <2>3, <2>4, Zenon
<1>. QED  BY <1>4, <1>5, Zenon DEF r

LEMMA DelRange ==
    ASSUME NEW s \in Seq(Node), NEW m \in 1..Len(s), NEW x \in Range(s), x # s[m]
    PROVE  x \in Range(Del(s, m))
<1>. DEFINE r == Del(s, m)
<1>1. Len(s) \in Nat
  OBVIOUS
<1>2. /\ r \in Seq(Node) /\ Len(r) = Len(s) - 1
      /\ \A i \in 0..(m - 1) : Nth(r, i) = Nth(s, i)
      /\ \A i \in m..Len(s) : Nth(r, i) = Nth(s, i + 1)
  BY DelNth, Zenon
<1>. HIDE DEF r
<1>3. ASSUME NEW i \in 1..(Len(s) - 1) PROVE Nth(r, i) \in Range(r)
  <2>1. i \in 1..Len(r)
    BY <1>2, Zenon
  <2>. QED  BY <2>1, <1>2, InRange, Zenon
<1>4. PICK i \in 1..Len(s) : s[i] = x
  BY RangeIndex, Zenon
<1>5. Nth(s, i) = x /\ i # m
  BY <1>4, InRange, Zenon
<1>6. CASE i < m
  <2>1. i \in 0..(m - 1) /\ i \in 1..(Len(s) - 1)
    BY <1>6, <1>1
  <2>. QED  BY <2>1, <1>2, <1>3, <1>5, Zenon DEF r
<1>7. CASE ~(i < m)
  <2>1. i - 1 \in m..Len(s) /\ i - 1 \in 1..(Len(s) - 1) /\ (i - 1) + 1 = i
    BY <1>7, <1>5, <1>1
  <2>. QED  BY <2>1, <1>2, <1>3, <1>5, Zenon DEF r
<1>. QED  BY <1>6, <1>7, Zenon

\* The same as operations of Deque.
LEMMA InsAddsHead ==
    ASSUME NEW s \in Seq(Node), NEW e \in Node, e \notin Range(s)
    PROVE  Abstract!Operation(s, Ins(s, 0, e))
<1>1. Ins(s, 0, e) = <<e>> \o s
  BY DEF Ins
<1>2. Abstract!AddHead(s, Ins(s, 0, e))
  BY <1>1, Zenon DEF Abstract!AddHead, Abstract!Range, Range
<1>. QED  BY <1>2, Zenon DEF Abstract!Operation

LEMMA InsAddsTail ==
    ASSUME NEW s \in Seq(Node), NEW e \in Node, e \notin Range(s)
    PROVE  Abstract!Operation(s, Ins(s, Len(s), e))
<1>1. Ins(s, Len(s), e) = Append(s, e)
  <2>. DEFINE L == Len(s)
              r == Append(s, e)
  <2>1. L \in Nat /\ r \in Seq(Node) /\ Len(r) = L + 1 /\ r[L + 1] = e /\ \A i \in 1..L : r[i] = s[i]
    OBVIOUS
  <2>2. r = [i \in 1..(L + 1) |-> r[i]]
    <3>. HIDE DEF r
    <3>. QED  BY <2>1
  <2>. HIDE DEF r, L
  <2>3. ASSUME NEW i \in 1..(L + 1) PROVE r[i] = IF i <= L THEN s[i] ELSE IF i = L + 1 THEN e ELSE s[i - 1]
    BY <2>1
  <2>. QED  BY <2>2, <2>3, Zenon DEF Ins, r, L
<1>2. Abstract!AddTail(s, Ins(s, Len(s), e))
  BY <1>1, Zenon DEF Abstract!AddTail, Abstract!Range, Range
<1>. QED  BY <1>2, Zenon DEF Abstract!Operation

LEMMA ConcatAt ==
    ASSUME NEW S, NEW u \in Seq(S), NEW v \in Seq(S)
    PROVE  /\ u \o v \in Seq(S) /\ Len(u \o v) = Len(u) + Len(v)
           /\ \A i \in 1..(Len(u) + Len(v)) : (u \o v)[i] = IF i <= Len(u) THEN u[i] ELSE v[i - Len(u)]
<1>1. u \o v \in Seq(S)
  OBVIOUS
<1>2. Len(u \o v) = Len(u) + Len(v)
  OBVIOUS
<1>3. ASSUME NEW i \in 1..(Len(u) + Len(v)) PROVE (u \o v)[i] = IF i <= Len(u) THEN u[i] ELSE v[i - Len(u)]
  OBVIOUS
<1>. QED  BY <1>1, <1>2, <1>3, Zenon

LEMMA DelDeletes ==
    ASSUME NEW s \in Seq(Node), NEW m \in 1..Len(s)
    PROVE  Abstract!Operation(s, Del(s, m))
<1>1. Del(s, m) = SubSeq(s, 1, m - 1) \o SubSeq(s, m + 1, Len(s))
  <2>. DEFINE L == Len(s)
              u == SubSeq(s, 1, m - 1)
              v == SubSeq(s, m + 1, L)
              r == u \o v
  <2>1. L \in Nat /\ m - 1 \in Nat /\ L - m \in Nat
    OBVIOUS
  <2>2. u \in Seq(Node) /\ Len(u) = m - 1 /\ \A i \in 1..(m - 1) : u[i] = s[i]
    OBVIOUS
  <2>3. v \in Seq(Node) /\ Len(v) = L - m /\ \A i \in 1..(L - m) : v[i] = s[m + i]
    <3>1. v \in Seq(Node)
      OBVIOUS
    <3>2. Len(v) = L - m
      OBVIOUS
    <3>3. ASSUME NEW i \in 1..(L - m) PROVE v[i] = s[m + i]
      OBVIOUS
    <3>. HIDE DEF v, L
    <3>. QED  BY <3>1, <3>2, <3>3, Zenon
  <2>. HIDE DEF L, u, v
  <2>4. /\ r \in Seq(Node) /\ Len(r) = L - 1
        /\ \A i \in 1..(L - 1) : r[i] = IF i < m THEN u[i] ELSE v[i - (m - 1)]
    <3>1. r \in Seq(Node) /\ Len(r) = Len(u) + Len(v)
      BY <2>2, <2>3, ConcatAt, Zenon
    <3>2. ASSUME NEW i \in 1..(Len(u) + Len(v))
          PROVE  r[i] = IF i <= Len(u) THEN u[i] ELSE v[i - Len(u)]
      BY <2>2, <2>3, ConcatAt, Zenon
    <3>3. Len(u) + Len(v) = L - 1
      BY <2>1, <2>2, <2>3
    <3>4. \A i \in 1..(L - 1) : i <= m - 1 <=> i < m
      BY <2>1
    <3>. HIDE DEF r
    <3>. QED  BY <3>1, <3>2, <3>3, <3>4, <2>2, <2>3, Zenon
  <2>5. r = [i \in 1..(L - 1) |-> r[i]]
    <3>. HIDE DEF r
    <3>. QED  BY <2>4
  <2>. HIDE DEF r
  <2>6. ASSUME NEW i \in 1..(L - 1) PROVE r[i] = IF i < m THEN s[i] ELSE s[i + 1]
    <3>1. CASE i < m
      <4>1. i \in 1..(m - 1)
        BY <3>1, <2>1
      <4>. QED  BY <4>1, <3>1, <2>2, <2>4, Zenon
    <3>2. CASE ~(i < m)
      <4>1. i - (m - 1) \in 1..(L - m) /\ m + (i - (m - 1)) = i + 1
        BY <3>2, <2>1
      <4>. QED  BY <4>1, <3>2, <2>3, <2>4, Zenon
    <3>. QED  BY <3>1, <3>2, Zenon
  <2>. QED  BY <2>5, <2>6, Zenon DEF Del, r, u, v, L
<1>2. DOMAIN s = 1..Len(s)
  OBVIOUS
<1>3. Abstract!Delete(s, Del(s, m))
  BY <1>1, <1>2, Zenon DEF Abstract!Delete
<1>. QED  BY <1>3, Zenon DEF Abstract!Operation

\* A node that points to itself is not in the chain, and what it points to does not
\* matter to the chain.
LEMMA NotListed ==
    ASSUME NEW f, NEW s, Chain(f, s), NEW e, e # Anchor, f[e] = e PROVE e \notin Range(s)
<1>1. SUFFICES ASSUME e \in Range(s) PROVE FALSE
  BY Zenon
<1>2. s \in Seq(Node) /\ Len(s) \in Nat
  BY ChainSeq, Zenon
<1>3. PICK i \in 1..Len(s) : s[i] = e
  BY <1>1, <1>2, RangeIndex, Zenon
<1>4. Nth(s, i) = e
  BY <1>2, <1>3, InRange, Zenon
<1>5. i \in 0..Len(s) /\ i + 1 \in 1..(Len(s) + 1) /\ i \in 1..(Len(s) + 1) /\ i # i + 1
  BY <1>2
<1>6. Nth(s, i + 1) = e
  BY <1>4, <1>5, Zenon DEF Chain
<1>. QED  BY <1>4, <1>5, <1>6, ChainSameBack, Zenon

LEMMA ChainOff ==
    ASSUME NEW f, NEW s, Chain(f, s), NEW F, \A x \in Range(s) \cup {Anchor} : F[x] = f[x]
    PROVE  Chain(F, s)
<1>1. ASSUME NEW i \in 0..Len(s) PROVE F[Nth(s, i)] = Nth(s, i + 1)
  <2>1. Len(s) \in Nat
    BY ChainSeq, Zenon
  <2>2. i \in 0..(Len(s) + 1)
    BY <2>1
  <2>3. Nth(s, i) \in Range(s) \cup {Anchor}
    BY <2>2, ChainIn, Zenon
  <2>. QED  BY <2>3, Zenon DEF Chain
<1>. QED  BY <1>1, Zenon DEF Chain

LEMMA EmptyLinked ==
    ASSUME NEW f, f = [x \in Ptr |-> x] PROVE Linked(f, f, <<>>)
<1>1. Len(<<>>) = 0 /\ <<>> \in Seq(Node) /\ 1..0 = {} /\ 0..0 = {0}
  OBVIOUS
<1>2. \A i : Nth(<<>>, i) = Anchor
  BY <1>1, Zenon DEF Nth
<1>3. f[Anchor] = Anchor /\ \A x \in Node : f[x] = x
  BY Zenon DEF Ptr
<1>4. Chain(f, <<>>)
  BY <1>1, <1>2, <1>3, Zenon DEF Chain
<1>5. Back(f, <<>>)
  BY <1>1, <1>2, <1>3, Zenon DEF Back
<1>. QED  BY <1>3, <1>4, <1>5, Zenon DEF Linked

\* F and G are f and g with e, which pointed to itself, between a and b.
LinkIn(f, g, a, e, b, F, G) ==
    /\ a \in Ptr /\ b \in Ptr /\ e \in Node /\ f[e] = e
    /\ f[a] = b /\ g[b] = a /\ Anchor \in {a, b}
    /\ F[e] = b /\ F[a] = e /\ \A x \in Ptr \ {a, e} : F[x] = f[x]
    /\ G[b] = e /\ G[e] = a /\ \A x \in Ptr \ {b, e} : G[x] = g[x]

\* F and G are f and g without e; H is F before e is made to point to itself.
TakeOut(f, g, a, e, b, F, G, H) ==
    /\ a = g[e] /\ b = f[e]
    /\ F[e] = e /\ F[a] = b /\ \A x \in Ptr \ {a, e} : F[x] = f[x]
    /\ G[e] = e /\ G[b] = a /\ \A x \in Ptr \ {b, e} : G[x] = g[x]
    /\ H[a] = b /\ \A x \in Ptr \ {a, e} : H[x] = f[x]

\* A node that is linked in next to the anchor becomes the first or the last one.
LEMMA InsertLinked ==
    ASSUME NEW f, NEW g, NEW s, Linked(f, g, s), NEW a, NEW e, NEW b, NEW F, NEW G,
           LinkIn(f, g, a, e, b, F, G)
    PROVE  \E r : Linked(F, G, r) /\ Len(r) = Len(s) + 1 /\ Abstract!Operation(s, r)
<1>1. Chain(f, s) /\ Back(g, s)
  BY Zenon DEF Linked
<1>2. /\ Chain(f, s) /\ Back(g, s) /\ s \in Seq(Node) /\ Len(s) \in Nat
      /\ \A x \in Node \ Range(s) : f[x] = x /\ g[x] = x
  BY ChainSeq, Zenon DEF Linked
<1>3. e \in Node /\ e \notin Range(s)
  <2>1. e \in Node /\ e # Anchor /\ f[e] = e
    BY ListAssumption, Zenon DEF LinkIn
  <2>. QED  BY <1>1, <2>1, NotListed, Zenon
<1>4. e # a /\ e # b
  <2>1. g[e] = e /\ e # Anchor
    BY <1>2, <1>3, ListAssumption, Zenon
  <2>. QED  BY <2>1, Zenon DEF LinkIn
<1>5. \E m \in 0..Len(s) : Nth(s, m) = a /\ Nth(s, m + 1) = b /\ m \in {0, Len(s)}
  <2>1. 0 \in 0..Len(s) /\ Len(s) \in 0..Len(s) /\ 0 + 1 = 1
    BY <1>2
  <2>2. CASE a = Anchor
    <3>1. Nth(s, 0) = Anchor
      BY <1>2, ChainEnds, Zenon
    <3>2. f[Nth(s, 0)] = Nth(s, 0 + 1)
      BY <1>2, <2>1, Zenon DEF Chain
    <3>3. f[a] = b
      BY Zenon DEF LinkIn
    <3>. QED  BY <3>1, <3>2, <3>3, <2>1, <2>2, Zenon
  <2>3. CASE a # Anchor
    <3>1. b = Anchor /\ a \in Node /\ f[a] = b
      BY <2>3, Zenon DEF Ptr, LinkIn
    <3>2. a \in Range(s)
      BY <1>2, <2>3, <3>1, Zenon
    <3>3. PICK i \in 1..Len(s) : s[i] = a
      BY <1>2, <3>2, RangeIndex, Zenon
    <3>4. Nth(s, i) = a
      BY <1>2, <3>3, InRange, Zenon
    <3>5. i \in 0..Len(s) /\ i + 1 \in 1..(Len(s) + 1) /\ Len(s) + 1 \in 1..(Len(s) + 1)
      BY <1>2
    <3>6. Nth(s, i + 1) = Anchor
      BY <1>2, <3>1, <3>4, <3>5, Zenon DEF Chain
    <3>7. Nth(s, Len(s) + 1) = Anchor
      BY <1>2, ChainEnds, Zenon
    <3>8. i + 1 = Len(s) + 1
      <4>1. Nth(s, i + 1) = Nth(s, Len(s) + 1)
        BY <3>6, <3>7, Zenon
      <4>. QED  BY <1>1, <3>5, <4>1, ChainSameBack
    <3>9. i = Len(s)
      BY <3>8, <1>2
    <3>. QED  BY <3>1, <3>4, <3>5, <3>6, <3>9, Zenon
  <2>. QED  BY <2>2, <2>3, Zenon
<1>6. PICK m \in 0..Len(s) : Nth(s, m) = a /\ Nth(s, m + 1) = b /\ m \in {0, Len(s)}
  BY <1>5, Zenon
<1>7. PICK r : r = Ins(s, m, e)
  BY Zenon
<1>8. Chain(F, r)
  <2>1. F[Nth(s, m)] = e /\ F[e] = Nth(s, m + 1) /\ \A x \in Ptr \ {Nth(s, m), e} : F[x] = f[x]
    BY <1>6, Zenon DEF LinkIn
  <2>. QED  BY <1>1, <1>3, <1>7, <2>1, ChainInsert
<1>9. Back(G, r)
  <2>1. G[Nth(s, m + 1)] = e /\ G[e] = Nth(s, m) /\ \A x \in Ptr \ {Nth(s, m + 1), e} : G[x] = g[x]
    BY <1>6, Zenon DEF LinkIn
  <2>. QED  BY <1>1, <1>3, <1>7, <2>1, BackInsert
<1>10. ASSUME NEW x \in Node \ Range(r) PROVE F[x] = x /\ G[x] = x
  <2>1. x \notin Range(s) /\ x # e
    BY <1>2, <1>3, <1>7, InsRange, Zenon
  <2>2. f[x] = x /\ g[x] = x /\ x \in Ptr
    BY <2>1, <1>2, Zenon DEF Ptr
  <2>3. x # a /\ x # b
    <3>1. 0 \in 0..Len(s) /\ m \in 0..(Len(s) + 1) /\ m + 1 \in 0..(Len(s) + 1)
      BY <1>2
    <3>2. a \in Range(s) \cup {Anchor} /\ b \in Range(s) \cup {Anchor}
      <4>1. Nth(s, m) \in Range(s) \cup {Anchor}
        BY <3>1, <1>1, ChainIn, Zenon
      <4>2. Nth(s, m + 1) \in Range(s) \cup {Anchor}
        BY <3>1, <1>1, ChainIn, Zenon
      <4>. QED  BY <4>1, <4>2, <1>6, Zenon
    <3>3. x # Anchor
      BY ListAssumption, Zenon
    <3>. QED  BY <3>2, <3>3, <2>1, Zenon
  <2>. QED  BY <2>1, <2>2, <2>3, Zenon DEF LinkIn
<1>11. Len(r) = Len(s) + 1
  BY <1>2, <1>3, <1>7, InsNth, Zenon
<1>12. Abstract!Operation(s, r)
  BY <1>2, <1>3, <1>6, <1>7, InsAddsHead, InsAddsTail, Zenon
<1>13. Linked(F, G, r)
  BY <1>8, <1>9, <1>10, Zenon DEF Linked
<1>. QED  BY <1>11, <1>12, <1>13, Zenon

\* A node that is unlinked leaves the list, even before it points to itself.
LEMMA DeleteLinked ==
    ASSUME NEW f, NEW g, NEW s, Linked(f, g, s), NEW a, NEW e \in Range(s), NEW b,
           NEW F, NEW G, NEW H, TakeOut(f, g, a, e, b, F, G, H)
    PROVE  \E r : /\ Linked(F, G, r) /\ Chain(H, r)
                  /\ Len(r) = Len(s) - 1 /\ Abstract!Operation(s, r)
<1>1. Chain(f, s) /\ Back(g, s)
  BY Zenon DEF Linked
<1>2. /\ Chain(f, s) /\ Back(g, s) /\ s \in Seq(Node) /\ Len(s) \in Nat
      /\ \A x \in Node \ Range(s) : f[x] = x /\ g[x] = x
  BY ChainSeq, Zenon DEF Linked
<1>3. PICK m \in 1..Len(s) : s[m] = e
  BY <1>2, RangeIndex, Zenon
<1>4. Nth(s, m) = e /\ e \in Node
  <2>1. Nth(s, m) = e
    BY <1>2, <1>3, InRange, Zenon
  <2>2. e \in Node
    BY <1>2, <1>3
  <2>. QED  BY <2>1, <2>2, Zenon
<1>5. /\ m \in 0..Len(s) /\ m - 1 \in 0..Len(s) /\ (m - 1) + 1 = m /\ m # m - 1 /\ m # m + 1
      /\ m \in 1..(Len(s) + 1) /\ m + 1 \in 1..(Len(s) + 1)
      /\ m - 1 \in 0..(Len(s) + 1) /\ m + 1 \in 0..(Len(s) + 1)
  BY <1>2
<1>6. a = Nth(s, m - 1) /\ b = Nth(s, m + 1)
  <2>1. f[Nth(s, m)] = Nth(s, m + 1)
    BY <1>1, <1>5, ChainNext
  <2>2. g[Nth(s, (m - 1) + 1)] = Nth(s, m - 1)
    BY <1>1, <1>5, BackNext
  <2>. QED  BY <2>1, <2>2, <1>4, <1>5, Zenon DEF TakeOut
<1>7. a # e /\ b # e /\ a \in Range(s) \cup {Anchor} /\ b \in Range(s) \cup {Anchor} /\ a \in Ptr /\ b \in Ptr
  <2>1. a \in Range(s) \cup {Anchor} /\ b \in Range(s) \cup {Anchor} /\ a \in Ptr /\ b \in Ptr
    BY <1>1, <1>5, <1>6, ChainIn
  <2>2. a # e
    BY <1>1, <1>4, <1>5, <1>6, ChainSame
  <2>3. b # e
    BY <1>1, <1>4, <1>5, <1>6, ChainSameBack
  <2>. QED  BY <2>1, <2>2, <2>3, Zenon
<1>8. PICK r : r = Del(s, m)
  BY Zenon
<1>9. Chain(F, r) /\ Chain(H, r)
  <2>1. F[Nth(s, m - 1)] = Nth(s, m + 1) /\ \A x \in Ptr \ {Nth(s, m - 1), Nth(s, m)} : F[x] = f[x]
    BY <1>4, <1>6, Zenon DEF TakeOut
  <2>2. H[Nth(s, m - 1)] = Nth(s, m + 1) /\ \A x \in Ptr \ {Nth(s, m - 1), Nth(s, m)} : H[x] = f[x]
    BY <1>4, <1>6, Zenon DEF TakeOut
  <2>3. Chain(F, r)
    BY <1>1, <1>8, <2>1, ChainDelete, Zenon
  <2>4. Chain(H, r)
    BY <1>1, <1>8, <2>2, ChainDelete, Zenon
  <2>. QED  BY <2>3, <2>4, Zenon
<1>10. Back(G, r)
  <2>1. G[Nth(s, m + 1)] = Nth(s, m - 1) /\ \A x \in Ptr \ {Nth(s, m + 1), Nth(s, m)} : G[x] = g[x]
    BY <1>4, <1>6, Zenon DEF TakeOut
  <2>. QED  BY <1>1, <1>8, <2>1, BackDelete, Zenon
<1>11. ASSUME NEW x \in Node \ Range(r) PROVE F[x] = x /\ G[x] = x
  <2>1. CASE x = e
    BY <2>1, Zenon DEF TakeOut
  <2>2. CASE x # e
    <3>1. x \notin Range(s)
      BY <2>2, <1>2, <1>3, <1>8, DelRange, Zenon
    <3>2. f[x] = x /\ g[x] = x /\ x \in Ptr /\ x # a /\ x # b
      <4>1. f[x] = x /\ g[x] = x /\ x \in Ptr
        BY <3>1, <1>2, Zenon DEF Ptr
      <4>2. x # Anchor
        BY ListAssumption, Zenon
      <4>3. x # a /\ x # b
        BY <3>1, <4>2, <1>7, Zenon
      <4>. QED  BY <4>1, <4>3, Zenon
    <3>. QED  BY <3>2, <2>2, Zenon DEF TakeOut
  <2>. QED  BY <2>1, <2>2, Zenon
<1>12. Len(r) = Len(s) - 1
  BY <1>2, <1>8, DelNth, Zenon
<1>13. Abstract!Operation(s, r)
  BY <1>2, <1>8, DelDeletes, Zenon
<1>14. Linked(F, G, r)
  BY <1>9, <1>10, <1>11, Zenon DEF Linked
<1>. QED  BY <1>9, <1>12, <1>13, <1>14, Zenon

-----------------------------------------------------------------------------
(* The ring *)

\* next and prev are the ring of a list: they undo each other, and every node that
\* cannot be reached from the anchor, one that some set closed under next leaves
\* out, points to itself.
Whole(f, g) ==
    /\ f \in [Ptr -> Ptr] /\ g \in [Ptr -> Ptr]
    /\ \A x \in Ptr : f[g[x]] = x /\ g[f[x]] = x
    /\ \A S \in SUBSET Ptr :
           Anchor \in S /\ (\A y \in S : f[y] \in S) => \A x \in Ptr \ S : f[x] = x
    /\ Linked(f, g, Along(f))

LEMMA EmptyWhole ==
    ASSUME NEW f, NEW g, f = [x \in Ptr |-> x], g = [x \in Ptr |-> x] PROVE Whole(f, g)
<1>1. Linked(f, g, <<>>)
  BY EmptyLinked, Zenon
<1>2. Along(f) = <<>>
  BY <1>1, AlongChain, Zenon DEF Linked
<1>. QED  BY <1>1, <1>2, Zenon DEF Whole

\* The list that a node linked in next to the anchor leads to.
LEMMA InsertDeque ==
    ASSUME NEW f, NEW g, Whole(f, g), NEW a, NEW e, NEW b, NEW F, NEW G,
           LinkIn(f, g, a, e, b, F, G)
    PROVE  /\ Linked(F, G, Along(F)) /\ Len(Along(F)) = Len(Along(f)) + 1
           /\ Abstract!Operation(Along(f), Along(F))
<1>1. Linked(f, g, Along(f))
  BY Zenon DEF Whole
<1>2. PICK s : s = Along(f)
  BY Zenon
<1>3. \E r : Linked(F, G, r) /\ Len(r) = Len(s) + 1 /\ Abstract!Operation(s, r)
  <2>1. Linked(f, g, s)
    BY <1>1, <1>2, Zenon
  <2>. QED  BY <2>1, InsertLinked, Zenon
<1>4. PICK r : Linked(F, G, r) /\ Len(r) = Len(s) + 1 /\ Abstract!Operation(s, r)
  BY <1>3, Zenon
<1>5. Along(F) = r
  BY <1>4, AlongChain, Zenon DEF Linked
<1>. QED  BY <1>2, <1>4, <1>5, Zenon

\* And the one that a node taken out leaves.
LEMMA DeleteDeque ==
    ASSUME NEW f, NEW g, Whole(f, g), NEW a, NEW e \in Range(Along(f)), NEW b,
           NEW F, NEW G, NEW H, TakeOut(f, g, a, e, b, F, G, H)
    PROVE  /\ Linked(F, G, Along(F)) /\ Along(H) = Along(F)
           /\ Len(Along(F)) = Len(Along(f)) - 1
           /\ Abstract!Operation(Along(f), Along(F))
<1>1. PICK s : s = Along(f)
  BY Zenon
<1>2. Linked(f, g, s) /\ e \in Range(s)
  BY <1>1, Zenon DEF Whole
<1>3. PICK r : /\ Linked(F, G, r) /\ Chain(H, r)
               /\ Len(r) = Len(s) - 1 /\ Abstract!Operation(s, r)
  BY <1>2, DeleteLinked, Zenon
<1>4. Along(F) = r /\ Along(H) = r
  BY <1>3, AlongChain, Zenon DEF Linked
<1>. QED  BY <1>1, <1>3, <1>4, Zenon

\* A node that points to itself is linked in behind a, which is the anchor or the
\* last node.
LEMMA InsertWhole ==
    ASSUME NEW f, NEW g, Whole(f, g), NEW a \in Ptr, NEW e \in Ptr, NEW b \in Ptr,
           e # Anchor, f[e] = e, f[a] = b, Anchor \in {a, b}
    PROVE  Whole([f EXCEPT ![e] = b, ![a] = e], [g EXCEPT ![b] = e, ![e] = a])
<1>. DEFINE F == [f EXCEPT ![e] = b, ![a] = e]
            G == [g EXCEPT ![b] = e, ![e] = a]
<1>1. /\ f \in [Ptr -> Ptr] /\ g \in [Ptr -> Ptr]
      /\ \A x \in Ptr : f[g[x]] = x /\ g[f[x]] = x
  BY Zenon DEF Whole
<1>2. g[b] = a /\ e \notin {a, b}
  BY <1>1
<1>3. F \in [Ptr -> Ptr] /\ G \in [Ptr -> Ptr]
  BY <1>1, Zenon
<1>4. /\ F[e] = b /\ F[a] = e /\ \A x \in Ptr \ {a, e} : F[x] = f[x]
      /\ G[b] = e /\ G[e] = a /\ \A x \in Ptr \ {b, e} : G[x] = g[x]
  BY <1>1, <1>2, Zenon
<1>. HIDE DEF F, G
<1>5. \A x \in Ptr : F[G[x]] = x /\ G[F[x]] = x
  BY <1>1, <1>2, <1>3, <1>4
<1>6. ASSUME NEW S \in SUBSET Ptr, Anchor \in S, \A y \in S : F[y] \in S, NEW x \in Ptr \ S
      PROVE  F[x] = x
  <2>1. \A y \in S \ {e} : f[y] \in S \ {e}
    BY <1>1, <1>2, <1>4, <1>6
  <2>2. Anchor \in S \ {e} /\ S \ {e} \in SUBSET Ptr
    BY <1>6, Zenon
  <2>3. \A y \in Ptr \ (S \ {e}) : f[y] = y
    BY <2>1, <2>2, Zenon DEF Whole
  <2>4. a \in S
    BY <2>3, <1>1, <1>2, <1>6
  <2>5. e \in S
    BY <2>4, <1>4, <1>6, Zenon
  <2>. QED  BY <2>3, <2>4, <2>5, <1>4, <1>6, Zenon
<1>7. Linked(F, G, Along(F))
  <2>1. LinkIn(f, g, a, e, b, F, G)
    BY <1>2, <1>4, Zenon DEF LinkIn, Ptr
  <2>. QED  BY <2>1, InsertDeque, Zenon
<1>8. Whole(F, G)
  BY <1>3, <1>5, <1>6, <1>7, Zenon DEF Whole
<1>. QED  BY <1>8, Zenon DEF F, G

\* A node is taken out.
LEMMA DeleteWhole ==
    ASSUME NEW f, NEW g, Whole(f, g), NEW e \in Ptr, e # Anchor \/ f[e] = e
    PROVE  Whole([f EXCEPT ![g[e]] = f[e], ![e] = e], [g EXCEPT ![f[e]] = g[e], ![e] = e])
<1>. DEFINE a == g[e]
            b == f[e]
            F == [f EXCEPT ![a] = b, ![e] = e]
            G == [g EXCEPT ![b] = a, ![e] = e]
<1>1. /\ f \in [Ptr -> Ptr] /\ g \in [Ptr -> Ptr] /\ a \in Ptr /\ b \in Ptr
      /\ \A x \in Ptr : f[g[x]] = x /\ g[f[x]] = x
  BY Zenon DEF Whole
<1>2. F \in [Ptr -> Ptr] /\ G \in [Ptr -> Ptr]
  BY <1>1, Zenon
<1>3. /\ F[e] = e /\ (a # e => F[a] = b) /\ \A x \in Ptr \ {a, e} : F[x] = f[x]
      /\ G[e] = e /\ (b # e => G[b] = a) /\ \A x \in Ptr \ {b, e} : G[x] = g[x]
  BY <1>1, Zenon
<1>4. f[a] = e /\ g[b] = e /\ (a = e <=> b = e)
  BY <1>1, Zenon
<1>. HIDE DEF F, G, a, b
<1>5. \A x \in Ptr : F[G[x]] = x /\ G[F[x]] = x
  BY <1>1, <1>2, <1>3, <1>4
<1>6. ASSUME NEW S \in SUBSET Ptr, Anchor \in S, \A y \in S : F[y] \in S, NEW x \in Ptr \ S
      PROVE  F[x] = x
  <2>1. CASE a = e
    <3>1. \A y \in Ptr : F[y] = f[y]
      BY <2>1, <1>1, <1>3, <1>4, Zenon
    <3>. QED  BY <3>1, <1>6, Zenon DEF Whole
  <2>2. CASE a # e
    <3>. DEFINE T == IF a \in S THEN S \cup {e} ELSE S \ {e}
    <3>1. e # Anchor
      BY <2>2, <1>4, Zenon DEF b
    <3>2. T \in SUBSET Ptr /\ Anchor \in T
      BY <3>1, <1>6, Zenon
    <3>3. \A y \in T : f[y] \in T
      BY <2>2, <1>1, <1>3, <1>4, <1>6 DEF b
    <3>4. \A y \in Ptr \ T : f[y] = y
      <4>. HIDE DEF T
      <4>. QED  BY <3>2, <3>3, Zenon DEF Whole
    <3>5. CASE x = e
      BY <3>5, <1>3, Zenon
    <3>6. CASE x # e
      BY <3>6, <3>4, <1>1, <1>3, <1>4, <1>6, <2>2, Zenon
    <3>. QED  BY <3>5, <3>6, Zenon
  <2>. QED  BY <2>1, <2>2, Zenon
<1>7. Linked(F, G, Along(F))
  <2>1. Linked(f, g, Along(f))
    BY Zenon DEF Whole
  <2>2. CASE a = e
    <3>1. \A y \in Ptr : F[y] = f[y] /\ G[y] = g[y]
      BY <2>2, <1>1, <1>3, <1>4, Zenon
    <3>2. F = f /\ G = g
      <4>1. f = [y \in Ptr |-> f[y]] /\ g = [y \in Ptr |-> g[y]]
        BY <1>1, Zenon
      <4>2. F = [y \in Ptr |-> F[y]] /\ G = [y \in Ptr |-> G[y]]
        BY <1>2, Zenon
      <4>. QED  BY <4>1, <4>2, <3>1, Zenon
    <3>. QED  BY <3>2, <2>1, Zenon
  <2>3. CASE a # e
    <3>1. e # Anchor /\ e \in Node
      BY <2>3, <1>4, Zenon DEF b, Ptr
    <3>2. e \in Range(Along(f))
      BY <2>3, <2>1, <3>1, Zenon DEF Linked, a
    <3>3. F[a] = b /\ G[b] = a
      BY <2>3, <1>3, <1>4, Zenon
    <3>4. TakeOut(f, g, a, e, b, F, G, F)
      BY <3>3, <1>3, Zenon DEF TakeOut, a, b
    <3>. QED  BY <3>2, <3>4, DeleteDeque, Zenon
  <2>. QED  BY <2>2, <2>3, Zenon
<1>8. Whole(F, G)
  BY <1>2, <1>5, <1>6, <1>7, Zenon DEF Whole
<1>. QED  BY <1>8, Zenon DEF F, G, a, b

-----------------------------------------------------------------------------
(* The operations *)

\* The node is off the list f, and p and n are its neighbours-to-be.
Adding(c, f) ==
    /\ node[c] # Anchor /\ f[node[c]] = node[c]
    /\ f[p[c]] = n[c] /\ Anchor \in {p[c], n[c]}

\* The node is not the anchor of a list that holds something.
Removable(c, f) == node[c] # Anchor \/ f[node[c]] = node[c]
Removing(c, f, g) == Removable(c, f) /\ p[c] = g[node[c]] /\ n[c] = f[node[c]]

\* The walk has seen a set of nodes without the one it looks for, and has come to
\* the only one that next leads to from there.
Walking(c) ==
    \E V \in SUBSET Ptr : /\ Anchor \in V /\ node[c] \notin V
                          /\ \A y \in V : next[y] \in V \cup {n[c]}

\* Context c has left the ring f, g as far as its operation has come.
Progress(c, f, g) ==
    /\ at[c] \in {"walk", "load", "check_add", "add1", "check_del", "del1", "inc", "dec"} =>
           next = f /\ prev = g
    /\ at[c] = "walk" => node[c] # Anchor /\ op[c] \in {"wake", "delete"} /\ Walking(c)
    /\ at[c] = "load" /\ op[c] \in {"add_head", "add_tail", "wake"} =>
           node[c] # Anchor /\ f[node[c]] = node[c]
    /\ at[c] \in {"check_add", "add1", "add2", "add3", "add4"} => Adding(c, f)
    /\ at[c] \in {"add2", "add3"} => prev = [g EXCEPT ![n[c]] = node[c]]
    /\ at[c] = "add2" => next = f
    /\ at[c] \in {"add3", "add4"} => next = [f EXCEPT ![node[c]] = n[c]]
    /\ at[c] = "add4" => prev = [g EXCEPT ![n[c]] = node[c], ![node[c]] = p[c]]
    /\ at[c] = "check_del" => Removable(c, f)
    /\ at[c] \in {"del1", "del2", "init1", "init2"} => Removing(c, f, g)
    /\ at[c] \in {"del2", "init1", "init2"} => prev = [g EXCEPT ![n[c]] = p[c]]
    /\ at[c] = "del2" => next = f
    /\ at[c] = "init1" => next = [f EXCEPT ![p[c]] = n[c]]
    /\ at[c] = "init2" => next = [f EXCEPT ![p[c]] = n[c], ![node[c]] = node[c]]
    /\ at[c] # "spin"

ListTypeOK ==
    /\ op \in [Ctx -> AllOps] /\ at \in [Ctx -> At]
    /\ node \in [Ctx -> Ptr] /\ p \in [Ctx -> Ptr] /\ n \in [Ctx -> Ptr]

\* The ring f, g is in the pointers, up to what c has changed of it.
Ring(c, f, g) ==
    /\ Whole(f, g)
    /\ IF at[c] = "idle" THEN next = f /\ prev = g ELSE Progress(c, f, g)

LEMMA StartInv ==
    ASSUME ListTypeOK, NEW c \in Ctx, NEW o \in Ops, NEW x \in Node, Whole(next, prev),
           start(c, o, x)
    PROVE  /\ ListTypeOK' /\ \A d \in Ctx \ {c} : at'[d] = at[d]
           /\ \E f, g : Ring(c, f, g)'
<1>1. PICK h, k : h = next /\ k = prev
  BY Zenon
<1>2. /\ Whole(h, k) /\ h \in [Ptr -> Ptr] /\ k \in [Ptr -> Ptr] /\ x \in Ptr /\ x # Anchor /\ Anchor \in Ptr
      /\ o \in AllOps
  BY <1>1, ListAssumption, Zenon DEF Whole, Ptr
<1>3. /\ next' = h /\ prev' = k /\ p' = p /\ at[c] = "idle"
      /\ op' = [op EXCEPT ![c] = o]
      /\ node' = [node EXCEPT ![c] = IF o \in {"remove_head", "remove_tail"} THEN Anchor ELSE x]
  BY <1>1, Zenon DEF start
<1>4. CASE o \in {"wake", "delete"}
  <2>1. n' = [n EXCEPT ![c] = h[Anchor]] /\ at' = [at EXCEPT ![c] = "walk"]
    BY <1>1, <1>4, Zenon DEF start
  <2>2. ListTypeOK' /\ at'[c] = "walk" /\ n'[c] = h[Anchor] /\ node'[c] = x /\ op'[c] = o
    BY <1>2, <1>3, <1>4, <2>1, Zenon DEF ListTypeOK, At
  <2>3. Walking(c)'
    <3>1. /\ {Anchor} \in SUBSET Ptr /\ Anchor \in {Anchor} /\ node'[c] \notin {Anchor}
          /\ \A y \in {Anchor} : next'[y] \in {Anchor} \cup {n'[c]}
      BY <1>2, <1>3, <2>2, Zenon
    <3>. QED  BY <3>1, Zenon DEF Walking
  <2>4. Progress(c, h, k)'
    BY <1>2, <1>3, <1>4, <2>2, <2>3, Zenon DEF Progress
  <2>5. Ring(c, h, k)'
    BY <1>2, <2>2, <2>4, Zenon DEF Ring
  <2>. QED  BY <2>1, <2>2, <2>5, Zenon DEF ListTypeOK
<1>5. CASE o \notin {"wake", "delete"}
  <2>1. n' = n /\ at' = [at EXCEPT ![c] = "load"]
    BY <1>1, <1>5, Zenon DEF start
  <2>2. ListTypeOK' /\ at'[c] = "load" /\ op'[c] = o
    BY <1>2, <1>3, <1>5, <2>1, Zenon DEF ListTypeOK, At
  <2>3. o \in {"add_head", "add_tail"} => node'[c] = x /\ h[x] = x
    BY <1>1, <1>3, Zenon DEF start, Unlinked, ListTypeOK
  <2>4. Progress(c, h, k)'
    BY <1>2, <1>3, <1>5, <2>2, <2>3, Zenon DEF Progress
  <2>5. Ring(c, h, k)'
    BY <1>2, <2>2, <2>4, Zenon DEF Ring
  <2>. QED  BY <2>1, <2>2, <2>5, Zenon DEF ListTypeOK
<1>. QED  BY <1>4, <1>5, Zenon

\* The facts the steps of an operation share.
LEMMA RingType ==
    ASSUME NEW f, NEW g, Whole(f, g)
    PROVE  f \in [Ptr -> Ptr] /\ g \in [Ptr -> Ptr] /\ \A x \in Ptr : f[g[x]] = x /\ g[f[x]] = x
BY Zenon DEF Whole

Others(c) == \A d \in Ctx \ {c} : at'[d] = at[d]

\* A context moves on, and the operation and its pointers stay.
LEMMA GoInv ==
    ASSUME ListTypeOK, NEW c \in Ctx, NEW q \in At, at' = [at EXCEPT ![c] = q],
           op' = op, node' = node, p' = p, n' = n
    PROVE  ListTypeOK' /\ Others(c) /\ at'[c] = q
<1>1. at \in [Ctx -> At]
  BY Zenon DEF ListTypeOK
<1>2. at' \in [Ctx -> At] /\ at'[c] = q
  BY <1>1, Zenon
<1>3. \A d \in Ctx \ {c} : at'[d] = at[d]
  BY <1>1, Zenon
<1>. QED  BY <1>2, <1>3, Zenon DEF ListTypeOK, Others

LEMMA ReturnInv ==
    ASSUME ListTypeOK, NEW c \in Ctx, NEW f, NEW g, Whole(f, g), next' = f, prev' = g, Return(c)
    PROVE  ListTypeOK' /\ Others(c) /\ Ring(c, f, g)'
<1>1. Anchor \in Ptr /\ "wake" \in AllOps /\ "idle" \in At
  BY Zenon DEF Ptr, AllOps, At
<1>2. ListTypeOK' /\ Others(c) /\ at'[c] = "idle"
  BY <1>1, Zenon DEF ListTypeOK, Return, Others
<1>. QED  BY <1>2, Zenon DEF Ring

LEMMA ContainsInv ==
    ASSUME ListTypeOK, NEW c \in Ctx, NEW f, NEW g, Whole(f, g), Progress(c, f, g),
           list_header_contains(c)
    PROVE  ListTypeOK' /\ Others(c) /\ Ring(c, f, g)'
<1>. DEFINE nc == n[c]
            e == node[c]
<1>1. /\ at[c] = "walk" /\ next = f /\ prev = g /\ next' = f /\ prev' = g
      /\ e # Anchor /\ op[c] \in {"wake", "delete"} /\ Walking(c)
  BY Zenon DEF list_header_contains, Runs, Progress
<1>2. f \in [Ptr -> Ptr] /\ nc \in Ptr /\ e \in Ptr /\ Anchor \in Ptr
  <2>1. nc \in Ptr /\ e \in Ptr /\ Anchor \in Ptr
    BY Zenon DEF ListTypeOK, Ptr
  <2>. QED  BY <2>1, RingType, Zenon
<1>3. PICK V \in SUBSET Ptr : Anchor \in V /\ e \notin V /\ \A y \in V : f[y] \in V \cup {nc}
  BY <1>1, Zenon DEF Walking
<1>4. CASE nc \notin {Anchor, e}
  <2>1. n' = [n EXCEPT ![c] = f[nc]] /\ at' = at /\ op' = op /\ node' = node /\ p' = p
    BY <1>1, <1>4, Zenon DEF list_header_contains
  <2>2. ListTypeOK' /\ Others(c) /\ n'[c] = f[nc]
    BY <1>2, <2>1, Zenon DEF ListTypeOK, Others
  <2>3. Walking(c)'
    <3>1. V \cup {nc} \in SUBSET Ptr /\ Anchor \in V \cup {nc} /\ e \notin V \cup {nc}
      BY <1>2, <1>3, <1>4, Zenon
    <3>2. \A y \in V \cup {nc} : f[y] \in (V \cup {nc}) \cup {f[nc]}
      BY <1>3, Zenon
    <3>. QED  BY <3>1, <3>2, <2>1, <2>2, <1>1, Zenon DEF Walking
  <2>4. Progress(c, f, g)'
    BY <1>1, <2>1, <2>3, Zenon DEF Progress
  <2>. QED  BY <1>1, <2>1, <2>2, <2>4, Zenon DEF Ring
<1>5. CASE nc = IF op[c] = "wake" THEN e ELSE Anchor
  <2>1. Return(c)
    BY <1>5, <1>1, Zenon DEF list_header_contains
  <2>. QED  BY <2>1, <1>1, ReturnInv, Zenon
<1>6. CASE nc = IF op[c] = "wake" THEN Anchor ELSE e
  <2>1. /\ at' = [at EXCEPT ![c] = IF op[c] = "wake" THEN "load" ELSE "check_del"]
        /\ op' = op /\ node' = node /\ p' = p /\ n' = n
    BY <1>6, <1>1, Zenon DEF list_header_contains, Go
  <2>2. ListTypeOK' /\ Others(c) /\ at'[c] = IF op[c] = "wake" THEN "load" ELSE "check_del"
    BY <2>1, Zenon DEF ListTypeOK, Others, At
  <2>3. op[c] = "wake" => f[e] = e
    <3>1. SUFFICES ASSUME op[c] = "wake" PROVE f[e] = e
      BY Zenon
    <3>2. nc = Anchor
      BY <3>1, <1>6, Zenon
    <3>3. ASSUME NEW y \in V PROVE f[y] \in V
      BY <3>2, <1>3, Zenon
    <3>. QED  BY <3>3, <1>2, <1>3, Zenon DEF Whole
  <2>4. Progress(c, f, g)'
    <3>1. CASE op[c] = "wake"
      <4>1. at'[c] = "load" /\ node'[c] # Anchor /\ f[node'[c]] = node'[c]
        BY <3>1, <1>1, <2>1, <2>2, <2>3, Zenon
      <4>. QED  BY <4>1, <1>1, Zenon DEF Progress
    <3>2. CASE op[c] # "wake"
      <4>1. at'[c] = "check_del" /\ node'[c] # Anchor
        BY <3>2, <1>1, <2>1, <2>2, Zenon
      <4>. QED  BY <4>1, <1>1, Zenon DEF Progress, Removable
    <3>. QED  BY <3>1, <3>2, Zenon
  <2>. QED  BY <1>1, <2>2, <2>4, Zenon DEF Ring
<1>. QED  BY <1>4, <1>5, <1>6, Zenon

LEMMA LoadInv ==
    ASSUME ListTypeOK, NEW c \in Ctx, NEW f, NEW g, Whole(f, g), Progress(c, f, g), load(c)
    PROVE  ListTypeOK' /\ Others(c) /\ Ring(c, f, g)'
<1>1. /\ at[c] = "load" /\ next = f /\ prev = g /\ next' = f /\ prev' = g
      /\ op[c] \in {"add_head", "add_tail", "wake"} => node[c] # Anchor /\ f[node[c]] = node[c]
  BY Zenon DEF load, Runs, Progress
<1>2. /\ f \in [Ptr -> Ptr] /\ g \in [Ptr -> Ptr] /\ Anchor \in Ptr /\ node[c] \in Ptr
      /\ f[g[Anchor]] = Anchor /\ g[f[Anchor]] = Anchor
  <2>1. Anchor \in Ptr /\ node[c] \in Ptr
    BY Zenon DEF ListTypeOK, Ptr
  <2>2. f \in [Ptr -> Ptr] /\ g \in [Ptr -> Ptr] /\ \A x \in Ptr : f[g[x]] = x /\ g[f[x]] = x
    BY RingType, Zenon
  <2>. QED  BY <2>1, <2>2, Zenon
<1>3. CASE op[c] \in {"add_head", "add_tail", "wake"}
  <2>1. /\ at' = [at EXCEPT ![c] = "check_add"] /\ op' = op /\ node' = node
        /\ \E a \in Ptr, b \in Ptr : /\ p' = [p EXCEPT ![c] = a] /\ n' = [n EXCEPT ![c] = b]
                                     /\ f[a] = b /\ Anchor \in {a, b}
    <3>1. CASE op[c] = "add_tail"
      BY <3>1, <1>1, <1>2, Zenon DEF load, Go
    <3>2. CASE op[c] # "add_tail"
      BY <3>2, <1>3, <1>1, <1>2, Zenon DEF load, Go
    <3>. QED  BY <3>1, <3>2, Zenon
  <2>2. ListTypeOK' /\ Others(c) /\ at'[c] = "check_add"
    BY <2>1 DEF ListTypeOK, Others, At
  <2>3. Adding(c, f)'
    BY <1>1, <1>3, <2>1, Zenon DEF Adding, ListTypeOK
  <2>4. Progress(c, f, g)'
    BY <1>1, <2>2, <2>3, Zenon DEF Progress
  <2>. QED  BY <2>2, <2>4, Zenon DEF Ring
<1>4. CASE op[c] \in {"remove_head", "remove_tail"} /\ count > 0
  <2>1. /\ at' = [at EXCEPT ![c] = "check_del"] /\ op' = op /\ p' = p /\ n' = n
        /\ node' = [node EXCEPT ![c] = IF op[c] = "remove_head" THEN f[Anchor] ELSE g[Anchor]]
    BY <1>1, <1>4, Zenon DEF load, Go
  <2>2. ListTypeOK' /\ Others(c) /\ at'[c] = "check_del"
    BY <1>2, <2>1, Zenon DEF ListTypeOK, Others, At
  <2>3. node'[c] = Anchor => f[Anchor] = Anchor
    <3>1. node'[c] \in {f[Anchor], g[Anchor]}
      BY <2>1, Zenon DEF ListTypeOK
    <3>. QED  BY <1>2, <3>1, Zenon
  <2>4. Progress(c, f, g)'
    BY <1>1, <2>2, <2>3, Zenon DEF Progress, Removable
  <2>. QED  BY <2>2, <2>4, Zenon DEF Ring
<1>5. CASE ~(op[c] \in {"add_head", "add_tail", "wake"}) /\ ~(op[c] \in {"remove_head", "remove_tail"} /\ count > 0)
  <2>1. Return(c)
    BY <1>5, Zenon DEF load
  <2>. QED  BY <2>1, <1>1, ReturnInv, Zenon
<1>. QED  BY <1>3, <1>4, <1>5, Zenon

LEMMA AddValidInv ==
    ASSUME ListTypeOK, NEW c \in Ctx, NEW f, NEW g, Whole(f, g), Progress(c, f, g), __list_add_valid(c)
    PROVE  ListTypeOK' /\ Others(c) /\ Ring(c, f, g)'
<1>1. /\ at[c] = "check_add" /\ next = f /\ prev = g /\ next' = f /\ prev' = g /\ Adding(c, f)
      /\ op' = op /\ node' = node /\ p' = p /\ n' = n
  BY Zenon DEF __list_add_valid, Runs, Progress, Go
<1>2. g[n[c]] = p[c] /\ f[p[c]] = n[c] /\ node[c] \notin {p[c], n[c]}
  <2>1. node[c] \in Ptr /\ p[c] \in Ptr /\ n[c] \in Ptr
    BY Zenon DEF ListTypeOK
  <2>2. node[c] # Anchor /\ f[node[c]] = node[c] /\ f[p[c]] = n[c] /\ Anchor \in {p[c], n[c]}
    BY <1>1, Zenon DEF Adding
  <2>. QED  BY <2>1, <2>2, RingType
<1>3. at' = [at EXCEPT ![c] = "add1"]
  BY <1>1, <1>2, Zenon DEF __list_add_valid, Go
<1>4. ListTypeOK' /\ Others(c) /\ at'[c] = "add1"
  <2>1. "add1" \in At
    BY Zenon DEF At
  <2>. QED  BY <1>1, <1>3, <2>1, GoInv, Zenon
<1>5. Progress(c, f, g)'
  BY <1>1, <1>4, Zenon DEF Progress, Adding
<1>. QED  BY <1>4, <1>5, Zenon DEF Ring

LEMMA AddBetweenInv ==
    ASSUME ListTypeOK, NEW c \in Ctx, NEW f, NEW g, Whole(f, g), Progress(c, f, g), __list_add_between(c)
    PROVE  ListTypeOK' /\ Others(c) /\ \E h, k : Ring(c, h, k)'
<1>1. /\ at[c] \in {"add1", "add2", "add3", "add4"} /\ Adding(c, f)
      /\ op' = op /\ node' = node /\ p' = p /\ n' = n
  <2>1. at[c] \in {"add1", "add2", "add3", "add4"} /\ op' = op /\ node' = node /\ p' = p /\ n' = n
    BY Zenon DEF __list_add_between, Runs, SetNext, SetPrev, Go
  <2>. QED  BY <2>1, Zenon DEF Progress
<1>2. Adding(c, f)'
  BY <1>1, Zenon DEF Adding
<1>3. CASE at[c] = "add1"
  <2>1. at' = [at EXCEPT ![c] = "add2"] /\ next' = f /\ prev' = [g EXCEPT ![n[c]] = node[c]]
    <3>1. next = f /\ prev = g
      BY <1>3, Zenon DEF Progress
    <3>. QED  BY <1>3, <3>1, Zenon DEF __list_add_between, Runs, SetNext, SetPrev, Go
  <2>2. ListTypeOK' /\ Others(c) /\ at'[c] = "add2"
    <3>1. "add2" \in At
      BY Zenon DEF At
    <3>. QED  BY <1>1, <2>1, <3>1, GoInv, Zenon
  <2>3. Progress(c, f, g)'
    BY <1>1, <1>2, <2>1, <2>2, Zenon DEF Progress
  <2>. QED  BY <2>2, <2>3, Zenon DEF Ring
<1>4. CASE at[c] = "add2"
  <2>1. /\ at' = [at EXCEPT ![c] = "add3"]
        /\ next' = [f EXCEPT ![node[c]] = n[c]] /\ prev' = [g EXCEPT ![n[c]] = node[c]]
    <3>1. next = f /\ prev = [g EXCEPT ![n[c]] = node[c]]
      BY <1>4, Zenon DEF Progress
    <3>. QED  BY <1>4, <3>1, Zenon DEF __list_add_between, Runs, SetNext, SetPrev, Go
  <2>2. ListTypeOK' /\ Others(c) /\ at'[c] = "add3"
    <3>1. "add3" \in At
      BY Zenon DEF At
    <3>. QED  BY <1>1, <2>1, <3>1, GoInv, Zenon
  <2>3. Progress(c, f, g)'
    BY <1>1, <1>2, <2>1, <2>2, Zenon DEF Progress
  <2>. QED  BY <2>2, <2>3, Zenon DEF Ring
<1>5. CASE at[c] = "add3"
  <2>1. /\ at' = [at EXCEPT ![c] = "add4"]
        /\ next' = [f EXCEPT ![node[c]] = n[c]]
        /\ prev' = [g EXCEPT ![n[c]] = node[c], ![node[c]] = p[c]]
    <3>1. next = [f EXCEPT ![node[c]] = n[c]] /\ prev = [g EXCEPT ![n[c]] = node[c]]
      BY <1>5, Zenon DEF Progress
    <3>. QED  BY <1>5, <3>1, Zenon DEF __list_add_between, Runs, SetNext, SetPrev, Go
  <2>2. ListTypeOK' /\ Others(c) /\ at'[c] = "add4"
    <3>1. "add4" \in At
      BY Zenon DEF At
    <3>. QED  BY <1>1, <2>1, <3>1, GoInv, Zenon
  <2>3. Progress(c, f, g)'
    BY <1>1, <1>2, <2>1, <2>2, Zenon DEF Progress
  <2>. QED  BY <2>2, <2>3, Zenon DEF Ring
<1>6. CASE at[c] = "add4"
  <2>1. PICK h : h = [f EXCEPT ![node[c]] = n[c], ![p[c]] = node[c]]
    BY Zenon
  <2>2. PICK k : k = [g EXCEPT ![n[c]] = node[c], ![node[c]] = p[c]]
    BY Zenon
  <2>3. at' = [at EXCEPT ![c] = "inc"] /\ next' = h /\ prev' = k
    <3>1. next = [f EXCEPT ![node[c]] = n[c]] /\ prev = [g EXCEPT ![n[c]] = node[c], ![node[c]] = p[c]]
      BY <1>6, Zenon DEF Progress
    <3>. QED  BY <1>6, <2>1, <2>2, <3>1, Zenon DEF __list_add_between, Runs, SetNext, SetPrev, Go
  <2>4. ListTypeOK' /\ Others(c) /\ at'[c] = "inc"
    <3>1. "inc" \in At
      BY Zenon DEF At
    <3>. QED  BY <1>1, <2>3, <3>1, GoInv, Zenon
  <2>5. Whole(h, k)
    <3>1. node[c] \in Ptr /\ p[c] \in Ptr /\ n[c] \in Ptr
      BY DEF ListTypeOK
    <3>2. node[c] # Anchor /\ f[node[c]] = node[c] /\ f[p[c]] = n[c] /\ Anchor \in {p[c], n[c]}
      BY <1>1, Zenon DEF Adding
    <3>. QED  BY <2>1, <2>2, <3>1, <3>2, InsertWhole, Zenon
  <2>6. Progress(c, h, k)'
    BY <2>3, <2>4, Zenon DEF Progress
  <2>. QED  BY <2>4, <2>5, <2>6, Zenon DEF Ring
<1>. QED  BY <1>1, <1>3, <1>4, <1>5, <1>6, Zenon

LEMMA DelValidInv ==
    ASSUME ListTypeOK, NEW c \in Ctx, NEW f, NEW g, Whole(f, g), Progress(c, f, g),
           __list_del_entry_valid(c)
    PROVE  ListTypeOK' /\ Others(c) /\ Ring(c, f, g)'
<1>1. /\ at[c] = "check_del" /\ next = f /\ prev = g /\ next' = f /\ prev' = g /\ Removable(c, f)
      /\ op' = op /\ node' = node
      /\ p' = [p EXCEPT ![c] = g[node[c]]] /\ n' = [n EXCEPT ![c] = f[node[c]]]
  BY Zenon DEF __list_del_entry_valid, Runs, Progress, Go
<1>2. node[c] \in Ptr /\ g[node[c]] \in Ptr /\ f[node[c]] \in Ptr
  BY RingType DEF ListTypeOK
<1>3. p'[c] = g[node[c]] /\ n'[c] = f[node[c]] /\ f[p'[c]] = node[c] /\ g[n'[c]] = node[c]
  BY <1>1, <1>2, RingType DEF ListTypeOK
<1>4. at' = [at EXCEPT ![c] = "del1"]
  BY <1>1, <1>3, Zenon DEF __list_del_entry_valid, Go
<1>5. ListTypeOK' /\ Others(c) /\ at'[c] = "del1"
  BY <1>1, <1>2, <1>4, Zenon DEF ListTypeOK, Others, At
<1>6. Progress(c, f, g)'
  BY <1>1, <1>3, <1>5, Zenon DEF Progress, Removing, Removable
<1>. QED  BY <1>5, <1>6, Zenon DEF Ring

LEMMA DelInitInv ==
    ASSUME ListTypeOK, NEW c \in Ctx, NEW f, NEW g, Whole(f, g), Progress(c, f, g), list_del_init(c)
    PROVE  ListTypeOK' /\ Others(c) /\ \E h, k : Ring(c, h, k)'
<1>1. /\ at[c] \in {"del1", "del2", "init1", "init2"} /\ Removing(c, f, g)
      /\ op' = op /\ node' = node /\ p' = p /\ n' = n
  <2>1. at[c] \in {"del1", "del2", "init1", "init2"} /\ op' = op /\ node' = node /\ p' = p /\ n' = n
    BY Zenon DEF list_del_init, Runs, SetNext, SetPrev, Go
  <2>. QED  BY <2>1, Zenon DEF Progress
<1>2. Removing(c, f, g)'
  BY <1>1, Zenon DEF Removing, Removable
<1>3. CASE at[c] = "del1"
  <2>1. at' = [at EXCEPT ![c] = "del2"] /\ next' = f /\ prev' = [g EXCEPT ![n[c]] = p[c]]
    <3>1. next = f /\ prev = g
      BY <1>3, Zenon DEF Progress
    <3>. QED  BY <1>3, <3>1, Zenon DEF list_del_init, Runs, SetNext, SetPrev, Go
  <2>2. ListTypeOK' /\ Others(c) /\ at'[c] = "del2"
    <3>1. "del2" \in At
      BY Zenon DEF At
    <3>. QED  BY <1>1, <2>1, <3>1, GoInv, Zenon
  <2>3. Progress(c, f, g)'
    BY <1>1, <1>2, <2>1, <2>2, Zenon DEF Progress
  <2>. QED  BY <2>2, <2>3, Zenon DEF Ring
<1>4. CASE at[c] = "del2"
  <2>1. /\ at' = [at EXCEPT ![c] = "init1"]
        /\ next' = [f EXCEPT ![p[c]] = n[c]] /\ prev' = [g EXCEPT ![n[c]] = p[c]]
    <3>1. next = f /\ prev = [g EXCEPT ![n[c]] = p[c]]
      BY <1>4, Zenon DEF Progress
    <3>. QED  BY <1>4, <3>1, Zenon DEF list_del_init, Runs, SetNext, SetPrev, Go
  <2>2. ListTypeOK' /\ Others(c) /\ at'[c] = "init1"
    <3>1. "init1" \in At
      BY Zenon DEF At
    <3>. QED  BY <1>1, <2>1, <3>1, GoInv, Zenon
  <2>3. Progress(c, f, g)'
    BY <1>1, <1>2, <2>1, <2>2, Zenon DEF Progress
  <2>. QED  BY <2>2, <2>3, Zenon DEF Ring
<1>5. CASE at[c] = "init1"
  <2>1. /\ at' = [at EXCEPT ![c] = "init2"]
        /\ next' = [f EXCEPT ![p[c]] = n[c], ![node[c]] = node[c]]
        /\ prev' = [g EXCEPT ![n[c]] = p[c]]
    <3>1. next = [f EXCEPT ![p[c]] = n[c]] /\ prev = [g EXCEPT ![n[c]] = p[c]]
      BY <1>5, Zenon DEF Progress
    <3>. QED  BY <1>5, <3>1, Zenon DEF list_del_init, Runs, SetNext, SetPrev, Go
  <2>2. ListTypeOK' /\ Others(c) /\ at'[c] = "init2"
    <3>1. "init2" \in At
      BY Zenon DEF At
    <3>. QED  BY <1>1, <2>1, <3>1, GoInv, Zenon
  <2>3. Progress(c, f, g)'
    BY <1>1, <1>2, <2>1, <2>2, Zenon DEF Progress
  <2>. QED  BY <2>2, <2>3, Zenon DEF Ring
<1>6. CASE at[c] = "init2"
  <2>1. PICK h : h = [f EXCEPT ![p[c]] = n[c], ![node[c]] = node[c]]
    BY Zenon
  <2>2. PICK k : k = [g EXCEPT ![n[c]] = p[c], ![node[c]] = node[c]]
    BY Zenon
  <2>3. at' = [at EXCEPT ![c] = "dec"] /\ next' = h /\ prev' = k
    <3>1. next = [f EXCEPT ![p[c]] = n[c], ![node[c]] = node[c]] /\ prev = [g EXCEPT ![n[c]] = p[c]]
      BY <1>6, Zenon DEF Progress
    <3>. QED  BY <1>6, <2>1, <2>2, <3>1, Zenon DEF list_del_init, Runs, SetNext, SetPrev, Go
  <2>4. ListTypeOK' /\ Others(c) /\ at'[c] = "dec"
    <3>1. "dec" \in At
      BY Zenon DEF At
    <3>. QED  BY <1>1, <2>3, <3>1, GoInv, Zenon
  <2>5. Whole(h, k)
    <3>1. node[c] \in Ptr /\ (node[c] # Anchor \/ f[node[c]] = node[c])
      BY <1>1, Zenon DEF Removing, Removable, ListTypeOK
    <3>2. Whole([f EXCEPT ![g[node[c]]] = f[node[c]], ![node[c]] = node[c]],
                [g EXCEPT ![f[node[c]]] = g[node[c]], ![node[c]] = node[c]])
      BY <3>1, DeleteWhole, Zenon
    <3>. QED  BY <3>2, <2>1, <2>2, <1>1, Zenon DEF Removing
  <2>6. Progress(c, h, k)'
    BY <2>3, <2>4, Zenon DEF Progress
  <2>. QED  BY <2>4, <2>5, <2>6, Zenon DEF Ring
<1>. QED  BY <1>1, <1>3, <1>4, <1>5, <1>6, Zenon

LEMMA SetCountInv ==
    ASSUME ListTypeOK, NEW c \in Ctx, NEW f, NEW g, Whole(f, g), Progress(c, f, g), set_count(c)
    PROVE  ListTypeOK' /\ Others(c) /\ Ring(c, f, g)'
<1>1. next' = f /\ prev' = g /\ Return(c)
  BY Zenon DEF set_count, Runs, Progress
<1>. QED  BY <1>1, ReturnInv, Zenon

LEMMA StepInv ==
    ASSUME ListTypeOK, NEW c \in Ctx, NEW f, NEW g, Whole(f, g), Progress(c, f, g), ListStep(c)
    PROVE  ListTypeOK' /\ Others(c) /\ \E h, k : Ring(c, h, k)'
BY ContainsInv, LoadInv, AddValidInv, AddBetweenInv, DelValidInv, DelInitInv, SetCountInv DEF ListStep

-----------------------------------------------------------------------------
(* The list that the pointers stand for *)

\* How far the count of context c lags behind the list, and how far it is ahead.
Behind(c) == IF at[c] = "inc" THEN 1 ELSE 0
Ahead(c)  == IF at[c] \in {"init1", "init2", "dec"} THEN 1 ELSE 0

\* A walk stays on the list, an entry that is about to be unlinked is on it, and
\* the count is the length up to the step that is due.
Held(c) ==
    /\ at[c] = "walk" => n[c] \in Range(Forward) \cup {Anchor}
    /\ at[c] \in {"check_del", "del1", "del2"} => node[c] \in Range(Forward)
    /\ count + Behind(c) = Len(Forward) + Ahead(c)

\* The pointers lead from a node of the list to one of it.
LEMMA ChainClosed ==
    ASSUME NEW f, NEW s, Chain(f, s), NEW x \in Range(s) \cup {Anchor}
    PROVE  f[x] \in Range(s) \cup {Anchor}
<1>1. s \in Seq(Node) /\ Len(s) \in Nat
  BY ChainSeq, Zenon
<1>2. \E i \in 0..Len(s) : Nth(s, i) = x
  <2>1. CASE x = Anchor
    <3>1. 0 \in 0..Len(s)
      BY <1>1
    <3>. QED  BY <3>1, <2>1, ChainEnds, Zenon
  <2>2. CASE x # Anchor
    <3>1. PICK i \in 1..Len(s) : s[i] = x
      BY <2>2, <1>1, RangeIndex, Zenon
    <3>2. Nth(s, i) = x /\ i \in 0..Len(s)
      <4>1. i \in 0..Len(s)
        BY <1>1
      <4>. QED  BY <4>1, <3>1, <1>1, InRange, Zenon
    <3>. QED  BY <3>2, Zenon
  <2>. QED  BY <2>1, <2>2, Zenon
<1>3. PICK i \in 0..Len(s) : Nth(s, i) = x
  BY <1>2, Zenon
<1>4. i + 1 \in 0..(Len(s) + 1)
  BY <1>1
<1>5. f[x] = Nth(s, i + 1)
  BY <1>3, ChainNext, Zenon
<1>6. Nth(s, i + 1) \in Range(s) \cup {Anchor}
  BY <1>4, ChainIn, Zenon
<1>. QED  BY <1>5, <1>6, Zenon

\* The ends of a list that is not empty.
LEMMA EndsListed ==
    ASSUME NEW f, NEW g, NEW s, Linked(f, g, s), Len(s) > 0
    PROVE  f[Anchor] \in Range(s) /\ g[Anchor] \in Range(s)
<1>1. Chain(f, s) /\ Back(g, s)
  BY Zenon DEF Linked
<1>2. s \in Seq(Node) /\ Len(s) \in Nat
  BY <1>1, ChainSeq, Zenon
<1>3. /\ 0 \in 0..Len(s) /\ 0 + 1 = 1 /\ 1 \in 1..Len(s)
      /\ Len(s) \in 0..Len(s) /\ Len(s) \in 1..Len(s)
  BY <1>2
<1>4. Nth(s, 0) = Anchor /\ Nth(s, Len(s) + 1) = Anchor
  BY <1>1, ChainEnds, Zenon
<1>5. f[Anchor] = Nth(s, 1)
  <2>1. f[Nth(s, 0)] = Nth(s, 0 + 1)
    BY <1>1, <1>3, ChainNext, Zenon
  <2>. QED  BY <2>1, <1>3, <1>4, Zenon
<1>6. g[Anchor] = Nth(s, Len(s))
  <2>1. g[Nth(s, Len(s) + 1)] = Nth(s, Len(s))
    BY <1>1, <1>3, BackNext, ZenonT(30)
  <2>. QED  BY <2>1, <1>4, Zenon
<1>7. Nth(s, 1) \in Range(s) /\ Nth(s, Len(s)) \in Range(s)
  <2>1. Nth(s, 1) \in Range(s)
    BY <1>2, <1>3, InRange, Zenon
  <2>2. Nth(s, Len(s)) \in Range(s)
    BY <1>2, <1>3, InRange, Zenon
  <2>. QED  BY <2>1, <2>2, Zenon
<1>. QED  BY <1>5, <1>6, <1>7, Zenon

\* A change to a node that is off the list leaves the list as it is.
LEMMA AlongOff ==
    ASSUME NEW f, NEW g, Whole(f, g), NEW e \in Ptr, e # Anchor, f[e] = e, NEW y
    PROVE  Along([f EXCEPT ![e] = y]) = Along(f)
<1>1. PICK s : s = Along(f)
  BY Zenon
<1>2. Chain(f, s) /\ f \in [Ptr -> Ptr]
  BY <1>1, Zenon DEF Whole, Linked
<1>3. PICK F : F = [f EXCEPT ![e] = y]
  BY Zenon
<1>4. e \notin Range(s)
  BY <1>2, NotListed, Zenon
<1>5. ASSUME NEW x \in Range(s) \cup {Anchor} PROVE F[x] = f[x]
  <2>1. x # e
    BY <1>4, Zenon
  <2>2. x \in Ptr
    <3>1. s \in Seq(Node)
      BY <1>2, ChainSeq, Zenon
    <3>2. \A z \in Range(s) : z \in Node
      BY <3>1 DEF Range
    <3>. QED  BY <3>2, Zenon DEF Ptr
  <2>. QED  BY <2>1, <2>2, <1>2, <1>3, Zenon
<1>6. Chain(F, s)
  BY <1>2, <1>5, ChainOff, Zenon
<1>. QED  BY <1>1, <1>3, <1>6, AlongChain, Zenon

\* What a step of an operation does to the list.
DequeStep(c) ==
    /\ Held(c)' /\ count' \in Nat
    /\ Forward' = Forward \/ Abstract!Operation(Forward, Forward')

LEMMA WholeLinked ==
    ASSUME NEW f, NEW g, Whole(f, g)
    PROVE  /\ Linked(f, g, Along(f)) /\ Chain(f, Along(f))
           /\ Along(f) \in Seq(Node) /\ Len(Along(f)) \in Nat
<1>1. Linked(f, g, Along(f)) /\ Chain(f, Along(f))
  BY Zenon DEF Whole, Linked
<1>. QED  BY <1>1, ChainSeq, Zenon

\* A step that changes neither next nor count, and goes to or stays at a place where
\* the two agree.
LEMMA StayHeld ==
    ASSUME NEW c \in Ctx, next' = next, count' = count, count \in Nat, count = Len(Forward),
           at'[c] \notin {"inc", "init1", "init2", "dec"},
           at'[c] = "walk" => n'[c] \in Range(Forward) \cup {Anchor},
           at'[c] \in {"check_del", "del1", "del2"} => node'[c] \in Range(Forward)
    PROVE  DequeStep(c)
<1>1. Forward' = Forward
  BY Zenon DEF Forward
<1>2. Behind(c)' = 0 /\ Ahead(c)' = 0
  BY Zenon DEF Behind, Ahead
<1>3. count' + Behind(c)' = Len(Forward') + Ahead(c)'
  BY <1>1, <1>2, Zenon
<1>. QED  BY <1>1, <1>3, Zenon DEF DequeStep, Held

\* Where the count agrees with the list.
LEMMA CountAgrees ==
    ASSUME NEW c \in Ctx, Held(c), count \in Nat, Len(Forward) \in Nat,
           at[c] \notin {"inc", "init1", "init2", "dec"}
    PROVE  count = Len(Forward)
<1>1. Behind(c) = 0 /\ Ahead(c) = 0 /\ count + Behind(c) = Len(Forward) + Ahead(c)
  BY Zenon DEF Behind, Ahead, Held
<1>. QED  BY <1>1

LEMMA ReturnAt ==
    ASSUME ListTypeOK, NEW c \in Ctx, Return(c) PROVE at'[c] = "idle"
BY Zenon DEF ListTypeOK, Return

LEMMA ContainsDeque ==
    ASSUME ListTypeOK, NEW c \in Ctx, NEW f, NEW g, Whole(f, g), Progress(c, f, g), Held(c),
           count \in Nat, list_header_contains(c)
    PROVE  DequeStep(c)
<1>1. /\ at[c] = "walk" /\ next = f /\ next' = next /\ count' = count
      /\ node[c] # Anchor /\ op[c] \in {"wake", "delete"}
      /\ n[c] \in Range(Forward) \cup {Anchor}
  BY Zenon DEF list_header_contains, Runs, Progress, Held
<1>2. Chain(f, Forward) /\ Len(Forward) \in Nat
  BY <1>1, WholeLinked, Zenon DEF Forward
<1>3. count = Len(Forward)
  BY <1>1, <1>2, CountAgrees, Zenon
<1>4. CASE n[c] \notin {Anchor, node[c]}
  <2>1. n' = [n EXCEPT ![c] = f[n[c]]] /\ at' = at
    BY <1>1, <1>4, Zenon DEF list_header_contains
  <2>2. n'[c] = f[n[c]] /\ at'[c] = "walk"
    BY <1>1, <2>1, Zenon DEF ListTypeOK
  <2>3. f[n[c]] \in Range(Forward) \cup {Anchor}
    BY <1>1, <1>2, ChainClosed, Zenon
  <2>. QED  BY <1>1, <1>3, <2>2, <2>3, StayHeld, Zenon
<1>5. CASE n[c] = IF op[c] = "wake" THEN node[c] ELSE Anchor
  <2>1. at'[c] = "idle"
    BY <1>1, <1>5, ReturnAt, Zenon DEF list_header_contains
  <2>. QED  BY <1>1, <1>3, <2>1, StayHeld, Zenon
<1>6. CASE n[c] = IF op[c] = "wake" THEN Anchor ELSE node[c]
  <2>1. /\ at' = [at EXCEPT ![c] = IF op[c] = "wake" THEN "load" ELSE "check_del"] /\ node' = node
    BY <1>6, <1>1, Zenon DEF list_header_contains, Go
  <2>2. at'[c] = IF op[c] = "wake" THEN "load" ELSE "check_del"
    BY <2>1, Zenon DEF ListTypeOK
  <2>3. at'[c] = "check_del" => node'[c] \in Range(Forward)
    <3>1. SUFFICES ASSUME at'[c] = "check_del" PROVE node[c] \in Range(Forward)
      BY <2>1, Zenon
    <3>2. op[c] # "wake"
      BY <3>1, <2>2, Zenon
    <3>3. n[c] = node[c]
      BY <3>2, <1>6, Zenon
    <3>. QED  BY <3>3, <1>1, Zenon
  <2>4. at'[c] \in {"load", "check_del"}
    BY <2>2, Zenon
  <2>. QED  BY <1>1, <1>3, <2>3, <2>4, StayHeld, Zenon
<1>. QED  BY <1>4, <1>5, <1>6, Zenon

LEMMA LoadDeque ==
    ASSUME ListTypeOK, NEW c \in Ctx, NEW f, NEW g, Whole(f, g), Progress(c, f, g), Held(c),
           count \in Nat, load(c)
    PROVE  DequeStep(c)
<1>1. at[c] = "load" /\ next = f /\ prev = g /\ next' = next /\ count' = count
  BY Zenon DEF load, Runs, Progress
<1>2. Linked(f, g, Forward) /\ Len(Forward) \in Nat
  BY <1>1, WholeLinked, Zenon DEF Forward
<1>3. count = Len(Forward)
  BY <1>1, <1>2, CountAgrees, Zenon
<1>4. CASE op[c] \in {"add_head", "add_tail", "wake"}
  <2>1. at' = [at EXCEPT ![c] = "check_add"]
    BY <1>4, Zenon DEF load, Go
  <2>2. at'[c] = "check_add"
    BY <2>1, Zenon DEF ListTypeOK
  <2>. QED  BY <1>1, <1>3, <2>2, StayHeld, Zenon
<1>5. CASE op[c] \in {"remove_head", "remove_tail"} /\ count > 0
  <2>1. /\ at' = [at EXCEPT ![c] = "check_del"]
        /\ node' = [node EXCEPT ![c] = IF op[c] = "remove_head" THEN f[Anchor] ELSE g[Anchor]]
    BY <1>1, <1>5, Zenon DEF load, Go
  <2>2. at'[c] = "check_del" /\ node'[c] \in {f[Anchor], g[Anchor]}
    BY <2>1, Zenon DEF ListTypeOK
  <2>3. Len(Forward) > 0
    BY <1>3, <1>5, Zenon
  <2>4. node'[c] \in Range(Forward)
    BY <2>2, <2>3, <1>2, EndsListed, Zenon
  <2>. QED  BY <1>1, <1>3, <2>2, <2>4, StayHeld, Zenon
<1>6. CASE ~(op[c] \in {"add_head", "add_tail", "wake"}) /\ ~(op[c] \in {"remove_head", "remove_tail"} /\ count > 0)
  <2>1. at'[c] = "idle"
    BY <1>6, ReturnAt, Zenon DEF load
  <2>. QED  BY <1>1, <1>3, <2>1, StayHeld, Zenon
<1>. QED  BY <1>4, <1>5, <1>6, Zenon

LEMMA ValidDeque ==
    ASSUME ListTypeOK, NEW c \in Ctx, NEW f, NEW g, Whole(f, g), Progress(c, f, g), Held(c),
           count \in Nat, __list_add_valid(c) \/ __list_del_entry_valid(c)
    PROVE  DequeStep(c)
<1>1. /\ at[c] \in {"check_add", "check_del"} /\ next = f /\ next' = next /\ count' = count /\ node' = node
      /\ at[c] = "check_del" => node[c] \in Range(Forward)
  BY Zenon DEF __list_add_valid, __list_del_entry_valid, Runs, Progress, Held
<1>2. Len(Forward) \in Nat
  BY <1>1, WholeLinked, Zenon DEF Forward
<1>3. count = Len(Forward)
  BY <1>1, <1>2, CountAgrees, Zenon
<1>4. CASE __list_add_valid(c)
  <2>1. at'[c] \in {"add1", "spin"}
    BY <1>4, Zenon DEF __list_add_valid, Go, ListTypeOK
  <2>. QED  BY <1>1, <1>3, <2>1, StayHeld, Zenon
<1>5. CASE __list_del_entry_valid(c)
  <2>1. at'[c] \in {"del1", "spin"} /\ at[c] = "check_del"
    BY <1>5, Zenon DEF __list_del_entry_valid, Go, ListTypeOK, Runs
  <2>. QED  BY <1>1, <1>3, <2>1, StayHeld, Zenon
<1>. QED  BY <1>4, <1>5, Zenon

LEMMA AddDeque ==
    ASSUME ListTypeOK, NEW c \in Ctx, NEW f, NEW g, Whole(f, g), Progress(c, f, g), Held(c),
           count \in Nat, __list_add_between(c)
    PROVE  DequeStep(c)
<1>1. /\ at[c] \in {"add1", "add2", "add3", "add4"} /\ Adding(c, f) /\ count' = count
      /\ node[c] \in Ptr /\ p[c] \in Ptr /\ n[c] \in Ptr /\ f \in [Ptr -> Ptr] /\ g \in [Ptr -> Ptr]
  <2>1. at[c] \in {"add1", "add2", "add3", "add4"} /\ count' = count
    BY Zenon DEF __list_add_between, Runs, SetNext, SetPrev
  <2>2. node[c] \in Ptr /\ p[c] \in Ptr /\ n[c] \in Ptr
    BY Zenon DEF ListTypeOK
  <2>3. f \in [Ptr -> Ptr] /\ g \in [Ptr -> Ptr]
    BY RingType, Zenon
  <2>. QED  BY <2>1, <2>2, <2>3, Zenon DEF Progress
<1>2. /\ node[c] # Anchor /\ f[node[c]] = node[c]
      /\ f[p[c]] = n[c] /\ Anchor \in {p[c], n[c]}
  BY <1>1, Zenon DEF Adding
<1>3. Along([f EXCEPT ![node[c]] = n[c]]) = Along(f)
  BY <1>1, <1>2, AlongOff, Zenon
<1>4. Forward = Along(f)
  <2>1. CASE at[c] \in {"add1", "add2"}
    BY <2>1, Zenon DEF Progress, Forward
  <2>2. CASE at[c] \in {"add3", "add4"}
    BY <2>2, <1>3, Zenon DEF Progress, Forward
  <2>. QED  BY <1>1, <2>1, <2>2, Zenon
<1>5. Len(Forward) \in Nat
  BY <1>4, WholeLinked, Zenon
<1>6. count = Len(Forward)
  BY <1>1, <1>5, CountAgrees, Zenon
<1>7. CASE at[c] \in {"add1", "add3"}
  <2>1. next' = next /\ at'[c] \in {"add2", "add4"}
    BY <1>7, Zenon DEF __list_add_between, Runs, SetNext, SetPrev, Go, ListTypeOK
  <2>. QED  BY <1>1, <1>6, <2>1, StayHeld, Zenon
<1>8. CASE at[c] = "add2"
  <2>1. next = f
    BY <1>8, Zenon DEF Progress
  <2>2. next' = [f EXCEPT ![node[c]] = n[c]] /\ at'[c] = "add3"
    BY <1>8, <2>1, Zenon DEF __list_add_between, Runs, SetNext, SetPrev, Go, ListTypeOK
  <2>3. Forward' = Forward
    BY <2>2, <1>3, <1>4, Zenon DEF Forward
  <2>4. Behind(c)' = 0 /\ Ahead(c)' = 0
    BY <2>2, Zenon DEF Behind, Ahead
  <2>5. count' + Behind(c)' = Len(Forward') + Ahead(c)'
    BY <1>1, <1>6, <2>3, <2>4, Zenon
  <2>. QED  BY <1>1, <2>2, <2>3, <2>5, Zenon DEF DequeStep, Held
<1>9. CASE at[c] = "add4"
  <2>1. next = [f EXCEPT ![node[c]] = n[c]]
    BY <1>9, Zenon DEF Progress
  <2>2. next' = [f EXCEPT ![node[c]] = n[c], ![p[c]] = node[c]] /\ at'[c] = "inc"
    BY <1>9, <2>1, Zenon DEF __list_add_between, Runs, SetNext, SetPrev, Go, ListTypeOK
  <2>3. PICK F : F = [f EXCEPT ![node[c]] = n[c], ![p[c]] = node[c]]
    BY Zenon
  <2>4. PICK G : G = [g EXCEPT ![n[c]] = node[c], ![node[c]] = p[c]]
    BY Zenon
  <2>5. LinkIn(f, g, p[c], node[c], n[c], F, G)
    <3>1. g[n[c]] = p[c] /\ node[c] \notin {p[c], n[c]} /\ node[c] \in Node
      BY <1>1, <1>2, RingType DEF Ptr
    <3>2. /\ F[node[c]] = n[c] /\ F[p[c]] = node[c] /\ \A x \in Ptr \ {p[c], node[c]} : F[x] = f[x]
          /\ G[n[c]] = node[c] /\ G[node[c]] = p[c] /\ \A x \in Ptr \ {n[c], node[c]} : G[x] = g[x]
      BY <3>1, <2>3, <2>4, <1>1, Zenon
    <3>. QED  BY <3>1, <3>2, <1>1, <1>2, Zenon DEF LinkIn
  <2>6. Len(Along(F)) = Len(Along(f)) + 1 /\ Abstract!Operation(Along(f), Along(F))
    BY <2>5, InsertDeque, Zenon
  <2>7. Forward' = Along(F)
    BY <2>2, <2>3, Zenon DEF Forward
  <2>8. Behind(c)' = 1 /\ Ahead(c)' = 0
    BY <2>2, Zenon DEF Behind, Ahead
  <2>9. count' + 1 = Len(Forward') + 0
    <3>1. Len(Forward') = Len(Forward) + 1
      BY <2>6, <2>7, <1>4, Zenon
    <3>. QED  BY <3>1, <1>1, <1>5, <1>6
  <2>10. Held(c)'
    BY <2>2, <2>8, <2>9, Zenon DEF Held
  <2>. QED  BY <2>6, <2>7, <2>10, <1>1, <1>4, Zenon DEF DequeStep
<1>. QED  BY <1>1, <1>7, <1>8, <1>9, Zenon

LEMMA DelDeque ==
    ASSUME ListTypeOK, NEW c \in Ctx, NEW f, NEW g, Whole(f, g), Progress(c, f, g), Held(c),
           count \in Nat, list_del_init(c)
    PROVE  DequeStep(c)
<1>1. /\ at[c] \in {"del1", "del2", "init1", "init2"} /\ Removing(c, f, g)
      /\ count' = count /\ node' = node /\ node[c] \in Ptr
      /\ f \in [Ptr -> Ptr] /\ g \in [Ptr -> Ptr] /\ f[node[c]] \in Ptr /\ g[node[c]] \in Ptr
  <2>1. at[c] \in {"del1", "del2", "init1", "init2"} /\ count' = count /\ node' = node
    BY Zenon DEF list_del_init, Runs, SetNext, SetPrev
  <2>2. node[c] \in Ptr
    BY Zenon DEF ListTypeOK
  <2>3. f \in [Ptr -> Ptr] /\ g \in [Ptr -> Ptr]
    BY RingType, Zenon
  <2>. QED  BY <2>1, <2>2, <2>3, Zenon DEF Progress
<1>2. PICK a, b, e : a = g[node[c]] /\ b = f[node[c]] /\ e = node[c]
  BY Zenon
<1>3. PICK F : F = [f EXCEPT ![a] = b, ![e] = e]
  BY Zenon
<1>4. PICK G : G = [g EXCEPT ![b] = a, ![e] = e]
  BY Zenon
<1>5. PICK H : H = [f EXCEPT ![a] = b]
  BY Zenon
<1>6. p[c] = a /\ n[c] = b /\ a \in Ptr /\ b \in Ptr /\ e \in Ptr
  BY <1>1, <1>2, Zenon DEF Removing
\* The list without e.
<1>7. ASSUME e \in Range(Along(f))
      PROVE  /\ Along(H) = Along(F) /\ Len(Along(F)) = Len(Along(f)) - 1
             /\ Abstract!Operation(Along(f), Along(F))
  <2>1. a # e /\ b # e
    <3>1. f[e] # e
      <4>1. e \in Node
        BY <1>7, WholeLinked DEF Range
      <4>2. e # Anchor
        BY <4>1, ListAssumption, Zenon
      <4>. QED  BY <1>7, <4>2, WholeLinked, NotListed, Zenon
    <3>2. f[g[e]] = e /\ g[f[e]] = e
      BY <1>6, RingType, Zenon
    <3>. QED  BY <3>1, <3>2, <1>2, Zenon
  <2>2. TakeOut(f, g, a, e, b, F, G, H)
    <3>1. /\ F[e] = e /\ F[a] = b /\ \A x \in Ptr \ {a, e} : F[x] = f[x]
          /\ G[e] = e /\ G[b] = a /\ \A x \in Ptr \ {b, e} : G[x] = g[x]
          /\ H[a] = b /\ \A x \in Ptr \ {a, e} : H[x] = f[x]
      BY <2>1, <1>1, <1>3, <1>4, <1>5, <1>6, Zenon
    <3>. QED  BY <3>1, <1>2, Zenon DEF TakeOut
  <2>. QED  BY <2>2, <1>7, DeleteDeque
<1>8. Along(H) = Along(F)
  <2>1. CASE e \in Range(Along(f))
    BY <2>1, <1>7, Zenon
  <2>2. CASE e \notin Range(Along(f))
    <3>1. f[e] = e
      <4>1. CASE e = Anchor
        BY <4>1, <1>1, <1>2, Zenon DEF Removing, Removable
      <4>2. CASE e # Anchor
        <5>1. e \in Node
          BY <4>2, <1>6, Zenon DEF Ptr
        <5>. QED  BY <5>1, <2>2, WholeLinked, Zenon DEF Linked
      <4>. QED  BY <4>1, <4>2, Zenon
    <3>2. a = e /\ b = e
      <4>1. g[f[e]] = e
        BY <1>6, RingType, Zenon
      <4>. QED  BY <3>1, <4>1, <1>2, Zenon
    <3>3. H = f /\ F = f
      BY <3>1, <3>2, <1>1, <1>3, <1>5, <1>6
    <3>. QED  BY <3>3, Zenon
  <2>. QED  BY <2>1, <2>2, Zenon
<1>9. Len(Along(f)) \in Nat
  BY WholeLinked, Zenon
<1>10. CASE at[c] = "del1"
  <2>1. next = f /\ next' = next /\ at'[c] = "del2"
    BY <1>10, Zenon DEF list_del_init, Runs, SetNext, SetPrev, Go, ListTypeOK, Progress
  <2>2. Forward = Along(f) /\ node[c] \in Range(Forward)
    BY <2>1, <1>10, Zenon DEF Forward, Held
  <2>3. count = Len(Forward)
    BY <1>9, <1>10, <2>2, CountAgrees, Zenon
  <2>. QED  BY <1>1, <2>1, <2>2, <2>3, StayHeld, Zenon
<1>11. CASE at[c] = "del2"
  <2>1. next = f
    BY <1>11, Zenon DEF Progress
  <2>2. next' = [f EXCEPT ![p[c]] = n[c]] /\ at'[c] = "init1"
    BY <1>11, <2>1, Zenon DEF list_del_init, Runs, SetNext, SetPrev, Go, ListTypeOK
  <2>3. Forward' = Along(H)
    BY <2>2, <1>5, <1>6, Zenon DEF Forward
  <2>4. Forward = Along(f) /\ node[c] \in Range(Forward)
    BY <2>1, <1>11, Zenon DEF Forward, Held
  <2>5. count = Len(Forward)
    BY <1>9, <1>11, <2>4, CountAgrees, Zenon
  <2>6. e \in Range(Along(f))
    BY <2>4, <1>2, Zenon
  <2>7. Len(Forward') = Len(Forward) - 1 /\ Abstract!Operation(Forward, Forward')
    BY <2>3, <2>4, <2>6, <1>7, Zenon
  <2>8. Behind(c)' = 0 /\ Ahead(c)' = 1
    BY <2>2, Zenon DEF Behind, Ahead
  <2>9. count' + 0 = Len(Forward') + 1
    <3>1. Len(Forward) \in Nat
      BY <2>4, <1>9, Zenon
    <3>. QED  BY <3>1, <2>5, <2>7, <1>1
  <2>10. Held(c)'
    BY <2>2, <2>8, <2>9, Zenon DEF Held
  <2>. QED  BY <2>7, <2>10, <1>1, Zenon DEF DequeStep
<1>12. CASE at[c] \in {"init1", "init2"}
  <2>1. Forward' = Forward /\ at'[c] \in {"init2", "dec"}
    <3>1. CASE at[c] = "init1"
      <4>1. next = H
        BY <3>1, <1>5, <1>6, Zenon DEF Progress
      <4>2. next' = [next EXCEPT ![node[c]] = node[c]] /\ at'[c] = "init2"
        BY <3>1, Zenon DEF list_del_init, Runs, SetNext, SetPrev, Go, ListTypeOK
      <4>3. next' = F
        BY <4>1, <4>2, <1>2, <1>3, <1>5, Zenon
      <4>. QED  BY <4>1, <4>2, <4>3, <1>8, Zenon DEF Forward
    <3>2. CASE at[c] = "init2"
      <4>1. next' = next /\ at'[c] = "dec"
        BY <3>2, Zenon DEF list_del_init, Runs, SetNext, SetPrev, Go, ListTypeOK
      <4>. QED  BY <4>1, Zenon DEF Forward
    <3>. QED  BY <3>1, <3>2, <1>12, Zenon
  <2>2. Behind(c) = 0 /\ Ahead(c) = 1 /\ Behind(c)' = 0 /\ Ahead(c)' = 1
    BY <2>1, <1>12 DEF Behind, Ahead
  <2>3. count' + Behind(c)' = Len(Forward') + Ahead(c)'
    BY <2>1, <2>2, <1>1, Zenon DEF Held
  <2>4. at'[c] \notin {"walk", "check_del", "del1", "del2"}
    BY <2>1
  <2>5. Held(c)'
    BY <2>3, <2>4, Zenon DEF Held
  <2>. QED  BY <2>1, <2>5, <1>1, Zenon DEF DequeStep
<1>. QED  BY <1>1, <1>10, <1>11, <1>12, Zenon

LEMMA CountDeque ==
    ASSUME ListTypeOK, NEW c \in Ctx, NEW f, NEW g, Whole(f, g), Progress(c, f, g), Held(c),
           count \in Nat, set_count(c)
    PROVE  DequeStep(c)
<1>1. /\ next' = next /\ next = f /\ at'[c] = "idle"
      /\ \/ at[c] = "inc" /\ count' = count + 1
         \/ at[c] = "dec" /\ count' = count - 1
  BY ReturnAt, Zenon DEF set_count, Runs, Progress
<1>2. Forward' = Forward /\ Forward = Along(f)
  BY <1>1, Zenon DEF Forward
<1>3. Len(Forward) \in Nat
  BY <1>2, WholeLinked, Zenon
<1>4. count' = Len(Forward)
  <2>1. CASE at[c] = "inc" /\ count' = count + 1
    <3>1. Behind(c) = 1 /\ Ahead(c) = 0 /\ count + Behind(c) = Len(Forward) + Ahead(c)
      BY <2>1, Zenon DEF Behind, Ahead, Held
    <3>. QED  BY <3>1, <2>1, <1>3
  <2>2. CASE at[c] = "dec" /\ count' = count - 1
    <3>1. Behind(c) = 0 /\ Ahead(c) = 1 /\ count + Behind(c) = Len(Forward) + Ahead(c)
      BY <2>2, Zenon DEF Behind, Ahead, Held
    <3>. QED  BY <3>1, <2>2, <1>3
  <2>. QED  BY <1>1, <2>1, <2>2, Zenon
<1>5. Behind(c)' = 0 /\ Ahead(c)' = 0
  BY <1>1, Zenon DEF Behind, Ahead
<1>6. count' + Behind(c)' = Len(Forward') + Ahead(c)'
  BY <1>2, <1>4, <1>5, Zenon
<1>7. Held(c)'
  BY <1>1, <1>6, Zenon DEF Held
<1>. QED  BY <1>2, <1>3, <1>4, <1>7, Zenon DEF DequeStep

LEMMA StepDeque ==
    ASSUME ListTypeOK, NEW c \in Ctx, NEW f, NEW g, Whole(f, g), Progress(c, f, g), Held(c),
           count \in Nat, ListStep(c)
    PROVE  DequeStep(c)
<1>1. \/ list_header_contains(c) \/ load(c) \/ __list_add_between(c) \/ list_del_init(c) \/ set_count(c)
      \/ (__list_add_valid(c) \/ __list_del_entry_valid(c))
  BY Zenon DEF ListStep
<1>. QED  BY <1>1, ContainsDeque, LoadDeque, ValidDeque, AddDeque, DelDeque, CountDeque

LEMMA StartDeque ==
    ASSUME ListTypeOK, NEW c \in Ctx, NEW o \in Ops, NEW x \in Node, Whole(next, prev),
           count \in Nat, count = Len(Forward), start(c, o, x)
    PROVE  DequeStep(c)
<1>1. /\ next' = next /\ count' = count
      /\ at'[c] \in {"walk", "load"}
      /\ at'[c] = "walk" => n'[c] = next[Anchor]
  <2>1. CASE o \in {"wake", "delete"}
    <3>1. n' = [n EXCEPT ![c] = next[Anchor]] /\ at' = [at EXCEPT ![c] = "walk"] /\ next' = next /\ count' = count
      BY <2>1, Zenon DEF start
    <3>. QED  BY <3>1, Zenon DEF ListTypeOK
  <2>2. CASE o \notin {"wake", "delete"}
    <3>1. at' = [at EXCEPT ![c] = "load"] /\ next' = next /\ count' = count
      BY <2>2, Zenon DEF start
    <3>. QED  BY <3>1 DEF ListTypeOK
  <2>. QED  BY <2>1, <2>2, Zenon
<1>2. Chain(next, Forward)
  BY WholeLinked, Zenon DEF Forward
<1>3. next[Anchor] \in Range(Forward) \cup {Anchor}
  BY <1>2, ChainClosed, Zenon
<1>. QED  BY <1>1, <1>3, StayHeld, Zenon

-----------------------------------------------------------------------------
(* The way back *)

Rev(s) == [i \in 1..Len(s) |-> s[Len(s) + 1 - i]]

LEMMA BackAlong ==
    ASSUME NEW f, NEW g, NEW s, Linked(f, g, s)
    PROVE  Along(g) = Rev(s) /\ Rev(s) \in Seq(Node) /\ Len(Rev(s)) = Len(s)
<1>. DEFINE L == Len(s)
            r == Rev(s)
<1>1. Chain(f, s) /\ Back(g, s)
  BY Zenon DEF Linked
<1>2. s \in Seq(Node) /\ L \in Nat
  BY <1>1, ChainSeq, Zenon
<1>3. ASSUME NEW i \in 1..L PROVE r[i] = s[L + 1 - i] /\ L + 1 - i \in 1..L /\ s[L + 1 - i] \in Node
  <2>1. r[i] = s[L + 1 - i]
    BY Zenon DEF Rev
  <2>2. L + 1 - i \in 1..L
    BY <1>2
  <2>. QED  BY <2>1, <2>2, <1>2
<1>4. r \in [1..L -> Node]
  BY <1>3, Zenon DEF Rev
<1>. HIDE DEF r
<1>5. r \in Seq(Node) /\ Len(r) = L
  BY <1>2, <1>4
<1>6. ASSUME NEW i \in 0..(L + 1) PROVE Nth(r, i) = Nth(s, L + 1 - i)
  BY <1>2, <1>3, <1>5 DEF Nth
<1>7. ASSUME NEW i \in 0..L PROVE g[Nth(r, i)] = Nth(r, i + 1)
  <2>1. /\ i \in 0..(L + 1) /\ i + 1 \in 0..(L + 1) /\ L - i \in 0..L
        /\ L + 1 - i = (L - i) + 1 /\ L + 1 - (i + 1) = L - i
    BY <1>2
  <2>2. g[Nth(s, (L - i) + 1)] = Nth(s, L - i)
    BY <2>1, <1>1, BackNext, Zenon
  <2>. QED  BY <2>1, <2>2, <1>6, Zenon
<1>8. ASSUME NEW i \in 1..L, NEW j \in 1..L, r[i] = r[j] PROVE i = j
  <2>1. L + 1 - i \in 1..L /\ L + 1 - j \in 1..L /\ s[L + 1 - i] = s[L + 1 - j]
    BY <1>3, <1>8, Zenon
  <2>2. L + 1 - i = L + 1 - j
    BY <2>1, <1>1, Zenon DEF Chain
  <2>. QED  BY <2>2, <1>2
<1>9. Chain(g, r)
  BY <1>5, <1>7, <1>8, Zenon DEF Chain
<1>10. Along(g) = r
  BY <1>9, AlongChain, Zenon
<1>. QED  BY <1>5, <1>10, Zenon DEF r
=============================================================================
