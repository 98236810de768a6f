-------------------------- MODULE LockedListProofs --------------------------
(***************************************************************************)
(* A list below its spinlock, for any number of contexts and of entries:   *)
(* the critical sections do not overlap and are entered in order, none     *)
(* finds a broken ring, and the list is a Deque.                           *)
(***************************************************************************)
EXTENDS LockedList, ListProofs

-----------------------------------------------------------------------------
(* The ticket lock, for any number of contexts below M *)

Owns(c) == pc[c] # "out"

\* Distances from tail: the tickets in use are exactly 0 .. Distance(head) - 1,
\* each owned by one context, and the holder's is 0.
TicketInv ==
    /\ TicketTypeOK
    /\ \A c \in Proc : Owns(c) => Distance(ticket[c]) < Distance(head)
    /\ \A c, r \in Proc : Owns(c) /\ Owns(r) /\ ticket[c] = ticket[r] => c = r
    /\ \A c \in Proc : pc[c] = "cs" => ticket[c] = tail
    /\ \A d \in 0..(Distance(head) - 1) : \E c \in Proc : Owns(c) /\ Distance(ticket[c]) = d

\* A context that is about to draw a ticket finds the counters not full: the
\* tickets in use are at most as many as the other contexts.
LEMMA NotFull ==
    ASSUME TicketInv, NEW c \in Proc, ~Owns(c)
    PROVE  Distance(head) + 1 < M
<1>. DEFINE D == Distance(head)
            Rest == Proc \ {c}
            f == [d \in 0..(D-1) |-> CHOOSE r \in Rest : Owns(r) /\ Distance(ticket[r]) = d]
<1>1. D \in 0..(M-1)
  BY TicketAssumption DEF TicketInv, TicketTypeOK, Distance
<1>2. \A d \in 0..(D-1) : \E r \in Rest : Owns(r) /\ Distance(ticket[r]) = d
  BY Zenon DEF TicketInv
<1>3. \A d \in 0..(D-1) : f[d] \in Rest /\ Distance(ticket[f[d]]) = d
  BY <1>2, Zenon
<1>4. f \in [0..(D-1) -> Rest]
  BY <1>3, Zenon
<1>5. IsFiniteSet(Rest) /\ Cardinality(Rest) = Cardinality(Proc) - 1
  BY FS_RemoveElement, TicketAssumption, Zenon
<1>6. IsFiniteSet(0..(D-1)) /\ Cardinality(0..(D-1)) = D
  <2>. HIDE DEF D
  <2>1. 0 \in Int /\ D - 1 \in Int
    BY <1>1
  <2>2. IsFiniteSet(0..(D-1)) /\ Cardinality(0..(D-1)) = IF 0 > D-1 THEN 0 ELSE (D-1) - 0 + 1
    BY <2>1, FS_Interval, Zenon
  <2>. QED  BY <2>2, <1>1
<1>7. Cardinality(Proc) \in Nat /\ Cardinality(Rest) \in Nat
  BY <1>5, FS_CardinalityType, TicketAssumption, Zenon
<1>8. ~(Cardinality(Rest) < D)
  <2>1. SUFFICES ASSUME Cardinality(Rest) < D PROVE FALSE
    BY Zenon
  <2>. HIDE DEF D, f, Rest
  <2>2. Cardinality(Rest) < Cardinality(0..(D-1))
    BY <2>1, <1>6, Zenon
  <2>3. \E x, y \in 0..(D-1) : x # y /\ f[x] = f[y]
    BY <2>2, <1>4, <1>5, <1>6, FS_PigeonHole, Zenon
  <2>. QED  BY <2>3, <1>3, Zenon
<1>. QED  BY <1>1, <1>5, <1>7, <1>8, TicketAssumption

\* Serving the next ticket brings every other one closer.
LEMMA DistanceServe ==
    ASSUME NEW t \in 0..(M-1), tail \in 0..(M-1), t # tail, tail' = Inc(tail)
    PROVE  Distance(t)' = Distance(t) - 1
BY TicketAssumption DEF Distance, Inc

\* Distances tell tickets apart.
LEMMA DistanceInjective ==
    ASSUME NEW m \in 0..(M-1), NEW t \in 0..(M-1), tail \in 0..(M-1)
    PROVE  /\ Distance(m) = Distance(t) <=> m = t
           /\ Distance(m) \in 0..(M-1)
           /\ Distance(m) = 0 <=> m = tail
BY TicketAssumption DEF Distance

LEMMA DistanceNext ==
    ASSUME NEW t \in 0..(M-1), tail \in 0..(M-1), Distance(t) + 1 < M
    PROVE  Inc(t) \in 0..(M-1) /\ Distance(Inc(t)) = Distance(t) + 1
BY TicketAssumption DEF Distance, Inc

LEMMA XaddInv ==
    ASSUME TicketInv, NEW c \in Proc, arch_spin_lock_xadd(c) PROVE TicketInv'
<1>. USE DEF TicketInv, TicketTypeOK
<1>1. /\ ~Owns(c) /\ tail' = tail /\ head' = Inc(head)
      /\ ticket' = [ticket EXCEPT ![c] = head] /\ pc' = [pc EXCEPT ![c] = "spin"]
  BY Zenon DEF arch_spin_lock_xadd, Owns
<1>2. head' \in 0..(M-1) /\ Distance(head)' = Distance(head) + 1
  BY <1>1, NotFull, DistanceNext, Zenon DEF Distance
<1>3. TicketTypeOK'
  BY <1>1, <1>2, Zenon
<1>4. Owns(c)' /\ ticket'[c] = head /\ pc'[c] = "spin"
      /\ \A r \in Proc \ {c} : Owns(r)' = Owns(r) /\ ticket'[r] = ticket[r] /\ pc'[r] = pc[r]
  BY <1>1, Zenon DEF Owns
<1>5. \A t : Distance(t)' = Distance(t)
  BY <1>1, Zenon DEF Distance
<1>6. Distance(head) \in 0..(M-1)
  BY DistanceInjective, Zenon
<1>7. \A r \in Proc : Owns(r)' => Distance(ticket'[r]) < Distance(head)'
  <2>1. Distance(ticket'[c]) < Distance(head)'
    BY <1>2, <1>4, <1>6
  <2>2. ASSUME NEW r \in Proc \ {c}, Owns(r)' PROVE Distance(ticket'[r]) < Distance(head)'
    <3>1. Distance(ticket[r]) < Distance(head) /\ Distance(ticket[r]) \in 0..(M-1)
      BY <2>2, <1>4, DistanceInjective, Zenon
    <3>. QED  BY <3>1, <2>2, <1>2, <1>4, <1>6
  <2>. QED  BY <2>1, <2>2, Zenon
<1>8. \A r, s \in Proc : Owns(r)' /\ Owns(s)' /\ ticket'[r] = ticket'[s] => r = s
  <2>1. \A r \in Proc \ {c} : Owns(r) => ticket[r] # head
    BY <1>6
  <2>. QED  BY <2>1, <1>4, Zenon
<1>9. \A r \in Proc : pc'[r] = "cs" => ticket'[r] = tail'
  BY <1>1, <1>4, Zenon
<1>10. \A d \in 0..(Distance(head)' - 1) : \E r \in Proc : Owns(r)' /\ Distance(ticket'[r]) = d
  <2>. SUFFICES ASSUME NEW d \in 0..Distance(head)
                PROVE  \E r \in Proc : Owns(r)' /\ Distance(ticket'[r]) = d
    BY <1>2, <1>6
  <2>1. CASE d = Distance(head)
    BY <2>1, <1>4, Zenon
  <2>2. CASE d # Distance(head)
    <3>1. PICK r \in Proc : Owns(r) /\ Distance(ticket[r]) = d
      BY <2>2, <1>6
    <3>2. r # c
      BY <3>1, <1>1, Zenon
    <3>. QED  BY <3>1, <3>2, <1>4, Zenon
  <2>. QED  BY <2>1, <2>2, Zenon
<1>. QED  BY <1>3, <1>5, <1>7, <1>8, <1>9, <1>10, Zenon

LEMMA WaitInv ==
    ASSUME TicketInv, NEW c \in Proc, arch_spin_lock_wait(c) PROVE TicketInv'
<1>. USE DEF TicketInv, TicketTypeOK
<1>1. /\ tail' = tail /\ head' = head /\ ticket' = ticket /\ ticket[c] = tail
      /\ pc' = [pc EXCEPT ![c] = "cs"] /\ pc[c] = "spin"
  BY Zenon DEF arch_spin_lock_wait
<1>2. \A r \in Proc : Owns(r)' = Owns(r)
  BY <1>1, Zenon DEF Owns
<1>3. \A t : Distance(t)' = Distance(t)
  BY <1>1, Zenon DEF Distance
<1>. QED  BY <1>1, <1>2, <1>3, Zenon

LEMMA UnlockInv ==
    ASSUME TicketInv, NEW c \in Proc, arch_spin_unlock(c) PROVE TicketInv'
<1>. USE DEF TicketInv, TicketTypeOK
<1>1. /\ tail' = Inc(tail) /\ head' = head /\ ticket' = ticket /\ ticket[c] = tail
      /\ pc' = [pc EXCEPT ![c] = "out"] /\ pc[c] = "cs"
  BY Zenon DEF arch_spin_unlock
<1>2. tail' \in 0..(M-1)
  BY <1>1, TicketAssumption DEF Inc
<1>3. TicketTypeOK'
  BY <1>1, <1>2, Zenon
<1>4. ~Owns(c)' /\ Owns(c) /\ \A r \in Proc \ {c} : Owns(r)' = Owns(r) /\ pc'[r] = pc[r]
  BY <1>1, Zenon DEF Owns
<1>5. \A r \in Proc \ {c} : Owns(r) => ticket[r] # tail
  BY <1>1, <1>4, Zenon
<1>6. Distance(head)' = Distance(head) - 1 /\ Distance(head) \in 1..(M-1)
  <2>1. Distance(ticket[c]) = 0 /\ Distance(head) \in 0..(M-1)
    BY <1>1, DistanceInjective, Zenon
  <2>2. Distance(head) # 0
    BY <2>1, <1>4
  <2>3. head # tail
    BY <2>2, DistanceInjective, Zenon
  <2>4. Distance(head)' = Distance(head) - 1
    BY <2>3, <1>1, TicketAssumption DEF Distance, Inc
  <2>. QED  BY <2>1, <2>2, <2>4
<1>7. \A r \in Proc \ {c} : Owns(r) => /\ Distance(ticket[r])' = Distance(ticket[r]) - 1
                                       /\ Distance(ticket[r]) \in 1..(M-1)
  <2>. SUFFICES ASSUME NEW r \in Proc \ {c}, Owns(r)
                PROVE  /\ Distance(ticket[r])' = Distance(ticket[r]) - 1
                       /\ Distance(ticket[r]) \in 1..(M-1)
    BY Zenon
  <2>1. ticket[r] \in 0..(M-1) /\ ticket[r] # tail
    BY <1>5, Zenon
  <2>2. Distance(ticket[r])' = Distance(ticket[r]) - 1
    BY <2>1, <1>1, TicketAssumption DEF Distance, Inc
  <2>3. Distance(ticket[r]) \in 1..(M-1)
    BY <2>1, TicketAssumption DEF Distance
  <2>. QED  BY <2>2, <2>3, Zenon
<1>8. \A r \in Proc : Owns(r)' => Distance(ticket[r])' < Distance(head)'
  BY <1>4, <1>6, <1>7
<1>9. \A r \in Proc : pc'[r] = "cs" => ticket'[r] = tail'
  BY <1>1, <1>4, <1>5, Zenon DEF Owns
<1>10. \A d \in 0..(Distance(head)' - 1) : \E r \in Proc : Owns(r)' /\ Distance(ticket[r])' = d
  <2>. SUFFICES ASSUME NEW d \in 0..(Distance(head) - 2)
                PROVE  \E r \in Proc : Owns(r)' /\ Distance(ticket[r])' = d
    BY <1>6
  <2>1. PICK r \in Proc : Owns(r) /\ Distance(ticket[r]) = d + 1
    BY <1>6
  <2>2. r # c
    BY <2>1, <1>1, DistanceInjective
  <2>. QED  BY <2>1, <2>2, <1>4, <1>7
<1>. QED  BY <1>1, <1>3, <1>4, <1>8, <1>9, <1>10, Zenon

-----------------------------------------------------------------------------
\* The tickets in use are always exactly the numbers from tail to head, each
\* drawn by one context in arch_spin_lock() or in its critical section.
THEOREM TicketInvariance == TicketSpec => []TicketInv
<1>1. TicketInit => TicketInv
  BY TicketAssumption DEF TicketInit, TicketInv, TicketTypeOK, Owns, Distance
<1>2. TicketInv /\ [TicketNext]_lockVars => TicketInv'
  <2>1. TicketInv /\ UNCHANGED lockVars => TicketInv'
    BY DEF lockVars, TicketInv, TicketTypeOK, Owns, Distance
  <2>. QED  BY <2>1, XaddInv, WaitInv, UnlockInv, Zenon DEF TicketNext
<1>. QED  BY <1>1, <1>2, PTL DEF TicketSpec

\* The counters and tickets stay u32 values.
THEOREM TicketTypeCorrect == TicketSpec => []TicketTypeOK
BY TicketInvariance, PTL DEF TicketInv

\* Two contexts never hold the lock at the same time, however often the counters
\* have wrapped around.
THEOREM LockExcludes == TicketSpec => []MutualExclusion
<1>1. TicketInv => MutualExclusion
  BY Zenon DEF TicketInv, TicketTypeOK, MutualExclusion, Owns
<1>. QED  BY <1>1, TicketInvariance, PTL

\* arch_spin_is_locked() is TRUE exactly when some context holds or awaits the lock.
THEOREM LockedIsOwned == TicketSpec => []LockedIffOwned
<1>1. TicketInv => LockedIffOwned
  <2>. SUFFICES ASSUME TicketInv PROVE LockedIffOwned
    BY Zenon
  <2>. USE DEF TicketInv, TicketTypeOK
  <2>1. Distance(head) \in 0..(M-1) /\ (Distance(head) = 0 <=> head = tail)
    BY DistanceInjective, Zenon
  <2>2. ASSUME head # tail PROVE \E c \in Proc : pc[c] # "out"
    BY <2>1, <2>2 DEF Owns
  <2>3. ASSUME NEW c \in Proc, pc[c] # "out" PROVE head # tail
    <3>1. Distance(ticket[c]) < Distance(head) /\ Distance(ticket[c]) \in 0..(M-1)
      BY <2>3, DistanceInjective, Zenon DEF Owns
    <3>. QED  BY <3>1, <2>1
  <2>. QED  BY <2>2, <2>3, Zenon DEF LockedIffOwned
<1>. QED  BY <1>1, TicketInvariance, PTL

-----------------------------------------------------------------------------
(* The order of service *)

\* The contexts whose tickets are closer than k are k contexts.
LEMMA CountBelow ==
    ASSUME TicketInv, NEW k \in 0..Distance(head)
    PROVE  Cardinality({c \in Proc : Owns(c) /\ Distance(ticket[c]) < k}) = k
<1>. DEFINE S == {c \in Proc : Owns(c) /\ Distance(ticket[c]) < k}
            f == [i \in 1..k |-> CHOOSE c \in S : Distance(ticket[c]) = i - 1]
<1>1. /\ Distance(head) \in 0..(M-1) /\ k \in Nat /\ k <= Distance(head)
      /\ \A c \in Proc : Distance(ticket[c]) \in 0..(M-1)
  BY TicketAssumption DEF TicketInv, TicketTypeOK, Distance
<1>2. ASSUME NEW i \in 1..k PROVE \E c \in S : Distance(ticket[c]) = i - 1
  <2>1. i - 1 \in 0..(Distance(head) - 1) /\ i - 1 < k
    BY <1>1
  <2>2. PICK c \in Proc : Owns(c) /\ Distance(ticket[c]) = i - 1
    BY <2>1, Zenon DEF TicketInv
  <2>. QED  BY <2>1, <2>2, Zenon
<1>3. \A i \in 1..k : f[i] \in S /\ Distance(ticket[f[i]]) = i - 1
  BY <1>2, Zenon
<1>4. f \in [1..k -> S]
  BY <1>3, Zenon
<1>5. IsInjective(f)
  <2>. SUFFICES ASSUME NEW i \in 1..k, NEW j \in 1..k, f[i] = f[j] PROVE i = j
    BY Zenon DEF IsInjective
  <2>1. i - 1 = j - 1
    BY <1>3, Zenon
  <2>. QED  BY <2>1
<1>6. ASSUME NEW c \in S PROVE \E i \in 1..k : f[i] = c
  <2>. DEFINE i == Distance(ticket[c]) + 1
  <2>1. i \in 1..k /\ i - 1 = Distance(ticket[c])
    BY <1>1
  <2>2. f[i] \in S /\ Distance(ticket[f[i]]) = Distance(ticket[c])
    BY <2>1, <1>3, Zenon
  <2>3. ticket[f[i]] \in 0..(M-1) /\ ticket[c] \in 0..(M-1) /\ tail \in 0..(M-1)
    BY <2>2, Zenon DEF TicketInv, TicketTypeOK
  <2>4. ticket[f[i]] = ticket[c]
    BY <2>2, <2>3, DistanceInjective, Zenon
  <2>5. f[i] = c
    BY <2>2, <2>4, Zenon DEF TicketInv
  <2>. QED  BY <2>1, <2>5, Zenon
<1>7. ExistsBijection(1..k, S)
  <2>. HIDE DEF f, S
  <2>. QED  BY <1>4, <1>5, <1>6, Zenon DEF ExistsBijection, Bijection, Injection, Surjection
<1>. HIDE DEF S
<1>8. Cardinality(S) = k
  BY <1>1, <1>7, FS_CountingElements, Zenon
<1>. QED  BY <1>8, Zenon DEF S

\* s is the contexts with a ticket, each at the distance of its own.
Standing(s) ==
    /\ DOMAIN s = 1..Distance(head)
    /\ s = [i \in 1..Distance(head) |-> s[i]]
    /\ \A i \in 1..Distance(head) : s[i] \in Proc /\ Owns(s[i]) /\ Distance(ticket[s[i]]) = i - 1

LEMMA QueueStands == TicketInv => Standing(TicketQueue)
<1>. SUFFICES ASSUME TicketInv PROVE Standing(TicketQueue)
  BY Zenon
<1>1. /\ Distance(head) \in 0..(M-1)
      /\ \A c \in Proc : Distance(ticket[c]) \in 0..(M-1)
  BY TicketAssumption DEF TicketInv, TicketTypeOK, Distance
<1>2. Cardinality(Holders) = Distance(head)
  <2>1. Holders = {c \in Proc : Owns(c) /\ Distance(ticket[c]) < Distance(head)}
    BY Zenon DEF Holders, Owns, TicketInv
  <2>2. Distance(head) \in 0..Distance(head)
    BY <1>1
  <2>. QED  BY <2>1, <2>2, CountBelow, Zenon
<1>3. ASSUME NEW c \in Holders PROVE Cardinality(Before(c)) = Distance(ticket[c])
  <2>1. c \in Proc /\ Owns(c)
    BY <1>3, Zenon DEF Holders, Owns
  <2>2. Before(c) = {r \in Proc : Owns(r) /\ Distance(ticket[r]) < Distance(ticket[c])}
    BY Zenon DEF Before, Holders, Owns
  <2>3. Distance(ticket[c]) < Distance(head)
    BY <2>1, Zenon DEF TicketInv
  <2>4. Distance(ticket[c]) \in 0..Distance(head)
    BY <2>1, <2>3, <1>1
  <2>. QED  BY <2>2, <2>4, CountBelow, Zenon
<1>4. TicketQueue = [i \in 1..Distance(head) |-> CHOOSE c \in Holders : Cardinality(Before(c)) = i - 1]
  BY <1>2, Zenon DEF TicketQueue
<1>5. ASSUME NEW i \in 1..Distance(head)
      PROVE  /\ TicketQueue[i] \in Proc /\ Owns(TicketQueue[i])
             /\ Distance(ticket[TicketQueue[i]]) = i - 1
  <2>1. i - 1 \in 0..(Distance(head) - 1)
    BY <1>1
  <2>2. PICK c \in Proc : Owns(c) /\ Distance(ticket[c]) = i - 1
    BY <2>1, Zenon DEF TicketInv
  <2>3. c \in Holders /\ Cardinality(Before(c)) = i - 1
    BY <2>2, <1>3, Zenon DEF Holders, Owns
  <2>4. TicketQueue[i] \in Holders /\ Cardinality(Before(TicketQueue[i])) = i - 1
    BY <2>3, <1>4, Zenon
  <2>. QED  BY <2>4, <1>3, Zenon DEF Holders, Owns
<1>6. TicketQueue \in [1..Distance(head) -> Proc]
  BY <1>4, <1>5, Zenon
<1>. QED  BY <1>5, <1>6, Zenon DEF Standing

\* There is only one such queue.
LEMMA NextStands ==
    ASSUME TicketInv', NEW s, Standing(s)'
    PROVE  TicketQueue' = s
<1>1. Standing(TicketQueue)'
  BY QueueStands, PTL
<1>2. ASSUME NEW i \in 1..Distance(head)' PROVE TicketQueue'[i] = s[i]
  <2>1. /\ TicketQueue'[i] \in Proc /\ Owns(TicketQueue[i])' /\ s[i] \in Proc /\ Owns(s[i])'
        /\ Distance(ticket[TicketQueue[i]])' = Distance(ticket[s[i]])'
    BY <1>1, Zenon DEF Standing
  <2>2. ticket'[TicketQueue'[i]] \in 0..(M-1) /\ ticket'[s[i]] \in 0..(M-1)
    BY <2>1, Zenon DEF TicketInv, TicketTypeOK
  <2>3. ticket'[TicketQueue'[i]] = ticket'[s[i]]
    BY <2>1, <2>2, TicketAssumption DEF Distance, TicketInv, TicketTypeOK
  <2>. QED  BY <2>1, <2>3, Zenon DEF TicketInv
<1>3. /\ TicketQueue' = [i \in 1..Distance(head)' |-> TicketQueue'[i]]
      /\ s = [i \in 1..Distance(head)' |-> s[i]]
  BY <1>1, Zenon DEF Standing
<1>. QED  BY <1>2, <1>3, Zenon

\* The queue as a sequence.
LEMMA QueueSeq ==
    ASSUME TicketInv
    PROVE  /\ Distance(head) \in Nat
           /\ TicketQueue \in Seq(Proc) /\ Len(TicketQueue) = Distance(head)
<1>1. Distance(head) \in Nat
  BY TicketAssumption DEF TicketInv, TicketTypeOK, Distance
<1>2. TicketQueue \in [1..Distance(head) -> Proc]
  BY QueueStands, Zenon DEF Standing
<1>. QED  BY <1>1, <1>2

LEMMA SeqIsFunction ==
    ASSUME NEW S, NEW s \in Seq(S)
    PROVE  DOMAIN s = 1..Len(s) /\ s = [i \in 1..Len(s) |-> s[i]]
<1>1. s \in [1..Len(s) -> S]
  OBVIOUS
<1>. QED  BY <1>1, Zenon

\* The queues after a request and after a release; named, so that the provers use
\* the two lemmas instead of the definitions.
Asked(s, x) == Append(s, x)
Served(s)   == Tail(s)

LEMMA AskedAt ==
    ASSUME NEW S, NEW s \in Seq(S), NEW x \in S
    PROVE  /\ Asked(s, x) \in Seq(S) /\ Len(Asked(s, x)) = Len(s) + 1
           /\ Asked(s, x)[Len(s) + 1] = x
           /\ \A i \in 1..Len(s) : Asked(s, x)[i] = s[i]
BY DEF Asked

LEMMA ServedAt ==
    ASSUME NEW S, NEW s \in Seq(S), Len(s) > 0
    PROVE  /\ s # <<>> /\ Head(s) = s[1]
           /\ Served(s) \in Seq(S) /\ Len(Served(s)) = Len(s) - 1
           /\ \A i \in 1..(Len(s) - 1) : Served(s)[i] = s[i + 1]
BY DEF Served

\* Drawing a ticket is asking for the lock.
LEMMA XaddAsks ==
    ASSUME TicketInv, NEW c \in Proc, arch_spin_lock_xadd(c) PROVE Fifo!Ask(c)
<1>. DEFINE Q == TicketQueue
            D == Distance(head)
<1>1. PICK s : s = Asked(Q, c)
  BY Zenon
<1>2. TicketInv' /\ Standing(Q) /\ D \in Nat /\ Q \in Seq(Proc) /\ Len(Q) = D
  BY XaddInv, QueueStands, QueueSeq, Zenon
<1>3. /\ ~Owns(c) /\ tail' = tail /\ head' = Inc(head)
      /\ ticket' = [ticket EXCEPT ![c] = head] /\ pc' = [pc EXCEPT ![c] = "spin"]
  BY Zenon DEF arch_spin_lock_xadd, Owns
<1>4. Distance(head)' = D + 1
  BY <1>3, NotFull, DistanceNext, Zenon DEF Distance, TicketInv, TicketTypeOK
<1>5. \A t : Distance(t)' = Distance(t)
  BY <1>3, Zenon DEF Distance
<1>6. Owns(c)' /\ ticket'[c] = head
      /\ \A r \in Proc \ {c} : Owns(r)' = Owns(r) /\ ticket'[r] = ticket[r]
  BY <1>3, Zenon DEF Owns, TicketInv, TicketTypeOK
<1>7. \A i \in 1..D : Q[i] \in Proc \ {c} /\ Owns(Q[i]) /\ Distance(ticket[Q[i]]) = i - 1
  BY <1>2, <1>3, Zenon DEF Standing
<1>. HIDE DEF Q, D
<1>8. /\ DOMAIN s = 1..(D + 1) /\ s = [i \in 1..(D + 1) |-> s[i]]
      /\ s[D + 1] = c /\ \A i \in 1..D : s[i] = Q[i]
  <2>1. Q \in Seq(Proc)
    BY <1>2, Zenon
  <2>2. /\ s \in Seq(Proc) /\ Len(s) = Len(Q) + 1
        /\ s[Len(Q) + 1] = c /\ \A i \in 1..Len(Q) : s[i] = Q[i]
    <3>. DEFINE t == Asked(Q, c)
    <3>1. /\ t \in Seq(Proc) /\ Len(t) = Len(Q) + 1
          /\ t[Len(Q) + 1] = c /\ \A i \in 1..Len(Q) : t[i] = Q[i]
      BY <2>1, AskedAt
    <3>. HIDE DEF t
    <3>2. s = t
      BY <1>1, Zenon DEF t
    <3>. QED  BY <3>1, <3>2, Zenon
  <2>3. Len(Q) = D
    BY <1>2, Zenon
  <2>. QED  BY <2>2, <2>3, SeqIsFunction, Zenon
<1>9. DOMAIN Q = 1..D
  BY <1>2
<1>10. ASSUME NEW i \in 1..(D + 1)
      PROVE  s[i] \in Proc /\ Owns(s[i])' /\ Distance(ticket[s[i]])' = i - 1
  <2>1. CASE i = D + 1
    <3>1. i - 1 = Distance(head)
      BY <2>1, <1>2 DEF D
    <3>. QED  BY <2>1, <3>1, <1>5, <1>6, <1>8, Zenon
  <2>2. CASE i # D + 1
    <3>1. i \in 1..D
      BY <2>2, <1>2
    <3>. QED  BY <3>1, <1>5, <1>6, <1>7, <1>8, Zenon
  <2>. QED  BY <2>1, <2>2, Zenon
<1>11. Standing(s)'
  BY <1>4, <1>8, <1>10, Zenon DEF Standing
<1>12. TicketQueue' = s
  BY <1>2, <1>11, NextStands, Zenon
<1>13. c \notin Range(Q)
  BY <1>7, <1>9, Zenon DEF Range
<1>. QED  BY <1>1, <1>12, <1>13, Zenon DEF Fifo!Ask, Fifo!Range, Range, Q, Asked

\* The release serves the next in the queue.
LEMMA UnlockReleases ==
    ASSUME TicketInv, NEW c \in Proc, arch_spin_unlock(c) PROVE Fifo!Release(c)
<1>. DEFINE Q == TicketQueue
            D == Distance(head)
<1>1. PICK s : s = Served(Q)
  BY Zenon
<1>2. TicketInv' /\ Standing(Q) /\ D \in Nat /\ Q \in Seq(Proc) /\ Len(Q) = D
  BY UnlockInv, QueueStands, QueueSeq, Zenon
<1>3. /\ tail' = Inc(tail) /\ head' = head /\ ticket' = ticket /\ ticket[c] = tail
      /\ pc' = [pc EXCEPT ![c] = "out"] /\ pc[c] = "cs"
  BY Zenon DEF arch_spin_unlock, TicketInv
<1>4. Owns(c)
  BY <1>3, Zenon DEF Owns
<1>5. /\ ticket \in [Proc -> 0..(M-1)] /\ head \in 0..(M-1) /\ tail \in 0..(M-1)
      /\ Distance(ticket[c]) = 0 /\ D > 0
  <2>1. ticket \in [Proc -> 0..(M-1)] /\ head \in 0..(M-1) /\ tail \in 0..(M-1)
    BY Zenon DEF TicketInv, TicketTypeOK
  <2>2. Distance(ticket[c]) = 0 /\ Distance(ticket[c]) < Distance(head)
    BY <1>3, <1>4, <2>1, DistanceInjective, Zenon DEF TicketInv
  <2>. QED  BY <2>1, <2>2, <1>2
<1>6. ASSUME NEW t \in 0..(M-1), Distance(t) # 0 PROVE Distance(t)' = Distance(t) - 1
  BY <1>3, <1>5, <1>6, DistanceInjective, DistanceServe, Zenon
<1>7. Distance(head)' = D - 1
  <2>1. Distance(head) # 0
    BY <1>2, <1>5
  <2>. QED  BY <2>1, <1>3, <1>5, TicketAssumption DEF Distance, Inc
<1>8. \A r \in Proc \ {c} : Owns(r)' = Owns(r) /\ ticket'[r] = ticket[r]
  BY <1>3, Zenon DEF Owns, TicketInv, TicketTypeOK
<1>9. \A i \in 1..D : Q[i] \in Proc /\ Owns(Q[i]) /\ Distance(ticket[Q[i]]) = i - 1
  BY <1>2, Zenon DEF Standing
<1>10. Q[1] = c
  <2>1. 1 \in 1..D /\ 1 - 1 = 0
    BY <1>2, <1>5
  <2>2. Q[1] \in Proc /\ Owns(Q[1]) /\ Distance(ticket[Q[1]]) = Distance(ticket[c])
    BY <2>1, <1>5, <1>9, Zenon
  <2>3. ticket[Q[1]] = ticket[c]
    BY <2>2, <1>5, DistanceInjective, Zenon
  <2>. QED  BY <2>2, <2>3, <1>4, Zenon DEF TicketInv
<1>. HIDE DEF Q, D
<1>11. /\ Q # <<>> /\ Head(Q) = Q[1]
      /\ DOMAIN s = 1..(D - 1) /\ s = [i \in 1..(D - 1) |-> s[i]]
      /\ \A i \in 1..(D - 1) : s[i] = Q[i + 1]
  <2>1. Len(Q) = D
    BY <1>2, Zenon
  <2>2. Q \in Seq(Proc) /\ Len(Q) > 0
    BY <1>2, <1>5, Zenon
  <2>3. /\ Q # <<>> /\ Head(Q) = Q[1] /\ s \in Seq(Proc) /\ Len(s) = Len(Q) - 1
        /\ \A i \in 1..(Len(Q) - 1) : s[i] = Q[i + 1]
    BY <2>2, <1>1, ServedAt
  <2>. QED  BY <2>1, <2>3, SeqIsFunction, Zenon
<1>12. ASSUME NEW i \in 1..(D - 1)
      PROVE  s[i] \in Proc /\ Owns(s[i])' /\ Distance(ticket[s[i]])' = i - 1
  <2>1. i + 1 \in 1..D /\ (i + 1) - 1 # 0 /\ ((i + 1) - 1) - 1 = i - 1
    BY <1>2
  <2>2. /\ s[i] \in Proc /\ Owns(s[i]) /\ Distance(ticket[s[i]]) = (i + 1) - 1
        /\ s[i] = Q[i + 1]
    BY <2>1, <1>9, <1>11, Zenon
  <2>3. s[i] # c
    BY <2>1, <2>2, <1>5, Zenon
  <2>4. Distance(ticket[s[i]])' = i - 1
    BY <2>1, <2>2, <1>5, <1>6, <1>3, Zenon
  <2>. QED  BY <2>2, <2>3, <2>4, <1>3, <1>8, Zenon
<1>13. Standing(s)'
  BY <1>7, <1>11, <1>12, Zenon DEF Standing
<1>14. TicketQueue' = s
  BY <1>2, <1>13, NextStands, Zenon
<1>. QED  BY <1>1, <1>11, <1>14, <1>10, Zenon DEF Fifo!Release, Q, Served

\* While a context spins, and when its turn comes, the queue stays.
LEMMA QueueStays ==
    ASSUME TicketInv, TicketInv', tail' = tail, head' = head, ticket' = ticket,
           \A r \in Proc : Owns(r)' = Owns(r)
    PROVE  TicketQueue' = TicketQueue
<1>1. PICK s : s = TicketQueue
  BY Zenon
<1>2. Standing(s)
  BY <1>1, QueueStands, Zenon
<1>3. \A t : Distance(t)' = Distance(t)
  BY Zenon DEF Distance
<1>4. Distance(head)' = Distance(head)
  BY Zenon DEF Distance
<1>5. Standing(s)'
  BY <1>2, <1>3, <1>4, Zenon DEF Standing
<1>. QED  BY <1>1, <1>5, NextStands, Zenon

LEMMA WaitKeepsQueue ==
    ASSUME TicketInv, NEW c \in Proc, arch_spin_lock_wait(c) PROVE TicketQueue' = TicketQueue
<1>1. /\ tail' = tail /\ head' = head /\ ticket' = ticket
      /\ pc' = [pc EXCEPT ![c] = "cs"] /\ pc[c] = "spin"
  BY Zenon DEF arch_spin_lock_wait
<1>2. \A r \in Proc : Owns(r)' = Owns(r)
  BY <1>1, Zenon DEF Owns, TicketInv, TicketTypeOK
<1>. QED  BY <1>1, <1>2, WaitInv, QueueStays, Zenon

\* The ticket lock implements a FIFO lock, for every number of contexts and through
\* every wrap-around of the counters: the lock is handed on in the order in which
\* the contexts executed xaddl, and a context that has released it asks anew.
THEOREM TicketLockIsFifo == TicketSpec => FifoOrder
<1>1. TicketInv /\ TicketInit => Fifo!FifoInit
  <2>. SUFFICES ASSUME TicketInv, TicketInit PROVE TicketQueue = <<>>
    BY Zenon DEF Fifo!FifoInit
  <2>1. Distance(head) = 0
    BY DEF TicketInit, Distance
  <2>2. TicketQueue \in Seq(Proc) /\ Len(TicketQueue) = 0
    BY <2>1, QueueSeq, Zenon
  <2>. QED  BY <2>2
<1>2. TicketInv /\ [TicketNext]_lockVars => [Fifo!FifoNext]_TicketQueue
  <2>1. TicketInv /\ UNCHANGED lockVars => UNCHANGED TicketQueue
    <3>. SUFFICES ASSUME TicketInv, UNCHANGED lockVars PROVE TicketQueue' = TicketQueue
      BY Zenon
    <3>1. tail' = tail /\ head' = head /\ ticket' = ticket /\ pc' = pc
      BY Zenon DEF lockVars
    <3>2. TicketInv' /\ \A r \in Proc : Owns(r)' = Owns(r)
      BY <3>1, Zenon DEF TicketInv, TicketTypeOK, Owns, Distance
    <3>. QED  BY <3>1, <3>2, QueueStays, Zenon
  <2>2. ASSUME TicketInv, NEW c \in Proc, arch_spin_lock_xadd(c) PROVE Fifo!FifoNext
    BY <2>2, XaddAsks, Zenon DEF Fifo!FifoNext
  <2>3. ASSUME TicketInv, NEW c \in Proc, arch_spin_unlock(c) PROVE Fifo!FifoNext
    BY <2>3, UnlockReleases, Zenon DEF Fifo!FifoNext
  <2>. QED  BY <2>1, <2>2, <2>3, WaitKeepsQueue, Zenon DEF TicketNext
<1>. QED  BY <1>1, <1>2, TicketInvariance, PTL DEF TicketSpec, FifoOrder, Fifo!FifoSpec

-----------------------------------------------------------------------------
(* The list below the lock *)

\* What the contexts do to the lock is what TicketLock says.
THEOREM LockedIsTicket == LockedSpec => TicketSpec
<1>1. LockedInit => TicketInit
  BY Zenon DEF LockedInit
<1>2. [LockedNext]_lockedVars => [TicketNext]_lockVars
  <2>1. ASSUME NEW c \in Ctx, spin_lock_irqsave(c) PROVE TicketNext
    BY <2>1, LockedAssumption, Zenon DEF spin_lock_irqsave, TicketNext
  <2>2. ASSUME NEW c \in Ctx, spin_lock_taken(c) PROVE TicketNext
    BY <2>2, LockedAssumption, Zenon DEF spin_lock_taken, TicketNext
  <2>3. ASSUME NEW c \in Ctx, locked_step(c) PROVE UNCHANGED lockVars
    BY <2>3, Zenon DEF locked_step
  <2>4. ASSUME NEW c \in Ctx, spin_unlock_irqrestore(c) PROVE TicketNext
    BY <2>4, LockedAssumption, Zenon DEF spin_unlock_irqrestore, TicketNext
  <2>. QED  BY <2>1, <2>2, <2>3, <2>4, Zenon DEF LockedNext, lockedVars
<1>. QED  BY <1>1, <1>2, PTL DEF LockedSpec, TicketSpec

\* raw_spin_lock_irqsave() excludes tasks and interrupt handlers from one another.
THEOREM LockedExcludes == LockedSpec => []MutualExclusion
BY LockedIsTicket, LockExcludes, PTL

\* ... and serves them in the order in which they asked.
THEOREM LockedIsFifo == LockedSpec => FifoOrder
BY LockedIsTicket, TicketLockIsFifo, PTL

-----------------------------------------------------------------------------
(* The ring below the lock *)

\* Operations run below the lock, and there is a ring that every context at work has
\* left in the state of its progress.
LockedInv ==
    /\ ListTypeOK
    /\ \A c \in Ctx : at[c] # "idle" => pc[c] = "cs"
    /\ (\A c \in Ctx : at[c] = "idle") => Whole(next, prev)
    /\ \A c \in Ctx : at[c] # "idle" => \E f, g : Ring(c, f, g)

LEMMA LockedInvInit == LockedInit => LockedInv
<1>1. LockedInit => ListTypeOK /\ \A c \in Ctx : at[c] = "idle"
  BY DEF LockedInit, ListInit, ListTypeOK, AllOps, At, Ptr
<1>2. LockedInit => Whole(next, prev)
  BY EmptyWhole, Zenon DEF LockedInit, ListInit
<1>. QED  BY <1>1, <1>2, Zenon DEF LockedInv

LEMMA LockedInvNext ==
    LockedInv /\ TicketTypeOK /\ MutualExclusion /\ MutualExclusion' /\ [LockedNext]_lockedVars => LockedInv'
<1>. SUFFICES ASSUME LockedInv, TicketTypeOK, MutualExclusion, MutualExclusion', [LockedNext]_lockedVars
              PROVE  LockedInv'
  BY Zenon
<1>1. ASSUME UNCHANGED listVars, \A c \in Ctx : at[c] # "idle" => pc'[c] = "cs"
      PROVE  LockedInv'
  <2>1. /\ next' = next /\ prev' = prev /\ op' = op /\ at' = at
        /\ node' = node /\ p' = p /\ n' = n
    BY <1>1, Zenon DEF listVars
  <2>2. ListTypeOK'
    BY <2>1, Zenon DEF LockedInv, ListTypeOK
  <2>3. ASSUME NEW c \in Ctx, NEW f, NEW g, Ring(c, f, g) PROVE Ring(c, f, g)'
    <3>1. Walking(c)' <=> Walking(c)
      BY <2>1, Zenon DEF Walking
    <3>2. Progress(c, f, g)' <=> Progress(c, f, g)
      BY <2>1, <3>1, ZenonT(30) DEF Progress, Adding, Removing, Removable
    <3>. QED  BY <2>1, <2>3, <3>2, Zenon DEF Ring
  <2>4. Whole(next, prev)' <=> Whole(next, prev)
    BY <2>1, Zenon DEF Whole
  <2>5. ASSUME NEW c \in Ctx, at'[c] # "idle" PROVE \E f, g : Ring(c, f, g)'
    <3>1. PICK f, g : Ring(c, f, g)
      BY <2>1, <2>5, Zenon DEF LockedInv
    <3>. QED  BY <3>1, <2>3, Zenon
  <2>. QED  BY <1>1, <2>1, <2>2, <2>4, <2>5, Zenon DEF LockedInv
<1>2. ASSUME NEW c \in Ctx, spin_lock_irqsave(c) PROVE LockedInv'
  <2>1. UNCHANGED listVars /\ \A d \in Ctx : pc[d] = "cs" => pc'[d] = "cs"
    BY <1>2 DEF spin_lock_irqsave, arch_spin_lock_xadd
  <2>. QED  BY <2>1, <1>1, Zenon DEF LockedInv
<1>3. ASSUME NEW c \in Ctx, spin_unlock_irqrestore(c) PROVE LockedInv'
  <2>1. UNCHANGED listVars /\ at[c] = "idle" /\ \A d \in Ctx \ {c} : pc[d] = "cs" => pc'[d] = "cs"
    BY <1>3 DEF spin_unlock_irqrestore, arch_spin_unlock
  <2>. QED  BY <2>1, <1>1, Zenon DEF LockedInv
<1>4. ASSUME NEW c \in Ctx, ListTypeOK', Others(c), NEW f, NEW g, Ring(c, f, g)', pc'[c] = "cs",
             \A d \in Ctx \ {c} : at[d] = "idle"
      PROVE  LockedInv'
  <2>1. \A d \in Ctx \ {c} : at'[d] = "idle"
    BY <1>4, Zenon DEF Others
  <2>2. (\A d \in Ctx : at'[d] = "idle") => Whole(next', prev')
    BY <1>4, Zenon DEF Ring
  <2>3. \A d \in Ctx : at'[d] # "idle" => pc'[d] = "cs" /\ \E h, k : Ring(d, h, k)'
    BY <1>4, <2>1, Zenon
  <2>. QED  BY <1>4, <2>2, <2>3, Zenon DEF LockedInv
<1>5. ASSUME NEW c \in Ctx, spin_lock_taken(c) PROVE LockedInv'
  <2>1. PICK o \in Ops, x \in Node : start(c, o, x)
    BY <1>5, Zenon DEF spin_lock_taken
  <2>2. pc' = [pc EXCEPT ![c] = "cs"] /\ pc'[c] = "cs" /\ at[c] = "idle"
    BY <1>5, <2>1, LockedAssumption, Zenon DEF spin_lock_taken, arch_spin_lock_wait, start, TicketTypeOK
  <2>3. \A d \in Ctx \ {c} : at[d] = "idle"
    BY <2>2, LockedAssumption DEF LockedInv, MutualExclusion
  <2>4. ListTypeOK /\ Whole(next, prev)
    BY <2>2, <2>3, Zenon DEF LockedInv
  <2>5. ListTypeOK' /\ Others(c) /\ \E f, g : Ring(c, f, g)'
    BY <2>1, <2>4, StartInv, Zenon DEF Others
  <2>. QED  BY <2>2, <2>3, <2>5, <1>4, Zenon
<1>6. ASSUME NEW c \in Ctx, locked_step(c) PROVE LockedInv'
  <2>1. pc[c] = "cs" /\ pc' = pc /\ ListStep(c)
    BY <1>6, Zenon DEF locked_step, lockVars
  <2>2. \A d \in Ctx \ {c} : at[d] = "idle"
    BY <2>1, LockedAssumption, Zenon DEF LockedInv, MutualExclusion
  <2>3. at[c] # "idle"
    BY <2>1, Zenon DEF ListStep, list_header_contains, load, __list_add_valid, __list_add_between,
                __list_del_entry_valid, list_del_init, set_count, Runs
  <2>4. PICK f, g : Whole(f, g) /\ Progress(c, f, g)
    BY <2>3, Zenon DEF LockedInv, Ring
  <2>5. ListTypeOK' /\ Others(c) /\ \E h, k : Ring(c, h, k)'
    BY <2>1, <2>4, StepInv, Zenon DEF LockedInv
  <2>. QED  BY <2>1, <2>2, <2>5, <1>4, Zenon
<1>. QED  BY <1>1, <1>2, <1>3, <1>5, <1>6, Zenon DEF LockedNext, LockedInv, lockedVars, lockVars

\* LockedInv is inductive below the lock.
THEOREM LockedInvariance == LockedSpec => []LockedInv
<1>1. LockedSpec => []TicketTypeOK
  BY LockedIsTicket, TicketTypeCorrect, PTL
<1>. QED  BY <1>1, LockedExcludes, LockedInvInit, LockedInvNext, PTL DEF LockedSpec

\* With raw_spin_lock_irqsave() around them, list_header_add_to_head() and the other
\* operations never find a ring that is half changed, so that no context spins in
\* __list_add_valid() or __list_del_entry_valid(), for any number of contexts,
\* handlers and nodes.
THEOREM LockedNeverSpins == LockedSpec => []NoSpin
<1>1. LockedInv => NoSpin
  BY Zenon DEF LockedInv, NoSpin, Ring, Progress
<1>. QED  BY <1>1, LockedInvariance, PTL

-----------------------------------------------------------------------------
(* The list and its specification *)

DequeInv ==
    /\ count \in Nat
    /\ (\A c \in Ctx : at[c] = "idle") => count = Len(Forward)
    /\ \A c \in Ctx : at[c] # "idle" => Held(c)

LEMMA DequeInvInit == LockedInit => DequeInv /\ Forward = <<>>
<1>. SUFFICES ASSUME LockedInit PROVE DequeInv /\ Forward = <<>>
  BY Zenon
<1>1. next = [x \in Ptr |-> x] /\ count = 0 /\ \A c \in Ctx : at[c] = "idle"
  BY Zenon DEF LockedInit, ListInit
<1>2. Forward = <<>>
  <2>1. Chain(next, <<>>)
    BY <1>1, EmptyLinked, Zenon DEF Linked
  <2>. QED  BY <2>1, AlongChain, Zenon DEF Forward
<1>3. count \in Nat /\ count = Len(Forward)
  BY <1>1, <1>2
<1>. QED  BY <1>1, <1>2, <1>3, Zenon DEF DequeInv

\* A step of the specification is an operation of Deque or changes nothing in the
\* list, and keeps DequeInv.
LEMMA LockedDequeStep ==
    ASSUME LockedInv, LockedInv', DequeInv, TicketTypeOK, MutualExclusion, MutualExclusion',
           [LockedNext]_lockedVars
    PROVE  DequeInv' /\ (Forward' = Forward \/ Abstract!Operation(Forward, Forward'))
<1>1. ASSUME UNCHANGED listVars PROVE DequeInv' /\ Forward' = Forward
  <2>1. next' = next /\ count' = count /\ at' = at /\ node' = node /\ n' = n
    BY <1>1, Zenon DEF listVars
  <2>2. Forward' = Forward
    BY <2>1, Zenon DEF Forward
  <2>3. ASSUME NEW c \in Ctx PROVE Held(c)' <=> Held(c)
    BY <2>1, <2>2, Zenon DEF Held, Behind, Ahead
  <2>. QED  BY <2>1, <2>2, <2>3, Zenon DEF DequeInv
<1>2. ASSUME NEW c \in Ctx, DequeStep(c), \A d \in Ctx \ {c} : at'[d] = "idle"
      PROVE  DequeInv' /\ (Forward' = Forward \/ Abstract!Operation(Forward, Forward'))
  <2>1. /\ Held(c)' /\ count' \in Nat
        /\ Forward' = Forward \/ Abstract!Operation(Forward, Forward')
    BY <1>2, Zenon DEF DequeStep
  <2>2. ASSUME at'[c] = "idle" PROVE count' = Len(Forward')
    <3>1. Behind(c)' = 0 /\ Ahead(c)' = 0
      BY <2>2, Zenon DEF Behind, Ahead
    <3>2. count' + 0 = Len(Forward') + 0
      BY <2>1, <3>1, Zenon DEF Held
    <3>3. Len(Forward') \in Nat
      <4>1. \A d \in Ctx : at'[d] = "idle"
        BY <1>2, <2>2, Zenon
      <4>2. Whole(next', prev')
        BY <4>1, Zenon DEF LockedInv
      <4>. QED  BY <4>2, WholeLinked, Zenon DEF Forward
    <3>. QED  BY <2>1, <3>2, <3>3
  <2>3. ASSUME NEW d \in Ctx, at'[d] # "idle" PROVE Held(d)'
    <3>1. d = c
      BY <1>2, <2>3, Zenon
    <3>. QED  BY <3>1, <2>1, Zenon
  <2>4. (\A d \in Ctx : at'[d] = "idle") => count' = Len(Forward')
    BY <2>2, Zenon
  <2>5. DequeInv'
    BY <2>1, <2>3, <2>4, Zenon DEF DequeInv
  <2>. QED  BY <2>1, <2>5, Zenon
<1>3. ASSUME NEW c \in Ctx, spin_lock_taken(c)
      PROVE  DequeStep(c) /\ \A d \in Ctx \ {c} : at'[d] = "idle"
  <2>1. PICK o \in Ops, x \in Node : start(c, o, x)
    BY <1>3, Zenon DEF spin_lock_taken
  <2>2. pc' = [pc EXCEPT ![c] = "cs"] /\ pc'[c] = "cs" /\ at[c] = "idle"
    BY <1>3, <2>1, LockedAssumption, Zenon DEF spin_lock_taken, arch_spin_lock_wait, start, TicketTypeOK
  <2>3. \A d \in Ctx \ {c} : at[d] = "idle"
    BY <2>2, LockedAssumption DEF LockedInv, MutualExclusion
  <2>4. ListTypeOK /\ Whole(next, prev) /\ count \in Nat /\ count = Len(Forward)
    BY <2>2, <2>3, Zenon DEF LockedInv, DequeInv
  <2>5. DequeStep(c)
    BY <2>1, <2>4, StartDeque, Zenon
  <2>6. Others(c)
    BY <2>1, <2>4, StartInv, Zenon DEF Others
  <2>. QED  BY <2>3, <2>5, <2>6, Zenon DEF Others
<1>4. ASSUME NEW c \in Ctx, locked_step(c)
      PROVE  DequeStep(c) /\ \A d \in Ctx \ {c} : at'[d] = "idle"
  <2>1. pc[c] = "cs" /\ pc' = pc /\ ListStep(c)
    BY <1>4, Zenon DEF locked_step, lockVars
  <2>2. \A d \in Ctx \ {c} : at[d] = "idle"
    BY <2>1, LockedAssumption, Zenon DEF LockedInv, MutualExclusion
  <2>3. at[c] # "idle"
    BY <2>1, Zenon DEF ListStep, list_header_contains, load, __list_add_valid, __list_add_between,
                __list_del_entry_valid, list_del_init, set_count, Runs
  <2>4. PICK f, g : Whole(f, g) /\ Progress(c, f, g)
    BY <2>3, Zenon DEF LockedInv, Ring
  <2>5. ListTypeOK /\ Held(c) /\ count \in Nat
    BY <2>3, Zenon DEF LockedInv, DequeInv
  <2>6. DequeStep(c)
    BY <2>1, <2>4, <2>5, StepDeque, Zenon
  <2>7. Others(c)
    BY <2>1, <2>4, <2>5, StepInv, Zenon
  <2>. QED  BY <2>2, <2>6, <2>7, Zenon DEF Others
<1>5. ASSUME NEW c \in Ctx, spin_lock_irqsave(c) \/ spin_unlock_irqrestore(c) PROVE UNCHANGED listVars
  BY <1>5, Zenon DEF spin_lock_irqsave, spin_unlock_irqrestore
<1>6. CASE UNCHANGED lockedVars
  BY <1>6, <1>1, Zenon DEF lockedVars
<1>7. CASE LockedNext
  <2>1. PICK c \in Ctx : spin_lock_irqsave(c) \/ spin_lock_taken(c) \/ locked_step(c) \/ spin_unlock_irqrestore(c)
    BY <1>7, Zenon DEF LockedNext
  <2>2. CASE spin_lock_irqsave(c) \/ spin_unlock_irqrestore(c)
    BY <2>2, <1>1, <1>5, Zenon
  <2>3. CASE spin_lock_taken(c)
    BY <2>3, <1>2, <1>3, Zenon
  <2>4. CASE locked_step(c)
    BY <2>4, <1>2, <1>4, Zenon
  <2>. QED  BY <2>1, <2>2, <2>3, <2>4, Zenon
<1>. QED  BY <1>6, <1>7, Zenon

\* DequeInv is inductive below the lock: list_header_contains() walks along entries
\* of the list, list_del_init() takes out one of its entries, and count differs from
\* the length only between the store that links or unlinks and count++ or count--.
THEOREM DequeInvariance == LockedSpec => []DequeInv
<1>1. LockedSpec => []TicketTypeOK
  BY LockedIsTicket, TicketTypeCorrect, PTL
<1>2. LockedInit => DequeInv
  BY DequeInvInit, Zenon
<1>3. LockedInv /\ LockedInv' /\ DequeInv /\ TicketTypeOK /\ MutualExclusion /\ MutualExclusion'
        /\ [LockedNext]_lockedVars => DequeInv'
  BY LockedDequeStep, Zenon
<1>. QED  BY <1>1, <1>2, <1>3, LockedExcludes, LockedInvariance, PTL DEF LockedSpec

\* The forward pointers are those of a Deque at every step, for any number of
\* contexts and of entries: a store of __list_add_between() or __list_del() adds an
\* entry at an end or takes one out, and every other step leaves the list alone.
THEOREM LockedIsDeque == LockedSpec => IsDeque
<1>1. LockedSpec => []TicketTypeOK
  BY LockedIsTicket, TicketTypeCorrect, PTL
<1>2. LockedInit => Abstract!DequeInit
  BY DequeInvInit, Zenon DEF Abstract!DequeInit
<1>3. LockedInv /\ LockedInv' /\ DequeInv /\ TicketTypeOK /\ MutualExclusion /\ MutualExclusion'
        /\ [LockedNext]_lockedVars => [Abstract!DequeNext]_Forward
  BY LockedDequeStep, Zenon DEF Abstract!DequeNext
<1>. QED
  BY <1>1, <1>2, <1>3, DequeInvariance, LockedExcludes, LockedInvariance, PTL
     DEF LockedSpec, IsDeque, Abstract!DequeSpec

\* Between operations the ring is the same list in both directions, count is its
\* length and an entry off the list points to itself, for any number of contexts that
\* keep to the lock.
THEOREM LockedRingWhole == LockedSpec => []RingWhole
<1>1. LockedInv /\ DequeInv => RingWhole
  <2>. SUFFICES ASSUME LockedInv, DequeInv, \A c \in Ctx : at[c] = "idle"
                PROVE  /\ \A i \in DOMAIN Forward : Backward[Len(Forward) + 1 - i] = Forward[i]
                       /\ Len(Backward) = Len(Forward) /\ count = Len(Forward)
                       /\ \A x \in Node \ Range(Forward) : next[x] = x /\ prev[x] = x
    BY Zenon DEF RingWhole
  <2>1. Linked(next, prev, Forward) /\ count = Len(Forward)
    BY Zenon DEF LockedInv, DequeInv, Whole, Forward
  <2>2. Backward = Rev(Forward) /\ Len(Rev(Forward)) = Len(Forward)
    BY <2>1, BackAlong, Zenon DEF Backward
  <2>3. Forward \in Seq(Node) /\ Len(Forward) \in Nat
    BY <2>1, ChainSeq, Zenon DEF Linked
  <2>4. DOMAIN Forward = 1..Len(Forward)
    BY <2>3
  <2>5. ASSUME NEW i \in DOMAIN Forward PROVE Backward[Len(Forward) + 1 - i] = Forward[i]
    <3>1. i \in 1..Len(Forward)
      BY <2>4, Zenon
    <3>2. Len(Forward) + 1 - i \in 1..Len(Forward) /\ Len(Forward) + 1 - (Len(Forward) + 1 - i) = i
      BY <3>1, <2>3
    <3>3. Rev(Forward)[Len(Forward) + 1 - i] = Forward[Len(Forward) + 1 - (Len(Forward) + 1 - i)]
      BY <3>2, Zenon DEF Rev
    <3>. QED  BY <3>2, <3>3, <2>2, Zenon
  <2>. QED  BY <2>1, <2>2, <2>5, Zenon DEF Linked
<1>. QED  BY <1>1, LockedInvariance, DequeInvariance, PTL
=============================================================================
