--------------------------- MODULE SchedulerProofs ---------------------------
(***************************************************************************)
(* Proofs about the scheduler, for every number of requests, every pool,   *)
(* budget, policy and prompt: the invariant of the queues, the batch and   *)
(* the computed counts, and what follows from it.                           *)
(***************************************************************************)
EXTENDS Scheduler, KVCacheProofs

------------------------------------------------------------------------------
(* Queues: what their operators return, for every queue - the deque          *)
(* operations of an fcfs queue, the heap of a priority queue, and the removal *)
(* of requests from either.                                                  *)

\* Being free of repetitions, position by position.
LEMMA InjectiveSeq ==
    ASSUME NEW T, NEW s \in Seq(T)
    PROVE  /\ IsInjective(s) <=> \A i, j \in 1 .. Len(s) : s[i] = s[j] => i = j
           /\ Range(s) = {s[i] : i \in 1 .. Len(s)}
           /\ Range(s) \subseteq T
<1>1. Len(s) \in Nat /\ DOMAIN s = 1 .. Len(s) /\ \A i \in 1 .. Len(s) : s[i] \in T
  BY LenProperties, ElementOfSeq
<1> QED BY <1>1 DEF IsInjective, Range

\* A prefix of a sequence, and the end of two joined ones.
LEMMA PrefixIs ==
    ASSUME NEW T, NEW s \in Seq(T), NEW k \in 0 .. Len(s)
    PROVE  /\ SubSeq(s, 1, k) \in Seq(T) /\ Len(SubSeq(s, 1, k)) = k
           /\ \A i \in 1 .. k : SubSeq(s, 1, k)[i] = s[i]
<1>1. Len(s) \in Nat /\ 1 \in Int /\ k \in Int
  BY LenProperties
<1>2. \A i \in 1 .. k : s[i] \in T
  BY <1>1, ElementOfSeq
<1>3. PICK u \in Seq(T) : u = SubSeq(s, 1, k)
  BY <1>1, <1>2, SubSeqProperties
<1>4. /\ Len(u) = IF 1 <= k THEN k - 1 + 1 ELSE 0
      /\ \A i \in 1 .. k - 1 + 1 : u[i] = s[1 + i - 1]
  BY <1>1, <1>2, <1>3, SubSeqProperties
<1> QED BY <1>1, <1>3, <1>4

LEMMA JoinedEnd ==
    ASSUME NEW T, NEW s \in Seq(T), NEW t \in Seq(T), NEW n \in Nat, NEW k \in Nat \ {0},
           n = Len(s), k = Len(t)
    PROVE  Len(s \o t) = n + k /\ (s \o t)[n + k] = t[k]
<1>1. n + k \in 1 .. n + k /\ ~(n + k <= n) /\ n + k - n = k
  OBVIOUS
<1>2. /\ Len(s \o t) = n + k
      /\ \A i \in 1 .. n + k : (s \o t)[i] = IF i <= n THEN s[i] ELSE t[i - n]
  BY ConcatProperties
<1> QED BY <1>1, <1>2

LEMMA JoinedPrefixEnd ==
    ASSUME NEW T, NEW s \in Seq(T), NEW t \in Seq(T), NEW k \in 1 .. Len(t)
    PROVE  /\ Len(s \o SubSeq(t, 1, k)) = Len(s) + k
           /\ (s \o SubSeq(t, 1, k))[Len(s) + k] = t[k]
<1>1. k \in 0 .. Len(t) /\ k \in Nat \ {0} /\ k \in 1 .. k /\ Len(s) \in Nat
  BY LenProperties
<1>2. /\ SubSeq(t, 1, k) \in Seq(T) /\ Len(SubSeq(t, 1, k)) = k
      /\ SubSeq(t, 1, k)[k] = t[k]
  BY <1>1, PrefixIs
<1>3. PICK u \in Seq(T) : u = SubSeq(t, 1, k) /\ Len(u) = k /\ u[k] = t[k]
  BY <1>2
<1>4. Len(s \o u) = Len(s) + k /\ (s \o u)[Len(s) + k] = u[k]
  BY <1>1, <1>3, JoinedEnd
<1> QED BY <1>3, <1>4

\* A set of naturals that is not empty has a least element.
LEMMA LeastElement ==
    ASSUME NEW S \in SUBSET Nat, S # {}
    PROVE  \E k \in S : \A j \in S : k <= j
<1> DEFINE X == {0 .. k : k \in S}
           R == StrictSubsetOrdering(Nat)
<1>1. X \subseteq FiniteSubsetsOf(Nat) /\ X # {}
  <2>1. ASSUME NEW k \in S PROVE 0 .. k \in SUBSET Nat /\ IsFiniteSet(0 .. k)
    BY FS_Interval
  <2> QED BY <2>1 DEF FiniteSubsetsOf
<1>2. IsWellFoundedOn(R, FiniteSubsetsOf(Nat))
  BY FS_StrictSubsetOrderingWellFounded
<1>3. PICK x \in X : \A y \in X : ~ (<<y, x>> \in R)
  <2> HIDE DEF X, R
  <2> QED BY <1>1, <1>2, WFMin
<1>4. PICK k \in S : x = 0 .. k
  OBVIOUS
<1>5. ASSUME NEW j \in S PROVE k <= j
  <2>1. SUFFICES ASSUME j < k PROVE FALSE
    OBVIOUS
  <2>2. (0 .. j) \subseteq (0 .. k) /\ (0 .. j) # (0 .. k)
    <3>1. k \in 0 .. k /\ k \notin 0 .. j
      BY <2>1
    <3> QED BY <2>1, <3>1
  <2>3. (0 .. j) \in X /\ (0 .. j) \in SUBSET Nat /\ (0 .. k) \in SUBSET Nat
    OBVIOUS
  <2> QED BY <1>3, <1>4, <2>2, <2>3 DEF StrictSubsetOrdering
<1> QED BY <1>5

------------------------------------------------------------------------------
(* Removing one request from a queue that holds it once.                     *)

\* What is left keeps its order: the elements behind the removed one move up.
LEMMA WithoutOne ==
    ASSUME NEW q \in Seq(Requests), IsInjective(q), NEW p \in 1 .. Len(q)
    PROVE  /\ Without(q, q[p]) \in Seq(Requests)
           /\ Len(Without(q, q[p])) = Len(q) - 1
           /\ \A n \in 1 .. Len(q) - 1 :
                Without(q, q[p])[n] = IF n < p THEN q[n] ELSE q[n + 1]
           /\ Range(Without(q, q[p])) = Range(q) \ {q[p]}
           /\ IsInjective(Without(q, q[p]))
<1> DEFINE S == Requests \ {q[p]}
           K == {i \in DOMAIN q : q[i] \in S}
           w == Filter(q, S)
<1>1. /\ Len(q) \in Nat /\ DOMAIN q = 1 .. Len(q)
      /\ \A i \in 1 .. Len(q) : q[i] \in Requests
      /\ \A i, j \in 1 .. Len(q) : q[i] = q[j] => i = j
  BY LenProperties, ElementOfSeq, InjectiveSeq
<1>2. K = (1 .. Len(q)) \ {p}
  BY <1>1
<1>3. Cardinality(K) = Len(q) - 1
  <2>1. IsFiniteSet(1 .. Len(q)) /\ Cardinality(1 .. Len(q)) = Len(q)
    BY <1>1, FS_Interval
  <2>2. Cardinality((1 .. Len(q)) \ {p}) = Cardinality(1 .. Len(q)) - 1
    BY <2>1, FS_RemoveElement
  <2> QED BY <1>2, <2>1, <2>2
<1>4. ASSUME NEW i \in K
      PROVE  Rank(q, S, i) = IF i < p THEN i ELSE i - 1
  <2> DEFINE J == {j \in 1 .. i : q[j] \in S}
  <2>1. i \in 1 .. Len(q) /\ i # p
    BY <1>2
  <2>2. IsFiniteSet(1 .. i) /\ Cardinality(1 .. i) = i
    BY <2>1, FS_Interval
  <2>3. J = (1 .. i) \ {p}
    BY <1>1, <2>1
  <2>4. Cardinality((1 .. i) \ {p}) = IF p \in 1 .. i THEN i - 1 ELSE i
    BY <2>2, FS_RemoveElement
  <2>5. Rank(q, S, i) = Cardinality(J)
    BY DEF Rank
  <2>6. p \in 1 .. i <=> ~ (i < p)
    BY <1>1, <2>1
  <2> QED BY <2>3, <2>4, <2>5, <2>6
<1>5. w = [n \in 1 .. Len(q) - 1 |-> q[CHOOSE i \in DOMAIN q : q[i] \in S /\ Rank(q, S, i) = n]]
  BY <1>3 DEF Filter
<1>6. ASSUME NEW n \in 1 .. Len(q) - 1
      PROVE  w[n] = IF n < p THEN q[n] ELSE q[n + 1]
  <2> DEFINE k == IF n < p THEN n ELSE n + 1
             c == CHOOSE i \in DOMAIN q : q[i] \in S /\ Rank(q, S, i) = n
  <2>1. k \in K /\ Rank(q, S, k) = n
    <3>1. k \in K
      BY <1>1, <1>2
    <3>2. Rank(q, S, k) = IF k < p THEN k ELSE k - 1
      BY <1>4, <3>1
    <3> QED BY <1>1, <3>1, <3>2
  <2>2. c \in K /\ Rank(q, S, c) = n
    BY <2>1
  <2>3. c = k
    <3>1. Rank(q, S, c) = IF c < p THEN c ELSE c - 1
      BY <1>4, <2>2
    <3>2. c \in 1 .. Len(q) /\ c # p
      BY <1>2, <2>2
    <3> HIDE DEF c, K
    <3> QED BY <1>1, <2>2, <3>1, <3>2
  <2>4. w[n] = q[c]
    BY <1>5
  <2> HIDE DEF c, w
  <2> QED BY <2>3, <2>4
<1>7. Len(w) = Len(q) - 1
  <2> HIDE DEF w
  <2>1. Len(q) - 1 \in Nat
    BY <1>1
  <2>2. DOMAIN w = 1 .. Len(q) - 1
    BY <1>5
  <2>3. w \in Seq(Requests)
    BY FilterProperties DEF w
  <2> QED BY <2>1, <2>2, <2>3, LenProperties
<1>8. w \in Seq(Requests) /\ Range(w) = Range(q) \cap S /\ IsInjective(w)
  BY FilterProperties
<1>9. Range(q) \cap S = Range(q) \ {q[p]}
  BY <1>1, InjectiveSeq
<1> QED BY <1>6, <1>7, <1>8, <1>9 DEF Without

\* Removing what is not there changes nothing about the queue's members.
LEMMA WithoutRange ==
    ASSUME NEW q \in Seq(Requests), IsInjective(q), NEW r \in Requests
    PROVE  /\ Without(q, r) \in Seq(Requests)
           /\ Range(Without(q, r)) = Range(q) \ {r}
           /\ IsInjective(Without(q, r))
<1>1. Range(q) \cap (Requests \ {r}) = Range(q) \ {r}
  BY InjectiveSeq
<1> QED BY <1>1, FilterProperties DEF Without

\* The tail of a queue without repetitions has lost exactly its head.
LEMMA TailProperties ==
    ASSUME NEW q \in Seq(Requests), IsInjective(q), q # <<>>
    PROVE  /\ q[1] \in Range(q)
           /\ Tail(q) \in Seq(Requests)
           /\ Range(Tail(q)) = Range(q) \ {q[1]}
           /\ IsInjective(Tail(q))
           /\ Len(Tail(q)) = Len(q) - 1
           /\ \A i \in 1 .. Len(q) - 1 : Tail(q)[i] = q[i + 1]
<1> DEFINE t == Tail(q)
<1>1. /\ Len(q) \in Nat \ {0} /\ \A i \in 1 .. Len(q) : q[i] \in Requests
      /\ \A i, j \in 1 .. Len(q) : q[i] = q[j] => i = j
      /\ Range(q) = {q[i] : i \in 1 .. Len(q)}
  BY EmptySeq, ElementOfSeq, InjectiveSeq
<1>2. /\ t \in Seq(Requests) /\ Len(t) = Len(q) - 1
      /\ \A i \in 1 .. Len(t) : t[i] = q[i + 1]
  BY HeadTailProperties
<1>3. Range(t) = {t[i] : i \in 1 .. Len(t)}
  BY <1>2, InjectiveSeq
<1>4. \A i, j \in 1 .. Len(t) : t[i] = t[j] => i = j
  BY <1>1, <1>2
<1>5. IsInjective(t)
  BY <1>2, <1>4, InjectiveSeq
<1>6. ASSUME NEW r \in Range(t) PROVE r \in Range(q) /\ r # q[1]
  BY <1>1, <1>2, <1>3
<1>7. ASSUME NEW r \in Range(q), r # q[1] PROVE r \in Range(t)
  <2>1. PICK i \in 1 .. Len(q) : r = q[i]
    BY <1>1
  <2>2. i - 1 \in 1 .. Len(t) /\ t[i - 1] = r
    BY <1>1, <1>2, <1>7, <2>1
  <2> QED BY <1>3, <2>2
<1>8. Range(t) = Range(q) \ {q[1]}
  BY <1>6, <1>7
<1> QED BY <1>1, <1>2, <1>5, <1>8

\* A request that joins a queue at its end.
LEMMA AppendOne ==
    ASSUME NEW q \in Seq(Requests), IsInjective(q), NEW r \in Requests
    PROVE  /\ Append(q, r) \in Seq(Requests)
           /\ Len(Append(q, r)) = Len(q) + 1
           /\ \A i \in 1 .. Len(q) + 1 : Append(q, r)[i] = IF i <= Len(q) THEN q[i] ELSE r
           /\ Range(Append(q, r)) = Range(q) \cup {r}
           /\ r \notin Range(q) => IsInjective(Append(q, r))
<1> DEFINE a == Append(q, r)
<1>1. /\ Len(q) \in Nat /\ \A i, j \in 1 .. Len(q) : q[i] = q[j] => i = j
      /\ Range(q) = {q[i] : i \in 1 .. Len(q)}
  BY LenProperties, InjectiveSeq
<1>2. /\ a \in Seq(Requests) /\ Len(a) = Len(q) + 1
      /\ \A i \in 1 .. Len(q) + 1 : a[i] = IF i <= Len(q) THEN q[i] ELSE r
  BY <1>1, AppendProperties
<1>3. Range(a) = {a[i] : i \in 1 .. Len(a)}
  BY <1>2, InjectiveSeq
<1>4. Len(a) \in 1 .. Len(a) /\ a[Len(a)] = r
  BY <1>1, <1>2
<1>5. Range(a) = Range(q) \cup {r}
  BY <1>1, <1>2, <1>3, <1>4
<1>6. r \notin Range(q) => \A i, j \in 1 .. Len(a) : a[i] = a[j] => i = j
  BY <1>1, <1>2
<1>7. r \notin Range(q) => IsInjective(a)
  BY <1>2, <1>6, InjectiveSeq
<1> QED BY <1>2, <1>5, <1>7

------------------------------------------------------------------------------
(* The heap of a priority queue.                                            *)

\* A live request has one place in the order of arrival.
LEMMA PositionProperties ==
    ASSUME NEW arrived \in Seq(Requests), IsInjective(arrived), NEW r \in Range(arrived)
    PROVE  /\ Position(arrived, r) \in 1 .. Len(arrived)
           /\ arrived[Position(arrived, r)] = r
<1>1. DOMAIN arrived = 1 .. Len(arrived) /\ \E i \in 1 .. Len(arrived) : arrived[i] = r
  BY LenProperties, InjectiveSeq
<1> QED BY <1>1 DEF Position

\* Urgency is a strict total order of the live requests.
LEMMA PrecedesIsOrder ==
    ASSUME NEW arrived \in Seq(Requests), IsInjective(arrived),
           NEW r \in Range(arrived), NEW s \in Range(arrived)
    PROVE  /\ ~ Precedes(r, r, arrived)
           /\ r # s => Precedes(r, s, arrived) \/ Precedes(s, r, arrived)
           /\ ~ (Precedes(r, s, arrived) /\ Precedes(s, r, arrived))
           /\ \A t \in Range(arrived) :
                Precedes(r, s, arrived) /\ Precedes(s, t, arrived) => Precedes(r, t, arrived)
<1>1. Range(arrived) \subseteq Requests
  BY InjectiveSeq
<1>2. \A t \in Range(arrived) : Priority[t] \in Int
  BY <1>1, PolicyAssumption
<1>3. \A t \in Range(arrived) : /\ Position(arrived, t) \in Int
                                /\ arrived[Position(arrived, t)] = t
  BY PositionProperties, LenProperties
<1> QED BY <1>2, <1>3 DEF Precedes

\* A heap yields every request in it once, the most urgent first.
LEMMA HeapOrderProperties ==
    ASSUME NEW arrived \in Seq(Requests), IsInjective(arrived),
           NEW S \in SUBSET Range(arrived)
    PROVE  LET h == HeapOrder(S, arrived)
           IN  /\ h \in Seq(Requests) /\ Len(h) = Cardinality(S)
               /\ Range(h) = S
               /\ IsInjective(h)
               /\ \A i, j \in 1 .. Len(h) : i < j => Precedes(h[i], h[j], arrived)
<1> DEFINE h == HeapOrder(S, arrived)
           N == Cardinality(S)
           Before(r) == {s \in S : Precedes(s, r, arrived)}
           rank == [r \in S |-> Cardinality(Before(r))]
           f == [r \in S |-> rank[r] + 1]
           Prec(r, s) == Precedes(r, s, arrived)
<1>1. Range(arrived) \subseteq Requests /\ S \subseteq Requests
  BY InjectiveSeq
<1>2. IsFiniteSet(S) /\ N \in Nat
  BY <1>1, RequestsAssumption, FS_Subset, FS_CardinalityType
<1>3. ASSUME NEW r \in S
      PROVE  IsFiniteSet(Before(r)) /\ Cardinality(Before(r)) \in Nat
  BY <1>2, FS_Subset, FS_CardinalityType
<1>16. rank \in [S -> Nat]
  BY <1>3
<1>4. ASSUME NEW r \in S, NEW s \in S, Prec(r, s)
      PROVE  rank[r] < rank[s]
  <2>1. Before(r) \in SUBSET Before(s)
    BY <1>4, PrecedesIsOrder
  <2>2. r \in Before(s) /\ r \notin Before(r)
    BY <1>4, PrecedesIsOrder
  <2>3. rank[r] <= rank[s] /\ rank[r] # rank[s]
    <3>1. Before(r) # Before(s)
      BY <2>2
    <3>2. rank[r] = Cardinality(Before(r)) /\ rank[s] = Cardinality(Before(s))
      OBVIOUS
    <3> HIDE DEF Before, rank
    <3> QED BY <1>3, <2>1, <3>1, <3>2, FS_Subset
  <2>4. rank[r] \in Nat /\ rank[s] \in Nat
    BY <1>16
  <2> HIDE DEF rank
  <2> QED BY <2>3, <2>4
<1>5. ASSUME NEW r \in S PROVE rank[r] < N
  <2>1. Before(r) \in SUBSET S /\ r \notin Before(r)
    BY PrecedesIsOrder
  <2>2. rank[r] <= N /\ rank[r] # N
    <3>1. Before(r) # S
      BY <2>1
    <3>2. rank[r] = Cardinality(Before(r))
      OBVIOUS
    <3> HIDE DEF Before, rank
    <3> QED BY <1>2, <3>2, <2>1, <3>1, FS_Subset
  <2>3. rank[r] \in Nat
    BY <1>16
  <2> HIDE DEF rank, N
  <2> QED BY <1>2, <2>2, <2>3
<1>6. ASSUME NEW r \in S, NEW s \in S, rank[r] = rank[s] PROVE r = s
  <2>1. SUFFICES ASSUME r # s PROVE FALSE
    OBVIOUS
  <2>2. Prec(r, s) \/ Prec(s, r)
    BY <2>1, PrecedesIsOrder
  <2>3. rank[r] < rank[s] \/ rank[s] < rank[r]
    BY <1>4, <2>2
  <2>4. rank[r] \in Nat /\ rank[s] \in Nat
    BY <1>16
  <2> HIDE DEF rank
  <2> QED BY <1>6, <2>3, <2>4
<1> HIDE DEF h, Before, rank, Prec, N
<1>7. f \in Injection(S, 1 .. N)
  <2>1. \A r \in S : rank[r] + 1 \in 1 .. N
    BY <1>2, <1>16, <1>5
  <2>2. \A r, s \in S : rank[r] + 1 = rank[s] + 1 => r = s
    BY <1>16, <1>6
  <2> QED BY <2>1, <2>2 DEF Injection, IsInjective
<1>8. f \in Surjection(S, 1 .. N)
  <2>1. IsFiniteSet(1 .. N) /\ Cardinality(1 .. N) = N
    BY <1>2, FS_Interval
  <2> QED BY <1>7, <2>1, FS_Injection DEF N
<1>9. ASSUME NEW n \in 1 .. N PROVE \E r \in S : rank[r] = n - 1
  <2>1. PICK r \in S : f[r] = n
    BY <1>8 DEF Surjection
  <2> QED BY <1>16, <2>1
<1>10. /\ h \in [1 .. N -> {h[n] : n \in 1 .. N}]
       /\ \A n \in 1 .. N : h[n] = CHOOSE r \in S : Cardinality({s \in S : Precedes(s, r, arrived)}) = n - 1
  <2> DEFINE nth(n) == CHOOSE r \in S : Cardinality({s \in S : Precedes(s, r, arrived)}) = n - 1
  <2>1. h = [n \in 1 .. N |-> nth(n)]
    BY DEF h, HeapOrder, N
  <2> HIDE DEF nth, h
  <2>2. h \in [1 .. N -> {h[n] : n \in 1 .. N}] /\ \A n \in 1 .. N : h[n] = nth(n)
    BY <2>1
  <2> QED BY <2>2 DEF nth
<1>11. ASSUME NEW n \in 1 .. N PROVE h[n] \in S /\ rank[h[n]] = n - 1
  <2>1. \A r \in S : rank[r] = Cardinality({s \in S : Precedes(s, r, arrived)})
    BY DEF rank, Before
  <2>2. \E r \in S : Cardinality({s \in S : Precedes(s, r, arrived)}) = n - 1
    BY <1>9, <2>1
  <2>3. /\ h[n] \in S
        /\ Cardinality({s \in S : Precedes(s, h[n], arrived)}) = n - 1
    BY <1>10, <2>2
  <2> QED BY <2>1, <2>3
<1>12. h \in Seq(Requests) /\ Len(h) = N
  <2>1. h \in [1 .. N -> Requests]
    BY <1>1, <1>10, <1>11
  <2> QED BY <1>2, <2>1
<1>13. Range(h) = S
  <2>1. Range(h) = {h[i] : i \in 1 .. N}
    BY <1>12, InjectiveSeq
  <2>2. ASSUME NEW r \in S PROVE \E n \in 1 .. N : h[n] = r
    <3>1. rank[r] + 1 \in 1 .. N
      BY <1>2, <1>16, <1>5
    <3>2. h[rank[r] + 1] \in S /\ rank[h[rank[r] + 1]] = rank[r]
      BY <1>16, <1>11, <3>1
    <3> QED BY <1>6, <3>1, <3>2
  <2> QED BY <1>11, <2>1, <2>2
<1>14. IsInjective(h)
  <2>1. \A i, j \in 1 .. N : h[i] = h[j] => i = j
    BY <1>2, <1>11
  <2> QED BY <1>12, <2>1, InjectiveSeq
<1>15. ASSUME NEW i \in 1 .. N, NEW j \in 1 .. N, i < j
       PROVE  Precedes(h[i], h[j], arrived)
  <2>1. h[i] \in S /\ h[j] \in S /\ rank[h[i]] < rank[h[j]]
    BY <1>2, <1>11, <1>15
  <2>2. ~ Prec(h[j], h[i]) /\ h[i] # h[j]
    BY <1>16, <1>4, <2>1
  <2> QED BY <2>1, <2>2, PrecedesIsOrder DEF Prec
<1> QED BY <1>12, <1>13, <1>14, <1>15 DEF h, N

------------------------------------------------------------------------------
(* Both kinds of queue.                                                     *)

\* A request joins a queue: nobody is lost or doubled, and a heap stays a heap.
LEMMA AddRequestProperties ==
    ASSUME NEW q \in Seq(Requests), IsInjective(q), NEW r \in Requests, r \notin Range(q),
           NEW arrived \in Seq(Requests), IsInjective(arrived),
           Range(q) \cup {r} \subseteq Range(arrived)
    PROVE  LET a == AddRequest(q, r, arrived)
           IN  /\ a \in Seq(Requests) /\ IsInjective(a) /\ Range(a) = Range(q) \cup {r}
               /\ Policy = "priority" => InOrderOfUrgency(a, arrived)
<1>1. CASE Policy = "fcfs"
  BY <1>1, AppendOne DEF AddRequest
<1>2. CASE Policy # "fcfs"
  <2> DEFINE h == HeapOrder(Range(q) \cup {r}, arrived)
  <2>1. /\ h \in Seq(Requests) /\ IsInjective(h) /\ Range(h) = Range(q) \cup {r}
        /\ \A i, j \in 1 .. Len(h) : i < j => Precedes(h[i], h[j], arrived)
    BY HeapOrderProperties
  <2>2. DOMAIN h = 1 .. Len(h)
    BY <2>1, LenProperties
  <2>3. AddRequest(q, r, arrived) = h
    BY <1>2 DEF AddRequest
  <2> HIDE DEF h
  <2> QED BY <2>1, <2>2, <2>3 DEF InOrderOfUrgency
<1> QED BY <1>1, <1>2

\* Requests return to the head of a queue.
LEMMA PrependRequestsProperties ==
    ASSUME NEW q \in Seq(Requests), IsInjective(q),
           NEW front \in Seq(Requests), IsInjective(front), Range(front) \cap Range(q) = {},
           NEW arrived \in Seq(Requests), IsInjective(arrived),
           Range(q) \cup Range(front) \subseteq Range(arrived)
    PROVE  LET p == PrependRequests(q, front, arrived)
           IN  /\ p \in Seq(Requests) /\ IsInjective(p) /\ Range(p) = Range(q) \cup Range(front)
               /\ Policy = "priority" => InOrderOfUrgency(p, arrived)
<1>1. CASE Policy = "fcfs"
  BY <1>1, ConcatInjective DEF PrependRequests
<1>2. CASE Policy # "fcfs"
  <2> DEFINE h == HeapOrder(Range(q) \cup Range(front), arrived)
  <2>1. /\ h \in Seq(Requests) /\ IsInjective(h) /\ Range(h) = Range(q) \cup Range(front)
        /\ \A i, j \in 1 .. Len(h) : i < j => Precedes(h[i], h[j], arrived)
    BY HeapOrderProperties
  <2>2. DOMAIN h = 1 .. Len(h)
    BY <2>1, LenProperties
  <2>3. PrependRequests(q, front, arrived) = h
    BY <1>2 DEF PrependRequests
  <2> HIDE DEF h
  <2> QED BY <2>1, <2>2, <2>3 DEF InOrderOfUrgency
<1> QED BY <1>1, <1>2


------------------------------------------------------------------------------
(* Two queues one after the other.                                          *)

\* A sequence is the concatenation of two when it has their elements in turn.
LEMMA JoinedIs ==
    ASSUME NEW s \in Seq(Requests), NEW t \in Seq(Requests), NEW u \in Seq(Requests),
           Len(u) = Len(s) + Len(t),
           \A i \in 1 .. Len(u) : u[i] = IF i <= Len(s) THEN s[i] ELSE t[i - Len(s)]
    PROVE  s \o t = u
<1>1. PICK j : j = s \o t
  OBVIOUS
<1>2. /\ j \in Seq(Requests) /\ Len(j) = Len(s) + Len(t)
      /\ \A i \in 1 .. Len(s) + Len(t) : j[i] = IF i <= Len(s) THEN s[i] ELSE t[i - Len(s)]
  BY <1>1, ConcatProperties
<1>3. Len(j) = Len(u) /\ \A i \in 1 .. Len(j) : j[i] = u[i]
  BY <1>2
<1> QED BY <1>1, <1>2, <1>3, SeqEqual

\* Somebody leaves one of them.
LEMMA JoinedWithout ==
    ASSUME NEW s \in Seq(Requests), NEW t \in Seq(Requests),
           IsInjective(s), IsInjective(t), IsInjective(s \o t)
    PROVE  /\ \A p \in 1 .. Len(s) : Without(s, s[p]) \o t = Without(s \o t, s[p])
           /\ \A p \in 1 .. Len(t) : s \o Without(t, t[p]) = Without(s \o t, t[p])
<1>0. PICK u \in Seq(Requests) : u = s \o t
  BY ConcatProperties
<1>1. /\ u = s \o t /\ Len(u) = Len(s) + Len(t)
      /\ \A i \in 1 .. Len(s) + Len(t) : u[i] = IF i <= Len(s) THEN s[i] ELSE t[i - Len(s)]
  BY <1>0, ConcatProperties
<1>2. Len(s) \in Nat /\ Len(t) \in Nat
  BY LenProperties
<1>3. ASSUME NEW p \in 1 .. Len(s) PROVE Without(s, s[p]) \o t = Without(s \o t, s[p])
  <2>1. PICK w \in Seq(Requests) :
          /\ w = Without(s, s[p]) /\ Len(w) = Len(s) - 1
          /\ \A n \in 1 .. Len(s) - 1 : w[n] = IF n < p THEN s[n] ELSE s[n + 1]
    BY WithoutOne
  <2>2. p \in 1 .. Len(u) /\ u[p] = s[p]
    BY <1>1, <1>2
  <2>3. PICK x \in Seq(Requests) :
          /\ x = Without(u, u[p]) /\ Len(x) = Len(u) - 1
          /\ \A n \in 1 .. Len(u) - 1 : x[n] = IF n < p THEN u[n] ELSE u[n + 1]
    <3>1. IsInjective(u)
      BY <1>0
    <3> QED BY <2>2, <3>1, WithoutOne
  <2>4. ASSUME NEW i \in 1 .. Len(x)
        PROVE  x[i] = IF i <= Len(w) THEN w[i] ELSE t[i - Len(w)]
    <3>1. i \in 1 .. Len(u) - 1 /\ i + 1 \in 1 .. Len(s) + Len(t) /\ i \in 1 .. Len(s) + Len(t)
      BY <1>1, <1>2, <2>3
    <3>2. CASE i < p
      <4>1. x[i] = s[i]
        BY <1>1, <1>2, <2>3, <3>1, <3>2
      <4> QED BY <1>2, <2>1, <3>1, <3>2, <4>1
    <3>3. CASE ~(i < p)
      <4>1. x[i] = IF i + 1 <= Len(s) THEN s[i + 1] ELSE t[i + 1 - Len(s)]
        BY <1>1, <2>3, <3>1, <3>3
      <4>2. i + 1 - Len(s) = i - Len(w)
        BY <1>2, <2>1, <3>1
      <4> QED BY SMTT(30), <1>2, <2>1, <3>1, <3>3, <4>1, <4>2
    <3> QED BY <3>2, <3>3
  <2>5. Len(x) = Len(w) + Len(t)
    BY <1>1, <1>2, <2>1, <2>3
  <2>6. w \o t = x
    BY <2>4, <2>5, JoinedIs
  <2> QED BY <1>1, <2>1, <2>2, <2>3, <2>6
<1>4. ASSUME NEW p \in 1 .. Len(t) PROVE s \o Without(t, t[p]) = Without(s \o t, t[p])
  <2>1. PICK w \in Seq(Requests) :
          /\ w = Without(t, t[p]) /\ Len(w) = Len(t) - 1
          /\ \A n \in 1 .. Len(t) - 1 : w[n] = IF n < p THEN t[n] ELSE t[n + 1]
    BY WithoutOne
  <2>2. PICK q \in 1 .. Len(u) : q = Len(s) + p /\ u[q] = t[p]
    <3>1. Len(s) + p \in 1 .. Len(u) /\ ~(Len(s) + p <= Len(s)) /\ Len(s) + p - Len(s) = p
      BY <1>1, <1>2
    <3> QED BY <1>1, <3>1
  <2>3. PICK x \in Seq(Requests) :
          /\ x = Without(u, u[q]) /\ Len(x) = Len(u) - 1
          /\ \A n \in 1 .. Len(u) - 1 : x[n] = IF n < q THEN u[n] ELSE u[n + 1]
    <3>1. IsInjective(u)
      BY <1>0
    <3> QED BY <3>1, WithoutOne
  <2>4. ASSUME NEW i \in 1 .. Len(x)
        PROVE  x[i] = IF i <= Len(s) THEN s[i] ELSE w[i - Len(s)]
    <3>1. i \in 1 .. Len(u) - 1 /\ i + 1 \in 1 .. Len(s) + Len(t) /\ i \in 1 .. Len(s) + Len(t)
      BY <1>1, <1>2, <2>3
    <3>2. CASE i <= Len(s)
      <4>1. i < q
        BY <1>2, <2>2, <3>1, <3>2
      <4> QED BY <1>1, <2>3, <3>1, <3>2, <4>1
    <3>3. CASE ~(i <= Len(s)) /\ i < q
      <4>1. x[i] = t[i - Len(s)]
        BY <1>1, <2>3, <3>1, <3>3
      <4>2. i - Len(s) \in 1 .. Len(t) - 1 /\ i - Len(s) < p
        BY <1>1, <1>2, <2>2, <3>1, <3>3
      <4> QED BY <2>1, <3>3, <4>1, <4>2
    <3>4. CASE ~(i < q)
      <4>1. ~(i + 1 <= Len(s)) /\ ~(i <= Len(s))
        BY <1>2, <2>2, <3>1, <3>4
      <4>2. x[i] = t[i + 1 - Len(s)]
        BY <1>1, <2>3, <3>1, <3>4, <4>1
      <4>3. i - Len(s) \in 1 .. Len(t) - 1 /\ ~(i - Len(s) < p)
            /\ i + 1 - Len(s) = (i - Len(s)) + 1
        BY <1>1, <1>2, <2>2, <3>1, <3>4
      <4> QED BY <2>1, <4>1, <4>2, <4>3
    <3> QED BY <3>2, <3>3, <3>4
  <2>5. Len(x) = Len(s) + Len(w)
    BY <1>1, <1>2, <2>1, <2>3
  <2>6. s \o w = x
    BY <2>4, <2>5, JoinedIs
  <2> QED BY <1>1, <2>1, <2>2, <2>3, <2>6
<1> QED BY <1>3, <1>4

\* The border between them moves: the last of the first becomes the first of the second,
\* or the other way round.
LEMMA JoinedBorder ==
    ASSUME NEW s \in Seq(Requests), NEW t \in Seq(Requests)
    PROVE  /\ s # <<>> /\ IsInjective(s) =>
                Without(s, s[Len(s)]) \o (<<s[Len(s)]>> \o t) = s \o t
           /\ t # <<>> => Append(s, t[1]) \o Tail(t) = s \o t
<1>0. PICK u \in Seq(Requests) : u = s \o t
  BY ConcatProperties
<1>1. /\ u = s \o t /\ Len(u) = Len(s) + Len(t)
      /\ \A i \in 1 .. Len(s) + Len(t) : u[i] = IF i <= Len(s) THEN s[i] ELSE t[i - Len(s)]
  BY <1>0, ConcatProperties
<1>2. Len(s) \in Nat /\ Len(t) \in Nat
  BY LenProperties
<1>3. ASSUME s # <<>>, IsInjective(s)
      PROVE  Without(s, s[Len(s)]) \o (<<s[Len(s)]>> \o t) = s \o t
  <2>1. PICK p \in 1 .. Len(s), v \in Requests : p = Len(s) /\ v = s[p]
    BY <1>2, <1>3, EmptySeq, ElementOfSeq
  <2>2. PICK w \in Seq(Requests) :
          /\ w = Without(s, v) /\ Len(w) = Len(s) - 1
          /\ \A n \in 1 .. Len(s) - 1 : w[n] = IF n < p THEN s[n] ELSE s[n + 1]
    BY <1>3, <2>1, WithoutOne
  <2>3. <<v>> \in Seq(Requests) /\ Len(<<v>>) = 1 /\ <<v>>[1] = v
    OBVIOUS
  <2>4. PICK x \in Seq(Requests) :
          /\ x = <<v>> \o t /\ Len(x) = 1 + Len(t)
          /\ \A i \in 1 .. 1 + Len(t) : x[i] = IF i <= 1 THEN v ELSE t[i - 1]
    <3>1. PICK one \in Seq(Requests) : one = <<v>>
      BY <2>3
    <3>2. /\ one \o t \in Seq(Requests) /\ Len(one \o t) = 1 + Len(t)
          /\ \A i \in 1 .. 1 + Len(t) : (one \o t)[i] = IF i <= 1 THEN one[i] ELSE t[i - 1]
      BY <2>3, <3>1, ConcatProperties
    <3>3. \A i \in 1 .. 1 + Len(t) : i <= 1 => one[i] = v
      BY <1>2, <2>3, <3>1
    <3> QED BY <3>1, <3>2, <3>3
  <2>5. ASSUME NEW i \in 1 .. Len(u) PROVE u[i] = IF i <= Len(w) THEN w[i] ELSE x[i - Len(w)]
    <3>1. i \in 1 .. Len(s) + Len(t)
      BY <1>1
    <3>2. CASE i <= Len(w)
      BY <1>1, <1>2, <2>1, <2>2, <3>1, <3>2
    <3>3. CASE i = Len(s)
      <4>1. i - Len(w) = 1 /\ ~(i <= Len(w)) /\ 1 \in 1 .. 1 + Len(t)
        BY <1>2, <2>2, <3>3
      <4> QED BY <1>1, <2>1, <2>4, <3>1, <3>3, <4>1
    <3>4. CASE i > Len(s)
      <4>1. /\ i - Len(w) \in 1 .. 1 + Len(t) /\ ~(i - Len(w) <= 1)
            /\ i - Len(w) - 1 = i - Len(s) /\ ~(i <= Len(w)) /\ ~(i <= Len(s))
        BY <1>2, <2>2, <3>1, <3>4
      <4> QED BY <1>1, <2>4, <3>1, <4>1
    <3> QED BY <1>2, <2>2, <3>1, <3>2, <3>3, <3>4
  <2>6. Len(u) = Len(w) + Len(x)
    BY <1>1, <1>2, <2>2, <2>4
  <2>7. w \o x = u
    BY <2>5, <2>6, JoinedIs
  <2> QED BY <1>1, <2>1, <2>2, <2>4, <2>7
<1>4. ASSUME t # <<>> PROVE Append(s, t[1]) \o Tail(t) = s \o t
  <2>1. PICK v \in Requests : v = t[1] /\ Len(t) \in Nat \ {0}
    BY <1>4, EmptySeq, ElementOfSeq
  <2>2. PICK a \in Seq(Requests) :
          /\ a = Append(s, v) /\ Len(a) = Len(s) + 1
          /\ \A i \in 1 .. Len(s) + 1 : a[i] = IF i <= Len(s) THEN s[i] ELSE v
    <3>1. /\ Append(s, v) \in Seq(Requests) /\ Len(Append(s, v)) = Len(s) + 1
          /\ \A i \in 1 .. Len(s) + 1 : Append(s, v)[i] = IF i <= Len(s) THEN s[i] ELSE v
      BY <1>2
    <3> QED BY <3>1
  <2>3. PICK w \in Seq(Requests) :
          /\ w = Tail(t) /\ Len(w) = Len(t) - 1
          /\ \A i \in 1 .. Len(t) - 1 : w[i] = t[i + 1]
    <3>1. /\ Tail(t) \in Seq(Requests) /\ Len(Tail(t)) = Len(t) - 1
          /\ \A i \in 1 .. Len(Tail(t)) : Tail(t)[i] = t[i + 1]
      BY <1>4, HeadTailProperties
    <3> QED BY <3>1
  <2>4. ASSUME NEW i \in 1 .. Len(u) PROVE u[i] = IF i <= Len(a) THEN a[i] ELSE w[i - Len(a)]
    <3>1. i \in 1 .. Len(s) + Len(t)
      BY <1>1
    <3>2. CASE i <= Len(s)
      BY <1>1, <1>2, <2>2, <3>1, <3>2
    <3>3. CASE i = Len(s) + 1
      <4>1. i - Len(s) = 1 /\ ~(i <= Len(s)) /\ i <= Len(a)
        BY <1>2, <2>2, <3>3
      <4> QED BY <1>1, <1>2, <2>1, <2>2, <3>1, <3>3, <4>1
    <3>4. CASE i > Len(s) + 1
      <4>1. /\ i - Len(a) \in 1 .. Len(t) - 1 /\ i - Len(a) + 1 = i - Len(s)
            /\ ~(i <= Len(a)) /\ ~(i <= Len(s))
        BY <1>2, <2>1, <2>2, <3>1, <3>4
      <4> QED BY <1>1, <2>3, <3>1, <4>1
    <3>5. i <= Len(s) \/ i = Len(s) + 1 \/ i > Len(s) + 1
      BY <1>2, <3>1
    <3> QED BY <3>2, <3>3, <3>4, <3>5
  <2>5. Len(u) = Len(a) + Len(w)
    BY <1>1, <1>2, <2>1, <2>2, <2>3
  <2>6. a \o w = u
    BY <2>4, <2>5, JoinedIs
  <2> QED BY <1>1, <2>1, <2>2, <2>3, <2>6
<1> QED BY <1>3, <1>4

\* Filtering for what is there anyway changes nothing.
LEMMA WithoutNobody ==
    ASSUME NEW q \in Seq(Requests)
    PROVE  Filter(q, Requests) = q
<1>1. /\ Len(q) \in Nat /\ DOMAIN q = 1 .. Len(q) /\ q \in [1 .. Len(q) -> Requests]
      /\ \A i \in 1 .. Len(q) : q[i] \in Requests
  BY LenProperties, ElementOfSeq
<1>2. \A i \in 1 .. Len(q) : Rank(q, Requests, i) = i
  <2> SUFFICES ASSUME NEW i \in 1 .. Len(q) PROVE Rank(q, Requests, i) = i
    OBVIOUS
  <2>1. {j \in 1 .. i : q[j] \in Requests} = 1 .. i
    BY <1>1
  <2>2. Cardinality(1 .. i) = i
    BY FS_Interval
  <2> QED BY <2>1, <2>2 DEF Rank
<1>3. Cardinality({i \in DOMAIN q : q[i] \in Requests}) = Len(q)
  <2>1. {i \in DOMAIN q : q[i] \in Requests} = 1 .. Len(q)
    BY <1>1
  <2>2. Cardinality(1 .. Len(q)) = Len(q)
    BY <1>1, FS_Interval
  <2> QED BY <2>1, <2>2
<1>4. \A n \in 1 .. Len(q) :
        q[CHOOSE i \in DOMAIN q : q[i] \in Requests /\ Rank(q, Requests, i) = n] = q[n]
  <2> SUFFICES ASSUME NEW n \in 1 .. Len(q)
               PROVE  (CHOOSE i \in DOMAIN q : q[i] \in Requests /\ Rank(q, Requests, i) = n) = n
    OBVIOUS
  <2>1. n \in DOMAIN q /\ q[n] \in Requests /\ Rank(q, Requests, n) = n
    BY <1>1, <1>2
  <2>2. \A i \in DOMAIN q : Rank(q, Requests, i) = n => i = n
    BY <1>1, <1>2
  <2> QED BY <2>1, <2>2
<1>5. Filter(q, Requests) = [n \in 1 .. Len(q) |-> q[n]]
  <2>1. Filter(q, Requests) =
          [n \in 1 .. Len(q) |->
             q[CHOOSE i \in DOMAIN q : q[i] \in Requests /\ Rank(q, Requests, i) = n]]
    BY <1>3 DEF Filter
  <2> QED BY <2>1, <1>4
<1> QED BY <1>1, <1>5

------------------------------------------------------------------------------
(* What every step relies on.                                               *)

LEMMA PoolStays ==
    ASSUME PoolInv, UNCHANGED vars
    PROVE  PoolInv'
BY NextPool

LEMMA NoStepType == NoStep \in StepType
<1>1. /\ [r \in Requests |-> 0] \in [Requests -> Nat]
      /\ [r \in Requests |-> <<>>] \in [Requests -> Seq(Blocks)]
  BY EmptySeq
<1> QED BY <1>1 DEF NoStep, StepType

\* The engine starts with nothing.
LEMMA InitSched == SchedInit => SchedInv
<1> SUFFICES ASSUME SchedInit PROVE SchedInv
  OBVIOUS
<1> USE DEF SchedInit
<1>1. PoolInv
  BY InitPool
<1>2. \A T : <<>> \in Seq(T)
  BY EmptySeq
<1>3. SchedTypeOK
  BY <1>1, <1>2, NoStepType DEF SchedTypeOK, Labels, PoolInv
<1>4. Range(<<>>) = {} /\ IsInjective(<<>>)
  BY DEF Range, IsInjective
<1>5. QueueInv /\ WaitingHoldsNothing
  BY <1>4 DEF QueueInv, Queued, WaitingHoldsNothing, Init
<1>6. BatchInv /\ CountInv
  BY DEF BatchInv, CountInv, Deciding
<1>7. ErrorsInv
  BY <1>4 DEF ErrorsInv
<1> QED BY <1>1, <1>3, <1>5, <1>6, <1>7 DEF SchedInv

\* The running list, element by element.
LEMMA RunningList ==
    ASSUME SchedInv
    PROVE  /\ running \in Seq(Requests) /\ IsInjective(running)
           /\ Len(running) \in Nat /\ DOMAIN running = 1 .. Len(running)
           /\ Range(running) = {running[i] : i \in 1 .. Len(running)}
           /\ Range(running) \subseteq Requests
           /\ \A i \in 1 .. Len(running) : running[i] \in Requests
           /\ \A i, j \in 1 .. Len(running) : running[i] = running[j] => i = j
<1>1. running \in Seq(Requests) /\ IsInjective(running)
  BY DEF SchedInv, SchedTypeOK, QueueInv
<1> QED BY <1>1, LenProperties, ElementOfSeq, InjectiveSeq

\* The locals of schedule(), one by one.
LEMMA StepFields ==
    ASSUME SchedInv
    PROVE  /\ step \in StepType
           /\ step.req_index \in Nat \ {0} /\ step.req_index + 1 \in Nat \ {0}
           /\ step.token_budget \in Nat /\ step.num_new_tokens \in Nat
           /\ step.num_scheduled_tokens \in [Requests -> Nat]
           /\ step.num_drafts \in [Requests -> Nat]
           /\ step.new_blocks \in [Requests -> Seq(Blocks)]
           /\ step.scheduled_running \in SUBSET Requests
           /\ step.scheduled_new \in SUBSET Requests
           /\ step.preempted \in SUBSET Requests
           /\ Scheduled \in SUBSET Requests
<1>1. step \in StepType
  BY DEF SchedInv, SchedTypeOK
<1>2. step.req_index \in Nat \ {0}
  BY <1>1 DEF StepType
<1>3. step.req_index + 1 \in Nat \ {0}
  BY <1>2
<1> QED BY <1>1, <1>2, <1>3 DEF StepType, Scheduled

\* The request whose turn it is.
LEMMA TurnOfRunning ==
    ASSUME SchedInv, step.req_index <= Len(running)
    PROVE  \E r \in Requests :
             /\ r = NextRunning /\ r \in Range(running)
             /\ \A i \in 1 .. Len(running) : running[i] = r <=> i = step.req_index
<1>1. step.req_index \in 1 .. Len(running)
  BY StepFields, RunningList
<1>2. running[step.req_index] \in Requests
  BY <1>1, RunningList
<1>3. \A i \in 1 .. Len(running) : running[i] = running[step.req_index] <=> i = step.req_index
  BY <1>1, RunningList
<1> QED BY <1>1, <1>2, <1>3, RunningList DEF NextRunning

\* From the current index on nobody has had a turn.
LEMMA TurnsToCome ==
    ASSUME SchedInv, pc \in {"running", "allocate"}
    PROVE  \A i \in 1 .. Len(running) : i >= step.req_index => running[i] \notin Scheduled
<1>1. DOMAIN running = 1 .. Len(running)
  BY RunningList
<1>2. \A i \in DOMAIN running : i >= step.req_index => running[i] \notin Scheduled
  BY DEF SchedInv, BatchInv
<1> QED BY <1>1, <1>2

\* The counters of a request are numbers.
LEMMA Counters ==
    ASSUME SchedInv, NEW r \in Requests
    PROVE  /\ num_tokens(r) \in Nat /\ num_computed_tokens[r] \in Nat
           /\ spec_token_ids[r] \in Nat /\ DraftsKept(r) \in Nat
           /\ step.num_scheduled_tokens[r] \in Nat /\ step.num_drafts[r] \in Nat
           /\ step.token_budget \in Nat /\ step.req_index \in Nat \ {0}
           /\ step.num_new_tokens \in Nat
           /\ r \in Scheduled <=> step.num_scheduled_tokens[r] # 0
           /\ is_prefill_chunk[r] \in BOOLEAN
<1>1. /\ all_token_ids[r] \in Seq(Tokens) /\ spec_token_ids[r] \in Nat
      /\ num_computed_tokens[r] \in Nat /\ is_prefill_chunk[r] \in BOOLEAN
  BY DEF SchedInv, SchedTypeOK, TypeOK
<1>2. /\ step.num_scheduled_tokens \in [Requests -> Nat]
      /\ step.num_drafts \in [Requests -> Nat]
      /\ step.token_budget \in Nat /\ step.req_index \in Nat \ {0}
      /\ step.num_new_tokens \in Nat
  BY DEF SchedInv, SchedTypeOK, StepType
<1> QED BY <1>1, <1>2, LenProperties DEF num_tokens, DraftsKept, Scheduled

\* What a running request may get: what it lacks, drafts included, within the
\* budget and the length of the model.
LEMMA NumNewTokensBounds ==
    ASSUME SchedInv, NEW r \in Requests, NumNewTokens(r) > 0
    PROVE  /\ NumNewTokens(r) \in 1 .. step.token_budget
           /\ num_computed_tokens[r] + NumNewTokens(r) <= num_tokens(r) + DraftsKept(r)
           /\ num_computed_tokens[r] + NumNewTokens(r) <= MaxModelLen
BY Counters, SizesAssumption, BudgetAssumption DEF NumNewTokens, Least, Chunk

------------------------------------------------------------------------------
(* schedule(): steps that move no request and no block.                     *)

LEMMA StartSchedulePreserves ==
    ASSUME SchedInv, StartSchedule
    PROVE  SchedInv'
<1> USE DEF StartSchedule, Goto, SchedInv
<1>1. UNCHANGED <<vars, queueVars, requestVars, grammarVars, finished_req_ids>>
  OBVIOUS
<1>2. PoolInv' /\ TypeOK'
  BY PoolStays DEF PoolInv
<1>3. /\ step' \in StepType /\ Scheduled' = {}
      /\ step'.scheduled_running = {} /\ step'.scheduled_new = {}
      /\ step'.preempted = {}
      /\ \A r \in Requests : step'.num_drafts[r] = 0
  <2>1. step' \in StepType
    BY BudgetAssumption, NoStepType DEF StepType
  <2>2. /\ step'.scheduled_running = {} /\ step'.scheduled_new = {}
        /\ step'.preempted = {}
        /\ step'.num_drafts = [r \in Requests |-> 0]
        /\ step'.num_scheduled_tokens = [r \in Requests |-> 0]
    BY DEF NoStep
  <2> QED BY <2>1, <2>2 DEF Scheduled
<1>4. SchedTypeOK'
  BY <1>2, <1>3 DEF SchedTypeOK, queueVars, requestVars, grammarVars, Labels
<1>5. QueueInv' /\ WaitingHoldsNothing' /\ ErrorsInv'
  BY DEF QueueInv, WaitingHoldsNothing, ErrorsInv, Queued, queueVars, requestVars,
         grammarVars, vars, kvVars
<1>6. BatchInv'
  BY <1>3 DEF BatchInv, Deciding
<1>7. CountInv'
  BY <1>3 DEF CountInv, Settled, Deciding, num_tokens, queueVars, requestVars, vars
<1> QED BY <1>2, <1>4, <1>5, <1>6, <1>7

LEMMA ConsiderRunningPreserves ==
    ASSUME SchedInv, ConsiderRunning
    PROVE  SchedInv'
<1>1. step.req_index <= Len(running) /\ pc = "running" /\ pc' = "allocate"
  BY DEF ConsiderRunning, InRunningLoop, Goto
<1>2. PICK r \in Requests :
        /\ r = NextRunning /\ r \in Range(running)
        /\ \A i \in 1 .. Len(running) : running[i] = r <=> i = step.req_index
  BY <1>1, TurnOfRunning
<1>3. PICK n \in Nat : n = NumNewTokens(r) /\ n > 0
  BY <1>2, NumNewTokensBounds, Counters DEF ConsiderRunning
<1>4. PICK d \in Nat : d = DraftsKept(r)
  BY Counters
<1>5. /\ UNCHANGED <<vars, queueVars, num_prompt_tokens, num_computed_tokens,
                     is_prefill_chunk, grammarVars, finished_req_ids>>
      /\ step' = [step EXCEPT !.request = <<r>>, !.num_new_tokens = n]
      /\ spec_token_ids' = [spec_token_ids EXCEPT ![r] = d]
  BY <1>2, <1>3, <1>4 DEF ConsiderRunning
<1>6. PoolInv' /\ TypeOK'
  BY <1>5, PoolStays DEF SchedInv, PoolInv
<1>7. step' \in StepType
  BY <1>5, StepFields DEF StepType
<1>8. SchedTypeOK'
  BY <1>1, <1>5, <1>6, <1>7 DEF SchedInv, SchedTypeOK, queueVars, grammarVars, Labels
<1>9. QueueInv' /\ WaitingHoldsNothing' /\ ErrorsInv'
  BY <1>1, <1>5 DEF SchedInv, QueueInv, WaitingHoldsNothing, ErrorsInv, Queued, queueVars,
                    grammarVars, vars, kvVars
<1>10. /\ Scheduled' = Scheduled
       /\ step'.scheduled_running = step.scheduled_running
       /\ step'.scheduled_new = step.scheduled_new
       /\ step'.preempted = step.preempted /\ step'.num_drafts = step.num_drafts
       /\ step'.num_scheduled_tokens = step.num_scheduled_tokens
       /\ step'.req_index = step.req_index /\ step'.num_new_tokens = n
       /\ step'.token_budget = step.token_budget
       /\ step'.request = <<r>> /\ CurrentRequest' = r
  BY <1>5, StepFields DEF StepType, Scheduled, CurrentRequest
<1>11. BatchInv'
  <2>1. r \notin Scheduled
    <3>1. step.req_index \in 1 .. Len(running) /\ running[step.req_index] = r
      BY <1>1, <1>2, StepFields, RunningList
    <3>2. step.req_index >= step.req_index
      BY StepFields
    <3> QED BY <1>1, <3>1, <3>2, TurnsToCome
  <2>2. num_tokens(r)' = num_tokens(r) /\ spec_token_ids'[r] = d
    BY <1>5 DEF vars, num_tokens, SchedInv, SchedTypeOK
  <2>3. /\ n \in 1 .. step.token_budget
        /\ num_computed_tokens[r] + n <= Least(num_tokens(r) + d, MaxModelLen)
    BY <1>3, <1>4, NumNewTokensBounds DEF Least
  <2>4. \A i \in DOMAIN running' : running'[i] = r => i <= step.req_index
    BY <1>2, <1>5, RunningList, StepFields DEF queueVars
  <2>5. NextRunning' = r /\ step'.req_index \in DOMAIN running'
    BY <1>1, <1>2, <1>5, <1>10, RunningList, StepFields DEF NextRunning, queueVars
  <2> QED BY <1>1, <1>2, <1>5, <1>10, <2>1, <2>2, <2>3, <2>4, <2>5, RunningList
          DEF SchedInv, BatchInv, Deciding, queueVars
<1>12. CountInv'
  BY <1>1, <1>5, <1>10 DEF SchedInv, CountInv, Settled, Planned, Deciding, num_tokens,
                           queueVars, vars
<1> QED BY <1>6, <1>8, <1>9, <1>11, <1>12 DEF SchedInv

LEMMA SkipRunningPreserves ==
    ASSUME SchedInv, SkipRunning
    PROVE  SchedInv'
<1>1. step.req_index <= Len(running) /\ pc = "running" /\ pc' = pc
  BY DEF SkipRunning, InRunningLoop
<1>2. PICK r \in Requests : r = NextRunning
  BY <1>1, TurnOfRunning
<1>3. PICK d \in Nat : d = DraftsKept(r)
  BY Counters
<1>4. /\ UNCHANGED <<vars, queueVars, num_prompt_tokens, num_computed_tokens,
                     is_prefill_chunk, grammarVars, finished_req_ids>>
      /\ step' = [step EXCEPT !.req_index = @ + 1]
      /\ spec_token_ids' = [spec_token_ids EXCEPT ![r] = d]
  BY <1>2, <1>3 DEF SkipRunning
<1>5. PoolInv' /\ TypeOK'
  BY <1>4, PoolStays DEF SchedInv, PoolInv
<1>6. step' \in StepType
  BY <1>4, StepFields DEF StepType
<1>7. SchedTypeOK'
  BY <1>1, <1>4, <1>5, <1>6 DEF SchedInv, SchedTypeOK, queueVars, grammarVars
<1>8. QueueInv' /\ WaitingHoldsNothing' /\ ErrorsInv'
  BY <1>1, <1>4 DEF SchedInv, QueueInv, WaitingHoldsNothing, ErrorsInv, Queued, queueVars,
                    grammarVars, vars, kvVars
<1>9. /\ Scheduled' = Scheduled
      /\ step'.scheduled_running = step.scheduled_running
      /\ step'.scheduled_new = step.scheduled_new
      /\ step'.preempted = step.preempted /\ step'.num_drafts = step.num_drafts
      /\ step'.num_scheduled_tokens = step.num_scheduled_tokens
      /\ step'.req_index = step.req_index + 1
  BY <1>4, StepFields DEF StepType, Scheduled
<1>10. BatchInv'
  <2>1. running' = running /\ DOMAIN running = 1 .. Len(running)
    BY <1>4, RunningList DEF queueVars
  <2>2. \A i \in 1 .. Len(running) : i >= step.req_index + 1 => running[i] \notin Scheduled
    BY <1>1, StepFields, TurnsToCome
  <2> QED BY <1>1, <1>9, <2>1, <2>2 DEF SchedInv, BatchInv, Deciding
<1>11. CountInv'
  BY <1>1, <1>4, <1>9 DEF SchedInv, CountInv, Settled, Planned, Deciding, num_tokens,
                          queueVars, vars
<1> QED BY <1>5, <1>7, <1>8, <1>10, <1>11 DEF SchedInv

LEMMA EndRunningPreserves ==
    ASSUME SchedInv, EndRunning
    PROVE  SchedInv'
<1>1. /\ UNCHANGED <<vars, queueVars, requestVars, grammarVars, finished_req_ids, step>>
      /\ pc = "running"
      /\ pc' = IF step.preempted = {} THEN "waiting" ELSE "finish"
  BY DEF EndRunning, Goto
<1>2. PoolInv' /\ TypeOK'
  BY <1>1, PoolStays DEF SchedInv, PoolInv
<1>3. SchedTypeOK'
  BY <1>1, <1>2 DEF SchedInv, SchedTypeOK, queueVars, requestVars, grammarVars, Labels
<1>4. QueueInv' /\ WaitingHoldsNothing' /\ ErrorsInv'
  BY <1>1 DEF SchedInv, QueueInv, WaitingHoldsNothing, ErrorsInv, Queued, queueVars,
              requestVars, grammarVars, vars, kvVars
<1>5. Scheduled' = Scheduled
  BY <1>1 DEF Scheduled
<1>6. BatchInv' /\ CountInv'
  BY <1>1, <1>5 DEF SchedInv, BatchInv, CountInv, Settled, Planned, Deciding, num_tokens,
                    queueVars, requestVars, vars
<1> QED BY <1>2, <1>3, <1>4, <1>6 DEF SchedInv

LEMMA EndAdmissionPreserves ==
    ASSUME SchedInv, EndAdmission
    PROVE  SchedInv'
<1>1. /\ UNCHANGED <<vars, queueVars, requestVars, grammarVars, finished_req_ids, step>>
      /\ pc = "waiting" /\ pc' = "finish"
  BY DEF EndAdmission, Goto
<1>2. PoolInv' /\ TypeOK'
  BY <1>1, PoolStays DEF SchedInv, PoolInv
<1>3. SchedTypeOK'
  BY <1>1, <1>2 DEF SchedInv, SchedTypeOK, queueVars, requestVars, grammarVars, Labels
<1>4. QueueInv' /\ WaitingHoldsNothing' /\ ErrorsInv'
  BY <1>1 DEF SchedInv, QueueInv, WaitingHoldsNothing, ErrorsInv, Queued, queueVars,
              requestVars, grammarVars, vars, kvVars
<1>5. Scheduled' = Scheduled
  BY <1>1 DEF Scheduled
<1>6. BatchInv' /\ CountInv'
  BY <1>1, <1>5 DEF SchedInv, BatchInv, CountInv, Settled, Planned, Deciding, num_tokens,
                    queueVars, requestVars, vars
<1> QED BY <1>2, <1>3, <1>4, <1>6 DEF SchedInv

LEMMA BeginUpdatePreserves ==
    ASSUME SchedInv, BeginUpdate
    PROVE  SchedInv'
<1>1. /\ UNCHANGED <<vars, queueVars, requestVars, grammarVars, finished_req_ids, step>>
      /\ pc = "inflight" /\ pc' = "update"
  BY DEF BeginUpdate, Goto
<1>2. PoolInv' /\ TypeOK'
  BY <1>1, PoolStays DEF SchedInv, PoolInv
<1>3. SchedTypeOK'
  BY <1>1, <1>2 DEF SchedInv, SchedTypeOK, queueVars, requestVars, grammarVars, Labels
<1>4. QueueInv' /\ WaitingHoldsNothing' /\ ErrorsInv'
  BY <1>1 DEF SchedInv, QueueInv, WaitingHoldsNothing, ErrorsInv, Queued, queueVars,
              requestVars, grammarVars, vars, kvVars
<1>5. Scheduled' = Scheduled
  BY <1>1 DEF Scheduled
<1>6. BatchInv' /\ CountInv'
  BY <1>1, <1>5, RunningList
     DEF SchedInv, BatchInv, CountInv, Settled, Pending, Deciding, num_tokens,
         queueVars, requestVars, vars
<1> QED BY <1>2, <1>3, <1>4, <1>6 DEF SchedInv

------------------------------------------------------------------------------
(* schedule(): the admission loop.                                          *)

\* The queues, one by one.
LEMMA Queues ==
    ASSUME SchedInv
    PROVE  /\ waiting \in Seq(Requests) /\ IsInjective(waiting)
           /\ skipped_waiting \in Seq(Requests) /\ IsInjective(skipped_waiting)
           /\ requests \in Seq(Requests) /\ IsInjective(requests)
           /\ Range(running) \cap Queued = {}
           /\ Range(waiting) \cap Range(skipped_waiting) = {}
           /\ Range(requests) = Range(running) \cup Queued
           /\ Range(requests) \subseteq Requests
           /\ Queued = Range(waiting) \cup Range(skipped_waiting)
<1>1. requests \in Seq(Requests)
  BY DEF SchedInv, SchedTypeOK
<1>2. Range(requests) \subseteq Requests
  BY <1>1, InjectiveSeq
<1> QED BY <1>2 DEF SchedInv, SchedTypeOK, QueueInv, Queued

\* The head of the queue steps aside; a request whose grammar failed is noted.
LEMMA SetAsidePreserves ==
    ASSUME SchedInv, InWaitingLoop, SetAside(NextWaiting),
           grammar_compile_error_reqs' \subseteq grammar_compile_error_reqs \cup {NextWaiting}
    PROVE  SchedInv'
<1>1. pc = "waiting" /\ waiting # <<>>
  BY DEF InWaitingLoop
<1>2. PICK r \in Requests : r = NextWaiting /\ r \in Range(waiting)
  BY <1>1, Queues, TailProperties, InjectiveSeq DEF NextWaiting
<1>3. /\ waiting' = Tail(waiting)
      /\ skipped_waiting' = AddRequest(skipped_waiting, r, requests)
      /\ UNCHANGED <<vars, requests, running, status, requestVars, grammar, finished_req_ids,
                     pc, step>>
  BY <1>2 DEF SetAside
<1>4. /\ waiting' \in Seq(Requests) /\ IsInjective(waiting')
      /\ Range(waiting') = Range(waiting) \ {r}
  BY <1>1, <1>2, <1>3, Queues, TailProperties DEF NextWaiting
<1>5. /\ skipped_waiting' \in Seq(Requests) /\ IsInjective(skipped_waiting')
      /\ Range(skipped_waiting') = Range(skipped_waiting) \cup {r}
  <2>1. r \notin Range(skipped_waiting)
    BY <1>2, Queues
  <2>2. Range(skipped_waiting) \cup {r} \subseteq Range(requests)
    BY <1>2, Queues
  <2> QED BY <1>3, <2>1, <2>2, Queues, AddRequestProperties
<1>6. PoolInv' /\ TypeOK'
  BY <1>3, PoolStays DEF SchedInv, PoolInv
<1>7. SchedTypeOK'
  BY <1>2, <1>3, <1>4, <1>5, <1>6 DEF SchedInv, SchedTypeOK, requestVars
<1>8. Queued' = Queued
  BY <1>2, <1>4, <1>5 DEF Queued
<1>9. QueueInv'
  BY <1>1, <1>3, <1>4, <1>5, <1>8, Queues DEF SchedInv, QueueInv, vars
<1>10. WaitingHoldsNothing'
  BY <1>3 DEF SchedInv, WaitingHoldsNothing, vars, kvVars, requestVars
<1>11. BatchInv' /\ CountInv'
  <2>1. Scheduled' = Scheduled
    BY <1>3 DEF Scheduled
  <2> QED BY <1>1, <1>3, <2>1
          DEF SchedInv, BatchInv, CountInv, Settled, Planned, Deciding, num_tokens,
              requestVars, vars
<1>12. ErrorsInv'
  BY <1>1, <1>2, <1>3, <1>4, Queues DEF SchedInv, ErrorsInv
<1> QED BY <1>6, <1>7, <1>9, <1>10, <1>11, <1>12 DEF SchedInv

LEMMA SkipLoraPreserves ==
    ASSUME SchedInv, SkipLora
    PROVE  SchedInv'
BY SetAsidePreserves DEF SkipLora

LEMMA SkipGrammarPreserves ==
    ASSUME SchedInv, SkipGrammar
    PROVE  SchedInv'
BY SetAsidePreserves DEF SkipGrammar

LEMMA PromoteGrammarPreserves ==
    ASSUME SchedInv, PromoteGrammar
    PROVE  SchedInv'
<1>1. pc = "waiting" /\ waiting # <<>>
  BY DEF PromoteGrammar, InWaitingLoop
<1>2. PICK r \in Requests : r = NextWaiting /\ r \in Range(waiting)
  BY <1>1, Queues, TailProperties, InjectiveSeq DEF NextWaiting
<1>3. /\ status' = [status EXCEPT ![r] = "WAITING"]
      /\ status[r] = "WAITING_FOR_GRAMMAR"
      /\ UNCHANGED <<vars, requests, waiting, skipped_waiting, running, requestVars,
                     grammarVars, finished_req_ids, pc, step>>
  BY <1>2 DEF PromoteGrammar
<1>4. PoolInv' /\ TypeOK'
  BY <1>3, PoolStays DEF SchedInv, PoolInv
<1>5. SchedTypeOK'
  BY <1>2, <1>3, <1>4 DEF SchedInv, SchedTypeOK, requestVars, grammarVars
<1>6. QueueInv'
  <2>1. Queued' = Queued
    BY <1>3 DEF Queued
  <2>2. \A s \in Requests : status'[s] = IF s = r THEN "WAITING" ELSE status[s]
    BY <1>3 DEF SchedInv, SchedTypeOK
  <2> QED BY <1>1, <1>2, <1>3, <2>1, <2>2 DEF SchedInv, QueueInv, vars
<1>7. WaitingHoldsNothing' /\ ErrorsInv'
  BY <1>3 DEF SchedInv, WaitingHoldsNothing, ErrorsInv, vars, kvVars, requestVars, grammarVars
<1>8. BatchInv' /\ CountInv'
  <2>1. Scheduled' = Scheduled
    BY <1>3 DEF Scheduled
  <2> QED BY <1>1, <1>3, <2>1
          DEF SchedInv, BatchInv, CountInv, Settled, Planned, Deciding, num_tokens,
              requestVars, vars
<1> QED BY <1>4, <1>5, <1>6, <1>7, <1>8 DEF SchedInv

------------------------------------------------------------------------------
(* The decision and the update: steps that move no request and no block.    *)

LEMMA FinishSchedulePreserves ==
    ASSUME SchedInv, FinishSchedule
    PROVE  SchedInv'
<1>1. /\ pc = "finish" /\ pc' = "inflight"
      /\ waiting' = PrependRequests(waiting, skipped_waiting, requests)
      /\ skipped_waiting' = <<>>
      /\ finished_req_ids' = {}
      /\ UNCHANGED <<vars, requests, running, status, num_prompt_tokens, spec_token_ids,
                     grammarVars>>
  BY DEF FinishSchedule, RestoredWaiting, Goto
<1>2. /\ num_computed_tokens' = [r \in Requests |->
             num_computed_tokens[r] + step.num_scheduled_tokens[r]]
      /\ is_prefill_chunk' = [r \in Requests |->
             IF r \in Scheduled THEN num_computed_tokens'[r] < num_tokens(r)
                                ELSE is_prefill_chunk[r]]
  BY DEF FinishSchedule
<1>3. /\ step' \in StepType /\ step'.req_index = 1
      /\ step'.num_scheduled_tokens = step.num_scheduled_tokens
      /\ step'.num_drafts = step.num_drafts
  <2> DEFINE con == {r \in Scheduled \cap Structured : ~is_prefill_chunk[r]}
  <2>1. con \in SUBSET Requests /\ finished_req_ids \in SUBSET Requests
    BY StepFields DEF SchedInv, SchedTypeOK
  <2>2. step' = [step EXCEPT !.req_index = 1, !.token_budget = 0, !.num_new_tokens = 0,
                             !.finished = finished_req_ids, !.constrained = con]
    BY DEF FinishSchedule
  <2> HIDE DEF con
  <2> DEFINE fin == finished_req_ids
  <2>3. fin \in SUBSET Requests
    BY <2>1
  <2>4. step' = [step EXCEPT !.req_index = 1, !.token_budget = 0, !.num_new_tokens = 0,
                             !.finished = fin, !.constrained = con]
    BY <2>2
  <2> HIDE DEF fin
  <2>5. step' \in StepType
    <3>1. [step EXCEPT !.req_index = 1, !.token_budget = 0] \in StepType
      <4> DEFINE one == 1
                 zero == 0
      <4>1. one \in Nat \ {0} /\ zero \in Nat
        OBVIOUS
      <4> HIDE DEF one, zero
      <4>2. [step EXCEPT !.req_index = one, !.token_budget = zero] \in StepType
        BY <4>1, StepFields DEF StepType
      <4> QED BY <4>2 DEF one, zero
    <3>2. [[step EXCEPT !.req_index = 1, !.token_budget = 0]
             EXCEPT !.num_new_tokens = 0, !.finished = fin, !.constrained = con] \in StepType
      BY <2>1, <2>3, <3>1 DEF StepType
    <3> QED BY <2>4, <3>2
  <2>6. /\ step'.req_index = 1 /\ step'.num_scheduled_tokens = step.num_scheduled_tokens
        /\ step'.num_drafts = step.num_drafts
    BY <2>4, StepFields DEF StepType
  <2> QED BY <2>5, <2>6
<1>4. Scheduled' = Scheduled
  BY <1>3 DEF Scheduled
<1>5. /\ waiting' \in Seq(Requests) /\ IsInjective(waiting')
      /\ Range(waiting') = Queued
  <2>1. Range(waiting) \cup Range(skipped_waiting) \subseteq Range(requests)
    BY Queues
  <2>2. Range(skipped_waiting) \cap Range(waiting) = {}
    BY Queues
  <2> QED BY <1>1, <2>1, <2>2, Queues, PrependRequestsProperties
<1>6. /\ skipped_waiting' \in Seq(Requests) /\ IsInjective(skipped_waiting')
      /\ Range(skipped_waiting') = {}
  BY <1>1, EmptySeq DEF IsInjective, Range
<1>7. PoolInv' /\ TypeOK'
  BY <1>1, PoolStays DEF SchedInv, PoolInv
<1>8. \A r \in Requests :
        /\ num_computed_tokens'[r] = num_computed_tokens[r] + step.num_scheduled_tokens[r]
        /\ num_computed_tokens'[r] \in Nat
        /\ num_tokens(r)' = num_tokens(r)
        /\ is_prefill_chunk'[r] = IF r \in Scheduled THEN num_computed_tokens'[r] < num_tokens(r)
                                  ELSE is_prefill_chunk[r]
        /\ is_prefill_chunk'[r] \in BOOLEAN
  <2> TAKE r \in Requests
  <2>1. num_computed_tokens'[r] = num_computed_tokens[r] + step.num_scheduled_tokens[r]
    BY <1>2
  <2>2. num_computed_tokens'[r] \in Nat
    BY <2>1, Counters
  <2>3. num_tokens(r)' = num_tokens(r)
    BY <1>1 DEF num_tokens, vars
  <2>4. is_prefill_chunk'[r] = IF r \in Scheduled THEN num_computed_tokens'[r] < num_tokens(r)
                               ELSE is_prefill_chunk[r]
    BY <1>2
  <2>5. is_prefill_chunk'[r] \in BOOLEAN
    <3>1. CASE r \in Scheduled
      BY <2>4, <3>1
    <3>2. CASE r \notin Scheduled
      BY <2>4, <3>2, Counters
    <3> QED BY <3>1, <3>2
  <2> QED BY <2>1, <2>2, <2>3, <2>4, <2>5
<1>9. num_computed_tokens' \in [Requests -> Nat] /\ is_prefill_chunk' \in [Requests -> BOOLEAN]
  BY <1>2, <1>8
<1>10. SchedTypeOK'
  BY <1>1, <1>3, <1>5, <1>6, <1>7, <1>9 DEF SchedInv, SchedTypeOK, grammarVars, Labels
<1>11. QueueInv'
  <2>1. Queued' = Queued
    BY <1>5, <1>6 DEF Queued
  <2> QED BY <1>1, <1>5, <1>6, <2>1, Queues DEF SchedInv, QueueInv, vars
<1>12. Scheduled \subseteq Range(running)
  BY <1>1 DEF SchedInv, BatchInv, Deciding
<1>13. WaitingHoldsNothing'
  <2>1. ASSUME NEW r \in Requests, r \notin Range(running)
        PROVE  num_computed_tokens'[r] = 0
    <3>1. step.num_scheduled_tokens[r] = 0 /\ num_computed_tokens[r] = 0
      BY <1>12, <2>1, Counters DEF SchedInv, WaitingHoldsNothing
    <3> QED BY <1>8, <3>1
  <2> QED BY <1>1, <2>1 DEF SchedInv, WaitingHoldsNothing, vars, kvVars
<1>14. BatchInv'
  BY <1>1, <1>3 DEF BatchInv, Deciding
<1>15. CountInv'
  <2>1. ASSUME NEW i \in 1 .. Len(running), NEW r \in Requests, r = running[i]
        PROVE  IF r \in Scheduled THEN Pending(r)' ELSE Settled(r)'
    <3>1. /\ r \notin step.scheduled_new => Settled(r)
          /\ r \in Scheduled => Planned(r)
      BY <1>1, <2>1, RunningList DEF SchedInv, CountInv, Deciding
    <3>2. CASE r \in Scheduled
      BY <1>3, <1>8, <3>1, <3>2, Counters DEF Planned, Pending
    <3>3. CASE r \notin Scheduled
      <4>1. r \notin step.scheduled_new
        BY <1>1, <3>3 DEF SchedInv, BatchInv, Deciding
      <4>2. num_computed_tokens'[r] = num_computed_tokens[r]
        BY <1>8, <3>3, Counters
      <4> QED BY <1>8, <3>1, <3>3, <4>1, <4>2 DEF Settled
    <3> QED BY <3>2, <3>3
  <2>2. running' = running /\ DOMAIN running = 1 .. Len(running)
    BY <1>1, RunningList
  <2>3. \A i \in 1 .. Len(running) : running[i] \in Requests
    BY RunningList
  <2> QED BY <1>1, <1>4, <2>1, <2>2, <2>3 DEF CountInv, Deciding
<1>16. ErrorsInv'
  BY <1>1 DEF SchedInv, ErrorsInv, grammarVars
<1> QED BY <1>7, <1>10, <1>11, <1>13, <1>14, <1>15, <1>16 DEF SchedInv

\* The request that had its turn is settled, the others are as they were.
LEMMA UpdateSkippedPreserves ==
    ASSUME SchedInv, NEW r \in Requests, UpdateSkipped(r)
    PROVE  SchedInv'
<1>1. /\ pc = "update" /\ pc' = pc /\ step.req_index <= Len(running) /\ r = NextRunning
      /\ step.num_scheduled_tokens[r] = 0
      /\ step' = [step EXCEPT !.req_index = @ + 1]
      /\ UNCHANGED <<vars, queueVars, requestVars, grammarVars, finished_req_ids>>
  BY DEF UpdateSkipped, Updating
<1>2. PoolInv' /\ TypeOK'
  BY <1>1, PoolStays DEF SchedInv, PoolInv
<1>3. step' \in StepType
  BY <1>1, StepFields DEF StepType
<1>4. SchedTypeOK'
  BY <1>1, <1>2, <1>3 DEF SchedInv, SchedTypeOK, queueVars, requestVars, grammarVars
<1>5. QueueInv' /\ WaitingHoldsNothing' /\ ErrorsInv'
  BY <1>1 DEF SchedInv, QueueInv, WaitingHoldsNothing, ErrorsInv, Queued, queueVars,
              requestVars, grammarVars, vars, kvVars
<1>6. BatchInv'
  BY <1>1 DEF BatchInv, Deciding
<1>7. /\ Scheduled' = Scheduled /\ step'.num_drafts = step.num_drafts
      /\ step'.req_index = step.req_index + 1
  BY <1>1, StepFields DEF StepType, Scheduled
<1>8. CountInv'
  <2>1. ASSUME NEW i \in 1 .. Len(running), NEW s \in Requests, s = running[i]
        PROVE  IF s \in Scheduled /\ i >= step.req_index + 1 THEN Pending(s) ELSE Settled(s)
    <3>1. IF s \in Scheduled /\ i >= step.req_index THEN Pending(s) ELSE Settled(s)
      BY <1>1, <2>1, RunningList DEF SchedInv, CountInv
    <3>2. i = step.req_index => s \notin Scheduled
      BY <1>1, <2>1, Counters DEF NextRunning
    <3> QED BY <3>1, <3>2, StepFields
  <2>2. \A s : Settled(s)' = Settled(s) /\ Pending(s)' = Pending(s)
    BY <1>1, <1>7 DEF Settled, Pending, num_tokens, requestVars, vars
  <2>3. running' = running /\ DOMAIN running = 1 .. Len(running)
    BY <1>1, RunningList DEF queueVars
  <2>4. \A i \in 1 .. Len(running) : running[i] \in Requests
    BY RunningList
  <2> QED BY <1>1, <1>7, <2>1, <2>2, <2>3, <2>4 DEF CountInv, Deciding
<1> QED BY <1>2, <1>4, <1>5, <1>6, <1>8 DEF SchedInv

LEMMA UpdateChunkPreserves ==
    ASSUME SchedInv, NEW r \in Requests, UpdateChunk(r)
    PROVE  SchedInv'
<1>1. /\ pc = "update" /\ pc' = pc /\ step.req_index <= Len(running) /\ r = NextRunning
      /\ is_prefill_chunk[r]
      /\ step' = [step EXCEPT !.req_index = @ + 1]
      /\ UNCHANGED <<vars, queueVars, num_prompt_tokens, num_computed_tokens,
                     is_prefill_chunk, grammarVars, finished_req_ids>>
  BY DEF UpdateChunk, Updating
<1>2. PICK d \in Nat : spec_token_ids' = [spec_token_ids EXCEPT ![r] = d]
  BY Counters DEF UpdateChunk
<1>3. PoolInv' /\ TypeOK'
  BY <1>1, PoolStays DEF SchedInv, PoolInv
<1>4. step' \in StepType
  BY <1>1, StepFields DEF StepType
<1>5. SchedTypeOK'
  BY <1>1, <1>2, <1>3, <1>4 DEF SchedInv, SchedTypeOK, queueVars, grammarVars
<1>6. QueueInv' /\ WaitingHoldsNothing' /\ ErrorsInv'
  BY <1>1 DEF SchedInv, QueueInv, WaitingHoldsNothing, ErrorsInv, Queued, queueVars,
              grammarVars, vars, kvVars
<1>7. BatchInv'
  BY <1>1 DEF BatchInv, Deciding
<1>8. /\ Scheduled' = Scheduled /\ step'.num_drafts = step.num_drafts
      /\ step'.req_index = step.req_index + 1
  BY <1>1, StepFields DEF StepType, Scheduled
<1>9. CountInv'
  <2>1. ASSUME NEW i \in 1 .. Len(running), NEW s \in Requests, s = running[i]
        PROVE  IF s \in Scheduled /\ i >= step.req_index + 1 THEN Pending(s) ELSE Settled(s)
    <3>1. IF s \in Scheduled /\ i >= step.req_index THEN Pending(s) ELSE Settled(s)
      BY <1>1, <2>1, RunningList DEF SchedInv, CountInv
    <3>2. i = step.req_index => is_prefill_chunk[s]
      BY <1>1, <2>1 DEF NextRunning
    <3>3. is_prefill_chunk[s] /\ Pending(s) => Settled(s)
      BY DEF Pending, Settled
    <3> QED BY <3>1, <3>2, <3>3, StepFields
  <2>2. \A s : Settled(s)' = Settled(s) /\ Pending(s)' = Pending(s)
    BY <1>1, <1>8 DEF Settled, Pending, num_tokens, vars
  <2>3. running' = running /\ DOMAIN running = 1 .. Len(running)
    BY <1>1, RunningList DEF queueVars
  <2>4. \A i \in 1 .. Len(running) : running[i] \in Requests
    BY RunningList
  <2> QED BY <1>1, <1>8, <2>1, <2>2, <2>3, <2>4 DEF CountInv, Deciding
<1> QED BY <1>3, <1>5, <1>6, <1>7, <1>9 DEF SchedInv

------------------------------------------------------------------------------
(* Clients and compilation.                                                 *)

LEMMA CompileGrammarPreserves ==
    ASSUME SchedInv, NEW r \in Requests, NEW outcome \in {"ready", "failed"},
           CompileGrammar(r, outcome)
    PROVE  SchedInv'
<1>1. /\ grammar' = [grammar EXCEPT ![r] = outcome]
      /\ UNCHANGED <<vars, queueVars, requestVars, grammar_compile_error_reqs,
                     finished_req_ids, pc, step>>
  BY DEF CompileGrammar
<1>2. PoolInv' /\ TypeOK'
  BY <1>1, PoolStays DEF SchedInv, PoolInv
<1>3. grammar' \in [Requests -> {"none", "compiling", "ready", "failed"}]
  BY <1>1 DEF SchedInv, SchedTypeOK
<1>4. SchedTypeOK'
  BY <1>1, <1>2, <1>3 DEF SchedInv, SchedTypeOK, queueVars, requestVars
<1>5. QueueInv' /\ WaitingHoldsNothing' /\ ErrorsInv'
  BY <1>1 DEF SchedInv, QueueInv, WaitingHoldsNothing, ErrorsInv, Queued, queueVars,
              requestVars, vars, kvVars
<1>6. BatchInv' /\ CountInv'
  BY <1>1 DEF SchedInv, BatchInv, CountInv, Settled, Planned, Pending, Deciding, Scheduled,
              CurrentRequest, NextRunning, num_tokens, queueVars, requestVars, vars
<1> QED BY <1>2, <1>4, <1>5, <1>6 DEF SchedInv

LEMMA ResetCachePreserves ==
    ASSUME SchedInv, ResetCache
    PROVE  SchedInv'
<1>1. /\ UNCHANGED <<all_token_ids, queueVars, requestVars, grammarVars, finished_req_ids,
                     pc, step>>
      /\ ResetPrefixCache
  BY DEF ResetCache, schedVars
<1>2. PoolInv' /\ TypeOK'
  BY <1>1, ResetPreserves DEF SchedInv, PoolInv
<1>3. req_to_blocks' = req_to_blocks
  BY <1>1 DEF ResetPrefixCache
<1>4. SchedTypeOK'
  BY <1>1, <1>2 DEF SchedInv, SchedTypeOK, queueVars, requestVars, grammarVars
<1>5. QueueInv' /\ WaitingHoldsNothing' /\ ErrorsInv'
  BY <1>1, <1>3 DEF SchedInv, QueueInv, WaitingHoldsNothing, ErrorsInv, Queued, queueVars,
              requestVars, grammarVars
<1>6. BatchInv' /\ CountInv'
  BY <1>1 DEF SchedInv, BatchInv, CountInv, Settled, Planned, Pending, Deciding, Scheduled,
              CurrentRequest, NextRunning, num_tokens, queueVars, requestVars
<1> QED BY <1>2, <1>4, <1>5, <1>6 DEF SchedInv

\* A new request joins the dict and the waiting queue; what was said of the others
\* stays true.
LEMMA AddPreserves ==
    ASSUME SchedInv, NEW r \in Requests, NEW prompt \in Prompts, Add(r, prompt)
    PROVE  SchedInv'
<1>1. /\ pc \in {"idle", "inflight"} /\ r \notin Range(requests)
      /\ all_token_ids' = [all_token_ids EXCEPT ![r] = prompt]
      /\ requests' = Append(requests, r)
      /\ waiting' = AddRequest(waiting, r, Append(requests, r))
      /\ UNCHANGED <<kvVars, skipped_waiting, running, num_computed_tokens, spec_token_ids,
                     is_prefill_chunk, grammar_compile_error_reqs, finished_req_ids, pc, step>>
  BY DEF Add, ClientsMayCall
<1>2. prompt \in Seq(Tokens) /\ Len(prompt) \in Nat \ {0} /\ prompt # <<>>
  <2>1. prompt \in Seq(Tokens)
    BY PromptsAssumption
  <2>2. Len(prompt) \in 1 .. MaxModelLen - 1 \/ Len(prompt) \in 1 .. MaxModelLen
    BY DEF Add, PromptFits
  <2> QED BY <2>1, <2>2, SizesAssumption, EmptySeq
<1>3. PICK st \in {"WAITING", "WAITING_FOR_GRAMMAR"} : status' = [status EXCEPT ![r] = st]
  BY DEF Add
<1>4. PICK g \in {"compiling", "none"} : grammar' = [grammar EXCEPT ![r] = g]
  BY DEF Add
<1>5. PICK n \in Nat : num_prompt_tokens' = [num_prompt_tokens EXCEPT ![r] = n]
  BY <1>2 DEF Add
<1>6. r \notin Range(running) /\ r \notin Queued
  BY <1>1, Queues
<1>7. req_to_blocks[r] = <<>> /\ num_computed_tokens[r] = 0
  BY <1>6 DEF SchedInv, WaitingHoldsNothing
<1>8. /\ requests' \in Seq(Requests) /\ IsInjective(requests')
      /\ Range(requests') = Range(requests) \cup {r}
  BY <1>1, Queues, AppendOne
<1>9. /\ waiting' \in Seq(Requests) /\ IsInjective(waiting')
      /\ Range(waiting') = Range(waiting) \cup {r}
  <2>1. Range(waiting) \cup {r} \subseteq Range(requests') /\ r \notin Range(waiting)
    BY <1>6, <1>8, Queues
  <2> QED BY <1>1, <1>8, <2>1, Queues, AddRequestProperties
<1>10. /\ all_token_ids' \in [Requests -> Seq(Tokens)]
       /\ all_token_ids'[r] = prompt
       /\ \A s \in Requests \ {r} : all_token_ids'[s] = all_token_ids[s]
  BY <1>1, <1>2 DEF SchedInv, SchedTypeOK, TypeOK
<1>11. PoolInv' /\ TypeOK'
  <2>1. ASSUME NEW s \in Requests
        PROVE  \/ req_to_blocks[s] = <<>>
               \/ /\ Len(all_token_ids[s]) <= Len(all_token_ids'[s])
                  /\ \A i \in 1 .. Len(all_token_ids[s]) :
                       all_token_ids'[s][i] = all_token_ids[s][i]
    <3>1. CASE s = r
      BY <1>7, <3>1
    <3>2. CASE s # r
      BY <1>10, <3>2, Counters DEF num_tokens
    <3> QED BY <3>1, <3>2
  <2> QED BY <1>1, <1>10, <2>1, TokensPreserve DEF SchedInv, PoolInv
<1>12. SchedTypeOK'
  <2>1. status' \in [Requests -> {"WAITING", "WAITING_FOR_GRAMMAR", "RUNNING", "PREEMPTED",
                                  "FINISHED"}]
    BY <1>3 DEF SchedInv, SchedTypeOK
  <2>2. grammar' \in [Requests -> {"none", "compiling", "ready", "failed"}]
    BY <1>4 DEF SchedInv, SchedTypeOK
  <2>3. num_prompt_tokens' \in [Requests -> Nat]
    BY <1>5 DEF SchedInv, SchedTypeOK
  <2> QED BY <1>1, <1>8, <1>9, <1>11, <2>1, <2>2, <2>3 DEF SchedInv, SchedTypeOK
<1>13. QueueInv'
  <2>1. Queued' = Queued \cup {r}
    BY <1>1, <1>9 DEF Queued
  <2>2. /\ status'[r] \in {"WAITING", "WAITING_FOR_GRAMMAR"}
        /\ \A s \in Requests \ {r} : status'[s] = status[s]
    BY <1>3 DEF SchedInv, SchedTypeOK
  <2>3. Range(waiting') \cap Range(skipped_waiting') = {}
    BY <1>1, <1>6, <1>9, Queues
  <2>4. Range(running') \cap Queued' = {} /\ Range(requests') = Range(running') \cup Queued'
    BY <1>1, <1>6, <1>8, <2>1, Queues
  <2>5. ASSUME NEW s \in Requests
        PROVE  /\ s \in Range(running') <=> status'[s] = "RUNNING"
               /\ s \in Range(requests') <=> status'[s] # "FINISHED"
               /\ s \in Range(requests') => all_token_ids'[s] # <<>>
    <3>1. CASE s = r
      BY <1>1, <1>2, <1>6, <1>8, <1>10, <2>2, <3>1
    <3>2. CASE s # r
      BY <1>1, <1>8, <1>10, <2>2, <3>2 DEF SchedInv, QueueInv
    <3> QED BY <3>1, <3>2
  <2> QED BY <1>1, <1>8, <1>9, <2>3, <2>4, <2>5 DEF SchedInv, QueueInv
<1>14. WaitingHoldsNothing' /\ ErrorsInv'
  BY <1>1 DEF SchedInv, WaitingHoldsNothing, ErrorsInv, kvVars
<1>15. BatchInv'
  BY <1>1 DEF SchedInv, BatchInv, Deciding
<1>16. CountInv'
  <2>1. running' = running /\ DOMAIN running = 1 .. Len(running)
    BY <1>1, RunningList
  <2>2. \A i \in 1 .. Len(running) : running[i] \in Requests \ {r}
    BY <1>6, RunningList
  <2>3. \A s \in Requests \ {r} :
          Settled(s)' = Settled(s) /\ Pending(s)' = Pending(s)
    BY <1>1, <1>10 DEF Settled, Pending, num_tokens
  <2> QED BY <1>1, <2>1, <2>2, <2>3 DEF SchedInv, CountInv, Deciding, Scheduled
<1> QED BY <1>11, <1>12, <1>13, <1>14, <1>15, <1>16 DEF SchedInv

------------------------------------------------------------------------------
(* A request leaves.                                                        *)

\* Its object, its blocks and its place in the queue go together.
LEMMA DropPreserves ==
    ASSUME SchedInv, NEW r \in Range(requests), skipped_waiting = <<>>,
           pc \in {"idle", "inflight", "update"},
           Free(r), DropRequests({r}),
           running' \in Seq(Requests), IsInjective(running'),
           Range(running') = Range(running) \ {r},
           waiting' \in Seq(Requests), IsInjective(waiting'),
           Range(waiting') = Range(waiting) \ {r},
           all_token_ids' = [all_token_ids EXCEPT ![r] = <<>>],
           num_prompt_tokens' = Cleared(num_prompt_tokens, {r}),
           num_computed_tokens' = Cleared(num_computed_tokens, {r}),
           spec_token_ids' = Cleared(spec_token_ids, {r}),
           UNCHANGED <<skipped_waiting, grammar_compile_error_reqs, pc, step>>
    PROVE  /\ SchedTypeOK' /\ PoolInv' /\ QueueInv' /\ WaitingHoldsNothing' /\ BatchInv'
           /\ ErrorsInv'
           /\ Scheduled' = Scheduled
           /\ \A s \in Requests \ {r} : Settled(s)' = Settled(s) /\ Pending(s)' = Pending(s)
<1>1. /\ requests' = Filter(requests, Requests \ {r})
      /\ status' = [s \in Requests |-> IF s \in {r} THEN "FINISHED" ELSE status[s]]
      /\ is_prefill_chunk' = [s \in Requests |-> s \notin {r} /\ is_prefill_chunk[s]]
      /\ grammar' = [s \in Requests |-> IF s \in {r} THEN "none" ELSE grammar[s]]
      /\ finished_req_ids' = finished_req_ids \cup {r}
  BY DEF DropRequests
<1>2. r \in Requests
  BY Queues
<1>3. /\ req_to_blocks' = [req_to_blocks EXCEPT ![r] = <<>>]
      /\ all_token_ids' \in [Requests -> Seq(Tokens)]
      /\ all_token_ids'[r] = <<>>
      /\ \A s \in Requests \ {r} : all_token_ids'[s] = all_token_ids[s]
  <2>1. <<>> \in Seq(Tokens)
    BY EmptySeq
  <2> QED BY <1>2, <2>1 DEF Free, SchedInv, SchedTypeOK, TypeOK
<1>4. PoolInv' /\ TypeOK'
  BY <1>2, <1>3, FreePreserves DEF SchedInv, PoolInv
<1>5. /\ requests' \in Seq(Requests) /\ IsInjective(requests')
      /\ Range(requests') = Range(requests) \ {r}
  BY <1>1, <1>2, Queues, WithoutRange DEF Without
<1>6. /\ num_prompt_tokens' \in [Requests -> Nat] /\ num_computed_tokens' \in [Requests -> Nat]
      /\ spec_token_ids' \in [Requests -> Nat]
      /\ num_computed_tokens'[r] = 0
      /\ \A s \in Requests \ {r} : num_computed_tokens'[s] = num_computed_tokens[s]
  BY <1>2 DEF Cleared, SchedInv, SchedTypeOK
<1>7. /\ status' \in [Requests -> {"WAITING", "WAITING_FOR_GRAMMAR", "RUNNING", "PREEMPTED",
                                   "FINISHED"}]
      /\ status'[r] = "FINISHED"
      /\ \A s \in Requests \ {r} : status'[s] = status[s]
  BY <1>1, <1>2 DEF SchedInv, SchedTypeOK
<1>8. is_prefill_chunk' \in [Requests -> BOOLEAN]
  <2>1. \A s \in Requests : (s \notin {r} /\ is_prefill_chunk[s]) \in BOOLEAN
    OBVIOUS
  <2> QED BY <1>1, <2>1
<1>9. \A s \in Requests \ {r} : is_prefill_chunk'[s] = is_prefill_chunk[s]
  BY <1>1, Counters
<1>10. grammar' \in [Requests -> {"none", "compiling", "ready", "failed"}]
  BY <1>1 DEF SchedInv, SchedTypeOK
<1>11. SchedTypeOK'
  BY <1>1, <1>2, <1>4, <1>5, <1>6, <1>7, <1>8, <1>10 DEF SchedInv, SchedTypeOK
<1>12. QueueInv'
  <2>1. Queued' = Queued \ {r} /\ Queued = Range(waiting) /\ Range(skipped_waiting) = {}
    <3>1. Range(skipped_waiting) = {} /\ skipped_waiting' = skipped_waiting
      BY DEF Range
    <3> QED BY <3>1 DEF Queued
  <2>2. Range(running') \cap Queued' = {} /\ Range(requests') = Range(running') \cup Queued'
    BY <1>5, <2>1, Queues
  <2>3. ASSUME NEW s \in Requests
        PROVE  /\ s \in Range(running') <=> status'[s] = "RUNNING"
               /\ s \in Range(requests') <=> status'[s] # "FINISHED"
               /\ s \in Range(requests') => all_token_ids'[s] # <<>>
    <3>1. CASE s = r
      BY <1>5, <1>7, <3>1
    <3>2. CASE s # r
      BY <1>3, <1>5, <1>7, <3>2 DEF SchedInv, QueueInv
    <3> QED BY <3>1, <3>2
  <2> QED BY <1>5, <2>1, <2>2, <2>3, Queues DEF QueueInv
<1>13. WaitingHoldsNothing'
  <2>1. ASSUME NEW s \in Requests, s \notin Range(running')
        PROVE  req_to_blocks'[s] = <<>> /\ num_computed_tokens'[s] = 0
    <3>1. CASE s = r
      BY <1>3, <1>6, <3>1 DEF SchedInv, SchedTypeOK, TypeOK
    <3>2. CASE s # r
      <4>1. s \notin Range(running) /\ req_to_blocks'[s] = req_to_blocks[s]
        BY <1>3, <2>1, <3>2 DEF SchedInv, SchedTypeOK, TypeOK
      <4> QED BY <1>6, <3>2, <4>1 DEF SchedInv, WaitingHoldsNothing
    <3> QED BY <3>1, <3>2
  <2> QED BY <2>1 DEF WaitingHoldsNothing
<1>14. ErrorsInv'
  BY DEF SchedInv, ErrorsInv
<1>15. BatchInv'
  BY DEF SchedInv, BatchInv, Deciding
<1>16. Scheduled' = Scheduled
  BY DEF Scheduled
<1>17. \A s \in Requests \ {r} : Settled(s)' = Settled(s) /\ Pending(s)' = Pending(s)
  BY <1>3, <1>6, <1>9 DEF Settled, Pending, num_tokens
<1> QED BY <1>4, <1>11, <1>12, <1>13, <1>14, <1>15, <1>16, <1>17

LEMMA AbortPreserves ==
    ASSUME SchedInv, NEW r \in Requests, Abort(r)
    PROVE  SchedInv'
<1>1. /\ pc \in {"idle", "inflight"} /\ r \in Range(requests)
      /\ RemoveFromQueue(r) /\ Free(r) /\ DropRequests({r})
      /\ all_token_ids' = [all_token_ids EXCEPT ![r] = <<>>]
      /\ num_prompt_tokens' = Cleared(num_prompt_tokens, {r})
      /\ num_computed_tokens' = Cleared(num_computed_tokens, {r})
      /\ spec_token_ids' = Cleared(spec_token_ids, {r})
      /\ UNCHANGED <<skipped_waiting, grammar_compile_error_reqs, pc, step>>
  BY DEF Abort, ClientsMayCall
<1>2. skipped_waiting = <<>>
  BY <1>1 DEF SchedInv, QueueInv
\* The status tells which queue the request is in, and it is in no other.
<1>3. /\ running' \in Seq(Requests) /\ IsInjective(running')
      /\ Range(running') = Range(running) \ {r}
      /\ waiting' \in Seq(Requests) /\ IsInjective(waiting')
      /\ Range(waiting') = Range(waiting) \ {r}
  <2>1. CASE status[r] = "RUNNING"
    <3>1. running' = Without(running, r) /\ waiting' = waiting
      BY <1>1, <2>1 DEF RemoveFromQueue
    <3>2. r \in Range(running)
      BY <2>1 DEF SchedInv, QueueInv
    <3>3. r \notin Range(waiting)
      BY <3>2, Queues
    <3> QED BY <3>1, <3>3, Queues, RunningList, WithoutRange
  <2>2. CASE status[r] # "RUNNING"
    <3>1. waiting' = Without(waiting, r) /\ running' = running
      BY <1>1, <2>2 DEF RemoveFromQueue
    <3>2. r \notin Range(running)
      BY <2>2 DEF SchedInv, QueueInv
    <3> QED BY <3>1, <3>2, Queues, RunningList, WithoutRange
  <2> QED BY <2>1, <2>2
<1>4. /\ SchedTypeOK' /\ PoolInv' /\ QueueInv' /\ WaitingHoldsNothing' /\ BatchInv'
      /\ ErrorsInv'
      /\ Scheduled' = Scheduled
      /\ \A s \in Requests \ {r} : Settled(s)' = Settled(s) /\ Pending(s)' = Pending(s)
  BY <1>1, <1>2, <1>3, DropPreserves
<1>5. CountInv'
  <2>1. ASSUME NEW i \in DOMAIN running'
        PROVE  \E t \in Requests :
                 /\ t = running'[i]
                 /\ pc = "idle" => Settled(t)'
                 /\ pc = "inflight" => IF t \in Scheduled THEN Pending(t)' ELSE Settled(t)'
    <3>1. running'[i] \in Range(running) \ {r}
      BY <1>3 DEF Range
    <3>2. PICK j \in 1 .. Len(running) : running[j] = running'[i]
      BY <3>1, RunningList
    <3>3. PICK t \in Requests \ {r} : t = running[j] /\ t = running'[i]
      BY <3>1, <3>2, RunningList
    <3>4. /\ pc = "idle" => Settled(t)
          /\ pc = "inflight" => IF t \in Scheduled THEN Pending(t) ELSE Settled(t)
      BY <3>3, RunningList DEF SchedInv, CountInv
    <3>5. Settled(t)' = Settled(t) /\ Pending(t)' = Pending(t)
      BY <1>4
    <3> QED BY <3>3, <3>4, <3>5
  <2> QED BY <1>1, <1>4, <2>1 DEF CountInv, Deciding
<1> QED BY <1>4, <1>5 DEF SchedInv

\* A request that is done leaves during its turn: the ones behind it move up, and
\* their turn is still to come.
LEMMA LeavePreserves ==
    ASSUME SchedInv, NEW r \in Requests, Updating(r), Leave(r)
    PROVE  SchedInv'
<1>1. /\ pc = "update" /\ step.req_index <= Len(running) /\ r = NextRunning
      /\ Free(r) /\ DropRequests({r})
      /\ running' = Without(running, r)
      /\ all_token_ids' = [all_token_ids EXCEPT ![r] = <<>>]
      /\ num_prompt_tokens' = Cleared(num_prompt_tokens, {r})
      /\ num_computed_tokens' = Cleared(num_computed_tokens, {r})
      /\ spec_token_ids' = Cleared(spec_token_ids, {r})
      /\ UNCHANGED <<waiting, skipped_waiting, grammar_compile_error_reqs, pc, step>>
  BY DEF Updating, Leave
<1>2. skipped_waiting = <<>>
  BY <1>1 DEF SchedInv, QueueInv
<1>3. PICK p \in 1 .. Len(running) : p = step.req_index /\ running[p] = r
  BY <1>1, StepFields, RunningList DEF NextRunning
<1>4. r \in Range(running) /\ r \in Range(requests) /\ r \notin Range(waiting)
  <2>1. r \in Range(running)
    BY <1>3, RunningList
  <2> QED BY <2>1, Queues
<1>5. /\ running' \in Seq(Requests) /\ IsInjective(running')
      /\ Range(running') = Range(running) \ {r}
      /\ Len(running') = Len(running) - 1
      /\ \A n \in 1 .. Len(running) - 1 : running'[n] = IF n < p THEN running[n] ELSE running[n + 1]
  <2>1. /\ Without(running, running[p]) \in Seq(Requests)
        /\ Len(Without(running, running[p])) = Len(running) - 1
        /\ \A n \in 1 .. Len(running) - 1 :
             Without(running, running[p])[n] = IF n < p THEN running[n] ELSE running[n + 1]
        /\ Range(Without(running, running[p])) = Range(running) \ {running[p]}
        /\ IsInjective(Without(running, running[p]))
    BY RunningList, WithoutOne
  <2> QED BY <1>1, <1>3, <2>1
<1>6. /\ waiting' \in Seq(Requests) /\ IsInjective(waiting')
      /\ Range(waiting') = Range(waiting) \ {r}
  BY <1>1, <1>4, Queues
<1>7. /\ SchedTypeOK' /\ PoolInv' /\ QueueInv' /\ WaitingHoldsNothing' /\ BatchInv'
      /\ ErrorsInv'
      /\ Scheduled' = Scheduled
      /\ \A s \in Requests \ {r} : Settled(s)' = Settled(s) /\ Pending(s)' = Pending(s)
  BY <1>1, <1>2, <1>4, <1>5, <1>6, DropPreserves
<1>8. CountInv'
  <2>1. ASSUME NEW i \in 1 .. Len(running) - 1
        PROVE  \E t \in Requests :
                 /\ t = running'[i]
                 /\ IF t \in Scheduled /\ i >= p THEN Pending(t)' ELSE Settled(t)'
    <3>1. PICK j \in 1 .. Len(running) : j = (IF i < p THEN i ELSE i + 1)
      BY RunningList
    <3>2. PICK t \in Requests : t = running[j] /\ t = running'[i]
      BY <1>5, <3>1, RunningList
    <3>3. j # p /\ (j >= p <=> i >= p)
      BY <3>1, RunningList
    <3>4. t # r
      BY <1>3, <3>2, <3>3, RunningList
    <3>5. IF t \in Scheduled /\ j >= p THEN Pending(t) ELSE Settled(t)
      <4>1. j \in DOMAIN running /\ CountInv /\ pc = "update"
        BY <1>1, RunningList DEF SchedInv
      <4>2. IF t \in Scheduled /\ j >= step.req_index THEN Pending(t) ELSE Settled(t)
        BY <3>2, <4>1 DEF CountInv
      <4> QED BY <1>3, <4>2
    <3>6. Settled(t)' = Settled(t) /\ Pending(t)' = Pending(t)
      BY <1>7, <3>4
    <3>7. IF t \in Scheduled /\ i >= p THEN Pending(t)' ELSE Settled(t)'
      BY <3>3, <3>5, <3>6
    <3> QED BY <3>2, <3>7
  <2>2. DOMAIN running' = 1 .. Len(running) - 1 /\ step' = step
    BY <1>1, <1>5, LenProperties
  <2> QED BY <1>1, <1>3, <1>7, <2>1, <2>2 DEF CountInv, Deciding
<1> QED BY <1>7, <1>8 DEF SchedInv

LEMMA EndUpdatePreserves ==
    ASSUME SchedInv, EndUpdate
    PROVE  SchedInv'
<1> DEFINE failed == grammar_compile_error_reqs \cap Range(requests)
<1>1. /\ pc = "update" /\ pc' = "idle" /\ step.req_index > Len(running)
      /\ DropRequests(failed)
      /\ waiting' = Filter(waiting, Requests \ failed)
      /\ all_token_ids' = [r \in Requests |-> IF r \in failed THEN <<>> ELSE all_token_ids[r]]
      /\ num_prompt_tokens' = Cleared(num_prompt_tokens, failed)
      /\ grammar_compile_error_reqs' = {}
      /\ step' = NoStep
      /\ UNCHANGED <<kvVars, skipped_waiting, running, num_computed_tokens, spec_token_ids>>
  BY DEF EndUpdate, Goto
<1>2. failed \in SUBSET Requests /\ failed \cap Range(running) = {}
  BY Queues DEF SchedInv, ErrorsInv
<1> HIDE DEF failed
<1>3. /\ requests' = Filter(requests, Requests \ failed)
      /\ status' = [r \in Requests |-> IF r \in failed THEN "FINISHED" ELSE status[r]]
      /\ is_prefill_chunk' = [r \in Requests |-> r \notin failed /\ is_prefill_chunk[r]]
      /\ grammar' = [r \in Requests |-> IF r \in failed THEN "none" ELSE grammar[r]]
      /\ finished_req_ids' = finished_req_ids \cup failed
  BY <1>1 DEF DropRequests
<1>4. skipped_waiting = <<>> /\ Range(skipped_waiting) = {} /\ Queued = Range(waiting)
  BY <1>1 DEF SchedInv, QueueInv, Queued, Range
<1>5. /\ requests' \in Seq(Requests) /\ IsInjective(requests')
      /\ Range(requests') = Range(requests) \ failed
  <2>1. Range(requests) \cap (Requests \ failed) = Range(requests) \ failed
    BY Queues
  <2> QED BY <1>3, <2>1, Queues, FilterProperties
<1>6. /\ waiting' \in Seq(Requests) /\ IsInjective(waiting')
      /\ Range(waiting') = Range(waiting) \ failed
  <2>1. Range(waiting) \cap (Requests \ failed) = Range(waiting) \ failed
    BY Queues
  <2> QED BY <1>1, <2>1, Queues, FilterProperties
<1>7. /\ all_token_ids' \in [Requests -> Seq(Tokens)]
      /\ \A r \in Requests \ failed : all_token_ids'[r] = all_token_ids[r]
  <2>1. <<>> \in Seq(Tokens)
    BY EmptySeq
  <2> QED BY <1>1, <2>1 DEF SchedInv, SchedTypeOK, TypeOK
<1>8. PoolInv' /\ TypeOK'
  <2>1. ASSUME NEW s \in Requests
        PROVE  \/ req_to_blocks[s] = <<>>
               \/ /\ Len(all_token_ids[s]) <= Len(all_token_ids'[s])
                  /\ \A i \in 1 .. Len(all_token_ids[s]) :
                       all_token_ids'[s][i] = all_token_ids[s][i]
    <3>1. CASE s \in failed
      BY <1>2, <3>1 DEF SchedInv, WaitingHoldsNothing
    <3>2. CASE s \notin failed
      BY <1>7, <3>2, Counters DEF num_tokens
    <3> QED BY <3>1, <3>2
  <2> QED BY <1>1, <1>7, <2>1, TokensPreserve DEF SchedInv, PoolInv
<1>9. /\ status' \in [Requests -> {"WAITING", "WAITING_FOR_GRAMMAR", "RUNNING", "PREEMPTED",
                                   "FINISHED"}]
      /\ \A r \in Requests : status'[r] = IF r \in failed THEN "FINISHED" ELSE status[r]
  BY <1>3 DEF SchedInv, SchedTypeOK
<1>10. is_prefill_chunk' \in [Requests -> BOOLEAN]
  <2>1. \A s \in Requests : (s \notin failed /\ is_prefill_chunk[s]) \in BOOLEAN
    OBVIOUS
  <2> QED BY <1>3, <2>1
<1>11. \A r \in Requests \ failed : is_prefill_chunk'[r] = is_prefill_chunk[r]
  BY <1>3, Counters
<1>12. grammar' \in [Requests -> {"none", "compiling", "ready", "failed"}]
  BY <1>3 DEF SchedInv, SchedTypeOK
<1>13. num_prompt_tokens' \in [Requests -> Nat]
  BY <1>1 DEF Cleared, SchedInv, SchedTypeOK
<1>14. SchedTypeOK'
  <2>1. finished_req_ids' \cup grammar_compile_error_reqs' \subseteq Requests
    BY <1>1, <1>2, <1>3 DEF SchedInv, SchedTypeOK
  <2> QED BY <1>1, <1>5, <1>6, <1>8, <1>9, <1>10, <1>12, <1>13, <2>1, NoStepType
          DEF SchedInv, SchedTypeOK, Labels
<1>15. QueueInv'
  <2>1. Queued' = Queued \ failed /\ Range(skipped_waiting') = {}
    BY <1>1, <1>4, <1>6 DEF Queued
  <2>2. Range(running') \cap Queued' = {} /\ Range(requests') = Range(running') \cup Queued'
    BY <1>1, <1>2, <1>5, <2>1, Queues
  <2>3. ASSUME NEW s \in Requests
        PROVE  /\ s \in Range(running') <=> status'[s] = "RUNNING"
               /\ s \in Range(requests') <=> status'[s] # "FINISHED"
               /\ s \in Range(requests') => all_token_ids'[s] # <<>>
    <3>1. CASE s \in failed
      BY <1>1, <1>2, <1>5, <1>9, <3>1
    <3>2. CASE s \notin failed
      BY <1>1, <1>5, <1>7, <1>9, <3>2 DEF SchedInv, QueueInv
    <3> QED BY <3>1, <3>2
  <2> QED BY <1>1, <1>4, <1>5, <1>6, <2>1, <2>2, <2>3, RunningList, Queues DEF QueueInv
<1>16. WaitingHoldsNothing'
  BY <1>1 DEF SchedInv, WaitingHoldsNothing, kvVars
<1>17. ErrorsInv'
  BY <1>1 DEF ErrorsInv
<1>18. BatchInv'
  BY <1>1 DEF BatchInv, Deciding
<1>19. CountInv'
  <2>1. ASSUME NEW i \in 1 .. Len(running), NEW s \in Requests, s = running[i]
        PROVE  Settled(s)'
    <3>1. ~ (i >= step.req_index)
      BY SMTT(30), <1>1, StepFields, RunningList
    <3>2. Settled(s)
      BY <1>1, <2>1, <3>1, RunningList DEF SchedInv, CountInv
    <3>3. s \notin failed
      BY <1>2, <2>1, RunningList
    <3> QED BY <1>1, <1>7, <1>11, <3>2, <3>3 DEF Settled, num_tokens
  <2>2. running' = running /\ DOMAIN running = 1 .. Len(running)
    BY <1>1, RunningList
  <2>3. \A i \in 1 .. Len(running) : running[i] \in Requests
    BY RunningList
  <2> QED BY <1>1, <2>1, <2>2, <2>3 DEF CountInv, Deciding
<1> QED BY <1>8, <1>14, <1>15, <1>16, <1>17, <1>18, <1>19 DEF SchedInv

------------------------------------------------------------------------------
(* schedule(): steps that move blocks or requests.                          *)

\* The request that waits for its blocks.
LEMMA CurrentIsRunning ==
    ASSUME SchedInv, pc = "allocate"
    PROVE  \E r \in Requests :
             /\ r = CurrentRequest /\ r \in Range(running) /\ r \notin Scheduled
             /\ \A i \in 1 .. Len(running) : running[i] = r => i <= step.req_index
             /\ Policy = "fcfs" => step.req_index <= Len(running) /\ running[step.req_index] = r
             /\ step.num_new_tokens \in 1 .. step.token_budget
             /\ num_computed_tokens[r] + step.num_new_tokens <= num_tokens(r) + spec_token_ids[r]
             /\ num_computed_tokens[r] + step.num_new_tokens <= MaxModelLen
<1> DEFINE r == CurrentRequest
<1>1. /\ r \in Range(running) \ Scheduled
      /\ \A i \in DOMAIN running : running[i] = r => i <= step.req_index
      /\ Policy = "fcfs" => step.req_index \in DOMAIN running /\ NextRunning = r
      /\ step.num_new_tokens \in 1 .. step.token_budget
      /\ num_computed_tokens[r] + step.num_new_tokens
           <= Least(num_tokens(r) + spec_token_ids[r], MaxModelLen)
  BY DEF SchedInv, BatchInv
<1>2. r \in Requests /\ DOMAIN running = 1 .. Len(running)
  BY <1>1, RunningList
<1>3. /\ num_computed_tokens[r] + step.num_new_tokens <= num_tokens(r) + spec_token_ids[r]
      /\ num_computed_tokens[r] + step.num_new_tokens <= MaxModelLen
  <2> HIDE DEF r
  <2>1. /\ num_computed_tokens[r] \in Nat /\ step.num_new_tokens \in Nat
        /\ num_tokens(r) \in Nat /\ spec_token_ids[r] \in Nat
    BY <1>2, Counters
  <2> QED BY <1>1, <2>1, SizesAssumption DEF Least
<1> HIDE DEF r
<1> QED BY <1>1, <1>2, <1>3, RunningList DEF NextRunning, r

LEMMA AllocateRunningPreserves ==
    ASSUME SchedInv, AllocateRunning
    PROVE  SchedInv'
<1>1. pc = "allocate" /\ pc' = "running"
  BY DEF AllocateRunning, Goto
<1>2. PICK r \in Requests :
        /\ r = CurrentRequest /\ r \in Range(running) /\ r \notin Scheduled
        /\ \A i \in 1 .. Len(running) : running[i] = r => i <= step.req_index
        /\ step.num_new_tokens \in 1 .. step.token_budget
        /\ num_computed_tokens[r] + step.num_new_tokens <= num_tokens(r) + spec_token_ids[r]
  BY <1>1, CurrentIsRunning
<1>3. PICK n \in Nat \ {0} : n = step.num_new_tokens /\ step.token_budget - n \in Nat
  <2>1. step.num_new_tokens \in Nat /\ step.token_budget \in Nat
    BY StepFields
  <2>2. step.num_new_tokens >= 1 /\ step.num_new_tokens <= step.token_budget
    BY <1>2, <2>1
  <2> QED BY <2>1, <2>2
<1>4. PICK end \in Nat : end = num_computed_tokens[r] + n
  BY <1>3, Counters
<1>5. PICK drafts \in Nat :
        drafts = IF spec_token_ids[r] > 0 THEN AtLeastZero(end - num_tokens(r)) ELSE 0
  BY <1>4, Counters DEF AtLeastZero
<1>6. PICK added : added = SubSeq(req_to_blocks'[r], Len(req_to_blocks[r]) + 1,
                                  Len(req_to_blocks'[r]))
  OBVIOUS
<1>7. /\ AllocateSlots(r, end, <<>>)
      /\ step' = [step EXCEPT
           !.req_index = @ + 1, !.request = <<>>, !.num_new_tokens = 0, !.token_budget = @ - n,
           !.num_scheduled_tokens[r] = n, !.scheduled_running = @ \cup {r},
           !.num_drafts[r] = drafts, !.new_blocks[r] = added]
      /\ spec_token_ids' = [spec_token_ids EXCEPT ![r] = 0]
      /\ UNCHANGED <<all_token_ids, queueVars, num_prompt_tokens, num_computed_tokens,
                     is_prefill_chunk, grammarVars, finished_req_ids>>
  BY <1>2, <1>3, <1>4, <1>5, <1>6 DEF AllocateRunning
<1>8. PoolInv' /\ TypeOK'
  <2>1. <<>> \in Seq(Blocks) /\ IsInjective(<<>>) /\ DOMAIN <<>> = {}
    BY EmptySeq DEF IsInjective
  <2> QED BY <1>7, <2>1, AllocateSlotsPreserves DEF SchedInv, PoolInv
<1>9. \A s \in Requests \ {r} : req_to_blocks'[s] = req_to_blocks[s]
  BY <1>7 DEF AllocateSlots, SchedInv, SchedTypeOK, TypeOK
<1>10. added \in Seq(Blocks)
  <2>1. req_to_blocks[r] \in Seq(Blocks) /\ req_to_blocks'[r] \in Seq(Blocks)
    BY <1>8 DEF TypeOK, SchedInv, SchedTypeOK
  <2>2. PICK m \in Nat, n2 \in Nat : m = Len(req_to_blocks[r]) /\ n2 = Len(req_to_blocks'[r])
    BY <2>1, LenProperties
  <2>3. \A i \in m + 1 .. n2 : req_to_blocks'[r][i] \in Blocks
    BY <2>1, <2>2, ElementOfSeq
  <2>4. m + 1 \in Int /\ n2 \in Int
    OBVIOUS
  <2> QED BY <1>6, <2>2, <2>3, <2>4, SubSeqProperties
<1>11. PICK later \in Nat \ {0} : later = step.req_index + 1
  BY StepFields
<1>12. PICK left \in Nat : left = step.token_budget - n
  BY <1>3
<1>13. /\ step'.req_index = later
       /\ step'.num_scheduled_tokens = [step.num_scheduled_tokens EXCEPT ![r] = n]
       /\ step'.scheduled_running = step.scheduled_running \cup {r}
       /\ step'.scheduled_new = step.scheduled_new
       /\ step'.num_drafts = [step.num_drafts EXCEPT ![r] = drafts]
       /\ step'.preempted = step.preempted
  BY <1>7, <1>11, StepFields DEF StepType
<1>14. step' \in StepType
  <2> DEFINE zero == 0
             none == <<>>
             first == [step EXCEPT !.req_index = later, !.request = none,
                                   !.num_new_tokens = zero, !.token_budget = left]
             second == [first EXCEPT !.num_scheduled_tokens[r] = n,
                                     !.scheduled_running = @ \cup {r}]
             third == [second EXCEPT !.num_drafts[r] = drafts, !.new_blocks[r] = added]
  <2>1. none \in {<<>>} \cup {<<s>> : s \in Requests} /\ zero \in Nat
    OBVIOUS
  <2> HIDE DEF zero, none
  <2>2. first \in StepType
    BY <2>1, StepFields DEF StepType
  <2> HIDE DEF first
  <2>3. second \in StepType
    BY <2>2 DEF StepType
  <2> HIDE DEF second
  <2>4. third \in StepType
    BY <1>10, <2>3 DEF StepType
  <2>5. step' = third
    BY <1>7, <1>11, <1>12, StepFields DEF StepType, first, second, third, zero, none
  <2> QED BY <2>4, <2>5
<1>15. SchedTypeOK'
  <2>1. spec_token_ids' \in [Requests -> Nat]
    BY <1>7 DEF SchedInv, SchedTypeOK
  <2> QED BY <1>1, <1>7, <1>8, <1>14, <2>1
          DEF SchedInv, SchedTypeOK, queueVars, grammarVars, Labels
<1>16. QueueInv' /\ ErrorsInv'
  BY <1>1, <1>7 DEF SchedInv, QueueInv, ErrorsInv, Queued, queueVars, grammarVars
<1>17. WaitingHoldsNothing'
  <2>1. running' = running
    BY <1>7 DEF queueVars
  <2> QED BY <1>2, <1>7, <1>9, <2>1 DEF SchedInv, WaitingHoldsNothing
<1>18. /\ Scheduled' = Scheduled \cup {r}
       /\ step'.num_scheduled_tokens[r] = n /\ step'.num_drafts[r] = drafts
       /\ \A s \in Requests \ {r} :
            /\ step'.num_scheduled_tokens[s] = step.num_scheduled_tokens[s]
            /\ step'.num_drafts[s] = step.num_drafts[s]
  <2>1. \A s \in Requests : step'.num_scheduled_tokens[s] =
                              IF s = r THEN n ELSE step.num_scheduled_tokens[s]
    BY <1>13, StepFields
  <2>2. \A s \in Requests : step'.num_drafts[s] = IF s = r THEN drafts ELSE step.num_drafts[s]
    BY <1>13, StepFields
  <2>3. n > 0
    OBVIOUS
  <2>4. Scheduled' = Scheduled \cup {r}
    BY <2>1, <2>3 DEF Scheduled
  <2> QED BY <2>1, <2>2, <2>4
<1>19. BatchInv'
  <2>1. /\ Scheduled = step.scheduled_running \cup step.scheduled_new
        /\ step.scheduled_new = {}
        /\ Scheduled \subseteq Range(running) /\ step.preempted \cap Range(running) = {}
        /\ \A s \in Requests : step.num_drafts[s] > 0 =>
                                 s \in step.scheduled_running \cup step.preempted
    BY <1>1 DEF SchedInv, BatchInv, Deciding
  <2>2. running' = running
    BY <1>7 DEF queueVars
  <2>3. ASSUME NEW s \in Requests, step'.num_drafts[s] > 0
        PROVE  s \in step'.scheduled_running \cup step'.preempted
    BY <1>13, <1>18, <2>1, <2>3
  <2>4. \A i \in 1 .. Len(running) : i >= later => running[i] \notin Scheduled'
    BY <1>1, <1>2, <1>11, <1>18, TurnsToCome, StepFields
  <2>5. DOMAIN running' = 1 .. Len(running)
    BY <2>2, RunningList
  <2> QED BY <1>1, <1>2, <1>13, <1>18, <2>1, <2>2, <2>3, <2>4, <2>5 DEF BatchInv, Deciding
<1>20. CountInv'
  <2>1. \A s \in Requests : Settled(s)' = Settled(s)
    BY <1>7 DEF Settled, num_tokens
  <2>2. \A s \in Requests \ {r} : Planned(s)' = Planned(s)
    BY <1>7, <1>18 DEF Planned, num_tokens
  <2>3. Planned(r)'
    <3>1. end >= num_tokens(r) => end = num_tokens(r) + drafts
      BY <1>2, <1>3, <1>4, <1>5, Counters DEF AtLeastZero
    <3> QED BY <1>4, <1>7, <1>18, <3>1 DEF Planned, num_tokens
  <2>4. ASSUME NEW i \in 1 .. Len(running), NEW s \in Requests, s = running[i]
        PROVE  Settled(s)' /\ (s \in Scheduled' => Planned(s)')
    <3>1. s \notin step.scheduled_new
      BY <1>1 DEF SchedInv, BatchInv
    <3>2. Settled(s) /\ (s \in Scheduled => Planned(s))
      BY <1>1, <2>4, <3>1, RunningList DEF SchedInv, CountInv, Deciding
    <3>3. CASE s = r
      BY <2>1, <2>3, <3>2, <3>3
    <3>4. CASE s # r
      BY <1>18, <2>1, <2>2, <3>2, <3>4
    <3> QED BY <3>3, <3>4
  <2>5. running' = running /\ DOMAIN running = 1 .. Len(running)
    BY <1>7, RunningList DEF queueVars
  <2>6. \A i \in 1 .. Len(running) : running[i] \in Requests
    BY RunningList
  <2> QED BY <1>1, <2>4, <2>5, <2>6 DEF CountInv, Deciding
<1> QED BY <1>8, <1>15, <1>16, <1>17, <1>19, <1>20 DEF SchedInv

\* A cached prefix leaves the request at least one token to run.
LEMMA HitIsShort ==
    ASSUME PoolInv, NEW r \in Requests, NEW hit \in ComputedBlocks(r, 0),
           all_token_ids[r] # <<>>
    PROVE  /\ Len(hit) \in Nat /\ Len(hit) * BlockSize \in Nat
           /\ Len(hit) * BlockSize < Len(all_token_ids[r])
<1>1. /\ hit \in Seq(Blocks)
      /\ \A i \in DOMAIN hit : i * BlockSize < Len(all_token_ids[r])
  BY HitProperties
<1>2. Len(hit) \in Nat /\ DOMAIN hit = 1 .. Len(hit)
  BY <1>1, LenProperties
<1>3. Len(hit) * BlockSize \in Nat
  BY <1>2, SizesAssumption
<1>4. Len(all_token_ids[r]) \in Nat \ {0}
  <2>1. all_token_ids[r] \in Seq(Tokens)
    BY DEF PoolInv, TypeOK
  <2> QED BY <2>1, LenProperties, EmptySeq
<1>5. CASE Len(hit) = 0
  <2>1. Len(hit) * BlockSize = 0
    BY <1>5, SizesAssumption
  <2> QED BY <1>2, <1>4, <2>1
<1>6. CASE Len(hit) # 0
  <2>1. Len(hit) \in DOMAIN hit
    BY <1>2, <1>6
  <2> QED BY <1>1, <1>2, <1>3, <2>1
<1> QED BY <1>5, <1>6

LEMMA AdmitWaitingPreserves ==
    ASSUME SchedInv, AdmitWaiting
    PROVE  SchedInv'
<1>1. waiting # <<>> /\ pc = "waiting" /\ pc' = pc /\ step.token_budget > 0
  BY DEF AdmitWaiting, Eligible, InWaitingLoop
<1>2. PICK r \in Requests : r = NextWaiting /\ r = waiting[1] /\ r \in Range(waiting)
  BY <1>1, Queues, TailProperties, InjectiveSeq DEF NextWaiting
<1>3. r \notin Range(running) /\ r \in Queued /\ r \in Range(requests) /\ r \notin Range(skipped_waiting)
  BY <1>2, Queues
<1>4. num_computed_tokens[r] = 0 /\ req_to_blocks[r] = <<>> /\ all_token_ids[r] # <<>>
  BY <1>3 DEF SchedInv, WaitingHoldsNothing, QueueInv
<1>5. PICK hit \in ComputedBlocks(r, 0) :
        LET cached == Len(hit) * BlockSize
            n      == Least(NumTokensToPrefill(r, hit), step.token_budget)
        IN  /\ AllocateSlots(r, cached + n, hit)
            /\ num_computed_tokens' = [num_computed_tokens EXCEPT ![r] = cached]
            /\ step' = [step EXCEPT !.num_scheduled_tokens[r] = n,
                                    !.token_budget = @ - n,
                                    !.scheduled_new = @ \cup {r},
                                    !.new_blocks[r] = req_to_blocks'[r]]
  BY <1>2, <1>4 DEF AdmitWaiting
<1>6. PICK cached \in Nat : cached = Len(hit) * BlockSize /\ cached < num_tokens(r)
  BY <1>4, HitIsShort DEF SchedInv, num_tokens
<1>7. PICK n \in Nat \ {0} : /\ n = Least(NumTokensToPrefill(r, hit), step.token_budget)
                             /\ n <= step.token_budget /\ cached + n <= num_tokens(r)
  BY SMTT(30), <1>1, <1>6, Counters, BudgetAssumption DEF Least, NumTokensToPrefill, Chunk
<1>8. PICK left \in Nat : left = step.token_budget - n
  BY <1>7, StepFields
<1>9. PICK table : table = req_to_blocks'[r]
  OBVIOUS
<1>10. /\ AllocateSlots(r, cached + n, hit)
       /\ num_computed_tokens' = [num_computed_tokens EXCEPT ![r] = cached]
       /\ step' = [step EXCEPT !.num_scheduled_tokens[r] = n, !.token_budget = left,
                               !.scheduled_new = @ \cup {r}, !.new_blocks[r] = table]
  BY <1>5, <1>6, <1>7, <1>8, <1>9
<1>11. /\ waiting' = Tail(waiting) /\ running' = Append(running, r)
       /\ status' = [status EXCEPT ![r] = "RUNNING"]
       /\ UNCHANGED <<all_token_ids, requests, skipped_waiting, num_prompt_tokens,
                      spec_token_ids, is_prefill_chunk, grammarVars, finished_req_ids>>
  BY <1>2 DEF AdmitWaiting
<1>12. PoolInv' /\ TypeOK'
  <2>1. /\ hit \in Seq(Blocks) /\ IsInjective(hit)
        /\ \A i \in DOMAIN hit : /\ i * BlockSize <= Len(all_token_ids[r])
                                 /\ block_hash[hit[i]] = BlockHash(r, i)
                                 /\ block_hash[hit[i]] # NoHash
    BY HitProperties DEF SchedInv
  <2>2. cached + n \in Nat
    BY <1>6, <1>7
  <2> QED BY <1>4, <1>10, <1>11, <2>1, <2>2, AllocateSlotsPreserves DEF SchedInv, PoolInv
<1>13. \A s \in Requests \ {r} : req_to_blocks'[s] = req_to_blocks[s]
  BY <1>10 DEF AllocateSlots, SchedInv, SchedTypeOK, TypeOK
<1>14. table \in Seq(Blocks)
  BY <1>9, <1>12 DEF TypeOK
<1>15. step' \in StepType
  <2>1. [step EXCEPT !.num_scheduled_tokens[r] = n, !.token_budget = left] \in StepType
    BY StepFields DEF StepType
  <2>2. [[step EXCEPT !.num_scheduled_tokens[r] = n, !.token_budget = left]
           EXCEPT !.scheduled_new = @ \cup {r}, !.new_blocks[r] = table] \in StepType
    BY <1>14, <2>1 DEF StepType
  <2>3. step' = [[step EXCEPT !.num_scheduled_tokens[r] = n, !.token_budget = left]
                   EXCEPT !.scheduled_new = @ \cup {r}, !.new_blocks[r] = table]
    BY <1>10, StepFields DEF StepType
  <2> QED BY <2>2, <2>3
<1>16. /\ step'.num_scheduled_tokens = [step.num_scheduled_tokens EXCEPT ![r] = n]
       /\ step'.scheduled_running = step.scheduled_running
       /\ step'.scheduled_new = step.scheduled_new \cup {r}
       /\ step'.num_drafts = step.num_drafts
       /\ step'.preempted = step.preempted
  BY <1>10, StepFields DEF StepType
<1>17. /\ Scheduled' = Scheduled \cup {r}
       /\ step'.num_scheduled_tokens[r] = n
       /\ \A s \in Requests \ {r} :
            step'.num_scheduled_tokens[s] = step.num_scheduled_tokens[s]
  <2>1. \A s \in Requests : step'.num_scheduled_tokens[s] =
                              IF s = r THEN n ELSE step.num_scheduled_tokens[s]
    BY <1>16, StepFields
  <2>2. n > 0
    OBVIOUS
  <2>3. Scheduled' = Scheduled \cup {r}
    BY <2>1, <2>2 DEF Scheduled
  <2> QED BY <2>1, <2>3
<1>18. /\ num_computed_tokens' \in [Requests -> Nat] /\ num_computed_tokens'[r] = cached
       /\ \A s \in Requests \ {r} : num_computed_tokens'[s] = num_computed_tokens[s]
  BY <1>10 DEF SchedInv, SchedTypeOK
<1>19. /\ status' \in [Requests -> {"WAITING", "WAITING_FOR_GRAMMAR", "RUNNING", "PREEMPTED",
                                    "FINISHED"}]
       /\ status'[r] = "RUNNING"
       /\ \A s \in Requests \ {r} : status'[s] = status[s]
  BY <1>11 DEF SchedInv, SchedTypeOK
<1>20. /\ running' \in Seq(Requests) /\ IsInjective(running')
       /\ Len(running') = Len(running) + 1
       /\ DOMAIN running' = 1 .. Len(running) + 1
       /\ \A i \in 1 .. Len(running) + 1 : running'[i] = IF i <= Len(running) THEN running[i] ELSE r
       /\ Range(running') = Range(running) \cup {r}
  <2>1. /\ running' \in Seq(Requests) /\ IsInjective(running')
        /\ Len(running') = Len(running) + 1
        /\ \A i \in 1 .. Len(running) + 1 :
             running'[i] = IF i <= Len(running) THEN running[i] ELSE r
        /\ Range(running') = Range(running) \cup {r}
    BY <1>3, <1>11, RunningList, AppendOne
  <2>2. DOMAIN running' = 1 .. Len(running')
    BY <2>1, LenProperties
  <2> QED BY <2>1, <2>2
<1>21. /\ waiting' \in Seq(Requests) /\ IsInjective(waiting')
       /\ Range(waiting') = Range(waiting) \ {r}
  BY <1>1, <1>2, <1>11, Queues, TailProperties
<1>22. SchedTypeOK'
  BY SMTT(30), <1>1, <1>11, <1>12, <1>15, <1>18, <1>19, <1>20, <1>21
     DEF SchedInv, SchedTypeOK, grammarVars
<1>23. QueueInv'
  <2>1. Queued' = Queued \ {r} /\ skipped_waiting' = skipped_waiting
    BY <1>3, <1>11, <1>21 DEF Queued
  <2>2. Range(running') \cap Queued' = {} /\ Range(requests') = Range(running') \cup Queued'
    BY <1>3, <1>11, <1>20, <2>1, Queues
  <2>3. ASSUME NEW s \in Requests
        PROVE  /\ s \in Range(running') <=> status'[s] = "RUNNING"
               /\ s \in Range(requests') <=> status'[s] # "FINISHED"
               /\ s \in Range(requests') => all_token_ids'[s] # <<>>
    <3>1. CASE s = r
      BY <1>3, <1>4, <1>11, <1>19, <1>20, <3>1
    <3>2. CASE s # r
      BY <1>11, <1>19, <1>20, <3>2 DEF SchedInv, QueueInv
    <3> QED BY <3>1, <3>2
  <2>4. Range(waiting') \cap Range(skipped_waiting') = {}
    BY <1>21, <2>1, Queues
  <2>5. requests' = requests /\ pc' = "waiting"
    BY <1>1, <1>11
  <2> QED BY <1>20, <1>21, <2>1, <2>2, <2>3, <2>4, <2>5, Queues DEF QueueInv
<1>24. WaitingHoldsNothing'
  <2>1. ASSUME NEW s \in Requests, s \notin Range(running')
        PROVE  req_to_blocks'[s] = <<>> /\ num_computed_tokens'[s] = 0
    <3>1. s # r /\ s \notin Range(running)
      BY <1>20, <2>1
    <3> QED BY <1>13, <1>18, <3>1 DEF SchedInv, WaitingHoldsNothing
  <2> QED BY <2>1 DEF WaitingHoldsNothing
<1>25. ErrorsInv'
  BY <1>1, <1>2, <1>11, <1>20, <1>21 DEF SchedInv, ErrorsInv, grammarVars
<1>26. /\ Scheduled = step.scheduled_running \cup step.scheduled_new
       /\ step.scheduled_running \cap step.scheduled_new = {}
       /\ Scheduled \subseteq Range(running) /\ step.preempted = {}
       /\ \A s \in Requests : step.num_drafts[s] > 0 =>
                                s \in step.scheduled_running \cup step.preempted
  BY <1>1 DEF SchedInv, BatchInv, Deciding
<1>27. BatchInv'
  BY <1>1, <1>3, <1>16, <1>17, <1>20, <1>26 DEF BatchInv, Deciding
<1>28. CountInv'
  <2>1. \A s \in Requests \ {r} : Settled(s)' = Settled(s) /\ Planned(s)' = Planned(s)
    BY <1>11, <1>16, <1>17, <1>18 DEF Settled, Planned, num_tokens
  <2>2. Planned(r)'
    <3>1. step'.num_drafts[r] = 0
      BY <1>3, <1>16, <1>26, Counters
    <3>2. num_tokens(r)' = num_tokens(r)
      BY <1>11 DEF num_tokens
    <3> QED BY <1>7, <1>17, <1>18, <3>1, <3>2, Counters DEF Planned
  <2>3. ASSUME NEW i \in 1 .. Len(running) + 1
        PROVE  \E t \in Requests : /\ t = running'[i]
                                   /\ t \notin step'.scheduled_new => Settled(t)'
                                   /\ t \in Scheduled' => Planned(t)'
    <3>1. CASE i = Len(running) + 1
      BY <1>16, <1>20, <2>2, <3>1, RunningList
    <3>2. CASE i # Len(running) + 1
      <4>1. i \in 1 .. Len(running)
        BY <3>2, RunningList
      <4>2. PICK t \in Requests : t = running[i] /\ t = running'[i]
        BY <1>20, <4>1, RunningList
      <4>3. t # r
        BY <1>3, <4>1, <4>2, RunningList
      <4>4. /\ t \notin step.scheduled_new => Settled(t)
            /\ t \in Scheduled => Planned(t)
        BY <1>1, <4>1, <4>2, RunningList DEF SchedInv, CountInv, Deciding
      <4> QED BY <1>16, <1>17, <2>1, <4>2, <4>3, <4>4
    <3> QED BY <3>1, <3>2
  <2> QED BY <1>1, <1>20, <2>3 DEF CountInv, Deciding
<1> QED BY <1>12, <1>22, <1>23, <1>24, <1>25, <1>27, <1>28 DEF SchedInv

------------------------------------------------------------------------------
(* update_from_output(): the output arrives.                                *)

\* A request that goes on got all that was sampled: the accepted drafts and one more.
LEMMA AllIsKept ==
    ASSUME SchedInv, NEW r \in Requests, NEW sampled \in SampledTokens(r),
           ~CheckStop(r, Extended(r, sampled, NumKept(r, sampled)))
    PROVE  LET kept == Extended(r, sampled, NumKept(r, sampled)) IN
           \E accepted \in Nat :
             /\ accepted <= step.num_drafts[r]
             /\ sampled \in Seq(Tokens) /\ Len(sampled) = accepted + 1
             /\ kept \in Seq(Tokens) /\ Len(kept) = num_tokens(r) + accepted + 1
             /\ \A i \in 1 .. num_tokens(r) : kept[i] = all_token_ids[r][i]
             /\ \A k \in DOMAIN sampled : /\ ~CheckStop(r, Extended(r, sampled, k))
                                          /\ kept[num_tokens(r) + k] = sampled[k]
<1>1. PICK accepted \in 0 .. step.num_drafts[r] : sampled \in [1 .. accepted + 1 -> Tokens]
  BY DEF SampledTokens
<1>2. accepted \in Nat /\ accepted <= step.num_drafts[r]
  BY <1>1, Counters
<1>3. sampled \in Seq(Tokens) /\ Len(sampled) = accepted + 1 /\ DOMAIN sampled = 1 .. accepted + 1
  BY <1>1, <1>2
<1> DEFINE stops == {k \in DOMAIN sampled : CheckStop(r, Extended(r, sampled, k))}
<1>4. stops = {}
  <2>1. SUFFICES ASSUME stops # {} PROVE FALSE
    OBVIOUS
  <2>2. stops \in SUBSET Nat
    BY <1>2, <1>3
  <2>3. \E k \in stops : \A j \in stops : k <= j
    <3> HIDE DEF stops
    <3> QED BY <2>1, <2>2, LeastElement
  <2>4. NumKept(r, sampled) = CHOOSE k \in stops : \A j \in stops : k <= j
    BY <2>1 DEF NumKept
  <2>5. NumKept(r, sampled) \in stops
    <3> HIDE DEF stops
    <3> QED BY <2>3, <2>4
  <2> QED BY <2>5
<1>5. NumKept(r, sampled) = accepted + 1
  BY <1>3, <1>4 DEF NumKept
<1>6. SubSeq(sampled, 1, accepted + 1) = sampled
  BY <1>2, <1>3, SubSeqFull
<1> DEFINE kept == Extended(r, sampled, NumKept(r, sampled))
           old == all_token_ids[r]
<1>7. kept = old \o sampled
  BY <1>5, <1>6 DEF Extended
<1>8. old \in Seq(Tokens) /\ Len(old) = num_tokens(r) /\ Len(old) \in Nat
  BY Counters DEF num_tokens, SchedInv, SchedTypeOK, TypeOK
<1> HIDE DEF kept, old, stops
<1>9. /\ kept \in Seq(Tokens) /\ Len(kept) = Len(old) + accepted + 1
      /\ \A i \in 1 .. Len(old) + accepted + 1 :
           kept[i] = IF i <= Len(old) THEN old[i] ELSE sampled[i - Len(old)]
  BY <1>2, <1>3, <1>7, <1>8, ConcatProperties
<1>10. \A i \in 1 .. num_tokens(r) : kept[i] = old[i]
  BY <1>2, <1>8, <1>9
<1>11. \A k \in DOMAIN sampled : kept[num_tokens(r) + k] = sampled[k]
  BY <1>2, <1>3, <1>8, <1>9
<1>12. \A k \in DOMAIN sampled : ~CheckStop(r, Extended(r, sampled, k))
  BY <1>4 DEF stops
<1> QED BY <1>2, <1>3, <1>8, <1>9, <1>10, <1>11, <1>12 DEF kept, old

LEMMA UpdateContinuesPreserves ==
    ASSUME SchedInv, NEW r \in Requests, NEW sampled \in SampledTokens(r),
           NEW drafts \in 0 .. NumSpecTokens, UpdateContinues(r, sampled, drafts)
    PROVE  SchedInv'
<1>1. /\ pc = "update" /\ pc' = pc /\ step.req_index <= Len(running) /\ r = NextRunning
      /\ step.num_scheduled_tokens[r] > 0 /\ ~is_prefill_chunk[r]
      /\ ~CheckStop(r, Extended(r, sampled, NumKept(r, sampled)))
      /\ step' = [step EXCEPT !.req_index = @ + 1]
      /\ UNCHANGED <<kvVars, queueVars, num_prompt_tokens, is_prefill_chunk, grammarVars,
                     finished_req_ids>>
  BY DEF UpdateContinues, Sampled, Updating
<1>2. PICK accepted \in Nat, kept \in Seq(Tokens) :
        /\ kept = Extended(r, sampled, NumKept(r, sampled))
        /\ accepted <= step.num_drafts[r]
        /\ sampled \in Seq(Tokens) /\ Len(sampled) = accepted + 1
        /\ Len(kept) = num_tokens(r) + accepted + 1
        /\ \A i \in 1 .. num_tokens(r) : kept[i] = all_token_ids[r][i]
  BY <1>1, AllIsKept
<1>3. PICK p \in 1 .. Len(running) : p = step.req_index /\ running[p] = r
  <2>1. step.req_index \in Nat \ {0} /\ Len(running) \in Nat
    BY StepFields, RunningList
  <2>2. step.req_index \in 1 .. Len(running) /\ running[step.req_index] = r
    BY <1>1, <2>1 DEF NextRunning
  <2> QED BY <2>2
\* The rejected drafts are taken back from a count that includes all of them.
<1>4. /\ r \in Scheduled
      /\ num_computed_tokens[r] = num_tokens(r) + step.num_drafts[r]
  <2>1. r \in Scheduled
    BY <1>1, Counters
  <2>2. p >= step.req_index
    BY <1>3, StepFields
  <2>3. Pending(r)
    BY <1>1, <1>3, <2>1, <2>2, RunningList DEF SchedInv, CountInv
  <2> QED BY <1>1, <2>1, <2>3 DEF Pending
<1>5. PICK c \in Nat : /\ c = num_computed_tokens[r] - NumRejected(r, sampled)
                       /\ c = num_tokens(r) + accepted
  BY <1>2, <1>4, Counters DEF NumRejected
<1>6. /\ all_token_ids' = [all_token_ids EXCEPT ![r] = kept]
      /\ num_computed_tokens' = [num_computed_tokens EXCEPT ![r] = c]
  BY <1>2, <1>5 DEF UpdateContinues, SchedInv, SchedTypeOK
<1>7. PICK d \in Nat : spec_token_ids' = [spec_token_ids EXCEPT ![r] = d]
  <2>1. drafts \in Nat /\ spec_token_ids[r] \in Nat
    BY Counters, BudgetAssumption
  <2>2. spec_token_ids' = [spec_token_ids EXCEPT ![r] = IF NumSpecTokens > 0 THEN drafts ELSE @]
    BY DEF UpdateContinues
  <2>3. CASE NumSpecTokens > 0
    BY <2>1, <2>2, <2>3
  <2>4. CASE ~(NumSpecTokens > 0)
    <3>1. spec_token_ids' = [spec_token_ids EXCEPT ![r] = spec_token_ids[r]]
      BY <2>2, <2>4
    <3> QED BY <2>1, <3>1
  <2> QED BY <2>3, <2>4
<1>8. /\ all_token_ids' \in [Requests -> Seq(Tokens)] /\ all_token_ids'[r] = kept
      /\ \A s \in Requests \ {r} : all_token_ids'[s] = all_token_ids[s]
      /\ num_computed_tokens' \in [Requests -> Nat] /\ num_computed_tokens'[r] = c
      /\ \A s \in Requests \ {r} : num_computed_tokens'[s] = num_computed_tokens[s]
  BY <1>6 DEF SchedInv, SchedTypeOK, TypeOK
<1>9. PoolInv' /\ TypeOK'
  <2>1. ASSUME NEW s \in Requests
        PROVE  \/ req_to_blocks[s] = <<>>
               \/ /\ Len(all_token_ids[s]) <= Len(all_token_ids'[s])
                  /\ \A i \in 1 .. Len(all_token_ids[s]) :
                       all_token_ids'[s][i] = all_token_ids[s][i]
    <3>1. CASE s = r
      <4>1. PICK n \in Nat : n = Len(all_token_ids[r]) /\ n = num_tokens(r)
        BY Counters DEF num_tokens
      <4>2. Len(kept) = n + accepted + 1 /\ \A i \in 1 .. n : kept[i] = all_token_ids[r][i]
        BY <1>2, <4>1
      <4>3. n <= Len(kept)
        BY <4>2
      <4> QED BY <1>8, <3>1, <4>1, <4>2, <4>3
    <3>2. CASE s # r
      <4>1. all_token_ids'[s] = all_token_ids[s] /\ Len(all_token_ids[s]) \in Nat
        BY <1>8, <3>2, Counters DEF num_tokens
      <4> QED BY <4>1
    <3> QED BY <3>1, <3>2
  <2> QED BY <1>1, <1>8, <2>1, TokensPreserve DEF SchedInv, PoolInv
<1>10. step' \in StepType
  BY <1>1, StepFields DEF StepType
<1>11. SchedTypeOK'
  <2>1. spec_token_ids' \in [Requests -> Nat]
    BY <1>7 DEF SchedInv, SchedTypeOK
  <2> QED BY <1>1, <1>8, <1>9, <1>10, <2>1 DEF SchedInv, SchedTypeOK, queueVars, grammarVars
<1>12. kept # <<>>
  BY <1>2, Counters, EmptySeq
<1>13. QueueInv'
  <2>1. \A s \in Requests : s \in Range(requests) => all_token_ids'[s] # <<>>
    BY <1>8, <1>12 DEF SchedInv, QueueInv
  <2> QED BY <1>1, <2>1 DEF SchedInv, QueueInv, Queued, queueVars
<1>14. WaitingHoldsNothing'
  <2>1. r \in Range(running)
    BY <1>3, RunningList
  <2> QED BY <1>1, <1>8, <2>1 DEF SchedInv, WaitingHoldsNothing, queueVars, kvVars
<1>15. ErrorsInv'
  BY <1>1 DEF SchedInv, ErrorsInv, queueVars, grammarVars
<1>16. BatchInv'
  BY <1>1 DEF BatchInv, Deciding
<1>17. /\ Scheduled' = Scheduled /\ step'.num_drafts = step.num_drafts
       /\ step'.req_index = step.req_index + 1
  BY <1>1, StepFields DEF StepType, Scheduled
<1>18. CountInv'
  <2>1. Settled(r)'
    <3>1. num_tokens(r)' = num_tokens(r) + accepted + 1 /\ is_prefill_chunk' = is_prefill_chunk
      BY <1>1, <1>2, <1>8 DEF num_tokens
    <3> QED BY <1>1, <1>5, <1>8, <3>1, Counters DEF Settled
  <2>2. \A s \in Requests \ {r} : Settled(s)' = Settled(s) /\ Pending(s)' = Pending(s)
    BY <1>1, <1>8, <1>17 DEF Settled, Pending, num_tokens
  <2>3. ASSUME NEW i \in 1 .. Len(running), NEW s \in Requests, s = running[i]
        PROVE  IF s \in Scheduled /\ i >= p + 1 THEN Pending(s)' ELSE Settled(s)'
    <3>1. IF s \in Scheduled /\ i >= p THEN Pending(s) ELSE Settled(s)
      BY <1>1, <1>3, <2>3, RunningList DEF SchedInv, CountInv
    <3>2. CASE i = p
      BY <1>3, <2>1, <2>3, <3>2
    <3>3. CASE i # p
      <4>1. s # r
        BY <1>3, <2>3, <3>3, RunningList
      <4>2. i >= p + 1 <=> i >= p
        BY <3>3
      <4> QED BY <2>2, <3>1, <4>1, <4>2
    <3> QED BY <3>2, <3>3
  <2>4. running' = running /\ DOMAIN running = 1 .. Len(running)
    BY <1>1, RunningList DEF queueVars
  <2>5. \A i \in 1 .. Len(running) : running[i] \in Requests
    BY RunningList
  <2> QED BY <1>1, <1>3, <1>17, <2>3, <2>4, <2>5 DEF CountInv, Deciding
<1> QED BY <1>9, <1>11, <1>13, <1>14, <1>15, <1>16, <1>18 DEF SchedInv

------------------------------------------------------------------------------
(* Preemption.                                                              *)

\* There is a victim, and it is running: the last of the list, or the least urgent.
LEMMA VictimIsRunning ==
    ASSUME SchedInv, pc = "allocate"
    PROVE  \E p \in 1 .. Len(running) :
             /\ running[p] = Victim
             /\ Policy = "fcfs" => p = Len(running)
<1>1. PICK r \in Requests : r \in Range(running)
  BY CurrentIsRunning
<1>2. Len(running) \in Nat /\ Len(running) # 0
  BY <1>1, RunningList
<1>3. CASE Policy = "fcfs"
  BY <1>2, <1>3 DEF Victim
<1>4. CASE Policy # "fcfs"
  <2> DEFINE S == Range(running)
             h == HeapOrder(S, requests)
             N == Cardinality(S)
  <2>1. S \in SUBSET Range(requests) /\ requests \in Seq(Requests) /\ IsInjective(requests)
    BY Queues
  <2>2. /\ h \in Seq(Requests) /\ Len(h) = N /\ Range(h) = S
        /\ \A i, j \in 1 .. Len(h) : i < j => Precedes(h[i], h[j], requests)
    <3> HIDE DEF S
    <3> QED BY <2>1, HeapOrderProperties
  <2>3. N = Len(running)
    BY RunningList, InjectiveLen
  <2> HIDE DEF S, h, N
  <2>4. N \in 1 .. N /\ Range(h) = {h[i] : i \in 1 .. N}
    BY <1>2, <2>2, <2>3, InjectiveSeq
  <2>5. h[N] \in S
    BY <2>2, <2>4
  <2>6. \A s \in S \ {h[N]} : Precedes(s, h[N], requests)
    <3>1. SUFFICES ASSUME NEW s \in S \ {h[N]} PROVE Precedes(s, h[N], requests)
      OBVIOUS
    <3>2. PICK i \in 1 .. N : s = h[i]
      BY <2>2, <2>4
    <3>3. i < N
      BY <2>4, <3>1, <3>2
    <3> QED BY <2>2, <2>4, <3>2, <3>3
  <2>7. Victim = CHOOSE v \in S : \A s \in S \ {v} : Precedes(s, v, requests)
    BY <1>4 DEF Victim, S
  <2>8. Victim \in S
    BY <2>5, <2>6, <2>7
  <2> QED BY <1>4, <2>8, RunningList DEF S
<1> QED BY <1>3, <1>4

\* What is known of the decision after a preemption, position by position.
LEMMA PreemptStep ==
    ASSUME SchedInv, Preempt
    PROVE  \E p \in 1 .. Len(running), v \in Requests, r \in Requests :
             /\ v = running[p] /\ v = Victim /\ r = CurrentRequest
             /\ pc = "allocate" /\ pc' = (IF v = r THEN "finish" ELSE "allocate")
             /\ r \in Range(running) /\ r \notin Scheduled
             /\ Policy = "fcfs" => p = Len(running)
             /\ step' \in StepType
             /\ step'.request = IF v = r THEN <<>> ELSE step.request
             /\ step'.num_new_tokens = step.num_new_tokens
             /\ step'.num_drafts = step.num_drafts
             /\ step'.preempted = step.preempted \cup {v}
             /\ step'.scheduled_new = {}
             /\ step'.scheduled_running = step.scheduled_running \ {v}
             /\ \A s \in Requests : step'.num_scheduled_tokens[s] =
                                      IF s = v THEN 0 ELSE step.num_scheduled_tokens[s]
             /\ IF v \in Scheduled
                THEN /\ Policy = "priority" /\ p < step.req_index
                     /\ step'.req_index = step.req_index - 1
                     /\ step'.token_budget = step.token_budget + step.num_scheduled_tokens[v]
                ELSE /\ step'.req_index = step.req_index
                     /\ step'.token_budget = step.token_budget
<1>1. pc = "allocate"
  BY DEF Preempt
<1>2. PICK p \in 1 .. Len(running), v \in Requests :
        v = running[p] /\ v = Victim /\ (Policy = "fcfs" => p = Len(running))
  BY <1>1, VictimIsRunning, RunningList
<1>3. PICK r \in Requests :
        /\ r = CurrentRequest /\ r \in Range(running) /\ r \notin Scheduled
        /\ Policy = "fcfs" => step.req_index <= Len(running)
  BY <1>1, CurrentIsRunning
<1>4. PICK req \in {<<>>} \cup {<<s>> : s \in Requests} :
        req = IF v = r THEN <<>> ELSE step.request
  <2>1. step.request \in {<<>>} \cup {<<s>> : s \in Requests}
    BY StepFields DEF StepType
  <2> QED BY <2>1
<1>5. /\ step' = [Refund(v) EXCEPT !.preempted = @ \cup {v}, !.request = req]
      /\ pc' = IF v = r THEN "finish" ELSE "allocate"
  <2>1. /\ step' = [Refund(v) EXCEPT !.preempted = @ \cup {v},
                                     !.request = IF v = r THEN <<>> ELSE @]
        /\ pc' = IF v = r THEN "finish" ELSE "allocate"
    BY <1>2, <1>3 DEF Preempt, Goto
  <2>2. Refund(v).request = step.request /\ DOMAIN Refund(v) = DOMAIN step
    BY StepFields DEF Refund, StepType
  <2> QED BY <1>4, <2>1, <2>2
<1>6. /\ Scheduled = step.scheduled_running /\ step.scheduled_new = {}
  BY <1>1 DEF SchedInv, BatchInv, Deciding
<1>7. CASE v \in Scheduled
  <2>0. p \in Nat /\ Len(running) \in Nat /\ step.req_index \in Nat
    BY SMTT(30), StepFields, RunningList
  <2>1. p < step.req_index
    <3>1. ~ (p >= step.req_index)
      BY <1>1, <1>2, <1>7, TurnsToCome
    <3> QED BY <2>0, <3>1
  <2>2. Policy = "priority"
    <3>1. Policy # "fcfs"
      BY <1>2, <1>3, <2>0, <2>1
    <3> QED BY <3>1, PolicyAssumption
  <2>3. PICK i \in Nat \ {0} : i = step.req_index - 1
    BY <2>1, StepFields
  <2>4. PICK b \in Nat : b = step.token_budget + step.num_scheduled_tokens[v]
    BY Counters
  <2> DEFINE zero == 0
             none == <<>>
             back == [step EXCEPT !.req_index = i, !.token_budget = b,
                                  !.num_scheduled_tokens[v] = zero]
             last == [back EXCEPT !.scheduled_running = @ \ {v}, !.new_blocks[v] = none]
             full == [last EXCEPT !.preempted = @ \cup {v}, !.request = req]
  <2>5. zero \in Nat /\ none \in Seq(Blocks)
    BY EmptySeq
  <2>6. Refund(v) = last
    BY <1>6, <1>7, <2>2, <2>3, <2>4, StepFields DEF Refund, StepType
  <2> HIDE DEF zero, none
  <2>7. /\ back \in StepType
        /\ back.req_index = i /\ back.token_budget = b
        /\ back.num_scheduled_tokens = [step.num_scheduled_tokens EXCEPT ![v] = zero]
        /\ back.num_new_tokens = step.num_new_tokens /\ back.num_drafts = step.num_drafts
        /\ back.preempted = step.preempted /\ back.scheduled_new = step.scheduled_new
        /\ back.scheduled_running = step.scheduled_running
    BY <2>5, StepFields DEF StepType
  <2> HIDE DEF back
  <2>8. /\ last \in StepType
        /\ last.req_index = i /\ last.token_budget = b
        /\ last.num_scheduled_tokens = [step.num_scheduled_tokens EXCEPT ![v] = zero]
        /\ last.num_new_tokens = step.num_new_tokens /\ last.num_drafts = step.num_drafts
        /\ last.preempted = step.preempted /\ last.scheduled_new = step.scheduled_new
        /\ last.scheduled_running = step.scheduled_running \ {v}
    BY <2>5, <2>7 DEF StepType
  <2> HIDE DEF last
  <2>9. /\ full \in StepType
        /\ full.request = req
        /\ full.req_index = i /\ full.token_budget = b
        /\ full.num_scheduled_tokens = [step.num_scheduled_tokens EXCEPT ![v] = zero]
        /\ full.num_new_tokens = step.num_new_tokens /\ full.num_drafts = step.num_drafts
        /\ full.preempted = step.preempted \cup {v} /\ full.scheduled_new = step.scheduled_new
        /\ full.scheduled_running = step.scheduled_running \ {v}
    BY <2>8 DEF StepType
  <2>10. step' = full
    BY <1>5, <2>6
  <2> HIDE DEF full
  <2>11. \A s \in Requests : step'.num_scheduled_tokens[s] =
                               IF s = v THEN 0 ELSE step.num_scheduled_tokens[s]
    BY <2>9, <2>10, StepFields DEF zero
  <2> QED BY <1>1, <1>2, <1>3, <1>4, <1>5, <1>6, <1>7, <2>1, <2>2, <2>3, <2>4, <2>9, <2>10, <2>11
<1>8. CASE v \notin Scheduled
  <2> DEFINE full == [step EXCEPT !.preempted = @ \cup {v}, !.request = req]
  <2>1. /\ full \in StepType
        /\ full.request = req
        /\ full.req_index = step.req_index /\ full.token_budget = step.token_budget
        /\ full.num_scheduled_tokens = step.num_scheduled_tokens
        /\ full.num_new_tokens = step.num_new_tokens /\ full.num_drafts = step.num_drafts
        /\ full.preempted = step.preempted \cup {v} /\ full.scheduled_new = step.scheduled_new
        /\ full.scheduled_running = step.scheduled_running
    BY StepFields DEF StepType
  <2>2. step' = full
    BY <1>5, <1>6, <1>8 DEF Refund
  <2> HIDE DEF full
  <2>3. \A s \in Requests : step'.num_scheduled_tokens[s] =
                              IF s = v THEN 0 ELSE step.num_scheduled_tokens[s]
    <3>1. step.num_scheduled_tokens[v] = 0
      BY <1>8, Counters
    <3> QED BY <2>1, <2>2, <3>1
  <2>4. step'.scheduled_running = step.scheduled_running \ {v}
    BY <1>6, <1>8, <2>1, <2>2
  <2>5. /\ step' \in StepType /\ step'.request = IF v = r THEN <<>> ELSE step.request
        /\ step'.num_new_tokens = step.num_new_tokens /\ step'.num_drafts = step.num_drafts
        /\ step'.preempted = step.preempted \cup {v} /\ step'.scheduled_new = {}
        /\ step'.req_index = step.req_index /\ step'.token_budget = step.token_budget
    BY <1>4, <1>6, <2>1, <2>2
  <2> QED BY <1>1, <1>2, <1>3, <1>5, <1>8, <2>3, <2>4, <2>5
<1> QED BY <1>7, <1>8

LEMMA PreemptPreserves ==
    ASSUME SchedInv, Preempt
    PROVE  SchedInv'
<1>1. PICK p \in 1 .. Len(running), v \in Requests, r \in Requests :
        /\ v = running[p] /\ v = Victim /\ r = CurrentRequest
        /\ pc = "allocate" /\ pc' = (IF v = r THEN "finish" ELSE "allocate")
        /\ r \in Range(running) /\ r \notin Scheduled
        /\ Policy = "fcfs" => p = Len(running)
        /\ step' \in StepType
        /\ step'.request = IF v = r THEN <<>> ELSE step.request
        /\ step'.num_new_tokens = step.num_new_tokens
        /\ step'.num_drafts = step.num_drafts
        /\ step'.preempted = step.preempted \cup {v}
        /\ step'.scheduled_new = {}
        /\ step'.scheduled_running = step.scheduled_running \ {v}
        /\ \A s \in Requests : step'.num_scheduled_tokens[s] =
                                 IF s = v THEN 0 ELSE step.num_scheduled_tokens[s]
        /\ IF v \in Scheduled
           THEN /\ Policy = "priority" /\ p < step.req_index
                /\ step'.req_index = step.req_index - 1
                /\ step'.token_budget = step.token_budget + step.num_scheduled_tokens[v]
           ELSE /\ step'.req_index = step.req_index
                /\ step'.token_budget = step.token_budget
  BY PreemptStep
\* The same, in parts.
<1>1a. v = running[p] /\ v = Victim /\ r = CurrentRequest
  BY <1>1
<1>1b. pc = "allocate" /\ pc' = (IF v = r THEN "finish" ELSE "allocate")
  BY <1>1
<1>1c. step' \in StepType
  BY <1>1
<1>2. /\ Free(v)
      /\ running' = Without(running, v)
      /\ waiting' = PrependRequests(waiting, <<v>>, requests)
      /\ status' = [status EXCEPT ![v] = "PREEMPTED"]
      /\ num_computed_tokens' = Cleared(num_computed_tokens, {v})
      /\ spec_token_ids' = Cleared(spec_token_ids, {v})
      /\ UNCHANGED <<all_token_ids, requests, skipped_waiting, num_prompt_tokens,
                     is_prefill_chunk, grammarVars, finished_req_ids>>
  BY <1>1a DEF Preempt
<1>3. v \in Range(running) /\ v \notin Queued /\ v \in Range(requests) /\ v \notin Range(waiting)
  <2>1. v \in Range(running)
    BY <1>1a, RunningList
  <2> QED BY <2>1, Queues
<1>4. /\ running' \in Seq(Requests) /\ IsInjective(running')
      /\ Range(running') = Range(running) \ {v}
      /\ Len(running') = Len(running) - 1 /\ DOMAIN running' = 1 .. Len(running) - 1
      /\ \A n \in 1 .. Len(running) - 1 : running'[n] = IF n < p THEN running[n] ELSE running[n + 1]
  <2>1. /\ running' \in Seq(Requests) /\ IsInjective(running')
        /\ Range(running') = Range(running) \ {v}
        /\ Len(running') = Len(running) - 1
        /\ \A n \in 1 .. Len(running) - 1 :
             running'[n] = IF n < p THEN running[n] ELSE running[n + 1]
    <3>1. /\ Without(running, running[p]) \in Seq(Requests)
          /\ Len(Without(running, running[p])) = Len(running) - 1
          /\ \A n \in 1 .. Len(running) - 1 :
               Without(running, running[p])[n] = IF n < p THEN running[n] ELSE running[n + 1]
          /\ Range(Without(running, running[p])) = Range(running) \ {running[p]}
          /\ IsInjective(Without(running, running[p]))
      BY RunningList, WithoutOne
    <3>2. running' = Without(running, running[p])
      BY <1>2, <1>1a
    <3> QED BY <1>1a, <3>1, <3>2
  <2>2. DOMAIN running' = 1 .. Len(running')
    BY <2>1, LenProperties
  <2> QED BY <2>1, <2>2
<1>5. /\ waiting' \in Seq(Requests) /\ IsInjective(waiting')
      /\ Range(waiting') = Range(waiting) \cup {v}
  <2>1. <<v>> \in Seq(Requests) /\ IsInjective(<<v>>) /\ Range(<<v>>) = {v}
    BY DEF IsInjective, Range
  <2> DEFINE front == <<v>>
  <2>2. Range(waiting) \cup Range(front) \subseteq Range(requests)
        /\ Range(front) \cap Range(waiting) = {}
    BY <1>3, <2>1, Queues
  <2>3. front \in Seq(Requests) /\ IsInjective(front) /\ Range(front) = {v}
    BY <2>1
  <2>4. waiting' = PrependRequests(waiting, front, requests)
    BY <1>2
  <2> HIDE DEF front
  <2> QED BY <2>2, <2>3, <2>4, Queues, PrependRequestsProperties
<1>6. PoolInv' /\ TypeOK'
  <2>1. all_token_ids' \in [Requests -> Seq(Tokens)]
        /\ \A s \in Requests \ {v} : all_token_ids'[s] = all_token_ids[s]
    BY <1>2 DEF SchedInv, SchedTypeOK, TypeOK
  <2> QED BY <1>2, <2>1, FreePreserves DEF SchedInv, PoolInv
<1>7. /\ req_to_blocks'[v] = <<>>
      /\ \A s \in Requests \ {v} : req_to_blocks'[s] = req_to_blocks[s]
  BY <1>2 DEF Free, SchedInv, SchedTypeOK, TypeOK
<1>8. /\ num_computed_tokens' \in [Requests -> Nat] /\ spec_token_ids' \in [Requests -> Nat]
      /\ num_computed_tokens'[v] = 0
      /\ \A s \in Requests \ {v} : /\ num_computed_tokens'[s] = num_computed_tokens[s]
                                   /\ spec_token_ids'[s] = spec_token_ids[s]
  BY <1>2 DEF Cleared, SchedInv, SchedTypeOK
<1>9. /\ status' \in [Requests -> {"WAITING", "WAITING_FOR_GRAMMAR", "RUNNING", "PREEMPTED",
                                   "FINISHED"}]
      /\ status'[v] = "PREEMPTED"
      /\ \A s \in Requests \ {v} : status'[s] = status[s]
  BY <1>2 DEF SchedInv, SchedTypeOK
<1>10. pc' \in {"finish", "allocate"}
  BY <1>1b
<1>11. SchedTypeOK'
  <2>1. UNCHANGED <<requests, skipped_waiting, num_prompt_tokens, is_prefill_chunk,
                    grammarVars, finished_req_ids>>
    BY <1>2
  <2>2. step' \in StepType
    BY <1>1c
  <2>3. running' \in Seq(Requests) /\ waiting' \in Seq(Requests)
    BY <1>4, <1>5
  <2> QED BY <1>6, <1>8, <1>9, <1>10, <2>1, <2>2, <2>3
          DEF SchedInv, SchedTypeOK, grammarVars, Labels
<1>12. QueueInv'
  <2>1. Queued' = Queued \cup {v} /\ skipped_waiting' = skipped_waiting
    BY <1>2, <1>5 DEF Queued
  <2>2. skipped_waiting = <<>> /\ Range(skipped_waiting) = {}
    BY <1>1b DEF SchedInv, QueueInv, Range
  <2>3. Range(running') \cap Queued' = {} /\ Range(requests') = Range(running') \cup Queued'
    BY <1>2, <1>3, <1>4, <2>1, Queues
  <2>4. ASSUME NEW s \in Requests
        PROVE  /\ s \in Range(running') <=> status'[s] = "RUNNING"
               /\ s \in Range(requests') <=> status'[s] # "FINISHED"
               /\ s \in Range(requests') => all_token_ids'[s] # <<>>
    <3>1. CASE s = v
      BY <1>2, <1>3, <1>4, <1>9, <3>1 DEF SchedInv, QueueInv
    <3>2. CASE s # v
      BY <1>2, <1>4, <1>9, <3>2 DEF SchedInv, QueueInv
    <3> QED BY <3>1, <3>2
  <2> QED BY <1>2, <1>4, <1>5, <2>1, <2>2, <2>3, <2>4, Queues DEF QueueInv
<1>13. WaitingHoldsNothing'
  <2>1. ASSUME NEW s \in Requests, s \notin Range(running')
        PROVE  req_to_blocks'[s] = <<>> /\ num_computed_tokens'[s] = 0
    <3>1. CASE s = v
      BY <1>7, <1>8, <3>1
    <3>2. CASE s # v
      <4>1. s \notin Range(running)
        BY <1>4, <2>1, <3>2
      <4> QED BY <1>7, <1>8, <3>2, <4>1 DEF SchedInv, WaitingHoldsNothing
    <3> QED BY <3>1, <3>2
  <2> QED BY <2>1 DEF WaitingHoldsNothing
<1>14. ErrorsInv'
  BY <1>2, <1>10, <1>1b DEF SchedInv, ErrorsInv, grammarVars
<1>15. Scheduled' = Scheduled \ {v}
  BY <1>1 DEF Scheduled
<1>16. /\ Scheduled = step.scheduled_running \cup step.scheduled_new
       /\ step.scheduled_new = {}
       /\ Scheduled \subseteq Range(running) /\ step.preempted \cap Range(running) = {}
       /\ \A s \in Requests : step.num_drafts[s] > 0 =>
                                s \in step.scheduled_running \cup step.preempted
  BY <1>1b DEF SchedInv, BatchInv, Deciding
\* Where the requests that stay have moved.
<1>17. /\ p \in Nat /\ Len(running) \in Nat /\ step.req_index \in Nat
       /\ step'.req_index \in Nat \ {0}
       /\ step.token_budget \in Nat /\ step.num_scheduled_tokens[v] \in Nat
       /\ step.num_new_tokens \in Nat
  BY <1>1c, StepFields, RunningList, Counters DEF StepType
<1>18. ASSUME NEW i \in 1 .. Len(running) - 1
       PROVE  \E j \in 1 .. Len(running) :
                /\ j # p /\ running'[i] = running[j] /\ j = (IF i < p THEN i ELSE i + 1)
  <2>1. (IF i < p THEN i ELSE i + 1) \in 1 .. Len(running) \ {p}
    BY <1>17
  <2> QED BY <1>4, <2>1
<1>19. BatchInv'
  <2>1. /\ Scheduled' = step'.scheduled_running \cup step'.scheduled_new
        /\ step'.scheduled_running \cap step'.scheduled_new = {}
        /\ Scheduled' \subseteq Range(running')
        /\ step'.preempted \cap Range(running') = {}
        /\ \A s \in Requests : step'.num_drafts[s] > 0 =>
                                 s \in step'.scheduled_running \cup step'.preempted
    BY <1>1, <1>4, <1>15, <1>16
  <2>2. ASSUME v # r
        PROVE  /\ step'.scheduled_new = {}
               /\ \A i \in DOMAIN running' : i >= step'.req_index => running'[i] \notin Scheduled'
               /\ step'.request # <<>>
               /\ CurrentRequest' = r
               /\ r \in Range(running') \ Scheduled'
               /\ \A i \in DOMAIN running' : running'[i] = r => i <= step'.req_index
               /\ Policy = "fcfs" => step'.req_index \in DOMAIN running'
                                     /\ running'[step'.req_index] = r
               /\ step'.num_new_tokens \in 1 .. step'.token_budget
               /\ num_computed_tokens'[r] + step'.num_new_tokens
                    <= Least(num_tokens(r)' + spec_token_ids'[r], MaxModelLen)
    <3>1. /\ \A i \in 1 .. Len(running) : running[i] = r => i <= step.req_index
          /\ Policy = "fcfs" => step.req_index <= Len(running) /\ running[step.req_index] = r
          /\ step.num_new_tokens \in 1 .. step.token_budget
          /\ num_computed_tokens[r] + step.num_new_tokens <= num_tokens(r) + spec_token_ids[r]
          /\ num_computed_tokens[r] + step.num_new_tokens <= MaxModelLen
      BY <1>1, CurrentIsRunning
    <3>2. ASSUME NEW i \in 1 .. Len(running) - 1, i >= step'.req_index
          PROVE  running'[i] \notin Scheduled'
      <4>1. PICK j \in 1 .. Len(running) :
              j # p /\ running'[i] = running[j] /\ j = (IF i < p THEN i ELSE i + 1)
        BY <1>18
      <4>2. j >= step.req_index
        BY <1>1, <1>17, <3>2, <4>1
      <4>3. running[j] \notin Scheduled
        BY <1>1, <4>2, TurnsToCome
      <4> QED BY <1>15, <4>1, <4>3
    <3>3. ASSUME NEW i \in 1 .. Len(running) - 1, running'[i] = r
          PROVE  i <= step'.req_index
      <4>1. PICK j \in 1 .. Len(running) :
              j # p /\ running'[i] = running[j] /\ j = (IF i < p THEN i ELSE i + 1)
        BY <1>18
      <4>2. j <= step.req_index
        BY <3>1, <3>3, <4>1
      <4> QED BY <1>1, <1>17, <4>1, <4>2
    <3>4. ASSUME Policy = "fcfs"
          PROVE  step'.req_index \in DOMAIN running' /\ running'[step'.req_index] = r
      <4>1. p = Len(running) /\ step.req_index <= Len(running) /\ running[step.req_index] = r
        BY <1>1, <3>1, <3>4
      <4>2. step'.req_index = step.req_index
        BY <1>1, <3>4
      <4>3. step.req_index # p
        BY <1>1, <2>2, <4>1
      <4>4. step.req_index \in 1 .. Len(running) - 1 /\ step.req_index < p
        BY <1>17, <4>1, <4>2, <4>3
      <4> QED BY <1>4, <4>1, <4>2, <4>4
    <3>5. step'.token_budget \in Nat /\ step.token_budget <= step'.token_budget
      BY <1>1, <1>17
    <3>6. step'.num_new_tokens \in 1 .. step'.token_budget
      BY <1>1, <1>17, <3>1, <3>5
    <3>7. num_computed_tokens'[r] + step'.num_new_tokens
            <= Least(num_tokens(r)' + spec_token_ids'[r], MaxModelLen)
      BY <1>1, <1>2, <1>8, <2>2, <3>1 DEF num_tokens, Least
    <3>8. step'.request # <<>> /\ CurrentRequest' = r
      <4>1. step'.request = step.request
        BY <1>1, <2>2
      <4>2. step.request # <<>>
        BY <1>1 DEF SchedInv, BatchInv
      <4> QED BY <1>1, <4>1, <4>2 DEF CurrentRequest
    <3>9. r \in Range(running') \ Scheduled'
      BY <1>1, <1>4, <1>15, <2>2
    <3> QED BY <1>1, <1>4, <3>2, <3>3, <3>4, <3>6, <3>7, <3>8, <3>9
  <2>3. pc' = "allocate" => v # r
    BY <1>1
  <2> QED BY <1>10, <2>1, <2>2, <2>3 DEF BatchInv, Deciding, NextRunning
<1>20. CountInv'
  <2>1. \A s \in Requests \ {v} : Settled(s)' = Settled(s) /\ Planned(s)' = Planned(s)
    BY <1>1, <1>2, <1>8 DEF Settled, Planned, num_tokens
  <2>2. ASSUME NEW i \in 1 .. Len(running) - 1
        PROVE  \E t \in Requests : /\ t = running'[i]
                                   /\ Settled(t)'
                                   /\ t \in Scheduled' => Planned(t)'
    <3>1. PICK j \in 1 .. Len(running) : j # p /\ running'[i] = running[j]
      BY <1>18
    <3>2. PICK t \in Requests : t = running[j] /\ t = running'[i]
      BY <3>1, RunningList
    <3>3. t # v
      BY <1>1a, <3>1, <3>2, RunningList
    <3>4. Settled(t) /\ (t \in Scheduled => Planned(t))
      <4>1. j \in DOMAIN running /\ t = running[j]
        BY <3>2, RunningList
      <4>2. pc = "allocate" /\ t \notin step.scheduled_new
        BY <1>16, <1>1b
      <4> QED BY <4>1, <4>2 DEF SchedInv, CountInv, Deciding
    <3> QED BY <1>15, <2>1, <3>2, <3>3, <3>4
  <2> QED BY <1>4, <1>10, <2>2 DEF CountInv, Deciding
<1> QED BY <1>6, <1>11, <1>12, <1>13, <1>14, <1>19, <1>20 DEF SchedInv

------------------------------------------------------------------------------
(* The invariant.                                                           *)

LEMMA NextSched ==
    ASSUME SchedInv, [SchedNext]_svars
    PROVE  SchedInv'
<1>1. CASE UNCHANGED svars
  <2>1. UNCHANGED <<vars, queueVars, requestVars, grammarVars, finished_req_ids, pc, step>>
    BY <1>1 DEF svars, schedVars
  <2>2. PoolInv' /\ TypeOK'
    BY <2>1, PoolStays DEF SchedInv, PoolInv
  <2>3. SchedTypeOK'
    BY <2>1, <2>2 DEF SchedInv, SchedTypeOK, queueVars, requestVars, grammarVars
  <2>4. QueueInv' /\ WaitingHoldsNothing' /\ ErrorsInv'
    BY <2>1 DEF SchedInv, QueueInv, WaitingHoldsNothing, ErrorsInv, Queued, queueVars,
                requestVars, grammarVars, vars, kvVars
  <2>5. BatchInv' /\ CountInv'
    BY <2>1 DEF SchedInv, BatchInv, CountInv, Settled, Planned, Pending, Deciding, Scheduled,
                CurrentRequest, NextRunning, num_tokens, queueVars, requestVars, vars
  <2> QED BY <2>2, <2>3, <2>4, <2>5 DEF SchedInv
<1>2. CASE ClientStep
  BY <1>2, AbortPreserves, AddPreserves, ResetCachePreserves DEF ClientStep
<1>3. CASE CompileStep
  <2>1. PICK r \in Structured, outcome \in {"ready", "failed"} : CompileGrammar(r, outcome)
    BY <1>3 DEF CompileStep
  <2>2. r \in Requests
    BY <2>1, PolicyAssumption
  <2> QED BY <2>1, <2>2, CompileGrammarPreserves
<1>4. CASE ScheduleStep
  BY <1>4, StartSchedulePreserves, ConsiderRunningPreserves, SkipRunningPreserves,
     AllocateRunningPreserves, PreemptPreserves, EndRunningPreserves, SkipLoraPreserves,
     SkipGrammarPreserves, PromoteGrammarPreserves, AdmitWaitingPreserves,
     EndAdmissionPreserves DEF ScheduleStep
<1>5. CASE FinishSchedule
  BY <1>5, FinishSchedulePreserves
<1>6. CASE UpdateStep
  <2>1. CASE BeginUpdate
    BY <2>1, BeginUpdatePreserves
  <2>2. CASE EndUpdate
    BY <2>2, EndUpdatePreserves
  <2>3. ASSUME NEW r \in Requests, UpdateSkipped(r) \/ UpdateChunk(r) PROVE SchedInv'
    BY <2>3, UpdateSkippedPreserves, UpdateChunkPreserves
  <2>4. ASSUME NEW r \in Requests, UpdatePooled(r) PROVE SchedInv'
    BY <2>4, LeavePreserves DEF UpdatePooled, Sampled
  <2>5. ASSUME NEW r \in Requests, NEW sampled \in SampledTokens(r), UpdateStops(r, sampled)
        PROVE  SchedInv'
    BY <2>5, LeavePreserves DEF UpdateStops, Sampled
  <2>6. ASSUME NEW r \in Requests, NEW sampled \in SampledTokens(r),
               NEW drafts \in 0 .. NumSpecTokens, UpdateContinues(r, sampled, drafts)
        PROVE  SchedInv'
    BY <2>6, UpdateContinuesPreserves
  <2> QED BY <1>6, <2>1, <2>2, <2>3, <2>4, <2>5, <2>6 DEF UpdateStep
<1> QED BY <1>1, <1>2, <1>3, <1>4, <1>5, <1>6 DEF SchedNext

\* The queues, the batch under construction, the block tables and the computed counts
\* agree in every state, whatever clients, the pool and the model do.
THEOREM SchedulerInvariant == SchedSpec => []SchedInv
<1>1. SchedInit => SchedInv
  BY InitSched
<1>2. SchedInv /\ [SchedNext]_svars => SchedInv'
  BY NextSched
<1> QED BY <1>1, <1>2, PTL DEF SchedSpec

==============================================================================
