---------------------------- MODULE KVCacheProofs ----------------------------
(***************************************************************************)
(* Proofs that the pool invariants of KVCache hold for every number of     *)
(* requests, blocks and tokens and every block size; and what the prefix   *)
(* cache promises beyond the bookkeeping: that a common prefix decided     *)
(* from reference counts is common, and that eviction leaves no hole in a  *)
(* chain of cached blocks.                                                 *)
(***************************************************************************)
EXTENDS KVCache, FiniteSetTheorems, FunctionTheorems, SequenceTheorems, TLAPS

------------------------------------------------------------------------------
(* Filter keeps exactly the elements of the set, in order and without       *)
(* repetition.                                                              *)

\* Among the positions that are kept, Rank grows strictly.
LEMMA RankMonotonic ==
    ASSUME NEW T, NEW s \in Seq(T), NEW S,
           NEW i \in 1 .. Len(s), NEW j \in 1 .. Len(s), i < j, s[j] \in S
    PROVE  /\ Rank(s, S, i) \in Nat
           /\ Rank(s, S, i) < Rank(s, S, j)
<1> DEFINE I == {k \in 1 .. i : s[k] \in S}
           J == {k \in 1 .. j : s[k] \in S}
<1>1. IsFiniteSet(1 .. j)
  BY FS_Interval
<1>2. IsFiniteSet(J) /\ Cardinality(J) \in Nat
  BY <1>1, FS_Subset, FS_CardinalityType
<1>3. I \in SUBSET J /\ I # J
  <2>1. j \in J /\ j \notin I
    OBVIOUS
  <2> QED BY <2>1
<1>4. /\ IsFiniteSet(I)
      /\ Cardinality(I) <= Cardinality(J)
      /\ Cardinality(J) = Cardinality(I) => J = I
  BY <1>2, <1>3, FS_Subset
<1>5. Cardinality(I) \in Nat
  BY <1>4, FS_CardinalityType
<1> QED BY <1>2, <1>3, <1>4, <1>5 DEF Rank

\* What Filter returns.
LEMMA FilterProperties ==
    ASSUME NEW T, NEW s \in Seq(T), NEW S
    PROVE  /\ Filter(s, S) \in Seq(T)
           /\ Range(Filter(s, S)) = Range(s) \cap S
           /\ IsInjective(s) => IsInjective(Filter(s, S))
           /\ \A m, n \in DOMAIN Filter(s, S) : m < n =>
                \E i, j \in DOMAIN s : i < j /\ s[i] = Filter(s, S)[m] /\ s[j] = Filter(s, S)[n]
<1> DEFINE K == {i \in 1 .. Len(s) : s[i] \in S}
           N == Cardinality(K)
           f == [i \in K |-> Rank(s, S, i)]
           pos(n) == CHOOSE i \in DOMAIN s : s[i] \in S /\ Rank(s, S, i) = n
<1>0. Len(s) \in Nat /\ DOMAIN s = 1 .. Len(s) /\ \A i \in 1 .. Len(s) : s[i] \in T
  BY LenProperties, ElementOfSeq
<1>1. IsFiniteSet(K) /\ N \in Nat
  <2>1. IsFiniteSet(1 .. Len(s)) /\ K \in SUBSET (1 .. Len(s))
    BY <1>0, FS_Interval
  <2>2. IsFiniteSet(K)
    BY <2>1, FS_Subset
  <2> QED BY <2>2, FS_CardinalityType
<1>2. f \in Injection(K, 1 .. N)
  <2>1. ASSUME NEW i \in K PROVE Rank(s, S, i) \in 1 .. N
    <3> DEFINE I == {k \in 1 .. i : s[k] \in S}
    <3>1. I \in SUBSET K /\ i \in I
      BY <1>0
    <3>2. IsFiniteSet(I) /\ Cardinality(I) <= N /\ Cardinality(I) \in Nat
      BY <3>1, <1>1, FS_Subset, FS_CardinalityType
    <3>3. Cardinality(I) # 0
      BY <3>1, <3>2, FS_EmptySet
    <3> QED BY <3>2, <3>3, <1>1 DEF Rank
  <2>2. ASSUME NEW i \in K, NEW j \in K, i < j PROVE Rank(s, S, i) # Rank(s, S, j)
    <3>1. Rank(s, S, i) \in Nat /\ Rank(s, S, i) < Rank(s, S, j)
      BY <2>2, RankMonotonic
    <3>2. Rank(s, S, j) \in Nat
      BY <2>1, <1>1
    <3> QED BY <3>1, <3>2
  <2>3. f \in [K -> 1 .. N]
    BY <2>1
  <2>4. ASSUME NEW i \in K, NEW j \in K, f[i] = f[j] PROVE i = j
    BY <2>2, <2>4, <1>0
  <2> QED BY <2>3, <2>4 DEF Injection, IsInjective
<1>3. f \in Surjection(K, 1 .. N)
  <2>1. IsFiniteSet(1 .. N) /\ Cardinality(1 .. N) = N
    BY <1>1, FS_Interval
  <2> QED BY <1>2, <2>1, FS_Injection
<1>4. ASSUME NEW n \in 1 .. N
      PROVE  pos(n) \in 1 .. Len(s) /\ s[pos(n)] \in S /\ Rank(s, S, pos(n)) = n
  <2>1. \E i \in K : f[i] = n
    BY <1>3 DEF Surjection
  <2>2. \E i \in DOMAIN s : s[i] \in S /\ Rank(s, S, i) = n
    BY <2>1, <1>0
  <2> QED BY <2>2, <1>0
<1>5. Filter(s, S) = [n \in 1 .. N |-> s[pos(n)]]
  BY <1>0 DEF Filter
<1>6. Filter(s, S) \in Seq(T)
  <2>1. ASSUME NEW n \in 1 .. N PROVE s[pos(n)] \in T
    BY <1>0, <1>4
  <2> DEFINE g(n) == s[pos(n)]
  <2>2. \A n \in 1 .. N : g(n) \in T
    BY <2>1
  <2> HIDE DEF g, N
  <2>3. [n \in 1 .. N |-> g(n)] \in Seq(T)
    BY <1>1, <2>2
  <2> QED BY <1>5, <2>3 DEF g
<1>7. DOMAIN Filter(s, S) = 1 .. N
  BY <1>5
<1>8. Range(Filter(s, S)) \subseteq Range(s) \cap S
  BY <1>0, <1>4, <1>5, <1>7 DEF Range
<1>9. ASSUME NEW x \in Range(s) \cap S PROVE x \in Range(Filter(s, S))
  <2>1. PICK i \in 1 .. Len(s) : s[i] = x
    BY <1>0 DEF Range
  <2>2. i \in K
    BY <2>1
  <2>3. f[i] \in 1 .. N
    BY <2>2, <1>2 DEF Injection
  <2>4. pos(f[i]) \in K /\ f[pos(f[i])] = f[i]
    BY <2>3, <2>2, <1>4
  <2>5. pos(f[i]) = i
    BY <2>4, <2>2, <1>2 DEF Injection, IsInjective
  <2> HIDE DEF K, N, f, pos
  <2>6. Filter(s, S)[f[i]] = x /\ f[i] \in DOMAIN Filter(s, S)
    BY <2>1, <2>3, <2>5, <1>5, <1>7
  <2> QED BY <2>6 DEF Range
<1>10. ASSUME IsInjective(s) PROVE IsInjective(Filter(s, S))
  <2>1. ASSUME NEW m \in 1 .. N, NEW n \in 1 .. N, Filter(s, S)[m] = Filter(s, S)[n]
        PROVE  m = n
    <3>1. s[pos(m)] = s[pos(n)]
      BY <2>1, <1>5
    <3>2. pos(m) = pos(n)
      BY <3>1, <1>4, <1>0, <1>10 DEF IsInjective
    <3> QED BY <3>2, <1>4
  <2> QED BY <2>1, <1>7 DEF IsInjective
<1>11. ASSUME NEW m \in 1 .. N, NEW n \in 1 .. N, m < n
       PROVE  \E i, j \in DOMAIN s : i < j /\ s[i] = Filter(s, S)[m] /\ s[j] = Filter(s, S)[n]
  <2>1. PICK i \in 1 .. Len(s), j \in 1 .. Len(s) : i = pos(m) /\ j = pos(n)
    BY <1>4
  <2>2. /\ s[i] \in S /\ Rank(s, S, i) = m /\ s[j] \in S /\ Rank(s, S, j) = n
        /\ s[i] = Filter(s, S)[m] /\ s[j] = Filter(s, S)[n]
    BY <1>4, <1>5, <2>1
  <2>3. i # j
    BY <1>11, <2>2
  <2>4. ~ (j < i)
    <3>1. ASSUME j < i PROVE n < m
      BY <2>2, <3>1, RankMonotonic
    <3> QED BY <1>11, <3>1
  <2> QED BY <1>0, <2>2, <2>3, <2>4
<1> QED BY <1>6, <1>7, <1>8, <1>9, <1>10, <1>11

------------------------------------------------------------------------------
(* The other sequence operations of the pool.                               *)

\* Reversing a block table keeps its blocks.
LEMMA ReversedProperties ==
    ASSUME NEW T, NEW s \in Seq(T)
    PROVE  /\ Reversed(s) \in Seq(T)
           /\ Range(Reversed(s)) = Range(s)
           /\ IsInjective(s) => IsInjective(Reversed(s))
<1>1. Len(s) \in Nat /\ DOMAIN s = 1 .. Len(s) /\ \A i \in 1 .. Len(s) : s[i] \in T
  BY LenProperties, ElementOfSeq
<1>2. Reversed(s) \in Seq(T) /\ DOMAIN Reversed(s) = 1 .. Len(s)
  BY <1>1 DEF Reversed
<1>3. \A i \in 1 .. Len(s) : Reversed(s)[i] = s[Len(s) + 1 - i]
  BY <1>1 DEF Reversed
<1>4. ASSUME NEW i \in 1 .. Len(s)
      PROVE  Len(s) + 1 - i \in 1 .. Len(s) /\ Reversed(s)[Len(s) + 1 - i] = s[i]
  BY <1>1, <1>3
<1>5. Range(Reversed(s)) = Range(s)
  BY SMTT(30), <1>1, <1>2, <1>3, <1>4 DEF Range
<1>6. ASSUME IsInjective(s) PROVE IsInjective(Reversed(s))
  BY <1>1, <1>2, <1>3, <1>6 DEF IsInjective
<1> QED BY <1>2, <1>5, <1>6

\* Concatenation of two sequences without common elements.
LEMMA ConcatInjective ==
    ASSUME NEW T, NEW s \in Seq(T), NEW t \in Seq(T)
    PROVE  /\ s \o t \in Seq(T)
           /\ Range(s \o t) = Range(s) \cup Range(t)
           /\ IsInjective(s) /\ IsInjective(t) /\ Range(s) \cap Range(t) = {}
                => IsInjective(s \o t)
<1>1. /\ Len(s) \in Nat /\ DOMAIN s = 1 .. Len(s)
      /\ Len(t) \in Nat /\ DOMAIN t = 1 .. Len(t)
  BY LenProperties
<1>2. /\ s \o t \in Seq(T)
      /\ DOMAIN (s \o t) = 1 .. Len(s) + Len(t)
      /\ \A i \in 1 .. Len(s) + Len(t) :
           (s \o t)[i] = IF i <= Len(s) THEN s[i] ELSE t[i - Len(s)]
  BY <1>1
<1>3. \A i \in 1 .. Len(t) : (s \o t)[Len(s) + i] = t[i] /\ Len(s) + i \in DOMAIN (s \o t)
  BY <1>1, <1>2
<1>4. Range(s \o t) \subseteq Range(s) \cup Range(t)
  <2>1. ASSUME NEW i \in DOMAIN (s \o t) PROVE (s \o t)[i] \in Range(s) \cup Range(t)
    <3>1. CASE i <= Len(s)
      BY <3>1, <1>1, <1>2 DEF Range
    <3>2. CASE ~(i <= Len(s))
      <4>1. i - Len(s) \in 1 .. Len(t) /\ (s \o t)[i] = t[i - Len(s)]
        BY <3>2, <1>1, <1>2
      <4> QED BY <4>1, <1>1 DEF Range
    <3> QED BY <3>1, <3>2
  <2> QED BY <2>1 DEF Range
<1>5. Range(s) \subseteq Range(s \o t)
  BY <1>1, <1>2 DEF Range
<1>6. Range(t) \subseteq Range(s \o t)
  BY <1>1, <1>3 DEF Range
<1>7. ASSUME IsInjective(s), IsInjective(t), Range(s) \cap Range(t) = {}
      PROVE  IsInjective(s \o t)
  <2>1. ASSUME NEW i \in 1 .. Len(s) + Len(t), NEW j \in 1 .. Len(s) + Len(t),
               (s \o t)[i] = (s \o t)[j], i <= Len(s), ~(j <= Len(s))
        PROVE  FALSE
    <3>1. (s \o t)[i] \in Range(s)
      BY <2>1, <1>1, <1>2 DEF Range
    <3>2. j - Len(s) \in 1 .. Len(t) /\ (s \o t)[j] = t[j - Len(s)]
      BY <2>1, <1>1, <1>2
    <3>3. (s \o t)[j] \in Range(t)
      BY <3>2, <1>1 DEF Range
    <3> QED BY <3>1, <3>3, <2>1, <1>7
  <2>2. ASSUME NEW i \in 1 .. Len(s) + Len(t), NEW j \in 1 .. Len(s) + Len(t),
               (s \o t)[i] = (s \o t)[j]
        PROVE  i = j
    <3>1. CASE i <= Len(s) /\ j <= Len(s)
      BY <3>1, <2>2, <1>1, <1>2, <1>7 DEF IsInjective
    <3>2. CASE ~(i <= Len(s)) /\ ~(j <= Len(s))
      <4>1. /\ i - Len(s) \in 1 .. Len(t) /\ (s \o t)[i] = t[i - Len(s)]
            /\ j - Len(s) \in 1 .. Len(t) /\ (s \o t)[j] = t[j - Len(s)]
        BY <3>2, <1>1, <1>2
      <4>2. i - Len(s) = j - Len(s)
        BY <4>1, <2>2, <1>1, <1>7 DEF IsInjective
      <4> QED BY <4>2, <1>1
    <3> QED BY <3>1, <3>2, <2>1, <2>2
  <2> QED BY <2>2, <1>2 DEF IsInjective
<1> QED BY <1>2, <1>4, <1>5, <1>6, <1>7

\* Cutting a sequence in two, as popleft_n does with the free queue.
LEMMA CutProperties ==
    ASSUME NEW T, NEW s \in Seq(T), NEW n \in 0 .. Len(s)
    PROVE  LET front == SubSeq(s, 1, n)
               back  == SubSeq(s, n + 1, Len(s))
           IN  /\ front \in Seq(T) /\ back \in Seq(T)
               /\ Len(front) = n
               /\ Range(s) = Range(front) \cup Range(back)
               /\ IsInjective(s) => /\ IsInjective(front) /\ IsInjective(back)
                                    /\ Range(front) \cap Range(back) = {}
<1> DEFINE front == SubSeq(s, 1, n)
           back  == SubSeq(s, n + 1, Len(s))
<1>1. Len(s) \in Nat /\ DOMAIN s = 1 .. Len(s) /\ \A i \in 1 .. Len(s) : s[i] \in T
  BY LenProperties, ElementOfSeq
<1>2. /\ front \in Seq(T) /\ Len(front) = n /\ DOMAIN front = 1 .. n
      /\ \A i \in 1 .. n : front[i] = s[i]
  BY <1>1
<1>3. /\ back \in Seq(T) /\ DOMAIN back = 1 .. Len(s) - n
      /\ \A i \in 1 .. Len(s) - n : back[i] = s[n + i]
  BY <1>1
<1> HIDE DEF front, back
<1>4. Range(front) = {s[i] : i \in 1 .. n}
  BY <1>2 DEF Range
<1>5. Range(back) = {s[i] : i \in n + 1 .. Len(s)}
  <2>1. ASSUME NEW i \in n + 1 .. Len(s) PROVE s[i] \in Range(back)
    <3>1. i - n \in 1 .. Len(s) - n /\ back[i - n] = s[i]
      BY <1>1, <1>3
    <3> QED BY <3>1, <1>3 DEF Range
  <2>2. ASSUME NEW i \in DOMAIN back PROVE back[i] \in {s[j] : j \in n + 1 .. Len(s)}
    <3>1. n + i \in n + 1 .. Len(s)
      BY <1>1, <1>3
    <3> QED BY <3>1, <1>3
  <2> QED BY <2>1, <2>2 DEF Range
<1>6. Range(s) = Range(front) \cup Range(back)
  <2>1. Range(s) = {s[i] : i \in 1 .. Len(s)}
    BY <1>1 DEF Range
  <2>2. 1 .. Len(s) = (1 .. n) \cup (n + 1 .. Len(s))
    BY <1>1
  <2> QED BY <2>1, <2>2, <1>4, <1>5
<1>7. ASSUME IsInjective(s)
      PROVE  /\ IsInjective(front) /\ IsInjective(back)
             /\ Range(front) \cap Range(back) = {}
  <2>1. IsInjective(front)
    BY <1>1, <1>2, <1>7 DEF IsInjective
  <2>2. IsInjective(back)
    <3>1. ASSUME NEW i \in 1 .. Len(s) - n, NEW j \in 1 .. Len(s) - n, back[i] = back[j]
          PROVE  i = j
      <4>1. n + i \in DOMAIN s /\ n + j \in DOMAIN s /\ s[n + i] = s[n + j]
        BY <3>1, <1>1, <1>3
      <4>2. n + i = n + j
        BY <4>1, <1>7 DEF IsInjective
      <4> QED BY <4>2, <1>1
    <3> QED BY <3>1, <1>3 DEF IsInjective
  <2>3. Range(front) \cap Range(back) = {}
    <3>1. ASSUME NEW i \in 1 .. n, NEW j \in n + 1 .. Len(s) PROVE s[i] # s[j]
      BY <1>1, <1>7 DEF IsInjective
    <3> QED BY <3>1, <1>4, <1>5
  <2> QED BY <2>1, <2>2, <2>3
<1> QED BY <1>2, <1>3, <1>6, <1>7 DEF front, back

\* A sequence without repetitions is as long as its range is large.
LEMMA InjectiveLen ==
    ASSUME NEW T, NEW s \in Seq(T), IsInjective(s)
    PROVE  IsFiniteSet(Range(s)) /\ Cardinality(Range(s)) = Len(s)
<1>1. Len(s) \in Nat /\ DOMAIN s = 1 .. Len(s)
  BY LenProperties
<1>2. IsFiniteSet(1 .. Len(s)) /\ Cardinality(1 .. Len(s)) = Len(s)
  BY <1>1, FS_Interval
<1>3. s \in [1 .. Len(s) -> Range(s)]
  BY <1>1 DEF Range
<1>4. s \in Surjection(1 .. Len(s), Range(s))
  BY <1>1, <1>3 DEF Surjection, Range
<1>5. s \in Injection(1 .. Len(s), Range(s))
  BY <1>1, <1>3 DEF Injection
<1> QED BY <1>2, <1>4, <1>5, FS_Surjection

\* The check of allocate_slots is sufficient: with the hits that sit in the free
\* queue counted, enough blocks are left once touch has removed them.
LEMMA EnoughBlocks ==
    ASSUME NEW T, NEW q \in Seq(T), IsInjective(q), NEW hit \in Seq(T), NEW n \in Nat,
           n + Cardinality({i \in DOMAIN hit : hit[i] \in Range(q)}) <= Len(q)
    PROVE  n <= Len(Filter(q, T \ Range(hit)))
<1> DEFINE E == {i \in DOMAIN hit : hit[i] \in Range(q)}
           X == Range(q) \cap Range(hit)
           g == [i \in E |-> hit[i]]
           rest == Filter(q, T \ Range(hit))
<1>0. /\ Len(q) \in Nat /\ DOMAIN q = 1 .. Len(q) /\ \A i \in 1 .. Len(q) : q[i] \in T
      /\ Len(hit) \in Nat /\ DOMAIN hit = 1 .. Len(hit)
  BY LenProperties, ElementOfSeq
<1>1. IsFiniteSet(E)
  <2>1. IsFiniteSet(1 .. Len(hit)) /\ E \in SUBSET (1 .. Len(hit))
    BY <1>0, FS_Interval
  <2> QED BY <2>1, FS_Subset
<1>2. g \in Surjection(E, X)
  <2>1. g \in [E -> X]
    BY DEF Range
  <2>2. \A x \in X : \E i \in E : g[i] = x
    BY DEF Range
  <2> QED BY <2>1, <2>2 DEF Surjection
<1>3. IsFiniteSet(X) /\ Cardinality(X) <= Cardinality(E)
  BY <1>1, <1>2, FS_Surjection
<1>4. IsFiniteSet(Range(q)) /\ Cardinality(Range(q)) = Len(q)
  BY InjectiveLen
<1>5. rest \in Seq(T) /\ IsInjective(rest) /\ Range(rest) = Range(q) \cap (T \ Range(hit))
  BY FilterProperties
<1>6. Range(rest) = Range(q) \ Range(hit)
  BY <1>0, <1>5 DEF Range
<1>7. Cardinality(Range(rest)) = Cardinality(Range(q)) - Cardinality(X)
  BY <1>4, <1>6, FS_Difference
<1>8. Cardinality(Range(rest)) = Len(rest)
  BY <1>5, InjectiveLen
<1>9. Cardinality(E) \in Nat /\ Cardinality(X) \in Nat
  BY <1>1, <1>3, FS_CardinalityType
<1> QED BY <1>0, <1>3, <1>4, <1>7, <1>8, <1>9

------------------------------------------------------------------------------
(* Hashes.                                                                  *)

\* A block that has a hash is filled by known tokens.
LEMMA FullBlocks ==
    ASSUME NEW n \in Nat, NEW i \in Nat, i <= n \div BlockSize
    PROVE  i * BlockSize <= n
BY SizesAssumption

LEMMA NumFullBlocks ==
    ASSUME NEW n \in Nat
    PROVE  n \div BlockSize \in Nat
<1> DEFINE q == n \div BlockSize
<1>1. q \in Int /\ BlockSize \in Nat /\ BlockSize > 0
  BY SizesAssumption
<1>2. n < BlockSize * (q + 1)
  BY SizesAssumption
<1> HIDE DEF q
<1>3. q + 1 > 0
  <2> SUFFICES ASSUME q + 1 <= 0 PROVE FALSE
    BY <1>1
  <2>1. BlockSize * (q + 1) <= 0
    BY <1>1
  <2> QED BY <2>1, <1>1, <1>2
<1>4. q \in Nat
  BY <1>1, <1>3
<1> QED BY <1>4 DEF q

\* The chained hashes of a request are hashes, and tell its blocks apart.
LEMMA BlockHashProperties ==
    ASSUME TypeOK, NEW r \in Requests,
           NEW i \in Nat, i * BlockSize <= Len(all_token_ids[r])
    PROVE  /\ BlockHash(r, i) \in Hashes
           /\ BlockHash(r, i) # NoHash
           /\ \A j \in Nat : j * BlockSize <= Len(all_token_ids[r]) /\ BlockHash(r, i) = BlockHash(r, j)
                => i = j
<1>1. all_token_ids[r] \in Seq(Tokens)
  BY DEF TypeOK
<1>2. ASSUME NEW j \in Nat, j * BlockSize <= Len(all_token_ids[r])
      PROVE  /\ SubSeq(all_token_ids[r], 1, j * BlockSize) \in Seq(Tokens)
             /\ Len(SubSeq(all_token_ids[r], 1, j * BlockSize)) = j * BlockSize
  <2>1. j * BlockSize \in Nat /\ j * BlockSize \in 0 .. Len(all_token_ids[r])
    BY <1>1, <1>2, SizesAssumption
  <2> DEFINE m == j * BlockSize
  <2> HIDE DEF m
  <2>2. m \in 0 .. Len(all_token_ids[r])
    BY <2>1 DEF m
  <2>3. /\ SubSeq(all_token_ids[r], 1, m) \in Seq(Tokens)
        /\ Len(SubSeq(all_token_ids[r], 1, m)) = m
    BY <1>1, <2>2
  <2> QED BY <2>3 DEF m
<1>3. BlockHash(r, i) \in Hashes
  <2>1. KeysUpTo(r, i) \in Keys
    BY DEF KeysUpTo, Keys
  <2> QED BY <1>2, <2>1 DEF BlockHash, Hashes
<1>4. ASSUME NEW j \in Nat, j * BlockSize <= Len(all_token_ids[r]),
             BlockHash(r, i) = BlockHash(r, j)
      PROVE  i = j
  <2>1. i * BlockSize = j * BlockSize
    BY <1>2, <1>4 DEF BlockHash
  <2> QED BY <2>1, SizesAssumption
<1> QED BY <1>3, <1>4, NoHashAssumption

------------------------------------------------------------------------------
(* The prefix cache lookup.                                                 *)

\* A hit is a run of distinct blocks that hold the request's own first blocks.
LEMMA HitProperties ==
    ASSUME PoolInv, NEW r \in Requests, NEW hit \in ComputedBlocks(r, 0)
    PROVE  /\ hit \in Seq(Blocks)
           /\ IsInjective(hit)
           /\ \A i \in DOMAIN hit : /\ i * BlockSize <= Len(all_token_ids[r])
                                    /\ block_hash[hit[i]] = BlockHash(r, i)
                                    /\ block_hash[hit[i]] # NoHash
                                    /\ i * BlockSize < Len(all_token_ids[r])
<1>1. CASE ~EnableCaching
  <2>1. hit = <<>>
    BY <1>1 DEF ComputedBlocks
  <2> QED BY <2>1 DEF IsInjective
<1>2. CASE EnableCaching
  <2> DEFINE n == Len(all_token_ids[r])
             cap == AtLeastZero(n - 1) \div BlockSize
             D == {i \in 1 .. cap : \A j \in 1 .. i : CachedBlocks(BlockHash(r, j)) # {}}
  <2>1. n \in Nat /\ cap \in Nat
    <3>1. all_token_ids[r] \in Seq(Tokens)
      BY DEF PoolInv, TypeOK
    <3>2. n \in Nat
      BY <3>1, LenProperties
    <3>3. AtLeastZero(n - 1) \in Nat
      BY <3>2 DEF AtLeastZero
    <3> QED BY <3>2, <3>3, NumFullBlocks
  <2>2. NumHitBlocks(r) \in 0 .. cap
    <3>0. D \in SUBSET (1 .. cap)
      OBVIOUS
    <3> HIDE DEF cap, D
    <3>1. IsFiniteSet(1 .. cap) /\ Cardinality(1 .. cap) = cap
      BY <2>1, FS_Interval
    <3>2. IsFiniteSet(D) /\ Cardinality(D) <= cap
      BY <3>0, <3>1, FS_Subset
    <3>3. Cardinality(D) \in Nat
      BY <3>2, FS_CardinalityType
    <3>4. Cardinality(D) \in 0 .. cap
      BY <3>2, <3>3, <2>1
    <3> QED BY <3>4 DEF NumHitBlocks, D, cap
  <2>3. /\ hit \in [1 .. NumHitBlocks(r) -> Blocks]
        /\ \A i \in DOMAIN hit : hit[i] \in CachedBlocks(BlockHash(r, i))
    BY <1>2 DEF ComputedBlocks
  <2>4. hit \in Seq(Blocks) /\ DOMAIN hit = 1 .. NumHitBlocks(r)
    BY <2>1, <2>2, <2>3
  <2>5. ASSUME NEW i \in DOMAIN hit
        PROVE  i \in Nat /\ i * BlockSize <= n /\ i * BlockSize < n
    <3>1. i \in Nat \ {0} /\ i <= cap
      BY <2>1, <2>2, <2>4
    <3>2. AtLeastZero(n - 1) \in Nat /\ AtLeastZero(n - 1) <= n
      BY <2>1 DEF AtLeastZero
    <3>3. i * BlockSize <= AtLeastZero(n - 1)
      BY <3>1, <3>2, FullBlocks
    <3>4. i * BlockSize \in Nat \ {0}
      BY <3>1, SizesAssumption
    <3>5. AtLeastZero(n - 1) = n - 1
      BY <2>1, <3>2, <3>3, <3>4 DEF AtLeastZero
    <3> QED BY <3>1, <3>2, <3>3, <3>4, <3>5, <2>1
  <2>6. ASSUME NEW i \in DOMAIN hit
        PROVE  block_hash[hit[i]] = BlockHash(r, i)
    <3>1. <<BlockHash(r, i), hit[i]>> \in cached_block_hash_to_block
      BY <2>3 DEF CachedBlocks
    <3> QED BY <3>1 DEF PoolInv, CacheMapExact
  <2>7. ASSUME NEW i \in DOMAIN hit, NEW j \in DOMAIN hit, hit[i] = hit[j]
        PROVE  i = j
    <3>1. BlockHash(r, i) = BlockHash(r, j)
      BY <2>6, <2>7
    <3> QED BY <3>1, <2>5, BlockHashProperties DEF PoolInv
  <2>8. ASSUME NEW i \in DOMAIN hit PROVE BlockHash(r, i) # NoHash
    BY <2>5, BlockHashProperties DEF PoolInv
  <2> QED BY <2>4, <2>5, <2>6, <2>7, <2>8 DEF IsInjective
<1> QED BY <1>1, <1>2

------------------------------------------------------------------------------
(* Allocation.                                                              *)

\* A block that two requests hold has more than one reference.
LEMMA TwoHolders ==
    ASSUME PoolInv, NEW r \in Requests, NEW s \in Requests, r # s,
           NEW b \in Blocks, b \in Range(req_to_blocks[r]), b \in Range(req_to_blocks[s])
    PROVE  ref_cnt[b] > 1
<1>1. {r, s} \subseteq Holders(b) /\ Holders(b) \subseteq Requests
  BY DEF Holders
<1>2. IsFiniteSet(Holders(b))
  BY <1>1, RequestsAssumption, FS_Subset
<1>3. Cardinality({r, s}) = 2
  <2>1. IsFiniteSet({r}) /\ Cardinality({r}) = 1
    BY FS_Singleton
  <2>2. s \notin {r} /\ {r, s} = {r} \cup {s}
    OBVIOUS
  <2>3. Cardinality({r} \cup {s}) = Cardinality({r}) + 1
    BY <2>1, <2>2, FS_AddElement, Zenon
  <2>4. Cardinality({r} \cup {s}) = 2
    BY <2>1, <2>3
  <2> QED BY <2>2, <2>4, Zenon
<1>4. Cardinality({r, s}) <= Cardinality(Holders(b))
  BY <1>1, <1>2, FS_Subset
<1>5. Cardinality(Holders(b)) \in Nat
  BY <1>2, FS_CardinalityType
<1>6. ref_cnt[b] = Cardinality(Holders(b))
  BY DEF PoolInv, RefCntExact
<1> QED BY <1>3, <1>4, <1>5, <1>6

\* allocate_slots keeps every pool invariant, whatever the caller asks for, as
\* long as hits are adopted only by a request that holds nothing.  It also never
\* changes the content of a block that somebody holds.
LEMMA AllocateSlotsPreserves ==
    ASSUME PoolInv, NEW r \in Requests, NEW num_tokens \in Nat,
           NEW hit \in Seq(Blocks), IsInjective(hit),
           \A i \in DOMAIN hit : /\ i * BlockSize <= Len(all_token_ids[r])
                                 /\ block_hash[hit[i]] = BlockHash(r, i)
                                 /\ block_hash[hit[i]] # NoHash,
           hit # <<>> => req_to_blocks[r] = <<>>,
           AllocateSlots(r, num_tokens, hit),
           UNCHANGED all_token_ids
    PROVE  /\ PoolInv'
           /\ \A b \in Blocks : ref_cnt[b] > 0 /\ block_hash[b] # NoHash
                                   => block_hash'[b] = block_hash[b]
<1> DEFINE held     == IF hit = <<>> THEN req_to_blocks[r] ELSE hit
           touched  == Filter(free_block_queue, Blocks \ Range(hit))
           required == NumRequiredBlocks(NumTokensNeedingSlots(num_tokens))
           num_more == AtLeastZero(required - Len(held))
           new      == SubSeq(touched, 1, num_more)
           back     == SubSeq(touched, num_more + 1, Len(touched))
           evicted  == Range(new)
           table    == held \o new
           hash     == [b \in Blocks |-> IF b \in evicted THEN NoHash ELSE block_hash[b]]
           num_full == IF EnableCaching
                       THEN Least(num_tokens \div BlockSize, NumBlockHashes(r))
                       ELSE 0
           published == {i \in DOMAIN table : i <= num_full /\ hash[table[i]] = NoHash}
<1>1. /\ CanAllocate(r, num_tokens, hit)
      /\ free_block_queue' = back
      /\ ref_cnt' = [b \in Blocks |-> IF b \in Range(hit) \cup evicted
                                      THEN ref_cnt[b] + 1 ELSE ref_cnt[b]]
      /\ req_to_blocks' = [req_to_blocks EXCEPT ![r] = table]
      /\ block_hash' =
           [b \in Blocks |-> IF \E i \in published : table[i] = b
                             THEN BlockHash(r, CHOOSE i \in published : table[i] = b)
                             ELSE hash[b]]
      /\ cached_block_hash_to_block' =
           (cached_block_hash_to_block \ {<<block_hash[b], b>> : b \in evicted})
             \cup {<<BlockHash(r, i), table[i]>> : i \in published}
  BY DEF AllocateSlots, QueueAfterTouch, PopLeftN, QueueAfterPop, HashAfterEviction,
         MapAfterEviction, NumBlocksToCache, PublishedPositions, RefCntAfterTaking
<1>2. /\ all_token_ids \in [Requests -> Seq(Tokens)]
      /\ ref_cnt \in [Blocks -> Nat]
      /\ block_hash \in [Blocks -> Hashes \cup {NoHash}]
      /\ free_block_queue \in Seq(Blocks)
      /\ cached_block_hash_to_block \subseteq Hashes \X Blocks
      /\ req_to_blocks \in [Requests -> Seq(Blocks)]
      /\ req_to_blocks[r] \in Seq(Blocks)
  BY DEF PoolInv, TypeOK
<1>3. /\ IsInjective(free_block_queue)
      /\ Range(free_block_queue) = {b \in Blocks : ref_cnt[b] = 0}
  BY DEF PoolInv, FreeQueueExact
<1>4. /\ held \in Seq(Blocks) /\ IsInjective(held)
      /\ Len(held) = Len(hit) + Len(req_to_blocks[r])
      /\ Len(hit) \in Nat /\ Len(req_to_blocks[r]) \in Nat
  BY <1>2 DEF PoolInv, RefCntExact
<1>5. num_more \in Nat /\ required \in Int
  <2>1. NumTokensNeedingSlots(num_tokens) \in Nat
    BY SizesAssumption DEF NumTokensNeedingSlots, Least
  <2>2. required \in Int
    BY <2>1, SizesAssumption DEF NumRequiredBlocks
  <2> QED BY <2>2, <1>4 DEF AtLeastZero
<1>6. num_more <= Len(touched)
  <2>1. {i \in DOMAIN hit : ref_cnt[hit[i]] = 0}
          = {i \in DOMAIN hit : hit[i] \in Range(free_block_queue)}
    BY <1>3
  <2>2. num_more + Cardinality({i \in DOMAIN hit : hit[i] \in Range(free_block_queue)})
          <= Len(free_block_queue)
    BY <1>1, <1>4, <2>1 DEF CanAllocate, NumBlocksToAllocate
  <2> HIDE DEF num_more
  <2> QED BY <2>2, <1>2, <1>3, <1>5, EnoughBlocks
<1>7. /\ touched \in Seq(Blocks) /\ IsInjective(touched)
      /\ Range(touched) = {b \in Blocks : ref_cnt[b] = 0} \ Range(hit)
  BY <1>2, <1>3, FilterProperties
<1> HIDE DEF touched, num_more
<1>8. num_more \in 0 .. Len(touched)
  BY <1>5, <1>6, <1>7, LenProperties
<1>9. /\ new \in Seq(Blocks) /\ back \in Seq(Blocks)
      /\ IsInjective(new) /\ IsInjective(back)
      /\ Range(touched) = Range(new) \cup Range(back)
      /\ Range(new) \cap Range(back) = {}
  BY <1>7, <1>8, CutProperties
<1> HIDE DEF new, back
<1>10. Range(held) \subseteq Blocks /\ Range(hit) \subseteq Blocks /\ evicted \subseteq Blocks
  BY <1>4, <1>9, ElementOfSeq DEF Range
<1>11. ASSUME NEW b \in evicted
       PROVE  /\ ref_cnt[b] = 0 /\ b \notin Range(hit)
              /\ \A s \in Requests : b \notin Range(req_to_blocks[s])
  <2>1. ref_cnt[b] = 0 /\ b \notin Range(hit) /\ b \in Blocks
    BY <1>7, <1>9, <1>10
  <2>2. IsFiniteSet(Holders(b)) /\ Cardinality(Holders(b)) = 0
    <3>1. Holders(b) \in SUBSET Requests
      BY DEF Holders
    <3> QED BY <2>1, <3>1, RequestsAssumption, FS_Subset DEF PoolInv, RefCntExact
  <2>3. Holders(b) = {}
    BY <2>2, FS_EmptySet
  <2> QED BY <2>1, <2>3 DEF Holders
<1>12. Range(held) \cap evicted = {}
  BY <1>11
<1>13. /\ table \in Seq(Blocks) /\ IsInjective(table)
       /\ Range(table) = Range(held) \cup evicted
  BY <1>4, <1>9, <1>12, ConcatInjective
<1>14. /\ Len(held) \in Nat /\ Len(new) \in Nat
       /\ DOMAIN table = 1 .. Len(held) + Len(new)
       /\ \A i \in 1 .. Len(held) : table[i] = held[i]
       /\ \A i \in DOMAIN table : i > Len(held) => table[i] \in evicted
  <2>1. /\ Len(held) \in Nat /\ Len(new) \in Nat
        /\ DOMAIN table = 1 .. Len(held) + Len(new)
        /\ DOMAIN new = 1 .. Len(new)
    BY <1>4, <1>9, LenProperties
  <2>2. \A i \in 1 .. Len(held) : table[i] = held[i]
    BY <2>1, <1>4, <1>9
  <2>3. ASSUME NEW i \in DOMAIN table, i > Len(held) PROVE table[i] \in evicted
    <3> HIDE DEF held
    <3>1. i \in 1 .. Len(held) + Len(new) /\ i - Len(held) \in 1 .. Len(new)
      BY <2>1, <2>3
    <3>2. table[i] = new[i - Len(held)]
      BY <3>1, <2>3, <1>4, <1>9
    <3> QED BY <2>1, <3>1, <3>2 DEF Range
  <2> QED BY <2>1, <2>2, <2>3
<1> HIDE DEF table, held
<1>15. ASSUME NEW i \in published
       PROVE  /\ i \in Nat /\ i * BlockSize <= Len(all_token_ids[r])
              /\ BlockHash(r, i) \in Hashes /\ BlockHash(r, i) # NoHash
  <2>1. Len(all_token_ids[r]) \in Nat
    BY <1>2, LenProperties
  <2>2. NumBlockHashes(r) \in Nat /\ num_tokens \div BlockSize \in Nat
    BY <2>1, NumFullBlocks DEF NumBlockHashes
  <2>3. i \in Nat /\ i <= NumBlockHashes(r)
    BY <2>2, <1>14 DEF Least
  <2>4. i * BlockSize <= Len(all_token_ids[r])
    BY <2>1, <2>3, FullBlocks DEF NumBlockHashes
  <2> QED BY <2>3, <2>4, BlockHashProperties DEF PoolInv
<1> HIDE DEF num_full
<1>16. ASSUME NEW i \in published
       PROVE  block_hash'[table[i]] = BlockHash(r, i) /\ table[i] \in Blocks
  <2>1. table[i] \in Blocks
    BY <1>13, ElementOfSeq, <1>14
  <2>2. (CHOOSE j \in published : table[j] = table[i]) = i
    BY <1>13 DEF IsInjective
  <2> QED BY <2>1, <2>2, <1>1
<1>17. ASSUME NEW b \in Blocks, \A i \in published : table[i] # b
       PROVE  block_hash'[b] = IF b \in evicted THEN NoHash ELSE block_hash[b]
  BY <1>17, <1>1
<1>18. ASSUME NEW b \in Blocks, b \notin evicted, block_hash[b] # NoHash
       PROVE  block_hash'[b] = block_hash[b]
  <2>1. \A i \in published : table[i] # b
    BY <1>18
  <2> QED BY <2>1, <1>17, <1>18
<1>19. TypeOK'
  <2>1. ref_cnt' \in [Blocks -> Nat]
    BY <1>1, <1>2
  <2>2. block_hash' \in [Blocks -> Hashes \cup {NoHash}]
    <3>1. ASSUME NEW b \in Blocks PROVE block_hash'[b] \in Hashes \cup {NoHash}
      <4>1. CASE \E i \in published : table[i] = b
        BY <4>1, <1>15, <1>16
      <4>2. CASE \A i \in published : table[i] # b
        BY <4>2, <1>17, <1>2
      <4> QED BY <4>1, <4>2
    <3>2. block_hash' = [b \in Blocks |-> block_hash'[b]]
      BY <1>1
    <3> QED BY <3>1, <3>2
  <2>3. cached_block_hash_to_block' \subseteq Hashes \X Blocks
    <3>1. \A i \in published : <<BlockHash(r, i), table[i]>> \in Hashes \X Blocks
      BY <1>15, <1>16
    <3>2. {<<BlockHash(r, i), table[i]>> : i \in published} \subseteq Hashes \X Blocks
      BY <3>1
    <3> HIDE DEF published
    <3> QED BY <3>2, <1>1, <1>2
  <2>4. req_to_blocks' \in [Requests -> Seq(Blocks)]
    BY <1>1, <1>2, <1>13
  <2> QED BY <2>1, <2>2, <2>3, <2>4, <1>1, <1>2, <1>9 DEF TypeOK
<1>20. /\ req_to_blocks'[r] = table
       /\ \A s \in Requests \ {r} : req_to_blocks'[s] = req_to_blocks[s]
  BY <1>1, <1>2
<1>21. ASSUME NEW b \in Blocks
       PROVE  /\ b \in Range(hit) \cup evicted =>
                   r \notin Holders(b) /\ Holders(b)' = Holders(b) \cup {r}
              /\ b \notin Range(hit) \cup evicted => Holders(b)' = Holders(b)
  <2>1. CASE hit = <<>>
    <3>1. Range(hit) = {} /\ Range(table) = Range(req_to_blocks[r]) \cup evicted
      <4>1. held = req_to_blocks[r]
        BY <2>1 DEF held
      <4>2. Range(hit) = {}
        BY <2>1 DEF Range
      <4> QED BY <4>1, <4>2, <1>13
    <3> QED BY <3>1, <1>11, <1>20 DEF Holders
  <2>2. CASE hit # <<>>
    <3>1. Range(req_to_blocks[r]) = {} /\ Range(table) = Range(hit) \cup evicted
      <4>1. held = hit
        BY <2>2 DEF held
      <4>2. Range(req_to_blocks[r]) = {}
        BY <2>2 DEF Range
      <4> QED BY <4>1, <4>2, <1>13
    <3> QED BY <3>1, <1>20 DEF Holders
  <2> QED BY <2>1, <2>2
<1>22. RefCntExact'
  <2>1. \A s \in Requests : IsInjective(req_to_blocks'[s])
    BY <1>13, <1>20 DEF PoolInv, RefCntExact
  <2>2. ASSUME NEW b \in Blocks PROVE ref_cnt'[b] = Cardinality(Holders(b)')
    <3>1. IsFiniteSet(Holders(b)) /\ ref_cnt[b] = Cardinality(Holders(b))
      <4>1. Holders(b) \in SUBSET Requests
        BY DEF Holders
      <4> QED BY <4>1, RequestsAssumption, FS_Subset DEF PoolInv, RefCntExact
    <3>2. CASE b \in Range(hit) \cup evicted
      <4>1. r \notin Holders(b) /\ Holders(b)' = Holders(b) \cup {r}
        BY <3>2, <1>21
      <4>2. Cardinality(Holders(b) \cup {r}) = Cardinality(Holders(b)) + 1
        BY <3>1, <4>1, FS_AddElement
      <4> QED BY <3>1, <3>2, <4>1, <4>2, <1>1
    <3>3. CASE b \notin Range(hit) \cup evicted
      BY <3>1, <3>3, <1>1, <1>21
    <3> QED BY <3>2, <3>3
  <2> QED BY <2>1, <2>2 DEF RefCntExact
<1>23. FreeQueueExact'
  <2>1. Range(back) = {b \in Blocks : ref_cnt'[b] = 0}
    <3>1. Range(back) = ({b \in Blocks : ref_cnt[b] = 0} \ Range(hit)) \ evicted
      BY <1>7, <1>9
    <3>2. ASSUME NEW b \in Blocks
          PROVE  ref_cnt'[b] = 0 <=> ref_cnt[b] = 0 /\ b \notin Range(hit) /\ b \notin evicted
      <4>1. ref_cnt[b] \in Nat
        BY <1>2
      <4> QED BY <4>1, <1>1
    <3> QED BY <3>1, <3>2
  <2> QED BY <2>1, <1>1, <1>9 DEF FreeQueueExact
<1>24. CacheMapExact'
  <2> DEFINE after == {<<block_hash'[b], b>> : b \in {c \in Blocks : block_hash'[c] # NoHash}}
  <2>0. cached_block_hash_to_block =
          {<<block_hash[b], b>> : b \in {c \in Blocks : block_hash[c] # NoHash}}
    BY DEF PoolInv, CacheMapExact
  <2>1. ASSUME NEW e \in cached_block_hash_to_block,
               e \notin {<<block_hash[b], b>> : b \in evicted}
        PROVE  e \in after
    <3>1. PICK b \in Blocks : block_hash[b] # NoHash /\ e = <<block_hash[b], b>>
      BY <2>0
    <3>2. b \notin evicted
      BY <2>1, <3>1
    <3> QED BY <3>1, <3>2, <1>18
  <2>2. ASSUME NEW i \in published PROVE <<BlockHash(r, i), table[i]>> \in after
    BY <1>15, <1>16
  <2>3. ASSUME NEW b \in Blocks, block_hash'[b] # NoHash
        PROVE  <<block_hash'[b], b>> \in cached_block_hash_to_block'
    <3>1. CASE \E i \in published : table[i] = b
      <4>1. PICK i \in published : table[i] = b
        BY <3>1
      <4>2. block_hash'[b] = BlockHash(r, i)
        BY <4>1, <1>16
      <4> QED BY <4>1, <4>2, <1>1
    <3>2. CASE \A i \in published : table[i] # b
      <4>1. b \notin evicted /\ block_hash'[b] = block_hash[b]
        BY <3>2, <2>3, <1>17
      <4>2. <<block_hash[b], b>> \in cached_block_hash_to_block
        BY <4>1, <2>0, <2>3
      <4>3. <<block_hash[b], b>> \notin {<<block_hash[c], c>> : c \in evicted}
        BY <4>1
      <4> QED BY <4>1, <4>2, <4>3, <1>1
    <3> QED BY <3>1, <3>2
  <2>4. cached_block_hash_to_block' \subseteq after
    <3> SUFFICES ASSUME NEW e \in cached_block_hash_to_block' PROVE e \in after
      OBVIOUS
    <3>1. \/ e \in cached_block_hash_to_block
               /\ e \notin {<<block_hash[b], b>> : b \in evicted}
          \/ \E i \in published : e = <<BlockHash(r, i), table[i]>>
      BY <1>1
    <3> QED BY <3>1, <2>1, <2>2
  <2> QED BY <2>3, <2>4 DEF CacheMapExact
<1>25. TableContentsMatch'
  <2>1. ASSUME NEW s \in Requests, NEW i \in DOMAIN req_to_blocks'[s],
               block_hash'[req_to_blocks'[s][i]] # NoHash
        PROVE  /\ i * BlockSize <= Len(all_token_ids[s])
               /\ block_hash'[req_to_blocks'[s][i]] = BlockHash(s, i)
    <3>1. CASE s = r
      <4>1. i \in DOMAIN table /\ req_to_blocks'[s][i] = table[i]
        BY <2>1, <3>1, <1>20
      <4>2. CASE i \in published
        BY <4>1, <4>2, <3>1, <1>15, <1>16
      <4>3. CASE i \notin published
        <5>1. \A j \in published : table[j] # table[i]
          BY <4>1, <4>3, <1>13 DEF IsInjective
        <5>2. table[i] \in Blocks
          BY <4>1, <1>13, <1>14, ElementOfSeq
        <5>3. table[i] \notin evicted /\ block_hash'[table[i]] = block_hash[table[i]]
          BY <5>1, <5>2, <4>1, <2>1, <1>17
        <5>4. i \in 1 .. Len(held) /\ table[i] = held[i]
          BY <5>3, <4>1, <1>14
        <5>5. CASE hit = <<>>
          <6>1. held = req_to_blocks[r]
            BY <5>5 DEF held
          <6>2. i \in DOMAIN req_to_blocks[r]
            BY <6>1, <5>4, <1>2, LenProperties
          <6> QED BY <6>1, <6>2, <5>3, <5>4, <4>1, <3>1, <2>1
                  DEF PoolInv, TableContentsMatch
        <5>6. CASE hit # <<>>
          <6>1. held = hit /\ i \in DOMAIN hit
            BY <5>6, <5>4, LenProperties DEF held
          <6> QED BY <6>1, <5>3, <5>4, <4>1, <3>1
        <5> QED BY <5>5, <5>6
      <4> QED BY <4>2, <4>3
    <3>2. CASE s # r
      <4> DEFINE b == req_to_blocks[s][i]
      <4>1. i \in DOMAIN req_to_blocks[s] /\ req_to_blocks'[s][i] = b
        BY <2>1, <3>2, <1>20
      <4>2. b \in Range(req_to_blocks[s]) /\ b \in Blocks
        <5>1. b \in Range(req_to_blocks[s])
          BY <4>1 DEF Range
        <5> QED BY <5>1, <4>1, <1>2, ElementOfSeq, LenProperties
      <4>3. b \notin evicted
        BY <4>2, <1>11
      <4>4. block_hash[b] # NoHash
        <5> SUFFICES ASSUME block_hash[b] = NoHash PROVE FALSE
          OBVIOUS
        <5>1. PICK j \in published : table[j] = b
          BY <1>17, <4>1, <4>2, <4>3, <2>1
        <5>2. j \in 1 .. Len(held) /\ held[j] = b
          BY <5>1, <4>3, <1>14
        <5>3. hit = <<>>
          <6> SUFFICES ASSUME hit # <<>> PROVE FALSE
            OBVIOUS
          <6>1. held = hit /\ j \in DOMAIN hit
            BY <5>2, LenProperties DEF held
          <6> QED BY <6>1, <5>2
        <5>4. b \in Range(req_to_blocks[r])
          <6>1. held = req_to_blocks[r] /\ j \in DOMAIN req_to_blocks[r]
            BY <5>2, <5>3, <1>2, LenProperties DEF held
          <6> QED BY <6>1, <5>2 DEF Range
        <5>5. ref_cnt[b] > 1
          BY <5>4, <4>2, <3>2, TwoHolders
        <5> QED BY <5>5, <4>2 DEF PoolInv, SharedOnlyIfPublished
      <4>5. block_hash'[b] = block_hash[b]
        BY <4>2, <4>3, <4>4, <1>18
      <4> QED BY <4>1, <4>4, <4>5 DEF PoolInv, TableContentsMatch
    <3> QED BY <3>1, <3>2
  <2>2. \A s \in Requests, i \in Nat : BlockHash(s, i)' = BlockHash(s, i)
    BY DEF BlockHash
  <2>3. \A s \in Requests : req_to_blocks'[s] \in Seq(Blocks)
    BY <1>19 DEF TypeOK
  <2>4. \A s \in Requests : DOMAIN req_to_blocks'[s] \subseteq Nat
    BY <2>3, LenProperties
  <2> QED BY <2>1, <2>2, <2>4 DEF TableContentsMatch
<1>26. SharedOnlyIfPublished'
  <2>1. ASSUME NEW b \in Blocks, ref_cnt'[b] > 1 PROVE block_hash'[b] # NoHash
    <3>1. ref_cnt[b] \in Nat
      BY <1>2
    <3>2. b \notin evicted
      <4> SUFFICES ASSUME b \in evicted PROVE FALSE
        OBVIOUS
      <4>1. ref_cnt[b] = 0
        BY <1>11
      <4> QED BY <4>1, <2>1, <1>1
    <3>3. block_hash[b] # NoHash
      <4>1. CASE b \in Range(hit)
        BY <4>1 DEF Range
      <4>2. CASE b \notin Range(hit)
        BY <4>2, <3>2, <2>1, <1>1 DEF PoolInv, SharedOnlyIfPublished
      <4> QED BY <4>1, <4>2
    <3> QED BY <3>2, <3>3, <1>18
  <2> QED BY <2>1 DEF SharedOnlyIfPublished
<1>27. ASSUME NEW b \in Blocks, ref_cnt[b] > 0, block_hash[b] # NoHash
       PROVE  block_hash'[b] = block_hash[b]
  BY <1>27, <1>11, <1>18, <1>2
<1> QED BY <1>19, <1>22, <1>23, <1>24, <1>25, <1>26, <1>27 DEF PoolInv

------------------------------------------------------------------------------
(* Release, reset and the growth of a request.                              *)

\* The blocks that are required have room for the tokens.
LEMMA RequiredIsEnough ==
    ASSUME NEW n \in Nat
    PROVE  NumRequiredBlocks(n) \in Nat /\ n <= NumRequiredBlocks(n) * BlockSize
<1>1. PICK m \in Nat : m = n + BlockSize - 1
  BY SizesAssumption
<1>2. PICK q \in Nat : q = m \div BlockSize
  BY <1>1, NumFullBlocks
<1>3. m < q * BlockSize + BlockSize
  BY <1>2, SizesAssumption
<1>4. q * BlockSize \in Nat /\ BlockSize \in Nat
  BY SizesAssumption
<1>5. NumRequiredBlocks(n) = q
  BY <1>1, <1>2 DEF NumRequiredBlocks
<1> QED BY <1>1, <1>3, <1>4, <1>5

\* What allocate_slots does to the table, and to the contents: it adds blocks that
\* nobody held, as many as the tokens need, and publishes what the table had or got.
SlotsAdded(r, num_tokens, hit) ==
    \E held \in Seq(Blocks), new \in Seq(Blocks) :
        /\ held = IF hit = <<>> THEN req_to_blocks[r] ELSE hit
        /\ IsInjective(new) /\ Range(new) \cap Range(hit) = {}
        /\ \A b \in Range(new) : b \in Blocks /\ Holders(b) = {}
        /\ req_to_blocks' = [req_to_blocks EXCEPT ![r] = held \o new]
        /\ Least(num_tokens, MaxModelLen) <= (Len(held) + Len(new)) * BlockSize
        /\ \A b \in Blocks : block_hash'[b] # block_hash[b] =>
             b \in Range(new) \/ (b \in Range(held) /\ block_hash[b] = NoHash)

\* allocate_slots does that, and only that, whenever it succeeds.
LEMMA AllocateSlotsEffect ==
    ASSUME PoolInv, NEW r \in Requests, NEW num_tokens \in Nat,
           NEW hit \in Seq(Blocks), IsInjective(hit),
           hit # <<>> => req_to_blocks[r] = <<>>,
           AllocateSlots(r, num_tokens, hit)
    PROVE  SlotsAdded(r, num_tokens, hit)
<1> DEFINE held     == IF hit = <<>> THEN req_to_blocks[r] ELSE hit
           touched  == Filter(free_block_queue, Blocks \ Range(hit))
           required == NumRequiredBlocks(NumTokensNeedingSlots(num_tokens))
           num_more == AtLeastZero(required - Len(held))
           new      == SubSeq(touched, 1, num_more)
           table    == held \o new
           hash     == [b \in Blocks |-> IF b \in Range(new) THEN NoHash ELSE block_hash[b]]
           num_full == NumBlocksToCache(r, num_tokens)
           published == {i \in DOMAIN table : i <= num_full /\ hash[table[i]] = NoHash}
<1>1. /\ held \in Seq(Blocks)
      /\ Len(held) = Len(hit) + Len(req_to_blocks[r])
      /\ Len(held) \in Nat /\ Len(hit) \in Nat /\ Len(req_to_blocks[r]) \in Nat
  <2>1. req_to_blocks[r] \in Seq(Blocks)
    BY DEF PoolInv, TypeOK
  <2> QED BY <2>1
<1>7. /\ CanAllocate(r, num_tokens, hit)
      /\ req_to_blocks' = [req_to_blocks EXCEPT ![r] = table]
      /\ block_hash' =
           [b \in Blocks |-> IF \E i \in published : table[i] = b
                             THEN BlockHash(r, CHOOSE i \in published : table[i] = b)
                             ELSE hash[b]]
  BY DEF AllocateSlots, QueueAfterTouch, PopLeftN, HashAfterEviction, PublishedPositions
<1> HIDE DEF num_full
<1>8. required \in Nat /\ Least(num_tokens, MaxModelLen) <= required * BlockSize
  <2>1. NumTokensNeedingSlots(num_tokens) \in Nat
    BY SizesAssumption DEF NumTokensNeedingSlots, Least
  <2> QED BY <2>1, RequiredIsEnough DEF NumTokensNeedingSlots
<1>9. num_more \in Nat
  BY <1>1, <1>8 DEF AtLeastZero
<1>10. /\ free_block_queue \in Seq(Blocks) /\ IsInjective(free_block_queue)
       /\ Range(free_block_queue) = {b \in Blocks : ref_cnt[b] = 0}
  BY DEF PoolInv, TypeOK, FreeQueueExact
<1>11. num_more <= Len(touched)
  <2>1. {i \in DOMAIN hit : ref_cnt[hit[i]] = 0}
          = {i \in DOMAIN hit : hit[i] \in Range(free_block_queue)}
    <3>1. \A i \in DOMAIN hit : hit[i] \in Blocks
      BY ElementOfSeq, LenProperties
    <3> QED BY <3>1, <1>10
  <2>2. num_more + Cardinality({i \in DOMAIN hit : hit[i] \in Range(free_block_queue)})
          <= Len(free_block_queue)
    BY <1>1, <1>7, <2>1 DEF CanAllocate, NumBlocksToAllocate
  <2> HIDE DEF num_more
  <2> QED BY <2>2, <1>9, <1>10, EnoughBlocks
<1>12. /\ touched \in Seq(Blocks) /\ IsInjective(touched)
       /\ Range(touched) = {b \in Blocks : ref_cnt[b] = 0} \ Range(hit)
  BY <1>10, FilterProperties
<1>i. num_more + Len(held) >= required
  BY <1>1, <1>8, <1>9 DEF AtLeastZero
<1> HIDE DEF touched, required, num_more
<1>13. /\ new \in Seq(Blocks) /\ IsInjective(new) /\ Len(new) = num_more
       /\ Range(new) \subseteq Range(touched)
  <2>1. num_more \in 0 .. Len(touched)
    BY <1>9, <1>11, <1>12, LenProperties
  <2> QED BY <2>1, <1>12, CutProperties
<1> HIDE DEF new
<1>14. ASSUME NEW b \in Range(new) PROVE b \in Blocks /\ b \notin Range(hit) /\ Holders(b) = {}
  <2>1. b \in Blocks /\ b \notin Range(hit) /\ ref_cnt[b] = 0
    BY <1>12, <1>13
  <2>2. IsFiniteSet(Holders(b)) /\ Cardinality(Holders(b)) = 0
    <3>1. Holders(b) \in SUBSET Requests
      BY DEF Holders
    <3> QED BY <2>1, <3>1, RequestsAssumption, FS_Subset DEF PoolInv, RefCntExact
  <2> QED BY <2>1, <2>2, FS_EmptySet
<1>15. Least(num_tokens, MaxModelLen) <= (Len(held) + Len(new)) * BlockSize
  <2>1. PICK n \in Nat : n = Len(held) + Len(new) /\ required <= n
    <3> HIDE DEF held
    <3> QED BY <1>1, <1>i, <1>8, <1>9, <1>13
  <2>2. required * BlockSize <= n * BlockSize
    BY <2>1, <1>8, SizesAssumption
  <2>3. Least(num_tokens, MaxModelLen) \in Nat /\ required * BlockSize \in Nat /\ n * BlockSize \in Nat
    BY <2>1, <1>8, SizesAssumption DEF Least
  <2> QED BY <2>1, <2>2, <2>3, <1>8
<1>16. ASSUME NEW b \in Blocks, block_hash'[b] # block_hash[b], b \notin Range(new)
       PROVE  b \in Range(held) /\ block_hash[b] = NoHash
  <2>1. PICK i \in published : table[i] = b
    BY <1>7, <1>16
  <2>2. i \in DOMAIN table /\ hash[b] = NoHash
    BY <2>1
  <2>3. Range(table) = Range(held) \cup Range(new)
    BY <1>1, <1>13, ConcatInjective
  <2> QED BY <1>16, <2>1, <2>2, <2>3 DEF Range
<1>18. held = IF hit = <<>> THEN req_to_blocks[r] ELSE hit
  OBVIOUS
<1>19. req_to_blocks' = [req_to_blocks EXCEPT ![r] = held \o new]
  BY <1>7
<1>20. Range(new) \cap Range(hit) = {} /\ \A b \in Range(new) : b \in Blocks /\ Holders(b) = {}
  BY <1>14
<1> HIDE DEF held
<1>21. \A b \in Blocks : block_hash'[b] # block_hash[b] =>
         b \in Range(new) \/ (b \in Range(held) /\ block_hash[b] = NoHash)
  BY <1>16
<1> HIDE DEF held, new
<1> QED BY <1>1, <1>13, <1>15, <1>18, <1>19, <1>20, <1>21 DEF SlotsAdded

\* free keeps every pool invariant, whatever becomes of the request's own
\* tokens in the same step, and touches no content.
LEMMA FreePreserves ==
    ASSUME PoolInv, NEW r \in Requests, Free(r),
           all_token_ids' \in [Requests -> Seq(Tokens)],
           \A s \in Requests \ {r} : all_token_ids'[s] = all_token_ids[s]
    PROVE  PoolInv'
<1> DEFINE ordered  == Reversed(req_to_blocks[r])
           released == {b \in Range(ordered) : ref_cnt[b] = 1}
           unhashed == {b \in released : block_hash[b] = NoHash /\ EnableCaching}
           front    == Filter(ordered, unhashed)
           rear     == Filter(ordered, released \ unhashed)
<1>1. /\ ref_cnt' = [b \in Blocks |-> IF b \in Range(ordered)
                                      THEN ref_cnt[b] - 1 ELSE ref_cnt[b]]
      /\ free_block_queue' = front \o free_block_queue \o rear
      /\ req_to_blocks' = [req_to_blocks EXCEPT ![r] = <<>>]
      /\ block_hash' = block_hash
      /\ cached_block_hash_to_block' = cached_block_hash_to_block
  BY DEF Free, QueueAfterFree
<1>2. /\ ref_cnt \in [Blocks -> Nat]
      /\ block_hash \in [Blocks -> Hashes \cup {NoHash}]
      /\ free_block_queue \in Seq(Blocks)
      /\ cached_block_hash_to_block \subseteq Hashes \X Blocks
      /\ req_to_blocks \in [Requests -> Seq(Blocks)]
      /\ req_to_blocks[r] \in Seq(Blocks)
  BY DEF PoolInv, TypeOK
<1>3. /\ IsInjective(free_block_queue)
      /\ Range(free_block_queue) = {b \in Blocks : ref_cnt[b] = 0}
  BY DEF PoolInv, FreeQueueExact
<1>4. /\ ordered \in Seq(Blocks) /\ IsInjective(ordered)
      /\ Range(ordered) = Range(req_to_blocks[r])
  BY <1>2, ReversedProperties DEF PoolInv, RefCntExact
<1>5. Range(ordered) \subseteq Blocks
  BY <1>4, ElementOfSeq, LenProperties DEF Range
<1> HIDE DEF ordered
<1>6. /\ front \in Seq(Blocks) /\ IsInjective(front) /\ Range(front) = unhashed
      /\ rear \in Seq(Blocks) /\ IsInjective(rear) /\ Range(rear) = released \ unhashed
  <2>1. /\ front \in Seq(Blocks) /\ IsInjective(front)
        /\ Range(front) = Range(ordered) \cap unhashed
    BY <1>4, FilterProperties
  <2>2. /\ rear \in Seq(Blocks) /\ IsInjective(rear)
        /\ Range(rear) = Range(ordered) \cap (released \ unhashed)
    BY <1>4, FilterProperties
  <2> HIDE DEF front, rear
  <2> QED BY <2>1, <2>2
<1> HIDE DEF front, rear
<1>7. released \cap Range(free_block_queue) = {}
  BY <1>3
<1>8. /\ front \o free_block_queue \in Seq(Blocks)
      /\ IsInjective(front \o free_block_queue)
      /\ Range(front \o free_block_queue) = unhashed \cup Range(free_block_queue)
  <2>1. Range(front) \cap Range(free_block_queue) = {}
    BY <1>6, <1>7
  <2> QED BY <2>1, <1>2, <1>3, <1>6, ConcatInjective
<1>9. /\ free_block_queue' \in Seq(Blocks)
      /\ IsInjective(free_block_queue')
      /\ Range(free_block_queue') = released \cup Range(free_block_queue)
  <2>1. Range(front \o free_block_queue) \cap Range(rear) = {}
    <3>1. unhashed \cap (released \ unhashed) = {}
      OBVIOUS
    <3>2. (released \ unhashed) \cap Range(free_block_queue) = {}
      BY <1>7
    <3> HIDE DEF released, unhashed
    <3> QED BY <3>1, <3>2, <1>6, <1>8
  <2>2. /\ (front \o free_block_queue) \o rear \in Seq(Blocks)
        /\ IsInjective((front \o free_block_queue) \o rear)
        /\ Range((front \o free_block_queue) \o rear)
             = Range(front \o free_block_queue) \cup Range(rear)
    <3> DEFINE most == front \o free_block_queue
    <3>1. /\ most \in Seq(Blocks) /\ IsInjective(most) /\ Range(most) \cap Range(rear) = {}
          /\ rear \in Seq(Blocks) /\ IsInjective(rear)
      BY <2>1, <1>6, <1>8
    <3> HIDE DEF most
    <3>2. /\ most \o rear \in Seq(Blocks)
          /\ Range(most \o rear) = Range(most) \cup Range(rear)
          /\ IsInjective(most \o rear)
      BY <3>1, ConcatInjective
    <3> QED BY <3>2 DEF most
  <2>3. Range(front \o free_block_queue) \cup Range(rear)
          = released \cup Range(free_block_queue)
    <3>1. unhashed \cup (released \ unhashed) = released
      OBVIOUS
    <3> HIDE DEF released, unhashed
    <3> QED BY <3>1, <1>6, <1>8
  <2> QED BY <2>2, <2>3, <1>1
<1>10. ASSUME NEW b \in Blocks
       PROVE  /\ IsFiniteSet(Holders(b)) /\ ref_cnt[b] = Cardinality(Holders(b))
              /\ r \in Holders(b) <=> b \in Range(ordered)
              /\ Holders(b)' = Holders(b) \ {r}
  <2>1. Holders(b) \in SUBSET Requests
    BY DEF Holders
  <2>2. IsFiniteSet(Holders(b)) /\ ref_cnt[b] = Cardinality(Holders(b))
    BY <2>1, RequestsAssumption, FS_Subset DEF PoolInv, RefCntExact
  <2>3. r \in Holders(b) <=> b \in Range(ordered)
    BY <1>4 DEF Holders
  <2>4. Holders(b)' = Holders(b) \ {r}
    <3>1. Range(<<>>) = {}
      BY DEF Range
    <3>2. /\ req_to_blocks'[r] = <<>>
          /\ \A s \in Requests \ {r} : req_to_blocks'[s] = req_to_blocks[s]
      BY <1>1, <1>2
    <3> QED BY <3>1, <3>2 DEF Holders
  <2> QED BY <2>2, <2>3, <2>4
<1>11. ASSUME NEW b \in Blocks
       PROVE  /\ ref_cnt'[b] \in Nat /\ ref_cnt'[b] = Cardinality(Holders(b)')
              /\ b \in Range(ordered) => ref_cnt[b] > 0
  <2>1. CASE b \in Range(ordered)
    <3>1. /\ IsFiniteSet(Holders(b) \ {r})
          /\ Cardinality(Holders(b) \ {r}) = Cardinality(Holders(b)) - 1
      BY <2>1, <1>10, FS_RemoveElement
    <3>2. Cardinality(Holders(b) \ {r}) \in Nat
      BY <3>1, FS_CardinalityType
    <3>3. ref_cnt'[b] = ref_cnt[b] - 1 /\ ref_cnt[b] \in Nat
      BY <2>1, <1>1, <1>2
    <3>4. /\ Cardinality(Holders(b)') = Cardinality(Holders(b) \ {r})
          /\ ref_cnt[b] = Cardinality(Holders(b))
      BY <1>10
    <3>5. ref_cnt'[b] \in Nat /\ ref_cnt'[b] = Cardinality(Holders(b) \ {r})
      BY <3>1, <3>2, <3>3, <3>4
    <3> QED BY <3>3, <3>4, <3>5
  <2>2. CASE b \notin Range(ordered)
    <3>1. Holders(b)' = Holders(b)
      BY <2>2, <1>10
    <3>2. ref_cnt'[b] = ref_cnt[b] /\ ref_cnt[b] \in Nat
      BY <2>2, <1>1, <1>2
    <3> QED BY <3>1, <3>2, <2>2, <1>10
  <2> QED BY <2>1, <2>2
<1>12. TypeOK'
  <2>1. ref_cnt' \in [Blocks -> Nat]
    <3>1. ref_cnt' = [b \in Blocks |-> ref_cnt'[b]]
      BY <1>1
    <3> QED BY <3>1, <1>11
  <2>2. req_to_blocks' \in [Requests -> Seq(Blocks)]
    BY <1>1, <1>2
  <2> QED BY <2>1, <2>2, <1>1, <1>2, <1>9 DEF TypeOK
<1>13. RefCntExact'
  <2>1. \A s \in Requests : IsInjective(req_to_blocks'[s])
    <3>1. IsInjective(<<>>)
      BY DEF IsInjective
    <3> QED BY <3>1, <1>1, <1>2 DEF PoolInv, RefCntExact
  <2> QED BY <2>1, <1>11 DEF RefCntExact
<1>14. FreeQueueExact'
  <2>1. ASSUME NEW b \in Blocks
        PROVE  ref_cnt'[b] = 0 <=> b \in released \/ ref_cnt[b] = 0
    <3>1. ref_cnt[b] \in Nat
      BY <1>2
    <3>2. CASE b \in Range(ordered)
      BY <3>1, <3>2, <1>1, <1>11
    <3>3. CASE b \notin Range(ordered)
      BY <3>3, <1>1
    <3> QED BY <3>2, <3>3
  <2>2. released \subseteq Blocks
    BY <1>5
  <2> HIDE DEF released
  <2> QED BY <2>1, <2>2, <1>3, <1>9 DEF FreeQueueExact
<1>15. CacheMapExact'
  BY <1>1 DEF PoolInv, CacheMapExact
<1>16. TableContentsMatch'
  <2>1. ASSUME NEW s \in Requests, NEW i \in DOMAIN req_to_blocks'[s],
               block_hash'[req_to_blocks'[s][i]] # NoHash
        PROVE  /\ i * BlockSize <= Len(all_token_ids'[s])
               /\ block_hash'[req_to_blocks'[s][i]] = BlockHash(s, i)'
    <3>1. s # r /\ req_to_blocks'[s] = req_to_blocks[s]
      BY <2>1, <1>1, <1>2
    <3>2. all_token_ids'[s] = all_token_ids[s]
      BY <3>1
    <3>3. BlockHash(s, i)' = BlockHash(s, i)
      BY <3>2 DEF BlockHash
    <3> QED BY <3>1, <3>2, <3>3, <2>1, <1>1 DEF PoolInv, TableContentsMatch
  <2> QED BY <2>1 DEF TableContentsMatch
<1>17. SharedOnlyIfPublished'
  <2>1. ASSUME NEW b \in Blocks, ref_cnt'[b] > 1 PROVE ref_cnt[b] > 1
    BY <2>1, <1>1, <1>2
  <2> QED BY <2>1, <1>1 DEF PoolInv, SharedOnlyIfPublished
<1> QED BY <1>12, <1>13, <1>14, <1>15, <1>16, <1>17 DEF PoolInv

\* Nothing but the tokens of a request changes, and they only grow, or belong to
\* a request that holds no block.
LEMMA TokensPreserve ==
    ASSUME PoolInv, UNCHANGED kvVars,
           all_token_ids' \in [Requests -> Seq(Tokens)],
           \A r \in Requests : \/ req_to_blocks[r] = <<>>
                               \/ /\ Len(all_token_ids[r]) <= Len(all_token_ids'[r])
                                  /\ \A i \in 1 .. Len(all_token_ids[r]) :
                                       all_token_ids'[r][i] = all_token_ids[r][i]
    PROVE  PoolInv'
<1>1. /\ ref_cnt' = ref_cnt /\ block_hash' = block_hash
      /\ free_block_queue' = free_block_queue
      /\ cached_block_hash_to_block' = cached_block_hash_to_block
      /\ req_to_blocks' = req_to_blocks
  BY DEF kvVars, poolVars
<1>2. TypeOK'
  BY <1>1 DEF PoolInv, TypeOK
<1>3. RefCntExact'
  <2>1. \A b \in Blocks : Holders(b)' = Holders(b)
    BY <1>1 DEF Holders
  <2> QED BY <1>1, <2>1 DEF PoolInv, RefCntExact
<1>4. FreeQueueExact' /\ CacheMapExact' /\ SharedOnlyIfPublished'
  BY <1>1 DEF PoolInv, FreeQueueExact, CacheMapExact, SharedOnlyIfPublished
<1>5. TableContentsMatch'
  <2>1. ASSUME NEW r \in Requests, NEW i \in DOMAIN req_to_blocks[r],
               block_hash[req_to_blocks[r][i]] # NoHash
        PROVE  /\ i * BlockSize <= Len(all_token_ids'[r])
               /\ block_hash[req_to_blocks[r][i]] = BlockHash(r, i)'
    <3> DEFINE old == all_token_ids[r]
               now == all_token_ids'[r]
    <3>1. i * BlockSize <= Len(old) /\ block_hash[req_to_blocks[r][i]] = BlockHash(r, i)
      BY <2>1 DEF PoolInv, TableContentsMatch
    <3>2. old \in Seq(Tokens) /\ now \in Seq(Tokens) /\ i \in Nat
      <4>1. req_to_blocks[r] \in Seq(Blocks)
        BY DEF PoolInv, TypeOK
      <4>2. DOMAIN req_to_blocks[r] = 1 .. Len(req_to_blocks[r])
        BY <4>1, LenProperties
      <4> QED BY <4>2 DEF PoolInv, TypeOK
    <3>3. /\ Len(old) <= Len(now)
          /\ \A k \in 1 .. Len(old) : now[k] = old[k]
      BY <2>1
    <3>4. Len(old) \in Nat /\ Len(now) \in Nat /\ i * BlockSize \in Nat
      BY <3>2, LenProperties, SizesAssumption
    <3> DEFINE m == i * BlockSize
    <3>5. m \in 0 .. Len(old) /\ m \in 0 .. Len(now)
      BY <3>1, <3>3, <3>4
    <3> HIDE DEF m, old, now
    <3>6. SubSeq(now, 1, m) = SubSeq(old, 1, m)
      <4>1. SubSeq(now, 1, m) = [k \in 1 .. m |-> now[k]]
        BY <3>2, <3>5
      <4>2. SubSeq(old, 1, m) = [k \in 1 .. m |-> old[k]]
        BY <3>2, <3>5
      <4>3. \A k \in 1 .. m : now[k] = old[k]
        BY <3>3, <3>4, <3>5
      <4> QED BY <4>1, <4>2, <4>3
    <3>7. m <= Len(now)
      BY <3>5, <3>4
    <3> QED BY <3>1, <3>6, <3>7 DEF BlockHash, m, old, now
  <2> QED BY <2>1, <1>1 DEF TableContentsMatch
<1> QED BY <1>2, <1>3, <1>4, <1>5 DEF PoolInv

\* A reset that is allowed to happen finds nobody holding a block.
LEMMA ResetPreserves ==
    ASSUME PoolInv, ResetPrefixCache, UNCHANGED all_token_ids
    PROVE  PoolInv' /\ \A b \in Blocks : ref_cnt[b] = 0
<1>1. /\ Len(free_block_queue) = NumBlocks
      /\ block_hash' = [b \in Blocks |-> NoHash]
      /\ cached_block_hash_to_block' = {}
      /\ ref_cnt' = ref_cnt /\ free_block_queue' = free_block_queue
      /\ req_to_blocks' = req_to_blocks
  BY DEF ResetPrefixCache
<1>2. \A b \in Blocks : ref_cnt[b] = 0
  <2> DEFINE U == {b \in Blocks : ref_cnt[b] = 0}
  <2>1. IsFiniteSet(Blocks) /\ Cardinality(Blocks) = NumBlocks
    BY FS_Interval, SizesAssumption DEF Blocks
  <2>2. Range(free_block_queue) = U /\ Cardinality(Range(free_block_queue)) = NumBlocks
    BY <1>1, InjectiveLen DEF PoolInv, TypeOK, FreeQueueExact
  <2>3. U \in SUBSET Blocks /\ Cardinality(U) = Cardinality(Blocks)
    BY <2>1, <2>2
  <2>4. Blocks = U
    BY <2>1, <2>3, FS_Subset
  <2> QED BY <2>4
<1>3. TypeOK'
  BY <1>1 DEF PoolInv, TypeOK
<1>4. RefCntExact'
  <2>1. \A b \in Blocks : Holders(b)' = Holders(b)
    BY <1>1 DEF Holders
  <2> QED BY <1>1, <2>1 DEF PoolInv, RefCntExact
<1>5. FreeQueueExact' /\ CacheMapExact'
  BY <1>1 DEF PoolInv, FreeQueueExact, CacheMapExact
<1>6. SharedOnlyIfPublished'
  BY <1>1, <1>2 DEF SharedOnlyIfPublished
<1>7. TableContentsMatch'
  <2>1. ASSUME NEW r \in Requests, NEW i \in DOMAIN req_to_blocks[r]
        PROVE  block_hash'[req_to_blocks[r][i]] = NoHash
    <3>1. req_to_blocks[r] \in Seq(Blocks)
      BY DEF PoolInv, TypeOK
    <3>2. req_to_blocks[r][i] \in Blocks
      BY <3>1, LenProperties, ElementOfSeq
    <3> QED BY <3>2, <1>1
  <2> QED BY <2>1, <1>1 DEF TableContentsMatch
<1> QED BY <1>2, <1>3, <1>4, <1>5, <1>6, <1>7 DEF PoolInv

------------------------------------------------------------------------------
(* The component.                                                           *)

LEMMA InitPool == Init => PoolInv
<1> SUFFICES ASSUME Init PROVE PoolInv
  OBVIOUS
<1>1. Range(<<>>) = {} /\ IsInjective(<<>>)
  BY DEF Range, IsInjective
<1>2. free_block_queue \in [1 .. NumBlocks -> Blocks]
  BY SizesAssumption DEF Init, Blocks
<1>3. free_block_queue \in Seq(Blocks)
  BY <1>2, SizesAssumption
<1>4. IsInjective(free_block_queue)
  BY SizesAssumption DEF Init, IsInjective
<1>5. ASSUME NEW b \in Blocks PROVE b \in Range(free_block_queue)
  <2>1. b + 1 \in 1 .. NumBlocks /\ free_block_queue[b + 1] = b
    BY SizesAssumption DEF Init, Blocks
  <2> QED BY <2>1 DEF Range, Init
<1>6. Range(free_block_queue) = Blocks
  <2>1. Range(free_block_queue) \subseteq Blocks
    BY <1>2 DEF Range
  <2> QED BY <1>5, <2>1
<1>7. \A b \in Blocks : Holders(b) = {}
  BY <1>1 DEF Init, Holders
<1>8. Cardinality({}) = 0
  BY FS_EmptySet
<1>9. TypeOK
  BY <1>3 DEF Init, TypeOK
<1>10. RefCntExact
  BY <1>1, <1>7, <1>8 DEF Init, RefCntExact
<1>11. FreeQueueExact
  BY <1>4, <1>6 DEF Init, FreeQueueExact
<1>12. CacheMapExact /\ SharedOnlyIfPublished /\ TableContentsMatch
  BY DEF Init, CacheMapExact, SharedOnlyIfPublished, TableContentsMatch
<1> QED BY <1>9, <1>10, <1>11, <1>12 DEF PoolInv

\* One step keeps the invariant and the content of held blocks.
LEMMA NextPool ==
    ASSUME PoolInv, [Next]_vars
    PROVE  /\ PoolInv'
           /\ \A b \in Blocks : ref_cnt[b] > 0 /\ block_hash[b] # NoHash
                                  => block_hash'[b] = block_hash[b]
<1>0. all_token_ids \in [Requests -> Seq(Tokens)]
  BY DEF PoolInv, TypeOK
<1>1. CASE UNCHANGED vars
  <2>1. UNCHANGED kvVars /\ all_token_ids' = all_token_ids
    BY <1>1 DEF vars
  <2>2. PoolInv'
    BY <2>1, <1>0, TokensPreserve, LenProperties
  <2> QED BY <2>1, <2>2 DEF kvVars, poolVars
<1>2. ASSUME NEW r \in Requests, NEW prompt \in Prompts, NewRequest(r, prompt)
      PROVE  /\ PoolInv' /\ block_hash' = block_hash
  <2>1. UNCHANGED kvVars /\ req_to_blocks[r] = <<>>
    BY <1>2 DEF NewRequest
  <2>2. /\ all_token_ids' \in [Requests -> Seq(Tokens)]
        /\ \A s \in Requests \ {r} : all_token_ids'[s] = all_token_ids[s]
    BY <1>0, <1>2, PromptsAssumption DEF NewRequest
  <2>3. \A s \in Requests \ {r} : Len(all_token_ids[s]) <= Len(all_token_ids'[s])
    BY <2>2, <1>0, LenProperties
  <2>4. PoolInv'
    BY <2>1, <2>2, <2>3, TokensPreserve
  <2> QED BY <2>1, <2>4 DEF kvVars, poolVars
<1>3. ASSUME NEW r \in Requests, NEW t \in Tokens, AppendToken(r, t)
      PROVE  /\ PoolInv' /\ block_hash' = block_hash
  <2>1. UNCHANGED kvVars
    BY <1>3 DEF AppendToken
  <2>2. /\ all_token_ids' \in [Requests -> Seq(Tokens)]
        /\ \A s \in Requests \ {r} : all_token_ids'[s] = all_token_ids[s]
        /\ all_token_ids'[r] = Append(all_token_ids[r], t)
        /\ all_token_ids[r] \in Seq(Tokens)
    BY <1>0, <1>3 DEF AppendToken
  <2>3. /\ Len(all_token_ids[r]) <= Len(all_token_ids'[r])
        /\ \A i \in 1 .. Len(all_token_ids[r]) : all_token_ids'[r][i] = all_token_ids[r][i]
    BY <2>2
  <2>4. \A s \in Requests \ {r} : Len(all_token_ids[s]) <= Len(all_token_ids'[s])
    BY <2>2, <1>0, LenProperties
  <2>5. PoolInv'
    BY <2>1, <2>2, <2>3, <2>4, TokensPreserve
  <2> QED BY <2>1, <2>5 DEF kvVars, poolVars
<1>4. ASSUME NEW r \in Requests, NEW n \in 1 .. MaxModelLen, Admit(r, n)
      PROVE  /\ PoolInv'
             /\ \A b \in Blocks : ref_cnt[b] > 0 /\ block_hash[b] # NoHash
                                    => block_hash'[b] = block_hash[b]
  <2>1. PICK hit \in ComputedBlocks(r, 0) : AllocateSlots(r, n, hit)
    BY <1>4 DEF Admit
  <2>2. req_to_blocks[r] = <<>> /\ UNCHANGED all_token_ids /\ n \in Nat
    BY <1>4, SizesAssumption DEF Admit
  <2>3. /\ hit \in Seq(Blocks) /\ IsInjective(hit)
        /\ \A i \in DOMAIN hit : /\ i * BlockSize <= Len(all_token_ids[r])
                                 /\ block_hash[hit[i]] = BlockHash(r, i)
                                 /\ block_hash[hit[i]] # NoHash
    BY HitProperties
  <2> QED BY <2>1, <2>2, <2>3, AllocateSlotsPreserves
<1>5. ASSUME NEW r \in Requests, NEW n \in 1 .. MaxModelLen, Grow(r, n)
      PROVE  /\ PoolInv'
             /\ \A b \in Blocks : ref_cnt[b] > 0 /\ block_hash[b] # NoHash
                                    => block_hash'[b] = block_hash[b]
  <2>1. AllocateSlots(r, n, <<>>) /\ UNCHANGED all_token_ids /\ n \in Nat
    BY <1>5, SizesAssumption DEF Grow
  <2>2. /\ <<>> \in Seq(Blocks) /\ IsInjective(<<>>) /\ DOMAIN <<>> = {}
    BY DEF IsInjective
  <2> QED BY <2>1, <2>2, AllocateSlotsPreserves
<1>6. ASSUME NEW r \in Requests, Release(r)
      PROVE  /\ PoolInv' /\ block_hash' = block_hash
  <2>1. Free(r) /\ all_token_ids' = all_token_ids
    BY <1>6 DEF Release
  <2>2. PoolInv'
    BY <2>1, <1>0, FreePreserves
  <2> QED BY <2>1, <2>2 DEF Free
<1>7. ASSUME Reset
      PROVE  PoolInv' /\ \A b \in Blocks : ref_cnt[b] = 0
  BY <1>7, ResetPreserves DEF Reset
<1> QED BY <1>1, <1>2, <1>3, <1>4, <1>5, <1>6, <1>7 DEF Next

\* Whatever the callers do, the reference counts, the free queue, the hash map
\* and the block tables agree, and what is shared is published content.
THEOREM PoolInvariant == Spec => []PoolInv
<1>1. Init => PoolInv
  BY InitPool
<1>2. PoolInv /\ [Next]_vars => PoolInv'
  BY NextPool
<1> QED BY <1>1, <1>2, PTL DEF Spec

\* The variables keep the types of the Python attributes.
THEOREM TypeCorrect == Spec => []TypeOK
<1>1. PoolInv => TypeOK
  BY DEF PoolInv
<1> QED BY <1>1, PoolInvariant, PTL

\* A reference count is the number of block tables that hold the block: free_blocks
\* never raises, for any sequence of admissions, growths and releases.
THEOREM ReferencesAreExact == Spec => []RefCntExact
<1>1. PoolInv => RefCntExact
  BY DEF PoolInv
<1> QED BY <1>1, PoolInvariant, PTL

\* The free queue is exactly the set of unreferenced blocks, each once.
THEOREM FreeQueueIsExact == Spec => []FreeQueueExact
<1>1. PoolInv => FreeQueueExact
  BY DEF PoolInv
<1> QED BY <1>1, PoolInvariant, PTL

\* What a request finds in a published block of its table is its own content.
THEOREM NoForeignContent == Spec => []TableContentsMatch
<1>1. PoolInv => TableContentsMatch
  BY DEF PoolInv
<1> QED BY <1>1, PoolInvariant, PTL

\* A shared block is published under the keys of every holder.
LEMMA TenantsApart ==
    ASSUME PoolInv
    PROVE  TenantsIsolated
<1> SUFFICES ASSUME NEW r \in Requests, NEW s \in Requests, ExtraKeys[r][1] # ExtraKeys[s][1],
                    NEW b \in Range(req_to_blocks[r]) \cap Range(req_to_blocks[s])
             PROVE  FALSE
  BY DEF TenantsIsolated
<1>1. req_to_blocks[r] \in Seq(Blocks) /\ req_to_blocks[s] \in Seq(Blocks)
  BY DEF PoolInv, TypeOK
<1>2. PICK i \in DOMAIN req_to_blocks[r] : req_to_blocks[r][i] = b
  BY DEF Range
<1>3. PICK j \in DOMAIN req_to_blocks[s] : req_to_blocks[s][j] = b
  BY DEF Range
<1>4. b \in Blocks
  BY <1>1, <1>2, ElementOfSeq, LenProperties
<1>5. ref_cnt[b] > 1
  BY <1>4, TwoHolders
<1>6. block_hash[b] # NoHash
  BY <1>4, <1>5 DEF PoolInv, SharedOnlyIfPublished
<1>7. block_hash[b] = BlockHash(r, i) /\ block_hash[b] = BlockHash(s, j)
  BY <1>2, <1>3, <1>6 DEF PoolInv, TableContentsMatch
<1>8. KeysUpTo(r, i) = KeysUpTo(s, j)
  BY <1>7 DEF BlockHash
<1> QED BY <1>8 DEF KeysUpTo

\* Requests whose extra keys differ never hold a common block, whatever tokens
\* they have in common.
THEOREM TenantsAreIsolated == Spec => []TenantsIsolated
<1>1. PoolInv => TenantsIsolated
  BY TenantsApart
<1> QED BY <1>1, PoolInvariant, PTL

\* A published block that stays held never changes under its holders.
THEOREM HeldBlocksAreStable == Spec => HeldContentStable
<1> DEFINE Stable == \A b \in Blocks :
                       ref_cnt[b] > 0 /\ ref_cnt'[b] > 0 /\ block_hash[b] # NoHash =>
                           block_hash'[b] = block_hash[b]
<1>1. PoolInv /\ [Next]_vars => [Stable]_vars
  BY NextPool
<1> QED BY <1>1, PoolInvariant, PTL DEF Spec, HeldContentStable

------------------------------------------------------------------------------
(* The pool implements the sharing of blocks.                               *)

\* Nobody is at a block: its reference count is zero.
LEMMA UnreferencedIsUnused ==
    ASSUME PoolInv, NEW b \in Blocks
    PROVE  ref_cnt[b] = 0 <=> Holders(b) = {}
<1>1. IsFiniteSet(Holders(b)) /\ ref_cnt[b] = Cardinality(Holders(b))
  <2>1. Holders(b) \in SUBSET Requests
    BY DEF Holders
  <2> QED BY <2>1, RequestsAssumption, FS_Subset DEF PoolInv, RefCntExact
<1> QED BY <1>1, FS_EmptySet

LEMMA AllocateIsAcquire ==
    ASSUME PoolInv, PoolInv', NEW r \in Requests, NEW num_tokens \in Nat,
           NEW hit \in Seq(Blocks), IsInjective(hit),
           \A i \in DOMAIN hit : block_hash[hit[i]] # NoHash,
           hit # <<>> => req_to_blocks[r] = <<>>,
           AllocateSlots(r, num_tokens, hit)
    PROVE  Sharing!Next
<1>1. PICK held \in Seq(Blocks), new \in Seq(Blocks) :
        /\ held = IF hit = <<>> THEN req_to_blocks[r] ELSE hit
        /\ IsInjective(new) /\ Range(new) \cap Range(hit) = {}
        /\ \A b \in Range(new) : b \in Blocks /\ Holders(b) = {}
        /\ req_to_blocks' = [req_to_blocks EXCEPT ![r] = held \o new]
        /\ Least(num_tokens, MaxModelLen) <= (Len(held) + Len(new)) * BlockSize
        /\ \A b \in Blocks : block_hash'[b] # block_hash[b] =>
             b \in Range(new) \/ (b \in Range(held) /\ block_hash[b] = NoHash)
  <2>1. SlotsAdded(r, num_tokens, hit)
    BY AllocateSlotsEffect
  <2> QED BY <2>1 DEF SlotsAdded
<1>2. PICK shared \in SUBSET Blocks, fresh \in SUBSET Blocks :
        shared = Range(hit) /\ fresh = Range(new)
  <2>1. Range(hit) \subseteq Blocks /\ Range(new) \subseteq Blocks
    BY ElementOfSeq, LenProperties DEF Range
  <2> QED BY <2>1
<1>3. Range(held \o new) = Range(req_to_blocks[r]) \cup shared \cup fresh
      /\ (shared = {} \/ Range(req_to_blocks[r]) = {})
  <2>1. Range(held \o new) = Range(held) \cup Range(new)
    BY ConcatInjective
  <2>2. CASE hit = <<>>
    <3>1. Range(hit) = {}
      BY <2>2 DEF Range
    <3> QED BY <1>1, <1>2, <2>1, <2>2, <3>1
  <2>3. CASE hit # <<>>
    <3>1. Range(req_to_blocks[r]) = {}
      BY <2>3 DEF Range
    <3> QED BY <1>1, <1>2, <2>1, <2>3, <3>1
  <2> QED BY <2>2, <2>3
<1>4. \A s \in Requests : Range(req_to_blocks'[s]) =
        IF s = r THEN Range(req_to_blocks[r]) \cup shared \cup fresh ELSE Range(req_to_blocks[s])
  <2>1. req_to_blocks'[r] = held \o new
        /\ \A s \in Requests \ {r} : req_to_blocks'[s] = req_to_blocks[s]
    BY <1>1 DEF PoolInv, TypeOK
  <2> QED BY <2>1, <1>3
<1>5. \A b \in Blocks : Holders(b)' = IF b \in shared \cup fresh THEN Holders(b) \cup {r}
                                      ELSE Holders(b)
  BY <1>4 DEF Holders
<1>6. \A b \in shared : block_hash[b] # NoHash /\ r \notin Holders(b)
  <2>1. \A b \in shared : block_hash[b] # NoHash
    BY <1>2 DEF Range
  <2> QED BY <2>1, <1>3 DEF Holders
<1>7. \A b \in fresh : Holders(b) = {}
  BY <1>1, <1>2
<1>8. shared \cap fresh = {}
  BY <1>1, <1>2
<1>9. DOMAIN block_hash' = Blocks
  BY DEF PoolInv, TypeOK
<1>10. ASSUME NEW b \in Blocks, block_hash'[b] # block_hash[b], b \notin fresh
       PROVE  Holders(b) = {r} /\ block_hash[b] = NoHash
  <2>1. b \in Range(held) /\ block_hash[b] = NoHash
    BY <1>1, <1>2, <1>10
  <2>2. b \in Range(req_to_blocks[r])
    <3>1. b \notin shared
      BY <2>1, <1>6
    <3> QED BY <2>1, <3>1, <1>1, <1>2
  <2>3. r \in Holders(b)
    BY <2>2 DEF Holders
  <2>4. ASSUME NEW s \in Holders(b), s # r PROVE FALSE
    <3>1. ref_cnt[b] > 1
      BY <2>2, <2>4, TwoHolders DEF Holders
    <3> QED BY <3>1, <2>1 DEF PoolInv, SharedOnlyIfPublished
  <2> QED BY <2>1, <2>3, <2>4
<1>11. Sharing!Acquire(r, shared, fresh)
  <2>1. \A b \in Blocks : block_hash'[b] # block_hash[b] =>
          b \in fresh \/ (Holders(b) = {r} /\ block_hash[b] = NoHash)
    BY <1>10
  <2> QED BY <1>5, <1>6, <1>7, <1>8, <1>9, <2>1 DEF Sharing!Acquire, Sharing!Unused
<1> QED BY <1>11 DEF Sharing!Next

LEMMA FreeIsRelease ==
    ASSUME PoolInv, NEW r \in Requests, Free(r)
    PROVE  Sharing!Next
<1>1. /\ req_to_blocks' = [req_to_blocks EXCEPT ![r] = <<>>]
      /\ UNCHANGED block_hash
  BY DEF Free
<1>2. \A s \in Requests : Range(req_to_blocks'[s]) =
        IF s = r THEN {} ELSE Range(req_to_blocks[s])
  <2>1. req_to_blocks'[r] = <<>> /\ \A s \in Requests \ {r} : req_to_blocks'[s] = req_to_blocks[s]
    BY <1>1 DEF PoolInv, TypeOK
  <2>2. Range(<<>>) = {}
    BY DEF Range
  <2> QED BY <2>1, <2>2
<1>3. \A b \in Blocks : Holders(b)' = Holders(b) \ {r}
  BY <1>2 DEF Holders
<1>4. Sharing!Release(r)
  BY <1>1, <1>3 DEF Sharing!Release
<1> QED BY <1>4 DEF Sharing!Next

LEMMA ResetIsForget ==
    ASSUME PoolInv, ResetPrefixCache, UNCHANGED all_token_ids
    PROVE  Sharing!Next
<1>1. \A b \in Blocks : Holders(b) = {}
  BY ResetPreserves, UnreferencedIsUnused
<1>2. block_hash' = [b \in Blocks |-> NoHash] /\ UNCHANGED req_to_blocks
  BY DEF ResetPrefixCache
<1>3. \A b \in Blocks : Holders(b)' = Holders(b)
  BY <1>2 DEF Holders
<1>4. Sharing!Forget
  BY <1>1, <1>2, <1>3 DEF Sharing!Forget, Sharing!Unused
<1> QED BY <1>4 DEF Sharing!Next

LEMMA KeepsSharing ==
    ASSUME UNCHANGED <<req_to_blocks, block_hash>>
    PROVE  UNCHANGED Sharing!sharingVars
<1>1. \A b \in Blocks : Holders(b)' = Holders(b)
  BY DEF Holders
<1> QED BY <1>1 DEF Sharing!sharingVars

LEMMA InitSharing ==
    ASSUME Init
    PROVE  Sharing!Init
<1>1. \A b \in Blocks : Holders(b) = {}
  BY DEF Init, Holders, Range
<1> QED BY <1>1 DEF Init, Sharing!Init

\* The free queue, the reference counts and the hash map together implement the sharing
\* discipline: blocks are joined only when published, taken only when unheld, and
\* forgotten only when the pool is idle.
THEOREM PoolImplementsSharing == Spec => ImplementsSharing
<1>1. PoolInv /\ PoolInv' /\ [Next]_vars => [Sharing!Next]_Sharing!sharingVars
  <2> SUFFICES ASSUME PoolInv, PoolInv', [Next]_vars
               PROVE  Sharing!Next \/ UNCHANGED Sharing!sharingVars
    OBVIOUS
  <2>1. CASE UNCHANGED <<req_to_blocks, block_hash>>
    BY <2>1, KeepsSharing
  <2>2. ASSUME NEW r \in Requests, NEW n \in 1 .. MaxModelLen, Admit(r, n) PROVE Sharing!Next
    <3>1. PICK hit \in ComputedBlocks(r, 0) :
            req_to_blocks[r] = <<>> /\ AllocateSlots(r, n, hit)
      BY <2>2 DEF Admit
    <3>2. /\ hit \in Seq(Blocks) /\ IsInjective(hit)
          /\ \A i \in DOMAIN hit : block_hash[hit[i]] # NoHash
      BY HitProperties
    <3>3. n \in Nat
      BY SizesAssumption
    <3> QED BY <3>1, <3>2, <3>3, AllocateIsAcquire
  <2>3. ASSUME NEW r \in Requests, NEW n \in 1 .. MaxModelLen, Grow(r, n) PROVE Sharing!Next
    <3>1. AllocateSlots(r, n, <<>>)
      BY <2>3 DEF Grow
    <3>2. <<>> \in Seq(Blocks) /\ IsInjective(<<>>) /\ DOMAIN <<>> = {}
      BY EmptySeq DEF IsInjective
    <3>3. n \in Nat
      BY SizesAssumption
    <3> QED BY <3>1, <3>2, <3>3, AllocateIsAcquire
  <2>4. ASSUME NEW r \in Requests, Release(r) PROVE Sharing!Next
    BY <2>4, FreeIsRelease DEF Release
  <2>5. CASE Reset
    BY <2>5, ResetIsForget DEF Reset
  <2>6. ASSUME NEW r \in Requests,
               \/ \E prompt \in Prompts : NewRequest(r, prompt)
               \/ \E t \in Tokens : AppendToken(r, t)
        PROVE  UNCHANGED <<req_to_blocks, block_hash>>
    BY <2>6 DEF NewRequest, AppendToken, kvVars, poolVars
  <2> QED BY <2>1, <2>2, <2>3, <2>4, <2>5, <2>6 DEF Next, vars, kvVars, poolVars
<1>2. Init => Sharing!Init
  BY InitSharing
<1> QED BY <1>1, <1>2, PoolInvariant, PTL DEF Spec, ImplementsSharing, Sharing!Spec

------------------------------------------------------------------------------
(* The common prefix.                                                       *)

\* A run of positions from the first is as long as it has members.
LEMMA LeadingRun ==
    ASSUME NEW n \in Nat, NEW D \in SUBSET (1 .. n),
           \A k \in D : \A j \in 1 .. k : j \in D,
           NEW i \in 1 .. Cardinality(D)
    PROVE  i \in D
<1> SUFFICES ASSUME i \notin D PROVE FALSE
  OBVIOUS
<1>1. IsFiniteSet(1 .. n) /\ Cardinality(1 .. n) = n
  BY FS_Interval
<1>2. IsFiniteSet(D) /\ Cardinality(D) \in Nat /\ Cardinality(D) <= n
  <2>1. IsFiniteSet(D) /\ Cardinality(D) <= Cardinality(1 .. n)
    BY <1>1, FS_Subset
  <2> QED BY <1>1, <2>1, FS_CardinalityType
<1>3. i \in 1 .. n /\ i \in Nat /\ i > 0
  BY <1>2
<1>4. D \in SUBSET (1 .. i - 1)
  <2> SUFFICES ASSUME NEW k \in D PROVE k \in 1 .. i - 1
    OBVIOUS
  <2>1. k \in 1 .. n /\ i \notin 1 .. k
    BY Zenon
  <2> QED BY <2>1, <1>3
<1>5. IsFiniteSet(1 .. i - 1) /\ Cardinality(1 .. i - 1) = i - 1
  BY <1>3, FS_Interval
<1>6. Cardinality(D) <= i - 1
  <2>1. Cardinality(D) <= Cardinality(1 .. i - 1)
    BY <1>4, <1>5, FS_Subset
  <2> QED BY <1>5, <2>1
<1> QED BY <1>2, <1>6

\* A block with as many references as there are block tables is in every table.
LEMMA EverybodyHolds ==
    ASSUME PoolInv, NEW b \in Blocks, ref_cnt[b] = NumHolders,
           NEW s \in Requests, req_to_blocks[s] # <<>>
    PROVE  b \in Range(req_to_blocks[s])
<1> DEFINE All == {r \in Requests : req_to_blocks[r] # <<>>}
<1>1. Holders(b) \in SUBSET All
  BY DEF Holders, Range
<1>2. IsFiniteSet(All)
  BY RequestsAssumption, FS_Subset
<1>3. Cardinality(Holders(b)) = Cardinality(All)
  BY DEF PoolInv, RefCntExact, NumHolders
<1>4. Holders(b) = All
  BY <1>1, <1>2, <1>3, FS_Subset
<1> QED BY <1>4 DEF Holders

\* A block that two requests hold is at the same place in both of their tables.
LEMMA SharedAtSamePlace ==
    ASSUME PoolInv, NEW r \in Requests, NEW s \in Requests,
           NEW i \in DOMAIN req_to_blocks[r],
           req_to_blocks[r][i] \in Range(req_to_blocks[s])
    PROVE  i \in DOMAIN req_to_blocks[s] /\ req_to_blocks[s][i] = req_to_blocks[r][i]
<1>1. CASE r = s
  BY <1>1
<1>2. CASE r # s
  <2>1. PICK b \in Blocks : b = req_to_blocks[r][i]
    <3>1. req_to_blocks[r] \in Seq(Blocks)
      BY DEF PoolInv, TypeOK
    <3> QED BY <3>1, ElementOfSeq, LenProperties
  <2>2. PICK j \in DOMAIN req_to_blocks[s] : req_to_blocks[s][j] = b
    BY <2>1 DEF Range
  <2>3. b \in Range(req_to_blocks[r]) /\ b \in Range(req_to_blocks[s])
    BY <2>1, <2>2 DEF Range
  <2>4. block_hash[b] # NoHash
    BY <2>3, <1>2, TwoHolders DEF PoolInv, SharedOnlyIfPublished
  <2>5. /\ block_hash[b] = BlockHash(r, i) /\ i * BlockSize <= Len(all_token_ids[r])
        /\ block_hash[b] = BlockHash(s, j) /\ j * BlockSize <= Len(all_token_ids[s])
    BY <2>1, <2>2, <2>4 DEF PoolInv, TableContentsMatch
  <2>6. i \in Nat /\ j \in Nat
    <3>1. req_to_blocks[r] \in Seq(Blocks) /\ req_to_blocks[s] \in Seq(Blocks)
      BY DEF PoolInv, TypeOK
    <3> QED BY <3>1, LenProperties
  <2>7. ASSUME NEW q \in Requests, NEW k \in Nat, k * BlockSize <= Len(all_token_ids[q])
        PROVE  Len(BlockHash(q, k)[2]) = k * BlockSize
    <3>1. all_token_ids[q] \in Seq(Tokens) /\ Len(all_token_ids[q]) \in Nat
      BY LenProperties DEF PoolInv, TypeOK
    <3>2. k * BlockSize \in Nat
      BY SizesAssumption
    <3>3. PICK m \in 0 .. Len(all_token_ids[q]) : m = k * BlockSize
      BY <2>7, <3>1, <3>2
    <3>4. Len(SubSeq(all_token_ids[q], 1, m)) = m
      BY <3>1
    <3> QED BY <3>3, <3>4 DEF BlockHash
  <2>8. i * BlockSize = j * BlockSize
    <3>1. Len(BlockHash(r, i)[2]) = i * BlockSize
      BY <2>5, <2>6, <2>7
    <3>2. Len(BlockHash(s, j)[2]) = j * BlockSize
      BY <2>5, <2>6, <2>7
    <3>3. BlockHash(r, i) = BlockHash(s, j)
      BY <2>5
    <3> QED BY <3>1, <3>2, <3>3
  <2>9. i = j
    BY <2>6, <2>8, SizesAssumption
  <2> QED BY <2>1, <2>2, <2>9
<1> QED BY <1>1, <1>2

\* Cascade attention may read these blocks once for the whole batch.
LEMMA PrefixIsCommon ==
    ASSUME PoolInv
    PROVE  CommonPrefixIsCommon
<1> SUFFICES ASSUME NEW r \in Requests, NEW s \in Requests,
                    req_to_blocks[r] # <<>>, req_to_blocks[s] # <<>>,
                    NEW i \in 1 .. NumCommonPrefixBlocks(r)
             PROVE  i \in DOMAIN req_to_blocks[s] /\ req_to_blocks[s][i] = req_to_blocks[r][i]
  BY DEF CommonPrefixIsCommon
<1> DEFINE table == req_to_blocks[r]
           D == {k \in DOMAIN table : \A j \in 1 .. k : ref_cnt[table[j]] = NumHolders}
<1>1. table \in Seq(Blocks) /\ Len(table) \in Nat /\ DOMAIN table = 1 .. Len(table)
  BY LenProperties DEF PoolInv, TypeOK
<1>2. /\ D \in SUBSET (1 .. Len(table))
      /\ \A k \in D : \A j \in 1 .. k : j \in D
  BY <1>1
<1>3. i \in 1 .. Cardinality(D)
  BY DEF NumCommonPrefixBlocks
<1>4. i \in D
  <2> HIDE DEF D
  <2> QED BY <1>1, <1>2, <1>3, LeadingRun
<1>5. i \in DOMAIN table /\ ref_cnt[table[i]] = NumHolders
  BY <1>1, <1>4
<1>6. table[i] \in Blocks
  BY <1>1, <1>5, ElementOfSeq
<1>7. table[i] \in Range(req_to_blocks[s])
  BY <1>5, <1>6, EverybodyHolds
<1> QED BY <1>5, <1>7, SharedAtSamePlace

\* The prefix get_num_common_prefix_blocks counts for a running request, from
\* reference counts alone, is at the same places of every block table.
THEOREM CommonPrefixesAreCommon == Spec => []CommonPrefixIsCommon
<1>1. PoolInv => CommonPrefixIsCommon
  BY PrefixIsCommon
<1> QED BY <1>1, PoolInvariant, PTL

------------------------------------------------------------------------------
(* The order of a queue.                                                    *)

\* b comes before p in q.
InThisOrder(q, b, p) == \E i, j \in DOMAIN q : i < j /\ q[i] = b /\ q[j] = p

\* Whoever is kept keeps his place.
LEMMA FilterKeepsOrder ==
    ASSUME NEW T, NEW q \in Seq(T), IsInjective(q), NEW S, NEW b \in S, NEW p \in S,
           InThisOrder(q, b, p)
    PROVE  InThisOrder(Filter(q, S), b, p)
<1> DEFINE f == Filter(q, S)
<1>1. DOMAIN q = 1 .. Len(q) /\ Len(q) \in Nat
  BY LenProperties
<1>2. PICK i \in DOMAIN q, j \in DOMAIN q : i < j /\ q[i] = b /\ q[j] = p
  BY DEF InThisOrder
<1>3. /\ f \in Seq(T)
      /\ Range(f) = Range(q) \cap S
      /\ \A m, n \in DOMAIN f : m < n =>
           \E k, l \in DOMAIN q : k < l /\ q[k] = f[m] /\ q[l] = f[n]
  BY FilterProperties
<1>4. b \in Range(q) /\ p \in Range(q)
  BY <1>2 DEF Range
<1> HIDE DEF f
<1>5. DOMAIN f = 1 .. Len(f) /\ Len(f) \in Nat
  BY <1>3, LenProperties
<1>6. PICK m \in DOMAIN f : f[m] = b
  BY <1>3, <1>4 DEF Range
<1>7. PICK n \in DOMAIN f : f[n] = p
  BY <1>3, <1>4 DEF Range
<1>8. m # n
  <2>1. b # p
    BY <1>1, <1>2 DEF IsInjective
  <2> QED BY <2>1, <1>6, <1>7
<1>9. ~ (n < m)
  <2> SUFFICES ASSUME n < m PROVE FALSE
    OBVIOUS
  <2>1. PICK k \in DOMAIN q, l \in DOMAIN q : k < l /\ q[k] = p /\ q[l] = b
    BY <1>3, <1>6, <1>7
  <2>2. k = j /\ l = i
    BY <2>1, <1>2 DEF IsInjective
  <2> QED BY <2>1, <2>2, <1>1, <1>2
<1>10. m < n
  BY <1>5, <1>8, <1>9
<1> QED BY <1>6, <1>7, <1>10 DEF InThisOrder, f

\* Whoever stays in a queue that is cut keeps everybody who came after him.
LEMMA CutKeepsOrder ==
    ASSUME NEW T, NEW q \in Seq(T), IsInjective(q), NEW n \in 0 .. Len(q), NEW b, NEW p,
           InThisOrder(q, b, p), b \in Range(SubSeq(q, n + 1, Len(q)))
    PROVE  InThisOrder(SubSeq(q, n + 1, Len(q)), b, p)
<1> DEFINE back == SubSeq(q, n + 1, Len(q))
<1>1. DOMAIN q = 1 .. Len(q) /\ Len(q) \in Nat
  BY LenProperties
<1>2. PICK i \in DOMAIN q, j \in DOMAIN q : i < j /\ q[i] = b /\ q[j] = p
  BY DEF InThisOrder
<1>3. DOMAIN back = 1 .. Len(q) - n /\ \A k \in 1 .. Len(q) - n : back[k] = q[n + k]
  BY <1>1
<1> HIDE DEF back
<1>4. PICK k \in 1 .. Len(q) - n : back[k] = b
  BY <1>3 DEF Range, back
<1>5. n + k \in DOMAIN q /\ q[n + k] = b
  BY <1>1, <1>3, <1>4
<1>6. n + k = i
  BY <1>2, <1>5 DEF IsInjective
<1>7. PICK l \in 1 .. Len(q) - n : n + l = j
  <2>1. j - n \in 1 .. Len(q) - n /\ n + (j - n) = j
    BY <1>1, <1>2, <1>4, <1>6
  <2> QED BY <2>1
<1>8. k < l /\ back[l] = p
  BY <1>1, <1>2, <1>3, <1>6, <1>7
<1> QED BY <1>3, <1>4, <1>8 DEF InThisOrder, back

\* Queues that are joined keep their orders, the first before the second.
LEMMA JoinedOrder ==
    ASSUME NEW T, NEW s \in Seq(T), NEW t \in Seq(T), NEW b, NEW p,
           \/ InThisOrder(s, b, p)
           \/ InThisOrder(t, b, p)
           \/ b \in Range(s) /\ p \in Range(t)
    PROVE  InThisOrder(s \o t, b, p)
<1>1. /\ Len(s) \in Nat /\ DOMAIN s = 1 .. Len(s)
      /\ Len(t) \in Nat /\ DOMAIN t = 1 .. Len(t)
  BY LenProperties
<1>2. DOMAIN (s \o t) = 1 .. Len(s) + Len(t)
  BY <1>1
<1>3. /\ \A i \in 1 .. Len(s) : i \in DOMAIN (s \o t) /\ (s \o t)[i] = s[i]
      /\ \A i \in 1 .. Len(t) : Len(s) + i \in DOMAIN (s \o t) /\ (s \o t)[Len(s) + i] = t[i]
  BY <1>1, <1>2
<1>4. CASE InThisOrder(s, b, p)
  <2>1. PICK i \in 1 .. Len(s), j \in 1 .. Len(s) : i < j /\ s[i] = b /\ s[j] = p
    BY <1>1, <1>4 DEF InThisOrder
  <2> QED BY <2>1, <1>3 DEF InThisOrder
<1>5. CASE InThisOrder(t, b, p)
  <2>1. PICK i \in 1 .. Len(t), j \in 1 .. Len(t) : i < j /\ t[i] = b /\ t[j] = p
    BY <1>1, <1>5 DEF InThisOrder
  <2>2. Len(s) + i < Len(s) + j
    BY <1>1, <2>1
  <2> QED BY <2>1, <2>2, <1>3 DEF InThisOrder
<1>6. CASE b \in Range(s) /\ p \in Range(t)
  <2>1. PICK i \in 1 .. Len(s) : s[i] = b
    BY <1>1, <1>6 DEF Range
  <2>2. PICK j \in 1 .. Len(t) : t[j] = p
    BY <1>1, <1>6 DEF Range
  <2>3. i < Len(s) + j
    BY <1>1, <2>1, <2>2
  <2> QED BY <2>1, <2>2, <2>3, <1>3 DEF InThisOrder
<1> QED BY <1>4, <1>5, <1>6

\* A table that is given back in reverse has every block before its predecessor.
LEMMA ReversedOrder ==
    ASSUME NEW T, NEW s \in Seq(T), NEW i \in DOMAIN s, NEW j \in DOMAIN s, i < j
    PROVE  InThisOrder(Reversed(s), s[j], s[i])
<1>1. DOMAIN s = 1 .. Len(s) /\ Len(s) \in Nat
  BY LenProperties
<1>2. /\ DOMAIN Reversed(s) = 1 .. Len(s)
      /\ \A k \in 1 .. Len(s) : Reversed(s)[k] = s[Len(s) + 1 - k]
  BY <1>1 DEF Reversed
<1>3. PICK m \in 1 .. Len(s), n \in 1 .. Len(s) :
        m < n /\ Len(s) + 1 - m = j /\ Len(s) + 1 - n = i
  <2>1. /\ Len(s) + 1 - j \in 1 .. Len(s) /\ Len(s) + 1 - i \in 1 .. Len(s)
        /\ Len(s) + 1 - j < Len(s) + 1 - i
        /\ Len(s) + 1 - (Len(s) + 1 - j) = j /\ Len(s) + 1 - (Len(s) + 1 - i) = i
    BY <1>1
  <2> QED BY <2>1
<1>4. Reversed(s)[m] = s[j] /\ Reversed(s)[n] = s[i]
  BY <1>2, <1>3
<1> QED BY <1>2, <1>3, <1>4 DEF InThisOrder

------------------------------------------------------------------------------
(* Chains of content.                                                       *)

\* The content before a full block of a request is its block before.
LEMMA ParentOfBlock ==
    ASSUME PoolInv, NEW r \in Requests, NEW i \in Nat \ {0},
           i * BlockSize <= Len(all_token_ids[r])
    PROVE  /\ HasParent(BlockHash(r, i)) => i > 1
           /\ i > 1 => Parent(BlockHash(r, i)) = BlockHash(r, i - 1)
<1> DEFINE all == all_token_ids[r]
<1>1. all \in Seq(Tokens) /\ Len(all) \in Nat
  BY LenProperties DEF PoolInv, TypeOK
<1>2. PICK B \in Nat \ {0} : B = BlockSize
  BY SizesAssumption
<1>3. PICK m \in Nat : m = i * B
  BY <1>2
<1> HIDE DEF all
<1>4. m <= Len(all)
  BY <1>2, <1>3 DEF all
<1>5. SubSeq(all, 1, m) \in Seq(Tokens) /\ Len(SubSeq(all, 1, m)) = m
  BY <1>1, <1>4
<1>6. BlockHash(r, i) = <<KeysUpTo(r, i), SubSeq(all, 1, m)>>
  BY <1>2, <1>3 DEF BlockHash, all
<1>7. ASSUME HasParent(BlockHash(r, i)) PROVE i > 1
  <2>1. i * B > B
    BY <1>2, <1>3, <1>5, <1>6, <1>7 DEF HasParent
  <2> QED BY <2>1, <1>2
<1>8. ASSUME i > 1 PROVE Parent(BlockHash(r, i)) = BlockHash(r, i - 1)
  <2>1. PICK n \in Nat : n = m - B /\ n = (i - 1) * B
    <3>1. (i - 1) * B \in Nat /\ (i - 1) * B = i * B - B
      BY <1>2, <1>8
    <3> QED BY <3>1, <1>3
  <2>2. n <= m /\ n <= Len(all)
    BY <1>1, <1>2, <1>3, <1>4, <2>1
  <2>3. SubSeq(SubSeq(all, 1, m), 1, n) = SubSeq(all, 1, n)
    <3> DEFINE front == SubSeq(all, 1, m)
    <3>1. front \in Seq(Tokens) /\ Len(front) = m /\ \A k \in 1 .. m : front[k] = all[k]
      BY <1>1, <1>4
    <3> HIDE DEF front
    <3>2. SubSeq(front, 1, n) = [k \in 1 .. n |-> front[k]]
      BY <3>1, <2>2
    <3>3. SubSeq(all, 1, n) = [k \in 1 .. n |-> all[k]]
      BY <1>1, <2>2
    <3>4. \A k \in 1 .. n : front[k] = all[k]
      BY <3>1, <2>2
    <3> QED BY <3>2, <3>3, <3>4 DEF front
  <2>4. /\ n = B <=> i - 1 = 1
        /\ i # 1
    BY <1>2, <1>8, <2>1
  <2>5. KeysUpTo(r, i - 1) = IF n = B THEN <<KeysUpTo(r, i)[1], NoKey>> ELSE KeysUpTo(r, i)
    BY <2>4 DEF KeysUpTo
  <2>6. Parent(BlockHash(r, i)) = <<KeysUpTo(r, i - 1), SubSeq(SubSeq(all, 1, m), 1, n)>>
    BY <1>2, <1>5, <1>6, <2>1, <2>5 DEF Parent
  <2>7. BlockHash(r, i - 1) = <<KeysUpTo(r, i - 1), SubSeq(all, 1, n)>>
    BY <1>2, <2>1 DEF BlockHash, all
  <2> QED BY <2>3, <2>6, <2>7
<1> QED BY <1>7, <1>8

\* A content that has to follow another one follows a content.
LEMMA ParentIsContent ==
    ASSUME NEW h \in Hashes, HasParent(h)
    PROVE  Parent(h) # NoHash
<1>1. PICK t \in Seq(Tokens) : t = h[2] /\ h[1] \in Keys
  BY DEF Hashes
<1>2. PICK n \in 0 .. Len(t) : n = Len(t) - BlockSize
  <2>1. Len(t) \in Nat /\ BlockSize \in Nat /\ Len(t) > BlockSize
    BY <1>1, LenProperties, SizesAssumption DEF HasParent
  <2>2. Len(t) - BlockSize \in 0 .. Len(t)
    BY <2>1
  <2> QED BY <2>2
<1>3. SubSeq(t, 1, n) \in Seq(Tokens)
  BY <1>2
<1>4. h[1] \in Keys /\ <<h[1][1], NoKey>> \in Keys
  <2>1. PICK q \in Requests, k \in {1, 2} : h[1] = KeysUpTo(q, k)
    BY <1>1 DEF Keys
  <2>2. <<h[1][1], NoKey>> = KeysUpTo(q, 1)
    BY <2>1 DEF KeysUpTo
  <2> QED BY <1>1, <2>2 DEF Keys
<1>5. Parent(h) \in Hashes
  BY <1>1, <1>2, <1>3, <1>4 DEF Parent, Hashes
<1> QED BY <1>5, NoHashAssumption

\* The block before a published block of a table holds the content it follows.
LEMMA PublishedFollows ==
    ASSUME PoolInv, PublishedFromFront, NEW r \in Requests, NEW i \in DOMAIN req_to_blocks[r],
           block_hash[req_to_blocks[r][i]] # NoHash,
           HasParent(block_hash[req_to_blocks[r][i]])
    PROVE  /\ i > 1 /\ i - 1 \in DOMAIN req_to_blocks[r]
           /\ block_hash[req_to_blocks[r][i - 1]] = Parent(block_hash[req_to_blocks[r][i]])
           /\ block_hash[req_to_blocks[r][i - 1]] # NoHash
<1>1. req_to_blocks[r] \in Seq(Blocks) /\ DOMAIN req_to_blocks[r] = 1 .. Len(req_to_blocks[r])
  BY LenProperties DEF PoolInv, TypeOK
<1>2. i \in Nat \ {0} /\ Len(req_to_blocks[r]) \in Nat
  BY <1>1, LenProperties
<1>3. i * BlockSize <= Len(all_token_ids[r]) /\ block_hash[req_to_blocks[r][i]] = BlockHash(r, i)
  BY DEF PoolInv, TableContentsMatch
<1>4. i > 1 /\ Parent(BlockHash(r, i)) = BlockHash(r, i - 1)
  BY <1>2, <1>3, ParentOfBlock
<1>5. i - 1 \in DOMAIN req_to_blocks[r]
  BY <1>1, <1>2, <1>4
<1>6. block_hash[req_to_blocks[r][i - 1]] # NoHash
  BY <1>4 DEF PublishedFromFront
<1>7. block_hash[req_to_blocks[r][i - 1]] = BlockHash(r, i - 1)
  BY <1>5, <1>6 DEF PoolInv, TableContentsMatch
<1> QED BY <1>3, <1>4, <1>5, <1>6, <1>7

\* Eviction from the head of the queue strands nothing.
LEMMA ChainsAreWhole ==
    ASSUME PoolInv, ChainInv
    PROVE  CachedPrefixesHaveNoHoles
<1> SUFFICES ASSUME NEW e \in cached_block_hash_to_block, HasParent(e[1])
             PROVE  \E p \in Blocks : block_hash[p] = Parent(e[1]) /\ block_hash[p] # NoHash
  BY DEF CachedPrefixesHaveNoHoles, CachedBlocks, PoolInv, CacheMapExact
<1>1. PICK b \in Blocks : block_hash[b] # NoHash /\ e = <<block_hash[b], b>>
  BY DEF PoolInv, CacheMapExact
<1>2. HasParent(block_hash[b]) /\ block_hash[b] \in Hashes
  BY <1>1 DEF PoolInv, TypeOK
<1>3. CASE ref_cnt[b] = 0
  <2>1. PICK p \in Blocks : block_hash[p] = Parent(block_hash[b])
    BY <1>1, <1>2, <1>3 DEF ChainInv, TailGoesFirst
  <2> QED BY <2>1, <1>1, <1>2, ParentIsContent
<1>4. CASE ref_cnt[b] # 0
  <2>1. PICK r \in Requests : b \in Range(req_to_blocks[r])
    BY <1>4, UnreferencedIsUnused DEF Holders
  <2>2. PICK i \in DOMAIN req_to_blocks[r] : req_to_blocks[r][i] = b
    BY <2>1 DEF Range
  <2>3. /\ i - 1 \in DOMAIN req_to_blocks[r]
        /\ block_hash[req_to_blocks[r][i - 1]] = Parent(block_hash[b])
        /\ block_hash[req_to_blocks[r][i - 1]] # NoHash
    BY <2>2, <1>1, <1>2, PublishedFollows DEF ChainInv
  <2>4. req_to_blocks[r][i - 1] \in Blocks
    <3>1. req_to_blocks[r] \in Seq(Blocks)
      BY DEF PoolInv, TypeOK
    <3> QED BY <3>1, <2>3, ElementOfSeq, LenProperties
  <2> QED BY <2>3, <2>4, <1>1
<1> QED BY <1>3, <1>4

------------------------------------------------------------------------------
(* Allocation and release keep the chains.                                  *)

\* What allocate_slots does to the queue and to the contents: nobody who stays free
\* is overtaken, the table is published up to num_full, nothing else changes but
\* that the blocks taken forget what they held.
SlotsTaken(r, hit, held, new, num_full) ==
    /\ held = IF hit = <<>> THEN req_to_blocks[r] ELSE hit
    /\ req_to_blocks' = [req_to_blocks EXCEPT ![r] = held \o new]
    /\ IsInjective(held \o new) /\ Range(held) \cap Range(new) = {}
    /\ \A b \in Range(new) : ref_cnt[b] = 0
    /\ \A b \in Blocks :
         ref_cnt'[b] = IF b \in Range(hit) \cup Range(new) THEN ref_cnt[b] + 1 ELSE ref_cnt[b]
    /\ \A b, p \in Blocks :
         Behind(p, b) /\ ref_cnt'[b] = 0 =>
             p \in Range(hit) \/ (p \notin Range(new) /\ Behind(p, b)')
    /\ \A i \in DOMAIN (held \o new) :
         block_hash'[(held \o new)[i]] # NoHash <=>
             \/ i <= num_full
             \/ i <= Len(held) /\ block_hash[held[i]] # NoHash
    /\ \A b \in Blocks \ Range(new) :
         block_hash[b] # NoHash \/ b \notin Range(held) => block_hash'[b] = block_hash[b]

LEMMA AllocateSlotsTakes ==
    ASSUME PoolInv, NEW r \in Requests, NEW num_tokens \in Nat,
           NEW hit \in Seq(Blocks), IsInjective(hit),
           hit # <<>> => req_to_blocks[r] = <<>>,
           AllocateSlots(r, num_tokens, hit)
    PROVE  \E held \in Seq(Blocks), new \in Seq(Blocks), num_full \in Int :
             /\ SlotsTaken(r, hit, held, new, num_full)
             /\ \A i \in Nat : i <= num_full => i * BlockSize <= num_tokens
<1> DEFINE held     == IF hit = <<>> THEN req_to_blocks[r] ELSE hit
           touched  == Filter(free_block_queue, Blocks \ Range(hit))
           required == NumRequiredBlocks(NumTokensNeedingSlots(num_tokens))
           num_more == AtLeastZero(required - Len(held))
           new      == SubSeq(touched, 1, num_more)
           back     == SubSeq(touched, num_more + 1, Len(touched))
           table    == held \o new
           hash     == [b \in Blocks |-> IF b \in Range(new) THEN NoHash ELSE block_hash[b]]
           num_full == NumBlocksToCache(r, num_tokens)
           published == {i \in DOMAIN table : i <= num_full /\ hash[table[i]] = NoHash}
<1>1. /\ CanAllocate(r, num_tokens, hit)
      /\ free_block_queue' = back
      /\ ref_cnt' = [b \in Blocks |-> IF b \in Range(hit) \cup Range(new)
                                      THEN ref_cnt[b] + 1 ELSE ref_cnt[b]]
      /\ req_to_blocks' = [req_to_blocks EXCEPT ![r] = table]
      /\ block_hash' =
           [b \in Blocks |-> IF \E i \in published : table[i] = b
                             THEN BlockHash(r, CHOOSE i \in published : table[i] = b)
                             ELSE hash[b]]
  BY DEF AllocateSlots, QueueAfterTouch, PopLeftN, QueueAfterPop, HashAfterEviction,
         PublishedPositions, RefCntAfterTaking
<1> HIDE DEF num_full
<1>2. /\ ref_cnt \in [Blocks -> Nat]
      /\ free_block_queue \in Seq(Blocks) /\ IsInjective(free_block_queue)
      /\ Range(free_block_queue) = {b \in Blocks : ref_cnt[b] = 0}
      /\ req_to_blocks[r] \in Seq(Blocks)
  BY DEF PoolInv, TypeOK, FreeQueueExact
<1>3. /\ held \in Seq(Blocks) /\ IsInjective(held)
      /\ Len(held) = Len(hit) + Len(req_to_blocks[r])
      /\ Len(hit) \in Nat /\ Len(req_to_blocks[r]) \in Nat
  <2>1. IsInjective(req_to_blocks[r])
    BY DEF PoolInv, RefCntExact
  <2>2. Len(<<>>) = 0 /\ Len(hit) \in Nat /\ Len(req_to_blocks[r]) \in Nat
    BY <1>2, LenProperties
  <2>3. CASE hit = <<>>
    BY <1>2, <2>1, <2>2, <2>3
  <2>4. CASE hit # <<>>
    BY <1>2, <2>1, <2>2, <2>4
  <2> QED BY <2>3, <2>4
<1>4. num_more \in Nat /\ required \in Int
  <2>1. NumTokensNeedingSlots(num_tokens) \in Nat
    BY SizesAssumption DEF NumTokensNeedingSlots, Least
  <2>2. required \in Int
    BY <2>1, SizesAssumption DEF NumRequiredBlocks
  <2> QED BY <2>2, <1>3 DEF AtLeastZero
<1>5. num_more <= Len(touched)
  <2>1. {i \in DOMAIN hit : ref_cnt[hit[i]] = 0}
          = {i \in DOMAIN hit : hit[i] \in Range(free_block_queue)}
    BY <1>2
  <2>2. num_more + Cardinality({i \in DOMAIN hit : hit[i] \in Range(free_block_queue)})
          <= Len(free_block_queue)
    BY <1>1, <1>3, <2>1 DEF CanAllocate, NumBlocksToAllocate
  <2> HIDE DEF num_more
  <2> QED BY <2>2, <1>2, <1>4, EnoughBlocks
<1>6. /\ touched \in Seq(Blocks) /\ IsInjective(touched)
      /\ Range(touched) = {b \in Blocks : ref_cnt[b] = 0} \ Range(hit)
  BY <1>2, FilterProperties
<1>7. ASSUME NEW b \in Blocks, NEW p \in Blocks, Behind(p, b),
             b \notin Range(hit), p \notin Range(hit)
      PROVE  InThisOrder(touched, b, p)
  <2>1. InThisOrder(free_block_queue, b, p)
    BY <1>7 DEF Behind, InThisOrder
  <2> QED BY <2>1, <1>2, <1>7, FilterKeepsOrder
<1> HIDE DEF touched, num_more
<1>8. num_more \in 0 .. Len(touched)
  BY <1>4, <1>5, <1>6, LenProperties
<1>9. /\ new \in Seq(Blocks) /\ back \in Seq(Blocks)
      /\ IsInjective(new) /\ IsInjective(back)
      /\ Range(touched) = Range(new) \cup Range(back)
      /\ Range(new) \cap Range(back) = {}
  BY <1>6, <1>8, CutProperties
<1>10. ASSUME NEW b, NEW p, InThisOrder(touched, b, p), b \in Range(back)
       PROVE  InThisOrder(back, b, p)
  BY <1>6, <1>8, <1>10, CutKeepsOrder
<1> HIDE DEF new, back
<1>11. \A b \in Range(new) : ref_cnt[b] = 0 /\ b \notin Range(hit) /\ b \in Blocks
  BY <1>6, <1>9
<1>12. Range(held) \cap Range(new) = {}
  <2> SUFFICES ASSUME NEW b \in Range(req_to_blocks[r]), b \in Range(new) PROVE FALSE
    BY <1>11
  <2>1. Holders(b) = {}
    BY <1>11, UnreferencedIsUnused
  <2> QED BY <2>1 DEF Holders
<1>13. table \in Seq(Blocks) /\ IsInjective(table)
  BY <1>3, <1>9, <1>12, ConcatInjective
<1>14. /\ Len(held) \in Nat /\ Len(new) \in Nat
       /\ DOMAIN table = 1 .. Len(held) + Len(new)
       /\ \A i \in 1 .. Len(held) : table[i] = held[i] /\ held[i] \in Range(held)
       /\ \A i \in DOMAIN table : i > Len(held) => table[i] \in Range(new)
  <2> HIDE DEF held
  <2>1. /\ Len(held) \in Nat /\ Len(new) \in Nat
        /\ DOMAIN table = 1 .. Len(held) + Len(new)
        /\ DOMAIN held = 1 .. Len(held) /\ DOMAIN new = 1 .. Len(new)
    <3>1. Len(held) \in Nat /\ DOMAIN held = 1 .. Len(held)
      BY <1>3, LenProperties
    <3>2. Len(new) \in Nat /\ DOMAIN new = 1 .. Len(new)
      BY <1>9, LenProperties
    <3>3. DOMAIN table = 1 .. Len(held) + Len(new)
      <4> HIDE DEF held, new
      <4>1. held \in Seq(Blocks) /\ new \in Seq(Blocks)
        BY <1>3, <1>9
      <4>2. Len(held \o new) = Len(held) + Len(new)
        BY <4>1, ConcatProperties
      <4>3. Len(table) = Len(held) + Len(new)
        BY <4>2
      <4> QED BY <4>3, <1>13, LenProperties
    <3> QED BY <3>1, <3>2, <3>3
  <2>2. \A i \in 1 .. Len(held) : table[i] = held[i] /\ held[i] \in Range(held)
    <3>1. \A i \in 1 .. Len(held) : table[i] = held[i]
      BY <2>1, <1>3, <1>9
    <3>2. \A i \in 1 .. Len(held) : held[i] \in Range(held)
      BY <2>1 DEF Range
    <3> QED BY <3>1, <3>2
  <2>3. ASSUME NEW i \in DOMAIN table, i > Len(held) PROVE table[i] \in Range(new)
    <3>1. i \in 1 .. Len(held) + Len(new) /\ i - Len(held) \in 1 .. Len(new)
      BY <2>1, <2>3
    <3>2. table[i] = new[i - Len(held)]
      BY <3>1, <2>3, <1>3, <1>9
    <3> QED BY <2>1, <3>1, <3>2 DEF Range
  <2> QED BY <2>1, <2>2, <2>3
<1>15. num_full \in Int /\ \A i \in DOMAIN table : i <= num_full =>
         BlockHash(r, i) # NoHash
  <2>1. all_token_ids[r] \in Seq(Tokens) /\ Len(all_token_ids[r]) \in Nat
    BY LenProperties DEF PoolInv, TypeOK
  <2>2. NumBlockHashes(r) \in Nat /\ num_tokens \div BlockSize \in Nat
    BY <2>1, NumFullBlocks DEF NumBlockHashes
  <2>3. num_full \in Nat /\ num_full <= NumBlockHashes(r)
    BY <2>2 DEF num_full, NumBlocksToCache, Least
  <2>4. ASSUME NEW i \in DOMAIN table, i <= num_full PROVE BlockHash(r, i) # NoHash
    <3>1. i \in Nat /\ i <= NumBlockHashes(r)
      BY <2>2, <2>3, <2>4, <1>14
    <3>2. i * BlockSize <= Len(all_token_ids[r])
      BY <2>1, <3>1, FullBlocks DEF NumBlockHashes
    <3> QED BY <3>1, <3>2, BlockHashProperties DEF PoolInv
  <2> QED BY <2>3, <2>4
<1>16. ASSUME NEW i \in Nat, i <= num_full PROVE i * BlockSize <= num_tokens
  <2>1. all_token_ids[r] \in Seq(Tokens) /\ Len(all_token_ids[r]) \in Nat
    BY LenProperties DEF PoolInv, TypeOK
  <2>2. NumBlockHashes(r) \in Nat /\ num_tokens \div BlockSize \in Nat
    BY <2>1, NumFullBlocks DEF NumBlockHashes
  <2>3. CASE i <= num_tokens \div BlockSize
    BY <2>3, FullBlocks
  <2>4. CASE i = 0
    BY <2>4, SizesAssumption
  <2>5. i = 0 \/ i <= num_tokens \div BlockSize
    BY <1>16, <2>2 DEF num_full, NumBlocksToCache, Least
  <2> QED BY <2>3, <2>4, <2>5
<1> HIDE DEF table, held
<1>17. ASSUME NEW i \in DOMAIN table
       PROVE  /\ table[i] \in Blocks
              /\ i \in published => block_hash'[table[i]] = BlockHash(r, i)
              /\ i \notin published => block_hash'[table[i]] = hash[table[i]]
  <2>1. table[i] \in Blocks
    BY <1>13, <1>14, ElementOfSeq
  <2>2. ASSUME i \in published PROVE (CHOOSE j \in published : table[j] = table[i]) = i
    BY <2>2, <1>13 DEF IsInjective
  <2>3. ASSUME i \notin published PROVE \A j \in published : table[j] # table[i]
    BY <2>3, <1>13 DEF IsInjective
  <2> QED BY <2>1, <2>2, <2>3, <1>1
<1>18. ASSUME NEW i \in DOMAIN table
       PROVE  block_hash'[table[i]] # NoHash <=>
                  \/ i <= num_full
                  \/ i <= Len(held) /\ block_hash[held[i]] # NoHash
  <2>0. i \in Nat /\ i > 0
    BY <1>14
  <2>1. CASE i <= Len(held)
    <3>1. table[i] = held[i] /\ hash[table[i]] = block_hash[held[i]]
      BY <2>0, <2>1, <1>12, <1>14, <1>17
    <3>2. CASE i \in published
      BY <3>1, <3>2, <1>15, <1>17
    <3>3. CASE i \notin published
      BY <2>1, <3>1, <3>3, <1>17
    <3> QED BY <3>2, <3>3
  <2>2. CASE i > Len(held)
    <3>1. hash[table[i]] = NoHash
      BY <2>2, <1>14, <1>17
    <3>2. CASE i \in published
      BY <3>2, <1>15, <1>17
    <3>3. CASE i \notin published
      <4>1. block_hash'[table[i]] = NoHash /\ ~ (i <= num_full)
        BY <3>1, <3>3, <1>17
      <4>2. ~ (i <= Len(held))
        BY <2>0, <2>2, <1>14
      <4> QED BY <4>1, <4>2
    <3> QED BY <3>2, <3>3
  <2> QED BY <2>0, <2>1, <2>2, <1>14
<1>19. ASSUME NEW b \in Blocks, b \notin Range(new),
              block_hash[b] # NoHash \/ b \notin Range(held)
       PROVE  block_hash'[b] = block_hash[b]
  <2>1. hash[b] = block_hash[b]
    BY <1>19
  <2>2. ASSUME NEW i \in published, table[i] = b PROVE FALSE
    <3>1. block_hash[b] = NoHash
      BY <2>1, <2>2
    <3>2. i <= Len(held) => b \in Range(held)
      BY <2>2, <1>14
    <3>3. i > Len(held) => b \in Range(new)
      BY <2>2, <1>14
    <3> QED BY <3>1, <3>2, <3>3, <1>14, <1>19
  <2> QED BY <2>1, <2>2, <1>1
<1>20. ASSUME NEW b \in Blocks, NEW p \in Blocks, Behind(p, b), ref_cnt'[b] = 0,
              p \notin Range(hit)
       PROVE  p \notin Range(new) /\ Behind(p, b)'
  <2>1. b \in Range(free_block_queue)
    BY <1>20 DEF Behind, Range
  <2>2. b \notin Range(hit) /\ b \notin Range(new)
    BY <2>1, <1>1, <1>2, <1>20
  <2>3. b \in Range(back)
    BY <2>1, <2>2, <1>2, <1>6, <1>9
  <2>4. InThisOrder(back, b, p)
    BY <2>2, <2>3, <1>7, <1>10, <1>20
  <2>5. p \in Range(back)
    BY <2>4 DEF InThisOrder, Range
  <2> QED BY <2>4, <2>5, <1>1, <1>9 DEF InThisOrder, Behind
<1>21. held = IF hit = <<>> THEN req_to_blocks[r] ELSE hit
  BY DEF held
<1>22. \A b \in Blocks :
         ref_cnt'[b] = IF b \in Range(hit) \cup Range(new) THEN ref_cnt[b] + 1 ELSE ref_cnt[b]
  BY <1>1
<1>23. req_to_blocks' = [req_to_blocks EXCEPT ![r] = held \o new] /\ IsInjective(held \o new)
  BY <1>1, <1>13 DEF table
<1>24. \A i \in DOMAIN (held \o new) :
         block_hash'[(held \o new)[i]] # NoHash <=>
             \/ i <= num_full
             \/ i <= Len(held) /\ block_hash[held[i]] # NoHash
  BY <1>18 DEF table
<1>25. \A b \in Blocks \ Range(new) :
         block_hash[b] # NoHash \/ b \notin Range(held) => block_hash'[b] = block_hash[b]
  BY <1>19
<1>26. \A b, p \in Blocks :
         Behind(p, b) /\ ref_cnt'[b] = 0 =>
             p \in Range(hit) \/ (p \notin Range(new) /\ Behind(p, b)')
  BY <1>20
<1>27. held \in Seq(Blocks) /\ new \in Seq(Blocks) /\ num_full \in Int
  BY <1>3, <1>9, <1>15 DEF held
<1>28. \A b \in Range(new) : ref_cnt[b] = 0
  BY <1>11
<1>29. IsInjective(held \o new) /\ Range(held) \cap Range(new) = {}
  BY <1>12, <1>23
<1>30. req_to_blocks' = [req_to_blocks EXCEPT ![r] = held \o new]
  BY <1>23
<1>31. SlotsTaken(r, hit, held, new, num_full)
  BY <1>21, <1>22, <1>24, <1>25, <1>26, <1>28, <1>29, <1>30 DEF SlotsTaken
<1> QED BY <1>27, <1>31, <1>16

\* allocate_slots takes from the head of the queue, so what it evicts is never
\* followed by something that stays.
LEMMA AllocateKeepsChains ==
    ASSUME PoolInv, ChainInv, NEW r \in Requests, NEW num_tokens \in Nat,
           NEW hit \in Seq(Blocks), IsInjective(hit),
           \A i \in DOMAIN hit : block_hash[hit[i]] # NoHash,
           hit # <<>> => req_to_blocks[r] = <<>>,
           AllocateSlots(r, num_tokens, hit)
    PROVE  ChainInv'
<1>1. PICK held \in Seq(Blocks), new \in Seq(Blocks), num_full \in Int :
        SlotsTaken(r, hit, held, new, num_full)
  BY AllocateSlotsTakes
<1>2. PICK table \in Seq(Blocks) : table = held \o new
  <2>1. held \o new \in Seq(Blocks)
    BY ConcatInjective
  <2> QED BY <2>1
<1>3. /\ held = IF hit = <<>> THEN req_to_blocks[r] ELSE hit
      /\ req_to_blocks' = [req_to_blocks EXCEPT ![r] = table]
      /\ IsInjective(table) /\ Range(held) \cap Range(new) = {}
      /\ \A b \in Range(new) : ref_cnt[b] = 0
      /\ \A b \in Blocks :
           ref_cnt'[b] = IF b \in Range(hit) \cup Range(new) THEN ref_cnt[b] + 1 ELSE ref_cnt[b]
      /\ \A b, p \in Blocks :
           Behind(p, b) /\ ref_cnt'[b] = 0 =>
               p \in Range(hit) \/ (p \notin Range(new) /\ Behind(p, b)')
      /\ \A i \in DOMAIN table :
           block_hash'[table[i]] # NoHash <=>
               \/ i <= num_full
               \/ i <= Len(held) /\ block_hash[held[i]] # NoHash
      /\ \A b \in Blocks \ Range(new) :
           block_hash[b] # NoHash \/ b \notin Range(held) => block_hash'[b] = block_hash[b]
  BY <1>1, <1>2 DEF SlotsTaken
<1>4. /\ Len(held) \in Nat /\ DOMAIN held = 1 .. Len(held)
      /\ Len(table) \in Nat /\ DOMAIN table = 1 .. Len(table)
      /\ Range(table) = Range(held) \cup Range(new)
  BY <1>2, LenProperties, ConcatInjective
<1>5. ASSUME NEW i \in DOMAIN held, i > 1, block_hash[held[i]] # NoHash
      PROVE  block_hash[held[i - 1]] # NoHash
  <2>1. i - 1 \in DOMAIN held
    BY <1>4, <1>5
  <2>2. CASE hit = <<>>
    BY <2>2, <1>3, <1>5 DEF ChainInv, PublishedFromFront
  <2>3. CASE hit # <<>>
    BY <2>1, <2>3, <1>3
  <2> QED BY <2>2, <2>3
<1>6. ref_cnt \in [Blocks -> Nat] /\ block_hash \in [Blocks -> Hashes \cup {NoHash}]
  BY DEF PoolInv, TypeOK
<1>7. \A b \in Range(held) : b \notin Range(hit) => ref_cnt[b] > 0 /\ b \in Range(req_to_blocks[r])
  <2> SUFFICES ASSUME NEW b \in Range(held), b \notin Range(hit)
               PROVE  ref_cnt[b] > 0 /\ b \in Range(req_to_blocks[r])
    OBVIOUS
  <2>1. b \in Range(req_to_blocks[r]) /\ b \in Blocks
    BY <1>3, ElementOfSeq, LenProperties DEF Range
  <2>2. ref_cnt[b] # 0
    BY <2>1, UnreferencedIsUnused DEF Holders
  <2> QED BY <2>1, <2>2, <1>6
<1>8. PublishedFromFront'
  <2> SUFFICES ASSUME NEW s \in Requests, NEW i \in DOMAIN req_to_blocks'[s], i > 1,
                      block_hash'[req_to_blocks'[s][i]] # NoHash
               PROVE  block_hash'[req_to_blocks'[s][i - 1]] # NoHash
    BY DEF PublishedFromFront
  <2>1. CASE s = r
    <3>1. req_to_blocks'[s] = table
      BY <2>1, <1>3 DEF PoolInv, TypeOK
    <3>2. i \in DOMAIN table /\ i - 1 \in DOMAIN table /\ i \in Nat
      BY <3>1, <1>4
    <3>3. CASE i <= num_full
      BY <3>1, <3>2, <3>3, <1>3
    <3>4. CASE i <= Len(held) /\ block_hash[held[i]] # NoHash
      <4>1. i \in DOMAIN held /\ i - 1 <= Len(held)
        BY <3>2, <3>4, <1>4
      <4>2. block_hash[held[i - 1]] # NoHash
        BY <4>1, <3>4, <1>5
      <4> QED BY <3>1, <3>2, <4>1, <4>2, <1>3
    <3> QED BY <3>1, <3>2, <3>3, <3>4, <1>3
  <2>2. CASE s # r
    <3>1. req_to_blocks'[s] = req_to_blocks[s] /\ req_to_blocks[s] \in Seq(Blocks)
      BY <2>2, <1>3 DEF PoolInv, TypeOK
    <3>2. ASSUME NEW j \in DOMAIN req_to_blocks[s], block_hash'[req_to_blocks[s][j]] # NoHash
                   \/ block_hash[req_to_blocks[s][j]] # NoHash
          PROVE  /\ block_hash[req_to_blocks[s][j]] # NoHash
                 /\ block_hash'[req_to_blocks[s][j]] # NoHash
      <4>1. PICK b \in Blocks : b = req_to_blocks[s][j] /\ b \in Range(req_to_blocks[s])
        <5>1. req_to_blocks[s][j] \in Blocks
          BY <3>1, ElementOfSeq, LenProperties
        <5> QED BY <5>1 DEF Range
      <4>2. ref_cnt[b] # 0
        BY <4>1, UnreferencedIsUnused DEF Holders
      <4>3. b \notin Range(new)
        BY <4>2, <1>3
      <4>4. b \in Range(held) => block_hash[b] # NoHash
        <5>1. CASE b \in Range(hit)
          BY <5>1 DEF Range
        <5>2. CASE b \in Range(held) /\ b \notin Range(hit)
          <6>1. b \in Range(req_to_blocks[r])
            BY <5>2, <1>7
          <6>2. ref_cnt[b] > 1
            BY <6>1, <4>1, <2>2, TwoHolders
          <6> QED BY <6>2 DEF PoolInv, SharedOnlyIfPublished
        <5> QED BY <5>1, <5>2
      <4>5. block_hash'[b] = block_hash[b]
        BY <4>3, <4>4, <1>3
      <4> QED BY <4>1, <4>5, <3>2
    <3>3. i \in DOMAIN req_to_blocks[s] /\ i - 1 \in DOMAIN req_to_blocks[s]
      BY <3>1, LenProperties
    <3>4. block_hash[req_to_blocks[s][i - 1]] # NoHash
      BY <3>1, <3>2, <3>3 DEF ChainInv, PublishedFromFront
    <3> QED BY <3>1, <3>2, <3>3, <3>4
  <2> QED BY <2>1, <2>2
<1>9. TailGoesFirst'
  <2> SUFFICES ASSUME NEW b \in Blocks, ref_cnt'[b] = 0, block_hash'[b] # NoHash,
                      HasParent(block_hash'[b])
               PROVE  \E p \in Blocks : /\ block_hash'[p] = Parent(block_hash'[b])
                                        /\ (ref_cnt'[p] > 0 \/ Behind(p, b)')
    BY DEF TailGoesFirst, HasParent, Parent
  <2>1. ref_cnt[b] = 0 /\ b \notin Range(hit) /\ b \notin Range(new)
    BY <1>3, <1>6
  <2>2. block_hash'[b] = block_hash[b]
    BY <2>1, <1>3, <1>7
  <2>3. PICK p \in Blocks : /\ block_hash[p] = Parent(block_hash[b])
                            /\ (ref_cnt[p] > 0 \/ Behind(p, b))
    BY <2>1, <2>2 DEF ChainInv, TailGoesFirst
  <2>4. block_hash[p] # NoHash
    BY <2>2, <2>3, <1>6, ParentIsContent
  <2>5. p \notin Range(new) /\ (ref_cnt'[p] > 0 \/ Behind(p, b)')
    <3>1. CASE ref_cnt[p] > 0
      <4>1. p \notin Range(new) /\ ref_cnt[p] \in Nat
        BY <3>1, <1>3, <1>6
      <4>2. ref_cnt'[p] = ref_cnt[p] \/ ref_cnt'[p] = ref_cnt[p] + 1
        BY <1>3
      <4> QED BY <4>1, <4>2, <3>1
    <3>2. CASE Behind(p, b) /\ p \in Range(hit)
      <4>1. p \notin Range(new)
        <5>1. hit # <<>>
          BY <3>2 DEF Range
        <5> QED BY <5>1, <3>2, <1>3
      <4> QED BY <4>1, <3>2, <1>3, <1>6
    <3>3. CASE Behind(p, b) /\ p \notin Range(hit)
      BY <3>3, <1>3
    <3> QED BY <3>1, <3>2, <3>3, <2>3
  <2>6. block_hash'[p] = block_hash[p]
    BY <2>4, <2>5, <1>3
  <2> QED BY <2>2, <2>3, <2>5, <2>6
<1> QED BY <1>8, <1>9 DEF ChainInv

\* free gives the tail of a table back before what it follows.
LEMMA FreeKeepsChains ==
    ASSUME PoolInv, ChainInv, NEW r \in Requests, Free(r)
    PROVE  ChainInv'
<1> DEFINE ordered  == Reversed(req_to_blocks[r])
           released == {b \in Range(ordered) : ref_cnt[b] = 1}
           unhashed == {b \in released : block_hash[b] = NoHash /\ EnableCaching}
           hashed   == released \ unhashed
           front    == Filter(ordered, unhashed)
           rear     == Filter(ordered, hashed)
<1>1. /\ ref_cnt' = [b \in Blocks |-> IF b \in Range(ordered)
                                      THEN ref_cnt[b] - 1 ELSE ref_cnt[b]]
      /\ free_block_queue' = (front \o free_block_queue) \o rear
      /\ req_to_blocks' = [req_to_blocks EXCEPT ![r] = <<>>]
      /\ block_hash' = block_hash
  BY DEF Free, QueueAfterFree
<1>2. /\ ref_cnt \in [Blocks -> Nat]
      /\ block_hash \in [Blocks -> Hashes \cup {NoHash}]
      /\ free_block_queue \in Seq(Blocks)
      /\ req_to_blocks \in [Requests -> Seq(Blocks)]
      /\ req_to_blocks[r] \in Seq(Blocks)
      /\ Range(free_block_queue) = {b \in Blocks : ref_cnt[b] = 0}
  BY DEF PoolInv, TypeOK, FreeQueueExact
<1>3. /\ ordered \in Seq(Blocks) /\ IsInjective(ordered)
      /\ Range(ordered) = Range(req_to_blocks[r])
  BY <1>2, ReversedProperties DEF PoolInv, RefCntExact
<1>4. \A i, j \in DOMAIN req_to_blocks[r] : i < j =>
        InThisOrder(ordered, req_to_blocks[r][j], req_to_blocks[r][i])
  BY <1>2, ReversedOrder
<1> HIDE DEF ordered
<1>5. \A b \in hashed : b \in Range(ordered) /\ ref_cnt[b] = 1
  OBVIOUS
<1>6. \A b \in Range(ordered) : ref_cnt[b] = 1 /\ block_hash[b] # NoHash => b \in hashed
  OBVIOUS
<1> HIDE DEF released, unhashed, hashed
<1>7. /\ front \in Seq(Blocks) /\ rear \in Seq(Blocks)
      /\ Range(rear) = Range(ordered) \cap hashed
  BY <1>3, FilterProperties
<1>8. \A b, p \in hashed : InThisOrder(ordered, b, p) => InThisOrder(rear, b, p)
  BY <1>3, FilterKeepsOrder
<1> HIDE DEF front, rear
<1>9. PICK most \in Seq(Blocks) : most = front \o free_block_queue
  <2>1. front \o free_block_queue \in Seq(Blocks)
    BY <1>2, <1>7, ConcatInjective
  <2> QED BY <2>1
<1>10. Range(free_block_queue) \subseteq Range(most)
  BY <1>2, <1>7, <1>9, ConcatInjective
<1>11. ASSUME NEW b \in Blocks, NEW p \in Blocks,
              \/ Behind(p, b)
              \/ ref_cnt[b] = 0 /\ p \in hashed
              \/ b \in hashed /\ p \in hashed /\ InThisOrder(ordered, b, p)
       PROVE  Behind(p, b)'
  <2>1. free_block_queue' = most \o rear
    BY <1>1, <1>9
  <2>2. InThisOrder(most \o rear, b, p)
    <3>1. CASE Behind(p, b)
      <4>1. InThisOrder(free_block_queue, b, p)
        BY <3>1 DEF Behind, InThisOrder
      <4>2. InThisOrder(most, b, p)
        BY <4>1, <1>2, <1>7, <1>9, JoinedOrder
      <4> QED BY <4>2, <1>7, JoinedOrder
    <3>2. CASE ref_cnt[b] = 0 /\ p \in hashed
      <4>1. b \in Range(most) /\ p \in Range(rear)
        BY <3>2, <1>2, <1>5, <1>7, <1>10
      <4> QED BY <4>1, <1>7, JoinedOrder
    <3>3. CASE b \in hashed /\ p \in hashed /\ InThisOrder(ordered, b, p)
      <4>1. InThisOrder(rear, b, p)
        BY <3>3, <1>8
      <4> QED BY <4>1, <1>7, JoinedOrder
    <3> QED BY <3>1, <3>2, <3>3, <1>11
  <2> QED BY <2>1, <2>2 DEF Behind, InThisOrder
<1>12. ASSUME NEW p \in Blocks, block_hash[p] # NoHash, ref_cnt[p] > 0
       PROVE  ref_cnt'[p] > 0 \/ p \in hashed
  <2>1. CASE p \in Range(ordered)
    BY <2>1, <1>1, <1>2, <1>6, <1>12
  <2>2. CASE p \notin Range(ordered)
    BY <2>2, <1>1, <1>12
  <2> QED BY <2>1, <2>2
<1>13. PublishedFromFront'
  <2> SUFFICES ASSUME NEW s \in Requests, NEW i \in DOMAIN req_to_blocks'[s], i > 1,
                      block_hash'[req_to_blocks'[s][i]] # NoHash
               PROVE  block_hash'[req_to_blocks'[s][i - 1]] # NoHash
    BY DEF PublishedFromFront
  <2>1. s # r /\ req_to_blocks'[s] = req_to_blocks[s]
    <3>1. DOMAIN <<>> = {}
      OBVIOUS
    <3> QED BY <3>1, <1>1, <1>2
  <2> QED BY <2>1, <1>1 DEF ChainInv, PublishedFromFront
<1>14. TailGoesFirst'
  <2> SUFFICES ASSUME NEW b \in Blocks, ref_cnt'[b] = 0, block_hash[b] # NoHash,
                      HasParent(block_hash[b])
               PROVE  \E p \in Blocks : /\ block_hash[p] = Parent(block_hash[b])
                                        /\ (ref_cnt'[p] > 0 \/ Behind(p, b)')
    BY <1>1 DEF TailGoesFirst, HasParent, Parent
  <2>1. CASE ref_cnt[b] = 0
    <3>1. PICK p \in Blocks : /\ block_hash[p] = Parent(block_hash[b])
                              /\ (ref_cnt[p] > 0 \/ Behind(p, b))
      BY <2>1 DEF ChainInv, TailGoesFirst
    <3>2. block_hash[p] # NoHash
      BY <3>1, <1>2, ParentIsContent
    <3>3. ref_cnt'[p] > 0 \/ Behind(p, b)'
      BY <2>1, <3>1, <3>2, <1>11, <1>12
    <3> QED BY <3>1, <3>3
  <2>2. CASE ref_cnt[b] # 0
    <3>1. b \in Range(ordered) /\ ref_cnt[b] = 1
      BY <2>2, <1>1, <1>2
    <3>2. PICK i \in DOMAIN req_to_blocks[r] : req_to_blocks[r][i] = b
      BY <3>1, <1>3 DEF Range
    <3>3. /\ i - 1 \in DOMAIN req_to_blocks[r]
          /\ block_hash[req_to_blocks[r][i - 1]] = Parent(block_hash[b])
          /\ block_hash[req_to_blocks[r][i - 1]] # NoHash
      BY <3>2, PublishedFollows DEF ChainInv
    <3>4. PICK p \in Blocks : p = req_to_blocks[r][i - 1] /\ p \in Range(req_to_blocks[r])
      <4>1. req_to_blocks[r][i - 1] \in Blocks
        BY <3>3, <1>2, ElementOfSeq, LenProperties
      <4> QED BY <4>1, <3>3 DEF Range
    <3>5. InThisOrder(ordered, b, p)
      <4>1. i - 1 < i
        BY <1>2, LenProperties
      <4> QED BY <4>1, <3>2, <3>3, <3>4, <1>4
    <3>6. ref_cnt[p] > 0
      <4>1. ref_cnt[p] # 0
        BY <3>4, UnreferencedIsUnused DEF Holders
      <4> QED BY <4>1, <1>2
    <3>7. b \in hashed
      BY <3>1, <1>6
    <3>8. ref_cnt'[p] > 0 \/ Behind(p, b)'
      BY <3>3, <3>4, <3>5, <3>6, <3>7, <1>11, <1>12
    <3> QED BY <3>3, <3>4, <3>8
  <2> QED BY <2>1, <2>2
<1> QED BY <1>13, <1>14 DEF ChainInv

\* A reset leaves nothing published.
LEMMA ResetKeepsChains ==
    ASSUME PoolInv, ResetPrefixCache
    PROVE  ChainInv'
<1>1. \A b \in Blocks : block_hash'[b] = NoHash
  BY DEF ResetPrefixCache
<1>2. req_to_blocks' = req_to_blocks
  BY DEF ResetPrefixCache
<1>3. \A r \in Requests : \A i \in DOMAIN req_to_blocks[r] : req_to_blocks[r][i] \in Blocks
  BY ElementOfSeq, LenProperties DEF PoolInv, TypeOK
<1>4. PublishedFromFront'
  BY <1>1, <1>2, <1>3 DEF PublishedFromFront
<1>5. TailGoesFirst'
  BY <1>1 DEF TailGoesFirst
<1> QED BY <1>4, <1>5 DEF ChainInv

\* Nothing else changes what is cached, held or free.
LEMMA KeepsChains ==
    ASSUME ChainInv, UNCHANGED kvVars
    PROVE  ChainInv'
<1>1. /\ ref_cnt' = ref_cnt /\ block_hash' = block_hash /\ req_to_blocks' = req_to_blocks
      /\ free_block_queue' = free_block_queue
  BY DEF kvVars, poolVars
<1>2. PublishedFromFront'
  BY <1>1 DEF ChainInv, PublishedFromFront
<1>3. TailGoesFirst'
  <2>1. \A p, b \in Blocks : Behind(p, b)' <=> Behind(p, b)
    BY <1>1 DEF Behind
  <2> SUFFICES ASSUME NEW b \in Blocks, ref_cnt[b] = 0, block_hash[b] # NoHash,
                      HasParent(block_hash[b])
               PROVE  \E p \in Blocks : /\ block_hash[p] = Parent(block_hash[b])
                                        /\ (ref_cnt[p] > 0 \/ Behind(p, b)')
    BY <1>1 DEF TailGoesFirst, HasParent, Parent
  <2> QED BY <2>1 DEF ChainInv, TailGoesFirst
<1> QED BY <1>2, <1>3 DEF ChainInv

LEMMA InitChains ==
    ASSUME Init
    PROVE  ChainInv
<1>1. PublishedFromFront
  BY DEF Init, PublishedFromFront
<1>2. TailGoesFirst
  BY DEF Init, TailGoesFirst
<1> QED BY <1>1, <1>2 DEF ChainInv

LEMMA NextChains ==
    ASSUME PoolInv, ChainInv, [Next]_vars
    PROVE  ChainInv'
<1>1. ASSUME NEW r \in Requests, NEW n \in 1 .. MaxModelLen, Admit(r, n)
      PROVE  ChainInv'
  <2>1. PICK hit \in ComputedBlocks(r, 0) :
          req_to_blocks[r] = <<>> /\ AllocateSlots(r, n, hit)
    BY <1>1 DEF Admit
  <2>2. /\ hit \in Seq(Blocks) /\ IsInjective(hit)
        /\ \A i \in DOMAIN hit : block_hash[hit[i]] # NoHash
    BY HitProperties
  <2>3. n \in Nat
    BY SizesAssumption
  <2> QED BY <2>1, <2>2, <2>3, AllocateKeepsChains
<1>2. ASSUME NEW r \in Requests, NEW n \in 1 .. MaxModelLen, Grow(r, n)
      PROVE  ChainInv'
  <2>1. AllocateSlots(r, n, <<>>) /\ n \in Nat
    BY <1>2, SizesAssumption DEF Grow
  <2>2. <<>> \in Seq(Blocks) /\ IsInjective(<<>>) /\ DOMAIN <<>> = {}
    BY EmptySeq DEF IsInjective
  <2> QED BY <2>1, <2>2, AllocateKeepsChains
<1>3. ASSUME NEW r \in Requests, Release(r) PROVE ChainInv'
  BY <1>3, FreeKeepsChains DEF Release
<1>4. CASE Reset
  BY <1>4, ResetKeepsChains DEF Reset
<1>5. CASE UNCHANGED kvVars
  BY <1>5, KeepsChains
<1>6. ASSUME NEW r \in Requests,
             \/ \E prompt \in Prompts : NewRequest(r, prompt)
             \/ \E t \in Tokens : AppendToken(r, t)
      PROVE  UNCHANGED kvVars
  BY <1>6 DEF NewRequest, AppendToken
<1> QED BY <1>1, <1>2, <1>3, <1>4, <1>5, <1>6 DEF Next, vars

\* Because a table is given back tail first, allocate_slots evicts from the head of the
\* queue and touch takes a hit out without reordering the rest, no cached block ever
\* outlives the last block with the content it follows.
THEOREM NoHoles == Spec => []CachedPrefixesHaveNoHoles
<1>1. Init => ChainInv
  BY InitChains
<1>2. PoolInv /\ ChainInv /\ [Next]_vars => ChainInv'
  BY NextChains
<1>3. PoolInv /\ ChainInv => CachedPrefixesHaveNoHoles
  BY ChainsAreWhole
<1> QED BY <1>1, <1>2, <1>3, PoolInvariant, PTL DEF Spec

==============================================================================
