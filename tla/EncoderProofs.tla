---------------------------- MODULE EncoderProofs -----------------------------
(***************************************************************************)
(* Proofs about the encoder cache under the scheduler, for every number of  *)
(* requests and images, every budget, every pool and every store: its books *)
(* stay exact through hits, evictions, rollbacks, preemption and aborts, so  *)
(* no entry is evicted that a request still references.                     *)
(***************************************************************************)
EXTENDS ExternalInputs, KVCacheProofs

------------------------------------------------------------------------------
(* Numbers and sets.                                                        *)

\* What holds of 0 and passes from a number to the next holds of all: the numbers that
\* fail would have a least one, because < is well founded.
LEMMA Climbing ==
    ASSUME NEW n \in Nat, NEW T, 0 \in T,
           \A k \in 0 .. n : k < n /\ k \in T => k + 1 \in T
    PROVE  n \in T
<1> SUFFICES ASSUME n \notin T PROVE FALSE
  OBVIOUS
<1> DEFINE Missed == {k \in 0 .. n : k \notin T}
<1>1. Missed \subseteq Nat /\ Missed # {}
  OBVIOUS
<1>2. PICK R : IsWellFoundedOn(R, Nat) /\ \A a, b \in Nat : a < b => <<a, b>> \in R
  <2>1. IsWellFoundedOn(OpToRel(<, Nat), Nat)
    BY NatLessThanWellFounded
  <2>2. \A a, b \in Nat : a < b => <<a, b>> \in OpToRel(<, Nat)
    BY DEF OpToRel
  <2> QED BY <2>1, <2>2
<1>3. PICK m \in Missed : \A k \in Missed : ~(<<k, m>> \in R)
  <2>1. IsWellFoundedOn(R, Nat)
    BY <1>2
  <2> HIDE DEF Missed
  <2> QED BY <1>1, <2>1, WFMin
<1>4. m # 0 /\ m - 1 \in 0 .. n /\ m - 1 < n /\ m \in Nat /\ m - 1 \in Nat
  BY <1>3
<1>5. m - 1 \in T
  <2>1. <<m - 1, m>> \in R
    BY <1>2, <1>4
  <2> QED BY <1>3, <1>4, <2>1
<1> QED BY <1>3, <1>4, <1>5

LEMMA OneMore ==
    ASSUME NEW k \in Nat, NEW m \in Nat
    PROVE  k * (m + 1) = k * m + k /\ k * m \in Nat
OBVIOUS

LEMMA SizeIs == ImageTokens \in Nat /\ ImageTokens > 0
BY InputsAssumption

LEMMA AddMember ==
    ASSUME NEW S, IsFiniteSet(S), NEW x, x \notin S
    PROVE  /\ IsFiniteSet(S \cup {x}) /\ Cardinality(S) \in Nat
           /\ ImageTokens * Cardinality(S \cup {x}) = ImageTokens * Cardinality(S) + ImageTokens
           /\ ImageTokens * Cardinality(S) \in Nat
<1>1. /\ IsFiniteSet(S \cup {x}) /\ Cardinality(S) \in Nat
      /\ Cardinality(S \cup {x}) = Cardinality(S) + 1
  BY FS_AddElement, FS_CardinalityType
<1> QED BY <1>1, OneMore, SizeIs

LEMMA LoseMember ==
    ASSUME NEW S, IsFiniteSet(S), NEW x \in S
    PROVE  /\ IsFiniteSet(S \ {x})
           /\ ImageTokens * Cardinality(S) = ImageTokens * Cardinality(S \ {x}) + ImageTokens
           /\ ImageTokens * Cardinality(S \ {x}) \in Nat
<1>1. IsFiniteSet(S \ {x}) /\ x \notin S \ {x} /\ (S \ {x}) \cup {x} = S
  BY FS_RemoveElement
<1> QED BY <1>1, AddMember

LEMMA QueueOneMore ==
    ASSUME NEW T, NEW q \in Seq(T), IsInjective(q), NEW x \in T, x \notin Range(q)
    PROVE  /\ Append(q, x) \in Seq(T) /\ Range(Append(q, x)) = Range(q) \cup {x}
           /\ IsInjective(Append(q, x))
<1>1. PICK t \in Seq(T) : t = <<x>>
  <2>1. <<x>> \in Seq(T)
    OBVIOUS
  <2> QED BY <2>1
<1>2. Range(t) = {x} /\ IsInjective(t)
  BY <1>1 DEF Range, IsInjective
<1>3. Append(q, x) = q \o t
  BY <1>1
<1>4. /\ q \o t \in Seq(T) /\ Range(q \o t) = Range(q) \cup Range(t)
      /\ IsInjective(q) /\ IsInjective(t) /\ Range(q) \cap Range(t) = {} => IsInjective(q \o t)
  BY ConcatInjective
<1> QED BY <1>2, <1>3, <1>4

LEMMA QueueOneLess ==
    ASSUME NEW T, NEW q \in Seq(T), q # <<>>
    PROVE  /\ Head(q) \in Range(q) /\ Tail(q) \in Seq(T)
           /\ Range(q) = {Head(q)} \cup Range(Tail(q))
           /\ IsInjective(q) => IsInjective(Tail(q)) /\ Range(Tail(q)) = Range(q) \ {Head(q)}
<1>1. PICK n \in Nat : n = Len(q) /\ n > 0 /\ DOMAIN q = 1 .. n
  BY LenProperties, EmptySeq
<1>2. Tail(q) \in Seq(T) /\ DOMAIN Tail(q) = 1 .. n - 1 /\ Head(q) = q[1]
  BY <1>1, HeadTailProperties
<1>3. \A i \in 1 .. n - 1 : Tail(q)[i] = q[i + 1]
  BY <1>1, <1>2
<1>4. ASSUME NEW i \in 1 .. n PROVE q[i] \in {Head(q)} \cup Range(Tail(q))
  <2>1. CASE i = 1
    BY <1>2, <2>1
  <2>2. CASE i # 1
    <3>1. i - 1 \in 1 .. n - 1 /\ i - 1 + 1 = i
      BY <2>2
    <3>2. Tail(q)[i - 1] = q[i]
      BY <1>3, <3>1
    <3> QED BY <1>2, <3>1, <3>2 DEF Range
  <2> QED BY <2>1, <2>2
<1>5. ASSUME NEW i \in 1 .. n - 1 PROVE Tail(q)[i] \in Range(q) /\ i + 1 \in 1 .. n
  BY <1>1, <1>3 DEF Range
<1>6. Head(q) \in Range(q)
  BY <1>1, <1>2 DEF Range
<1>7. Range(q) = {Head(q)} \cup Range(Tail(q))
  BY <1>1, <1>2, <1>4, <1>5, <1>6 DEF Range
<1>8. ASSUME IsInjective(q)
      PROVE  IsInjective(Tail(q)) /\ Head(q) \notin Range(Tail(q))
  <2>1. \A i, j \in 1 .. n : q[i] = q[j] => i = j
    BY <1>1, <1>8 DEF IsInjective
  <2>2. ASSUME NEW i \in 1 .. n - 1, NEW j \in 1 .. n - 1, Tail(q)[i] = Tail(q)[j] PROVE i = j
    <3>1. PICK a \in 1 .. n, b \in 1 .. n : a = i + 1 /\ b = j + 1
      OBVIOUS
    <3>2. q[a] = q[b]
      BY <1>3, <2>2, <3>1
    <3>3. a = b
      BY <2>1, <3>2
    <3> QED BY <3>1, <3>3
  <2>3. ASSUME NEW i \in 1 .. n - 1 PROVE Tail(q)[i] # Head(q)
    BY <1>1, <1>2, <1>3, <2>1
  <2> QED BY <1>2, <2>2, <2>3 DEF IsInjective, Range
<1> QED BY <1>2, <1>6, <1>7, <1>8

------------------------------------------------------------------------------
(* One input.                                                               *)

\* The fields of an encoder cache, under names the provers can follow.
LEMMA CacheIs ==
    ASSUME NEW e \in EncoderType
    PROVE  /\ e.cached \in SUBSET Images /\ e.references \in [Images -> SUBSET Requests]
           /\ e.freeable \in Seq(Images) /\ e.num_free_slots \in Int /\ e.num_freeable_slots \in Int
           /\ e.request_cached_ids \in [Requests -> SUBSET Nat] /\ e.freed \in SUBSET Images
           /\ DOMAIN e = {"cached", "references", "freeable", "num_free_slots",
                          "num_freeable_slots", "request_cached_ids", "freed"}
BY DEF EncoderType

\* Making room takes entries nobody references, which is what can_allocate asserts.
LEMMA RoomKeepsBooks ==
    ASSUME NEW e, BooksInv(e), CanAllocateImage(e), deployed \in Deployments,
           NEW f, f = RoomMade(e)
    PROVE  /\ BooksInv(f) /\ ImageTokens <= f.num_free_slots
           /\ f.request_cached_ids = e.request_cached_ids
           /\ f.cached \subseteq e.cached
<1>1. e \in EncoderType
  BY DEF BooksInv
<1>2. CASE ~MayEvict(e)
  BY <1>2 DEF RoomMade, CanAllocateImage
<1>3. CASE MayEvict(e)
  <2>1. /\ e.freeable # <<>> /\ e.freeable \in Seq(Images) /\ e.num_free_slots \in Int
        /\ e.cached \in SUBSET Images
    BY <1>1, <1>3, CacheIs DEF MayEvict
  <2>2. PICK oldest : oldest = Head(e.freeable)
    OBVIOUS
  <2>3. /\ oldest \in Range(e.freeable) /\ Tail(e.freeable) \in Seq(Images)
        /\ IsInjective(e.freeable) =>
             IsInjective(Tail(e.freeable)) /\ Range(Tail(e.freeable)) = Range(e.freeable) \ {oldest}
    BY <2>1, <2>2, QueueOneLess
  <2>4. /\ Range(e.freeable) = Unreferenced(e) /\ IsInjective(e.freeable) /\ IsFiniteSet(e.cached)
        /\ oldest \in e.cached /\ e.references[oldest] = {}
    BY <2>3 DEF BooksInv, Unreferenced
  <2>5. /\ f.cached = e.cached \ {oldest} /\ f.freeable = Tail(e.freeable)
        /\ f.num_free_slots = e.num_free_slots + ImageTokens
        /\ f.num_freeable_slots = e.num_freeable_slots
        /\ f.references = e.references /\ f.request_cached_ids = e.request_cached_ids
        /\ f \in EncoderType
    <3>1. f = [e EXCEPT !.cached = @ \ {oldest}, !.freeable = Tail(@),
                        !.num_free_slots = @ + ImageTokens, !.freed = @ \cup {oldest}]
      BY <1>3, <2>2 DEF RoomMade
    <3>2. /\ f.cached = e.cached \ {oldest} /\ f.freeable = Tail(e.freeable)
          /\ f.num_free_slots = e.num_free_slots + ImageTokens
          /\ f.num_freeable_slots = e.num_freeable_slots
          /\ f.references = e.references /\ f.request_cached_ids = e.request_cached_ids
          /\ f.freed = e.freed \cup {oldest}
          /\ f = [cached |-> f.cached, references |-> f.references, freeable |-> f.freeable,
                  num_free_slots |-> f.num_free_slots, num_freeable_slots |-> f.num_freeable_slots,
                  request_cached_ids |-> f.request_cached_ids, freed |-> f.freed]
      BY <1>1, <3>1 DEF EncoderType
    <3>3. f.cached \in SUBSET Images /\ f.freed \in SUBSET Images
      BY <1>1, <2>1, <2>4, <3>2, CacheIs
    <3>4. f.num_free_slots \in Int /\ f.num_freeable_slots \in Int /\ f.freeable \in Seq(Images)
      BY <1>1, <2>1, <2>3, <3>2, SizeIs, CacheIs
    <3>5. /\ f.references \in [Images -> SUBSET Requests]
          /\ f.request_cached_ids \in [Requests -> SUBSET Nat]
      BY <1>1, <3>2, CacheIs
    <3>6. f \in EncoderType
      BY <3>2, <3>3, <3>4, <3>5 DEF EncoderType
    <3> QED BY <3>2, <3>6
  <2>6. Unreferenced(f) = Unreferenced(e) \ {oldest}
    BY <2>5 DEF Unreferenced
  <2>7. IsFiniteSet(Unreferenced(e)) /\ oldest \in Unreferenced(e)
    <3>1. Unreferenced(e) \subseteq e.cached
      BY DEF Unreferenced
    <3> QED BY <2>3, <2>4, <3>1, FS_Subset
  <2>8. /\ IsFiniteSet(f.cached)
        /\ ImageTokens * Cardinality(e.cached) = ImageTokens * Cardinality(f.cached) + ImageTokens
        /\ ImageTokens * Cardinality(f.cached) \in Nat
    BY <2>4, <2>5, LoseMember
  <2>9. /\ ImageTokens * Cardinality(Unreferenced(e))
             = ImageTokens * Cardinality(Unreferenced(f)) + ImageTokens
        /\ ImageTokens * Cardinality(Unreferenced(f)) \in Nat
    BY <2>6, <2>7, LoseMember
  <2>10. /\ f.num_free_slots = deployed.cache_size - ImageTokens * Cardinality(f.cached)
         /\ f.num_free_slots >= 0 /\ ImageTokens <= f.num_free_slots
         /\ f.num_freeable_slots = f.num_free_slots + ImageTokens * Cardinality(Unreferenced(f))
    <3>1. /\ e.num_free_slots = deployed.cache_size - ImageTokens * Cardinality(e.cached)
          /\ e.num_free_slots >= 0
          /\ e.num_freeable_slots = e.num_free_slots + ImageTokens * Cardinality(Unreferenced(e))
      BY DEF BooksInv
    <3>2. deployed.cache_size \in Nat /\ e.num_freeable_slots \in Int
      BY <1>1, CacheIs, InputsAssumption
    <3> QED BY <2>1, <2>5, <2>8, <2>9, <3>1, <3>2, SizeIs
  <2>11. ASSUME NEW i \in Images, NEW r \in f.references[i]
         PROVE  i \in f.cached /\ \E p \in f.request_cached_ids[r] : ImageAt(r, p) = i
    BY <2>4, <2>5, <2>11 DEF BooksInv
  <2>12. \A r \in Requests : f.request_cached_ids[r] \subseteq 0 .. num_tokens(r) - 1
    BY <2>5 DEF BooksInv
  <2>13. Range(f.freeable) = Unreferenced(f) /\ IsInjective(f.freeable)
    BY <2>3, <2>4, <2>5, <2>6
  <2> QED BY <2>5, <2>8, <2>10, <2>11, <2>12, <2>13 DEF BooksInv
<1> QED BY <1>2, <1>3

\* A reference, and with it the space or the place in the eviction order.
LEMMA AllocateKeepsBooks ==
    ASSUME NEW e, BooksInv(e), NEW r \in Requests, NEW p \in 0 .. num_tokens(r) - 1,
           ImageAt(r, p) \in Images, num_tokens(r) \in Nat, deployed \in Deployments,
           ImageAt(r, p) \in e.cached \/ ImageTokens <= e.num_free_slots,
           NEW f, f = Allocated(e, r, p)
    PROVE  /\ BooksInv(f)
           /\ f.request_cached_ids = [e.request_cached_ids EXCEPT ![r] = @ \cup {p}]
<1>1. PICK i \in Images : i = ImageAt(r, p)
  OBVIOUS
<1>2. PICK new \in BOOLEAN, idle \in BOOLEAN :
         new = (i \notin e.cached) /\ idle = (~new /\ e.references[i] = {})
  OBVIOUS
<1>3. e \in EncoderType
  BY DEF BooksInv
<1>4. /\ e.cached \in SUBSET Images /\ e.references \in [Images -> SUBSET Requests]
      /\ e.freeable \in Seq(Images) /\ e.num_free_slots \in Int /\ e.num_freeable_slots \in Int
      /\ e.request_cached_ids \in [Requests -> SUBSET Nat]
  BY <1>3, CacheIs
<1>5. /\ IsFiniteSet(e.cached) /\ Range(e.freeable) = Unreferenced(e) /\ IsInjective(e.freeable)
      /\ e.num_free_slots = deployed.cache_size - ImageTokens * Cardinality(e.cached)
      /\ e.num_free_slots >= 0
      /\ e.num_freeable_slots = e.num_free_slots + ImageTokens * Cardinality(Unreferenced(e))
      /\ \A j \in Images : \A s \in e.references[j] :
           j \in e.cached /\ \E o \in e.request_cached_ids[s] : ImageAt(s, o) = j
      /\ \A s \in Requests : e.request_cached_ids[s] \subseteq 0 .. num_tokens(s) - 1
  BY DEF BooksInv
<1>6. f = [e EXCEPT
          !.cached = @ \cup {i},
          !.references[i] = @ \cup {r},
          !.num_free_slots = IF new THEN @ - ImageTokens ELSE @,
          !.num_freeable_slots = IF new \/ idle THEN @ - ImageTokens ELSE @,
          !.freeable = IF idle THEN Filter(@, Images \ {i}) ELSE @,
          !.request_cached_ids[r] = @ \cup {p}]
  BY <1>1, <1>2 DEF Allocated
<1>7. PICK left : left = Filter(e.freeable, Images \ {i})
  OBVIOUS
<1>8. /\ left \in Seq(Images) /\ IsInjective(left)
      /\ Range(left) = Unreferenced(e) \ {i}
  <2>1. Unreferenced(e) \subseteq Images
    BY <1>4 DEF Unreferenced
  <2>2. /\ left \in Seq(Images) /\ Range(left) = Range(e.freeable) \cap (Images \ {i})
        /\ IsInjective(e.freeable) => IsInjective(left)
    BY <1>4, <1>7, FilterProperties
  <2> QED BY <1>5, <2>1, <2>2
<1>9. /\ f.cached = e.cached \cup {i}
      /\ f.references = [e.references EXCEPT ![i] = @ \cup {r}]
      /\ f.num_free_slots = (IF new THEN e.num_free_slots - ImageTokens ELSE e.num_free_slots)
      /\ f.num_freeable_slots =
            (IF new \/ idle THEN e.num_freeable_slots - ImageTokens ELSE e.num_freeable_slots)
      /\ f.freeable = (IF idle THEN left ELSE e.freeable)
      /\ f.request_cached_ids = [e.request_cached_ids EXCEPT ![r] = @ \cup {p}]
      /\ f.freed = e.freed
      /\ f = [cached |-> f.cached, references |-> f.references, freeable |-> f.freeable,
              num_free_slots |-> f.num_free_slots, num_freeable_slots |-> f.num_freeable_slots,
              request_cached_ids |-> f.request_cached_ids, freed |-> f.freed]
  BY <1>3, <1>6, <1>7 DEF EncoderType
<1>10. f \in EncoderType
  <2>1. f.cached \in SUBSET Images /\ f.freed \in SUBSET Images
    BY <1>3, <1>4, <1>9 DEF EncoderType
  <2>2. f.references \in [Images -> SUBSET Requests]
    BY <1>4, <1>9
  <2>3. f.request_cached_ids \in [Requests -> SUBSET Nat]
    <3>1. p \in Nat
      OBVIOUS
    <3> QED BY <1>4, <1>9, <3>1
  <2>4. f.num_free_slots \in Int /\ f.num_freeable_slots \in Int /\ f.freeable \in Seq(Images)
    BY <1>4, <1>8, <1>9, SizeIs
  <2> QED BY <1>9, <2>1, <2>2, <2>3, <2>4 DEF EncoderType
<1>11. Unreferenced(f) = Unreferenced(e) \ {i}
  <2>1. \A j \in Images : f.references[j] = IF j = i THEN e.references[i] \cup {r} ELSE e.references[j]
    BY <1>4, <1>9
  <2> QED BY <1>4, <1>9, <2>1 DEF Unreferenced
<1>12. i \in Unreferenced(e) <=> idle
  BY <1>2 DEF Unreferenced
<1>13. Range(f.freeable) = Unreferenced(f) /\ IsInjective(f.freeable)
  BY <1>5, <1>8, <1>9, <1>11, <1>12
<1>14. IsFiniteSet(Unreferenced(e)) /\ IsFiniteSet(f.cached)
  <2>1. Unreferenced(e) \subseteq e.cached
    BY DEF Unreferenced
  <2> QED BY <1>5, <1>9, <2>1, FS_Subset, FS_AddElement
<1>15. /\ deployed.cache_size \in Nat
       /\ f.num_free_slots = deployed.cache_size - ImageTokens * Cardinality(f.cached)
       /\ f.num_free_slots >= 0
  <2>1. deployed.cache_size \in Nat
    BY InputsAssumption
  <2>2. CASE new
    <3>1. /\ ImageTokens * Cardinality(f.cached) = ImageTokens * Cardinality(e.cached) + ImageTokens
          /\ ImageTokens * Cardinality(e.cached) \in Nat
      <4>1. i \notin e.cached /\ IsFiniteSet(e.cached) /\ f.cached = e.cached \cup {i}
        BY <1>2, <1>5, <1>9, <2>2
      <4> QED BY <4>1, AddMember
    <3>2. ImageTokens <= e.num_free_slots
      BY <1>1, <1>2, <2>2
    <3> QED BY <1>4, <1>5, <1>9, <2>1, <2>2, <3>1, <3>2, SizeIs
  <2>3. CASE ~new
    <3>1. f.cached = e.cached
      BY <1>2, <1>9, <2>3
    <3> QED BY <1>5, <1>9, <2>1, <2>3, <3>1
  <2> QED BY <2>2, <2>3
<1>16. f.num_freeable_slots = f.num_free_slots + ImageTokens * Cardinality(Unreferenced(f))
  <2>1. CASE idle
    <3>1. /\ ImageTokens * Cardinality(Unreferenced(e))
               = ImageTokens * Cardinality(Unreferenced(f)) + ImageTokens
          /\ ImageTokens * Cardinality(Unreferenced(f)) \in Nat
      BY <1>11, <1>12, <1>14, <2>1, LoseMember
    <3>2. ~new
      BY <1>2, <2>1
    <3> QED BY <1>4, <1>5, <1>9, <2>1, <3>1, <3>2, SizeIs
  <2>2. CASE ~idle
    <3>1. Unreferenced(f) = Unreferenced(e)
      BY <1>11, <1>12, <2>2
    <3>2. ImageTokens * Cardinality(Unreferenced(e)) \in Nat
      BY <1>14, FS_CardinalityType, OneMore, SizeIs
    <3> QED BY <1>4, <1>5, <1>9, <2>2, <3>1, <3>2, SizeIs
  <2> QED BY <2>1, <2>2
<1>17. ASSUME NEW j \in Images, NEW s \in f.references[j]
       PROVE  j \in f.cached /\ \E o \in f.request_cached_ids[s] : ImageAt(s, o) = j
  <2>1. s \in Requests
    BY <1>10, CacheIs
  <2>2. \A o \in e.request_cached_ids[s] : o \in f.request_cached_ids[s]
    BY <1>4, <1>9, <2>1
  <2>3. CASE s \in e.references[j]
    BY <1>5, <1>9, <2>2, <2>3
  <2>4. CASE s \notin e.references[j]
    <3>1. s = r /\ j = i
      BY <1>4, <1>9, <2>4
    <3>2. p \in f.request_cached_ids[r]
      BY <1>4, <1>9
    <3> QED BY <1>1, <1>9, <3>1, <3>2
  <2> QED BY <2>3, <2>4
<1>18. \A s \in Requests : f.request_cached_ids[s] \subseteq 0 .. num_tokens(s) - 1
  BY <1>4, <1>5, <1>9
<1> QED BY <1>9, <1>10, <1>13, <1>14, <1>15, <1>16, <1>17, <1>18 DEF BooksInv

\* The last reference gone, the entry is queued for eviction, once, although a request may
\* have referenced it through several inputs.
LEMMA ReleaseKeepsBooks ==
    ASSUME NEW e, BooksInv(e), NEW r \in Requests, NEW p \in Nat, deployed \in Deployments,
           NEW f, f = Released(e, r, p)
    PROVE  /\ BooksInv(f)
           /\ f.request_cached_ids = [e.request_cached_ids EXCEPT ![r] = @ \ {p}]
<1>1. PICK i : i = ImageAt(r, p)
  OBVIOUS
<1>2. PICK held : held = [e EXCEPT !.request_cached_ids[r] = @ \ {p}, !.references[i] = @ \ {r}]
  OBVIOUS
<1>3. e \in EncoderType
  BY DEF BooksInv
<1>4. /\ e.cached \in SUBSET Images /\ e.references \in [Images -> SUBSET Requests]
      /\ e.freeable \in Seq(Images) /\ e.num_free_slots \in Int /\ e.num_freeable_slots \in Int
      /\ e.request_cached_ids \in [Requests -> SUBSET Nat] /\ e.freed \in SUBSET Images
  BY <1>3, CacheIs
<1>5. /\ IsFiniteSet(e.cached) /\ Range(e.freeable) = Unreferenced(e) /\ IsInjective(e.freeable)
      /\ e.num_free_slots = deployed.cache_size - ImageTokens * Cardinality(e.cached)
      /\ e.num_free_slots >= 0
      /\ e.num_freeable_slots = e.num_free_slots + ImageTokens * Cardinality(Unreferenced(e))
      /\ \A j \in Images : \A s \in e.references[j] :
           j \in e.cached /\ \E o \in e.request_cached_ids[s] : ImageAt(s, o) = j
      /\ \A s \in Requests : e.request_cached_ids[s] \subseteq 0 .. num_tokens(s) - 1
  BY DEF BooksInv
<1>6. /\ held.cached = e.cached /\ held.freeable = e.freeable /\ held.freed = e.freed
      /\ held.num_free_slots = e.num_free_slots
      /\ held.num_freeable_slots = e.num_freeable_slots
      /\ held.request_cached_ids = [e.request_cached_ids EXCEPT ![r] = @ \ {p}]
      /\ held.references = [e.references EXCEPT ![i] = @ \ {r}]
      /\ held = [cached |-> held.cached, references |-> held.references,
                 freeable |-> held.freeable, num_free_slots |-> held.num_free_slots,
                 num_freeable_slots |-> held.num_freeable_slots,
                 request_cached_ids |-> held.request_cached_ids, freed |-> held.freed]
  BY <1>2, <1>3 DEF EncoderType
<1>7. held.references \in [Images -> SUBSET Requests]
  <2>1. CASE i \in Images
    BY <1>4, <1>6, <2>1
  <2>2. CASE i \notin Images
    BY <1>4, <1>6, <2>2
  <2> QED BY <2>1, <2>2
<1>8. held.request_cached_ids \in [Requests -> SUBSET Nat]
  BY <1>4, <1>6
<1>9. \A j \in Images : held.references[j] = IF j = i THEN e.references[j] \ {r} ELSE e.references[j]
  BY <1>4, <1>6
<1>10. PICK lets \in BOOLEAN :
          lets = (i \in held.cached /\ held.references[i] = {} /\ i \notin Range(held.freeable))
  OBVIOUS
<1>11. f = IF lets THEN [held EXCEPT !.freeable = Append(@, i),
                                     !.num_freeable_slots = @ + ImageTokens]
           ELSE held
  <2>1. f = IF i \in e.cached /\ held.references[i] = {} /\ i \notin Range(e.freeable)
            THEN [held EXCEPT !.freeable = Append(@, i), !.num_freeable_slots = @ + ImageTokens]
            ELSE held
    BY <1>1, <1>2 DEF Released
  <2> QED BY <1>6, <1>10, <2>1
<1>12. /\ f.cached = e.cached /\ f.freed = e.freed /\ f.num_free_slots = e.num_free_slots
       /\ f.references = held.references /\ f.request_cached_ids = held.request_cached_ids
       /\ f.freeable = (IF lets THEN Append(e.freeable, i) ELSE e.freeable)
       /\ f.num_freeable_slots =
            (IF lets THEN e.num_freeable_slots + ImageTokens ELSE e.num_freeable_slots)
       /\ f = [cached |-> f.cached, references |-> f.references, freeable |-> f.freeable,
               num_free_slots |-> f.num_free_slots, num_freeable_slots |-> f.num_freeable_slots,
               request_cached_ids |-> f.request_cached_ids, freed |-> f.freed]
  <2>1. CASE lets
    BY <1>6, <1>11, <2>1
  <2>2. CASE ~lets
    BY <1>6, <1>11, <2>2
  <2> QED BY <2>1, <2>2
<1>13. lets => i \in Images /\ i \in e.cached /\ i \notin Unreferenced(e)
  BY <1>4, <1>5, <1>6, <1>10
<1>14. Unreferenced(f) = IF lets THEN Unreferenced(e) \cup {i} ELSE Unreferenced(e)
  <2>1. ASSUME NEW j \in e.cached
        PROVE  f.references[j] = {} <=> e.references[j] = {} \/ (lets /\ j = i)
    <3>1. j \in Images /\ f.references[j] = IF j = i THEN e.references[j] \ {r} ELSE e.references[j]
      BY <1>4, <1>9, <1>12
    <3>2. CASE j # i
      BY <3>1, <3>2
    <3>3. CASE j = i
      <4>1. i \in Range(held.freeable) <=> e.references[i] = {}
        BY <1>5, <1>6, <3>3 DEF Unreferenced
      <4> QED BY <1>6, <1>9, <1>10, <1>12, <3>1, <3>3, <4>1
    <3> QED BY <3>2, <3>3
  <2> QED BY <1>12, <1>13, <2>1 DEF Unreferenced
<1>15. f.freeable \in Seq(Images) /\ Range(f.freeable) = Unreferenced(f) /\ IsInjective(f.freeable)
  <2>1. CASE lets
    <3>1. i \in Images /\ i \notin Range(e.freeable)
      BY <1>5, <1>13, <2>1
    <3>2. /\ Append(e.freeable, i) \in Seq(Images) /\ IsInjective(Append(e.freeable, i))
          /\ Range(Append(e.freeable, i)) = Range(e.freeable) \cup {i}
      BY <1>4, <1>5, <3>1, QueueOneMore
    <3> QED BY <1>5, <1>12, <1>14, <2>1, <3>2
  <2>2. CASE ~lets
    BY <1>4, <1>5, <1>12, <1>14, <2>2
  <2> QED BY <2>1, <2>2
<1>16. /\ f.num_freeable_slots \in Int
       /\ f.num_freeable_slots = f.num_free_slots + ImageTokens * Cardinality(Unreferenced(f))
  <2>1. IsFiniteSet(Unreferenced(e))
    <3>1. Unreferenced(e) \subseteq e.cached
      BY DEF Unreferenced
    <3> QED BY <1>5, <3>1, FS_Subset
  <2>2. CASE lets
    <3>1. /\ ImageTokens * Cardinality(Unreferenced(f))
               = ImageTokens * Cardinality(Unreferenced(e)) + ImageTokens
          /\ ImageTokens * Cardinality(Unreferenced(e)) \in Nat
      <4>1. i \notin Unreferenced(e) /\ Unreferenced(f) = Unreferenced(e) \cup {i}
        BY <1>13, <1>14, <2>2
      <4> QED BY <2>1, <4>1, AddMember
    <3> QED BY <1>4, <1>5, <1>12, <2>2, <3>1, SizeIs
  <2>3. CASE ~lets
    BY <1>4, <1>5, <1>12, <1>14, <2>3
  <2> QED BY <2>2, <2>3
<1>17. f \in EncoderType
  BY <1>4, <1>7, <1>8, <1>12, <1>15, <1>16 DEF EncoderType
<1>18. ASSUME NEW j \in Images, NEW s \in f.references[j]
       PROVE  j \in f.cached /\ \E o \in f.request_cached_ids[s] : ImageAt(s, o) = j
  <2>1. s \in Requests /\ s \in e.references[j] /\ (j = i => s # r)
    BY <1>4, <1>9, <1>12, <1>18
  <2>2. PICK o \in e.request_cached_ids[s] : ImageAt(s, o) = j
    BY <1>5, <2>1
  <2>3. s = r => o # p
    BY <1>1, <2>1, <2>2
  <2>4. o \in f.request_cached_ids[s]
    BY <1>4, <1>6, <1>12, <2>1, <2>2, <2>3
  <2> QED BY <1>5, <1>12, <2>1, <2>2, <2>4
<1>19. \A s \in Requests : f.request_cached_ids[s] \subseteq 0 .. num_tokens(s) - 1
  BY <1>4, <1>5, <1>6, <1>12
<1> QED BY <1>5, <1>6, <1>12, <1>15, <1>16, <1>17, <1>18, <1>19 DEF BooksInv

------------------------------------------------------------------------------
(* Several inputs.                                                          *)

\* Released one by one, in the order of their positions.
LEMMA ReleasedOneByOne ==
    ASSUME NEW e, NEW r \in Requests, NEW inputs, num_tokens(r) \in Nat
    PROVE  \E after :
              /\ after[0] = e
              /\ \A p \in 1 .. num_tokens(r) : after[p] =
                    IF p - 1 \in inputs THEN Released(after[p - 1], r, p - 1) ELSE after[p - 1]
              /\ ReleasedAll(e, r, inputs) = after[num_tokens(r)]
<1> DEFINE Run(f, m) == f = [p \in 0 .. m |->
                               IF p = 0 THEN e
                               ELSE IF p - 1 \in inputs THEN Released(f[p - 1], r, p - 1)
                               ELSE f[p - 1]]
           T == {m \in Nat : \E f : Run(f, m)}
<1>1. PICK n \in Nat : n = num_tokens(r)
  OBVIOUS
<1>2. 0 \in T
  <2>1. Run([p \in 0 .. 0 |-> e], 0)
    OBVIOUS
  <2> HIDE DEF Run
  <2> QED BY <2>1
<1>3. ASSUME NEW m \in 0 .. n, m < n, m \in T PROVE m + 1 \in T
  <2>1. PICK f : Run(f, m)
    BY <1>3
  <2> DEFINE g == [p \in 0 .. (m + 1) |->
                     IF p <= m THEN f[p]
                     ELSE IF m \in inputs THEN Released(f[m], r, m) ELSE f[m]]
  <2>2. Run(g, m + 1)
    BY <2>1
  <2> HIDE DEF Run, g
  <2> QED BY <2>2
<1> HIDE DEF Run
<1>4. n \in T
  <2> HIDE DEF T
  <2> QED BY <1>2, <1>3, Climbing
<1> DEFINE h == CHOOSE f : Run(f, n)
<1>5. Run(h, n)
  BY <1>4
<1>6. ReleasedAll(e, r, inputs) = h[n]
  BY <1>1 DEF ReleasedAll, Run
<1> HIDE DEF h
<1>7. h[0] = e
  BY <1>5 DEF Run
<1>8. ASSUME NEW p \in 1 .. n
      PROVE  h[p] = IF p - 1 \in inputs THEN Released(h[p - 1], r, p - 1) ELSE h[p - 1]
  <2>1. p \in 0 .. n /\ p # 0
    BY <1>8
  <2> QED BY <1>5, <2>1 DEF Run
<1> QED BY <1>1, <1>6, <1>7, <1>8

LEMMA ReleaseAllKeepsBooks ==
    ASSUME NEW e, BooksInv(e), NEW r \in Requests, NEW inputs, deployed \in Deployments,
           num_tokens(r) \in Nat, NEW f, f = ReleasedAll(e, r, inputs)
    PROVE  /\ BooksInv(f)
           /\ f.request_cached_ids = [e.request_cached_ids EXCEPT ![r] = @ \ inputs]
<1>1. PICK n \in Nat : n = num_tokens(r)
  OBVIOUS
<1>2. PICK after :
        /\ after[0] = e
        /\ \A p \in 1 .. n : after[p] =
              IF p - 1 \in inputs THEN Released(after[p - 1], r, p - 1) ELSE after[p - 1]
        /\ f = after[n]
  BY <1>1, ReleasedOneByOne
<1>3. /\ e.request_cached_ids \in [Requests -> SUBSET Nat]
      /\ e.request_cached_ids[r] \subseteq 0 .. n - 1
  BY <1>1, CacheIs DEF BooksInv
<1> DEFINE Left(p) == [e.request_cached_ids EXCEPT ![r] = {x \in @ : x \in inputs => x >= p}]
           T == {p \in 0 .. n : BooksInv(after[p]) /\ after[p].request_cached_ids = Left(p)}
<1>4. 0 \in T
  <2>1. Left(0) = e.request_cached_ids
    BY <1>3
  <2> QED BY <1>2, <2>1
<1>5. ASSUME NEW p \in 0 .. n, p < n, p \in T PROVE p + 1 \in T
  <2>1. BooksInv(after[p]) /\ after[p].request_cached_ids = Left(p)
    BY <1>5
  <2>2. p \in Nat /\ p + 1 \in 1 .. n /\ p + 1 - 1 = p
    BY <1>5
  <2>3. after[p + 1] = IF p \in inputs THEN Released(after[p], r, p) ELSE after[p]
    BY <1>2, <2>2
  <2>4. PICK S \in SUBSET Nat : S = e.request_cached_ids[r]
    BY <1>3
  <2>5. Left(p)[r] = {x \in S : x \in inputs => x >= p}
    BY <1>3, <2>4
  <2>6. CASE p \in inputs
    <3>1. /\ BooksInv(after[p + 1])
          /\ after[p + 1].request_cached_ids = [Left(p) EXCEPT ![r] = @ \ {p}]
      <4> HIDE DEF Left
      <4> QED BY <2>1, <2>2, <2>3, <2>6, ReleaseKeepsBooks
    <3>2. {x \in S : x \in inputs => x >= p} \ {p} = {x \in S : x \in inputs => x >= p + 1}
      <4>1. ASSUME NEW x \in S
            PROVE  (x \in inputs => x >= p) /\ x # p <=> (x \in inputs => x >= p + 1)
        <5>1. x \in Nat /\ (x >= p /\ x # p <=> x >= p + 1)
          BY <2>2
        <5> QED BY <2>6, <5>1
      <4> QED BY <4>1
    <3>3. [Left(p) EXCEPT ![r] = @ \ {p}] = Left(p + 1)
      BY <1>3, <2>4, <3>2
    <3> QED BY <2>2, <3>1, <3>3
  <2>7. CASE p \notin inputs
    <3>1. {x \in S : x \in inputs => x >= p} = {x \in S : x \in inputs => x >= p + 1}
      <4>1. ASSUME NEW x \in S
            PROVE  (x \in inputs => x >= p) <=> (x \in inputs => x >= p + 1)
        <5>1. x \in Nat /\ (x >= p /\ x # p <=> x >= p + 1)
          BY <2>2
        <5> QED BY <2>7, <5>1
      <4> QED BY <4>1
    <3>2. Left(p) = Left(p + 1)
      BY <1>3, <2>4, <3>1
    <3> QED BY <2>1, <2>2, <2>3, <2>7, <3>2
  <2> QED BY <2>6, <2>7
<1>6. n \in T
  <2> HIDE DEF T
  <2> QED BY <1>4, <1>5, Climbing
<1>7. Left(n) = [e.request_cached_ids EXCEPT ![r] = @ \ inputs]
  <2>1. {x \in e.request_cached_ids[r] : x \in inputs => x >= n} = e.request_cached_ids[r] \ inputs
    BY <1>3
  <2> QED BY <1>3, <2>1
<1> QED BY <1>2, <1>6, <1>7

\* What _schedule_encoder has gathered for a request: only its own inputs change.
Gathered(acc, r) ==
    /\ DOMAIN acc = {"encoder", "budget", "n", "inputs", "full"}
    /\ BooksInv(acc.encoder)
    /\ \A s \in Requests \ {r} :
         acc.encoder.request_cached_ids[s] = encoder.request_cached_ids[s]

LEMMA ConsiderKeepsBooks ==
    ASSUME NEW r \in Requests, NEW p \in 0 .. num_tokens(r) - 1, ImageAt(r, p) \in Images,
           num_tokens(r) \in Nat, deployed \in Deployments, NEW start,
           NEW acc, Gathered(acc, r), NEW new, new = Considered(acc, r, p, start)
    PROVE  Gathered(new, r)
<1>1. PICK e : e = acc.encoder
  OBVIOUS
<1>2. BooksInv(e) /\ DOMAIN acc = {"encoder", "budget", "n", "inputs", "full"}
  BY <1>1 DEF Gathered
<1>3. e.request_cached_ids \in [Requests -> SUBSET Nat]
  BY <1>2, CacheIs DEF BooksInv
<1>4. \A s \in Requests \ {r} : e.request_cached_ids[s] = encoder.request_cached_ids[s]
  BY <1>1 DEF Gathered
<1>5. CASE acc.full \/ p \in e.request_cached_ids[r]
  <2>1. new = acc
    BY <1>1, <1>5 DEF Considered
  <2> QED BY <2>1
<1>6. CASE ~(acc.full \/ p \in e.request_cached_ids[r]) /\ ImageAt(r, p) \in e.cached
  <2>1. PICK f : f = Allocated(e, r, p)
    OBVIOUS
  <2>2. BooksInv(f) /\ f.request_cached_ids = [e.request_cached_ids EXCEPT ![r] = @ \cup {p}]
    BY <1>2, <1>6, <2>1, AllocateKeepsBooks
  <2>3. new = [acc EXCEPT !.encoder = f]
    BY <1>1, <1>6, <2>1 DEF Considered
  <2>4. DOMAIN new = DOMAIN acc /\ new.encoder = f
    BY <1>2, <2>3
  <2> QED BY <1>2, <1>3, <1>4, <2>2, <2>4 DEF Gathered
<1>7. CASE /\ ~(acc.full \/ p \in e.request_cached_ids[r]) /\ ImageAt(r, p) \notin e.cached
           /\ ImageTokens <= acc.budget /\ CanAllocateImage(e)
  <2>1. PICK room : room = RoomMade(e)
    OBVIOUS
  <2>2. /\ BooksInv(room) /\ ImageTokens <= room.num_free_slots
        /\ room.request_cached_ids = e.request_cached_ids
    BY <1>2, <1>7, <2>1, RoomKeepsBooks
  <2>3. PICK f : f = Allocated(room, r, p)
    OBVIOUS
  <2>4. BooksInv(f) /\ f.request_cached_ids = [e.request_cached_ids EXCEPT ![r] = @ \cup {p}]
    <3>1. BooksInv(f) /\ f.request_cached_ids = [room.request_cached_ids EXCEPT ![r] = @ \cup {p}]
      BY <2>2, <2>3, AllocateKeepsBooks
    <3> QED BY <2>2, <3>1
  <2>5. new = [acc EXCEPT !.encoder = f, !.budget = @ - ImageTokens, !.inputs = @ \cup {p}]
    BY <1>1, <1>7, <2>1, <2>3 DEF Considered
  <2>6. DOMAIN new = DOMAIN acc /\ new.encoder = f
    BY <1>2, <2>5
  <2> QED BY <1>2, <1>3, <1>4, <2>4, <2>6 DEF Gathered
<1>8. CASE /\ ~(acc.full \/ p \in e.request_cached_ids[r]) /\ ImageAt(r, p) \notin e.cached
           /\ ~(ImageTokens <= acc.budget /\ CanAllocateImage(e))
  <2>1. new = [acc EXCEPT !.full = TRUE, !.n = AtLeastZero(p - start)]
    BY <1>1, <1>8 DEF Considered
  <2>2. DOMAIN new = DOMAIN acc /\ new.encoder = acc.encoder
    BY <1>2, <2>1
  <2> QED BY <1>1, <1>2, <1>4, <2>2 DEF Gathered
<1> QED BY <1>5, <1>6, <1>7, <1>8

\* What _schedule_encoder has gathered in front of each position.
TakenInOrder(after, touched, r, start, n) ==
    /\ touched \subseteq Starts(all_token_ids[r])
    /\ after[0] = [encoder |-> encoder, budget |-> step.encoder_budget, n |-> n,
                   inputs |-> {}, full |-> FALSE]
    /\ \A p \in 1 .. num_tokens(r) : after[p] =
          IF p - 1 \in touched THEN Considered(after[p - 1], r, p - 1, start)
          ELSE after[p - 1]
    /\ ScheduleEncoder(r, start, n) = after[num_tokens(r)]

\* The images a span touches, one by one.
LEMMA ConsideredOneByOne ==
    ASSUME NEW r \in Requests, NEW start, NEW n, num_tokens(r) \in Nat
    PROVE  \E after, touched : TakenInOrder(after, touched, r, start, n)
<1> DEFINE touched == {p \in Starts(all_token_ids[r]) : p < start + n /\ start < p + ImageTokens}
           first == [encoder |-> encoder, budget |-> step.encoder_budget, n |-> n,
                     inputs |-> {}, full |-> FALSE]
           Run(f, m) == f = [p \in 0 .. m |->
                               IF p = 0 THEN first
                               ELSE IF p - 1 \in touched THEN Considered(f[p - 1], r, p - 1, start)
                               ELSE f[p - 1]]
           T == {m \in Nat : \E f : Run(f, m)}
<1>1. PICK k \in Nat : k = num_tokens(r)
  OBVIOUS
<1>2. touched \subseteq Starts(all_token_ids[r])
  OBVIOUS
<1>3. \A h : h = (CHOOSE f : Run(f, k)) => ScheduleEncoder(r, start, n) = h[k]
  BY <1>1 DEF ScheduleEncoder
<1> HIDE DEF touched, first
<1>4. 0 \in T
  <2>1. Run([p \in 0 .. 0 |-> first], 0)
    OBVIOUS
  <2> HIDE DEF Run
  <2> QED BY <2>1
<1>5. ASSUME NEW m \in 0 .. k, m < k, m \in T PROVE m + 1 \in T
  <2>1. PICK f : Run(f, m)
    BY <1>5
  <2> DEFINE g == [p \in 0 .. (m + 1) |->
                     IF p <= m THEN f[p]
                     ELSE IF m \in touched THEN Considered(f[m], r, m, start) ELSE f[m]]
  <2>2. Run(g, m + 1)
    BY <2>1
  <2> HIDE DEF Run, g
  <2> QED BY <2>2
<1> HIDE DEF Run
<1>6. k \in T
  <2> HIDE DEF T
  <2> QED BY <1>4, <1>5, Climbing
<1> DEFINE h == CHOOSE f : Run(f, k)
<1>7. Run(h, k)
  BY <1>6
<1>8. ScheduleEncoder(r, start, n) = h[k]
  BY <1>3
<1> HIDE DEF h
<1>9. h[0] = first
  BY <1>7 DEF Run
<1>10. ASSUME NEW p \in 1 .. k
       PROVE  h[p] = IF p - 1 \in touched THEN Considered(h[p - 1], r, p - 1, start) ELSE h[p - 1]
  <2>1. p \in 0 .. k /\ p # 0
    BY <1>10
  <2> QED BY <1>7, <2>1 DEF Run
<1>11. TakenInOrder(h, touched, r, start, n)
  BY <1>1, <1>2, <1>8, <1>9, <1>10 DEF first, TakenInOrder
<1> QED BY <1>11

\* An image begins inside the tokens and is an image.
LEMMA StartsInside ==
    ASSUME NEW r \in Requests, all_token_ids[r] \in Seq(Tokens), NEW p \in Starts(all_token_ids[r])
    PROVE  p \in 0 .. num_tokens(r) - 1 /\ ImageAt(r, p) \in Images
BY SizeIs DEF Starts, num_tokens, ImageAt

LEMMA ScheduleKeepsBooks ==
    ASSUME PlacesInv, BooksInv(encoder), NEW r \in Requests, NEW start, NEW n
    PROVE  /\ BooksInv(ScheduleEncoder(r, start, n).encoder)
           /\ \A s \in Requests \ {r} :
                ScheduleEncoder(r, start, n).encoder.request_cached_ids[s]
                  = encoder.request_cached_ids[s]
<1>1. /\ all_token_ids[r] \in Seq(Tokens) /\ deployed \in Deployments
      /\ num_tokens(r) \in Nat
  BY DEF PlacesInv, num_tokens
<1>2. PICK k \in Nat : k = num_tokens(r)
  BY <1>1
<1>a. PICK after, touched : TakenInOrder(after, touched, r, start, n)
  BY <1>1, ConsideredOneByOne
<1>3. /\ touched \subseteq Starts(all_token_ids[r])
      /\ after[0] = [encoder |-> encoder, budget |-> step.encoder_budget, n |-> n,
                     inputs |-> {}, full |-> FALSE]
      /\ \A p \in 1 .. k : after[p] =
            IF p - 1 \in touched THEN Considered(after[p - 1], r, p - 1, start)
            ELSE after[p - 1]
      /\ ScheduleEncoder(r, start, n) = after[k]
  BY <1>a, <1>2 DEF TakenInOrder
<1> DEFINE T == {p \in 0 .. k : Gathered(after[p], r)}
<1>4. 0 \in T
  <2>1. /\ DOMAIN after[0] = {"encoder", "budget", "n", "inputs", "full"}
        /\ after[0].encoder = encoder
    BY <1>3
  <2>2. Gathered(after[0], r)
    BY <2>1 DEF Gathered
  <2> QED BY <2>2
<1>5. ASSUME NEW p \in 0 .. k, p < k, p \in T PROVE p + 1 \in T
  <2>1. Gathered(after[p], r) /\ p + 1 \in 1 .. k /\ p + 1 - 1 = p /\ p + 1 \in 0 .. k
    BY <1>5
  <2>2. after[p + 1] = IF p \in touched THEN Considered(after[p], r, p, start) ELSE after[p]
    BY <1>3, <2>1
  <2>3. CASE p \in touched
    <3>1. p \in 0 .. num_tokens(r) - 1 /\ ImageAt(r, p) \in Images
      BY <1>1, <1>3, <2>3, StartsInside
    <3>2. Gathered(after[p + 1], r)
      BY <1>1, <2>1, <2>2, <2>3, <3>1, ConsiderKeepsBooks
    <3> QED BY <2>1, <3>2
  <2>4. CASE p \notin touched
    BY <2>1, <2>2, <2>4
  <2> QED BY <2>3, <2>4
<1>6. k \in T
  <2> HIDE DEF T
  <2> QED BY <1>4, <1>5, Climbing
<1>7. Gathered(ScheduleEncoder(r, start, n), r)
  BY <1>3, <1>6
<1> QED BY <1>7 DEF Gathered

\* The references of running requests to what they have computed, one request after the other.
LEMMA PassedKeepsBooks ==
    ASSUME PlacesInv, BooksInv(encoder), pc = "update", EndUpdate
    PROVE  /\ BooksInv(encoder')
           /\ \A s \in Requests :
                encoder'.request_cached_ids[s] \subseteq encoder.request_cached_ids[s]
<1>1. PICK k \in Nat : /\ k = Len(running) /\ DOMAIN running = 1 .. k
                       /\ \A j \in 1 .. k : running[j] \in Requests
  BY LenProperties, ElementOfSeq DEF PlacesInv
<1> DEFINE Run(f, m) == f = [j \in 0 .. m |->
                               IF j = 0 THEN encoder ELSE ReleasedPassed(f[j - 1], running[j])]
           T == {m \in Nat : \E f : Run(f, m)}
<1>2. \A h : h = (CHOOSE f : Run(f, k)) => encoder' = h[k]
  BY <1>1 DEF EndUpdate
<1>3. 0 \in T
  <2>1. Run([p \in 0 .. 0 |-> encoder], 0)
    OBVIOUS
  <2> HIDE DEF Run
  <2> QED BY <2>1
<1>4. ASSUME NEW m \in 0 .. k, m < k, m \in T PROVE m + 1 \in T
  <2>1. PICK f : Run(f, m)
    BY <1>4
  <2> DEFINE g == [j \in 0 .. (m + 1) |->
                     IF j <= m THEN f[j] ELSE ReleasedPassed(f[m], running[m + 1])]
  <2>2. Run(g, m + 1)
    BY <2>1
  <2> HIDE DEF Run, g
  <2> QED BY <2>2
<1> HIDE DEF Run
<1>5. k \in T
  <2> HIDE DEF T
  <2> QED BY <1>3, <1>4, Climbing
<1> DEFINE h == CHOOSE f : Run(f, k)
<1>6. Run(h, k)
  BY <1>5
<1>7. encoder' = h[k]
  BY <1>2
<1> HIDE DEF h
<1>8. h[0] = encoder
  BY <1>6 DEF Run
<1>9. ASSUME NEW j \in 1 .. k PROVE h[j] = ReleasedPassed(h[j - 1], running[j])
  <2>1. j \in 0 .. k /\ j # 0
    BY <1>9
  <2> QED BY <1>6, <2>1 DEF Run
<1> DEFINE U == {j \in 0 .. k : /\ BooksInv(h[j])
                              /\ \A s \in Requests : h[j].request_cached_ids[s]
                                                       \subseteq encoder.request_cached_ids[s]}
<1>10. 0 \in U
  BY <1>8
<1>11. ASSUME NEW j \in 0 .. k, j < k, j \in U PROVE j + 1 \in U
  <2>1. j + 1 \in 1 .. k /\ j + 1 - 1 = j /\ j + 1 \in 0 .. k
    BY <1>11
  <2>2. PICK e : e = h[j] /\ BooksInv(e)
    BY <1>11
  <2>3. PICK r \in Requests : r = running[j + 1]
    BY <1>1, <2>1
  <2>4. PICK inputs : inputs = Passed(e, r)
    OBVIOUS
  <2>5. PICK f : f = h[j + 1] /\ f = ReleasedAll(e, r, inputs)
    BY <1>9, <2>1, <2>2, <2>3, <2>4 DEF ReleasedPassed
  <2>6. deployed \in Deployments /\ num_tokens(r) \in Nat
    BY DEF PlacesInv, num_tokens
  <2>7. BooksInv(f) /\ f.request_cached_ids = [e.request_cached_ids EXCEPT ![r] = @ \ inputs]
    BY <2>2, <2>5, <2>6, ReleaseAllKeepsBooks
  <2>8. e.request_cached_ids \in [Requests -> SUBSET Nat]
    BY <2>2, CacheIs DEF BooksInv
  <2>9. \A s \in Requests : f.request_cached_ids[s] \subseteq e.request_cached_ids[s]
    BY <2>7, <2>8
  <2>10. \A s \in Requests : e.request_cached_ids[s] \subseteq encoder.request_cached_ids[s]
    BY <1>11, <2>2
  <2> QED BY <2>1, <2>5, <2>7, <2>9, <2>10
<1>12. k \in U
  <2> HIDE DEF U
  <2> QED BY <1>10, <1>11, Climbing
<1> QED BY <1>7, <1>12

------------------------------------------------------------------------------
(* The queues of the scheduler.                                             *)

LEMMA JoinedRange ==
    ASSUME NEW T, NEW s \in Seq(T), NEW t \in Seq(T)
    PROVE  s \o t \in Seq(T) /\ Range(s \o t) = Range(s) \cup Range(t)
<1>1. PICK m \in Nat : m = Len(s) /\ DOMAIN s = 1 .. m
  BY LenProperties
<1>2. PICK n \in Nat : n = Len(t) /\ DOMAIN t = 1 .. n
  BY LenProperties
<1>3. /\ s \o t \in Seq(T) /\ DOMAIN (s \o t) = 1 .. m + n
      /\ \A i \in 1 .. m + n : (s \o t)[i] = IF i <= m THEN s[i] ELSE t[i - m]
  BY <1>1, <1>2, ConcatProperties, LenProperties
<1>4. ASSUME NEW i \in 1 .. m + n PROVE (s \o t)[i] \in Range(s) \cup Range(t)
  <2>1. CASE i <= m
    BY <1>1, <1>3, <2>1 DEF Range
  <2>2. CASE ~ (i <= m)
    <3>1. i - m \in 1 .. n
      BY <2>2
    <3> QED BY <1>2, <1>3, <2>2, <3>1 DEF Range
  <2> QED BY <2>1, <2>2
<1>5. ASSUME NEW i \in 1 .. m PROVE s[i] \in Range(s \o t)
  <2>1. i \in 1 .. m + n /\ (s \o t)[i] = s[i]
    BY <1>3
  <2> QED BY <1>3, <2>1 DEF Range
<1>6. ASSUME NEW j \in 1 .. n PROVE t[j] \in Range(s \o t)
  <2>1. m + j \in 1 .. m + n /\ ~ (m + j <= m) /\ m + j - m = j
    OBVIOUS
  <2>2. (s \o t)[m + j] = t[j]
    BY <1>3, <2>1
  <2> QED BY <1>3, <2>1, <2>2 DEF Range
<1>7. Range(s \o t) \subseteq Range(s) \cup Range(t)
  BY <1>3, <1>4 DEF Range
<1>8. Range(s) \subseteq Range(s \o t)
  BY <1>1, <1>5 DEF Range
<1>9. Range(t) \subseteq Range(s \o t)
  BY <1>2, <1>6 DEF Range
<1> QED BY <1>3, <1>7, <1>8, <1>9

LEMMA OneRange ==
    ASSUME NEW T, NEW x \in T
    PROVE  <<x>> \in Seq(T) /\ Range(<<x>>) = {x}
<1>1. <<x>> \in Seq(T) /\ DOMAIN <<x>> = {1} /\ <<x>>[1] = x
  OBVIOUS
<1> QED BY <1>1 DEF Range

LEMMA AppendedRange ==
    ASSUME NEW T, NEW s \in Seq(T), NEW x \in T
    PROVE  Append(s, x) \in Seq(T) /\ Range(Append(s, x)) = Range(s) \cup {x}
<1>1. PICK t \in Seq(T) : t = <<x>> /\ Range(t) = {x}
  BY OneRange
<1>2. Append(s, x) = s \o t
  BY <1>1
<1>3. s \o t \in Seq(T) /\ Range(s \o t) = Range(s) \cup Range(t)
  BY JoinedRange
<1> QED BY <1>1, <1>2, <1>3

LEMMA FrontAndLast ==
    ASSUME NEW T, NEW s \in Seq(T), s # <<>>
    PROVE  /\ Last(s) \in T /\ Front(s) \in Seq(T)
           /\ Range(s) = Range(Front(s)) \cup {Last(s)}
           /\ \A i \in DOMAIN s : s[i] # Last(s) => i \in DOMAIN Front(s) /\ Front(s)[i] = s[i]
<1>1. PICK n \in Nat : n = Len(s) /\ n > 0 /\ DOMAIN s = 1 .. n
  BY LenProperties, EmptySeq
<1>2. \A i \in 1 .. n : s[i] \in T
  BY <1>1, ElementOfSeq
<1>3. PICK f : f = Front(s) /\ f = SubSeq(s, 1, n - 1)
  BY <1>1 DEF Front
<1>4. /\ f \in Seq(T) /\ Len(f) = n - 1
      /\ \A i \in 1 .. n - 1 : f[i] = s[i]
  <2>1. 1 \in Int /\ n - 1 \in Int /\ \A i \in 1 .. n - 1 : s[i] \in T
    BY <1>2
  <2>2. /\ f \in Seq(T) /\ Len(f) = IF 1 <= n - 1 THEN n - 1 - 1 + 1 ELSE 0
        /\ \A i \in 1 .. n - 1 - 1 + 1 : f[i] = s[1 + i - 1]
    BY <1>3, <2>1, SubSeqProperties
  <2>3. n - 1 - 1 + 1 = n - 1 /\ \A i \in 1 .. n - 1 : 1 + i - 1 = i
    OBVIOUS
  <2>4. (IF 1 <= n - 1 THEN n - 1 - 1 + 1 ELSE 0) = n - 1
    BY <1>1
  <2>5. \A i \in 1 .. n - 1 : f[i] = s[i]
    BY <2>2, <2>3
  <2> QED BY <2>2, <2>4, <2>5
<1>5. DOMAIN f = 1 .. n - 1
  BY <1>4, LenProperties
<1>6. Last(s) = s[n] /\ n \in 1 .. n
  BY <1>1 DEF Last
<1>7. \A i \in 1 .. n : i = n \/ i \in 1 .. n - 1
  OBVIOUS
<1>8. \A i \in 1 .. n - 1 : i \in 1 .. n
  OBVIOUS
<1>9. Range(s) = Range(f) \cup {s[n]}
  BY <1>1, <1>4, <1>5, <1>6, <1>7, <1>8 DEF Range
<1> QED BY <1>1, <1>2, <1>3, <1>4, <1>5, <1>6, <1>7, <1>9

\* Removing a request from a queue.
LEMMA WithoutIt ==
    ASSUME NEW q \in Seq(Requests), NEW r
    PROVE  Without(q, r) \in Seq(Requests) /\ Range(Without(q, r)) = Range(q) \ {r}
<1>1. Range(q) \subseteq Requests
  BY LenProperties, ElementOfSeq DEF Range
<1> QED BY <1>1, FilterProperties DEF Without

------------------------------------------------------------------------------
(* The books follow the tokens.                                             *)

\* A token that is appended leaves the images where they were; a request without
\* references may come and go.
LEMMA BooksFollow ==
    ASSUME NEW e, BooksInv(e), encoder' = e, deployed' = deployed,
           all_token_ids \in [Requests -> Seq(Tokens)],
           all_token_ids' \in [Requests -> Seq(Tokens)],
           \A r \in Requests : \/ e.request_cached_ids[r] = {}
                               \/ all_token_ids'[r] = all_token_ids[r]
                               \/ \E t \in Tokens : all_token_ids'[r] = Append(all_token_ids[r], t)
    PROVE  BooksInv(encoder)'
<1> DEFINE ids(r) == e.request_cached_ids[r]
<1>1. e \in EncoderType /\ e.request_cached_ids \in [Requests -> SUBSET Nat]
      /\ e.references \in [Images -> SUBSET Requests]
  BY CacheIs DEF BooksInv
<1>2. ASSUME NEW r \in Requests
      PROVE  /\ e.request_cached_ids[r] \subseteq 0 .. num_tokens(r)' - 1
             /\ \A p \in e.request_cached_ids[r] : ImageAt(r, p)' = ImageAt(r, p)
  <2>1. e.request_cached_ids[r] \subseteq 0 .. Len(all_token_ids[r]) - 1
    BY DEF BooksInv, num_tokens
  <2>2. CASE e.request_cached_ids[r] = {}
    BY <2>2
  <2>3. CASE all_token_ids'[r] = all_token_ids[r]
    BY <2>1, <2>3 DEF num_tokens, ImageAt
  <2>4. CASE \E t \in Tokens : all_token_ids'[r] = Append(all_token_ids[r], t)
    <3>1. PICK t \in Tokens : all_token_ids'[r] = Append(all_token_ids[r], t)
      BY <2>4
    <3>2. PICK s \in Seq(Tokens) : s = all_token_ids[r]
      OBVIOUS
    <3>3. PICK n \in Nat : n = Len(s)
      BY LenProperties
    <3>4. Len(Append(s, t)) = n + 1 /\ \A i \in 1 .. n : Append(s, t)[i] = s[i]
      BY <3>2, <3>3, AppendProperties
    <3>5. \A p \in 0 .. n - 1 : p \in 0 .. n + 1 - 1 /\ p + 1 \in 1 .. n
      OBVIOUS
    <3> QED BY <2>1, <3>1, <3>2, <3>3, <3>4, <3>5 DEF num_tokens, ImageAt
  <2> QED BY <2>2, <2>3, <2>4
<1>3. \A i \in Images : \A r \in e.references[i] :
         i \in e.cached /\ \E p \in e.request_cached_ids[r] : ImageAt(r, p)' = i
  <2>1. ASSUME NEW i \in Images, NEW r \in e.references[i]
        PROVE  i \in e.cached /\ \E p \in e.request_cached_ids[r] : ImageAt(r, p)' = i
    <3>1. r \in Requests
      BY <1>1
    <3>2. i \in e.cached /\ \E p \in e.request_cached_ids[r] : ImageAt(r, p) = i
      BY DEF BooksInv
    <3> QED BY <1>2, <3>1, <3>2
  <2> QED BY <2>1
<1>4. /\ e \in EncoderType /\ IsFiniteSet(e.cached)
      /\ e.num_free_slots = deployed.cache_size - ImageTokens * Cardinality(e.cached)
      /\ e.num_free_slots >= 0
      /\ e.num_freeable_slots = e.num_free_slots + ImageTokens * Cardinality(Unreferenced(e))
      /\ Range(e.freeable) = Unreferenced(e) /\ IsInjective(e.freeable)
  BY DEF BooksInv
<1>5. \A r \in Requests : e.request_cached_ids[r] \subseteq 0 .. num_tokens(r)' - 1
  BY <1>2
<1> QED BY <1>3, <1>4, <1>5 DEF BooksInv, Unreferenced

------------------------------------------------------------------------------
(* Every step keeps the books, and references with the living.              *)

IdsOfTheLiving == \A r \in Requests : encoder.request_cached_ids[r] # {} => r \in Live

LEMMA StepIs ==
    ASSUME PlacesInv
    PROVE  DOMAIN step = {"req_index", "request", "num_new_tokens", "token_budget",
                          "encoder_budget", "tokens", "inputs", "preempted", "reads", "batch"}
BY DEF PlacesInv, NoStep

LEMMA EncoderInit == EInit => EncoderInv
<1> SUFFICES ASSUME EInit PROVE EncoderInv
  OBVIOUS
<1>1. /\ deployed \in Deployments /\ deployed.cache_size \in Nat
  BY InputsAssumption DEF EInit
<1>2. all_token_ids \in [Requests -> Seq(Tokens)] /\ \A r \in Requests : num_tokens(r) = 0
  <2>1. <<>> \in Seq(Tokens) /\ Len(<<>>) = 0
    BY EmptySeq
  <2> QED BY <2>1 DEF EInit, num_tokens
<1>3. Range(<<>>) = {} /\ IsInjective(<<>>) /\ <<>> \in Seq(Requests) /\ <<>> \in Seq(Images)
  BY DEF Range, IsInjective
<1>4. IsFiniteSet({}) /\ Cardinality({}) = 0 /\ ImageTokens * 0 = 0
  BY SizeIs, FS_EmptySet
<1>5. /\ encoder = NewEncoderCache(deployed.cache_size)
      /\ encoder \in EncoderType /\ encoder.cached = {}
      /\ encoder.references = [i \in Images |-> {}] /\ encoder.freeable = <<>>
      /\ encoder.num_free_slots = deployed.cache_size
      /\ encoder.num_freeable_slots = deployed.cache_size
      /\ encoder.request_cached_ids = [r \in Requests |-> {}]
  BY <1>1, <1>3 DEF EInit, NewEncoderCache, EncoderType
<1>6. Unreferenced(encoder) = {}
  BY <1>5 DEF Unreferenced
<1>7. BooksInv(encoder)
  <2>1. encoder.num_freeable_slots = encoder.num_free_slots
                                       + ImageTokens * Cardinality(Unreferenced(encoder))
    BY <1>1, <1>4, <1>5, <1>6
  <2>2. encoder.num_free_slots = deployed.cache_size - ImageTokens * Cardinality(encoder.cached)
    BY <1>1, <1>4, <1>5
  <2> QED BY <1>1, <1>3, <1>4, <1>5, <1>6, <2>1, <2>2 DEF BooksInv
<1>8. PlacesInv
  <2>1. waiting = <<>> /\ skipped_waiting = <<>> /\ running = <<>> /\ submitted = {}
        /\ pc = "idle" /\ step = NoStep
    BY DEF EInit
  <2>2. DOMAIN step = DOMAIN NoStep /\ step.req_index = 1
    BY <2>1 DEF NoStep
  <2> QED BY <1>1, <1>2, <1>3, <2>1, <2>2 DEF PlacesInv, Live
<1> QED BY <1>5, <1>7, <1>8 DEF EncoderInv

\* Steps that leave the cache and the tokens alone.
LEMMA BooksUntouched ==
    ASSUME EncoderInv, UNCHANGED <<encoder, deployed, all_token_ids>>
    PROVE  BooksInv(encoder)'
BY DEF EncoderInv, BooksInv, Unreferenced, num_tokens, ImageAt

LEMMA SubmitKeepsEncoder ==
    ASSUME EncoderInv, NEW r \in Requests, Submit(r)
    PROVE  EncoderInv'
<1>1. PlacesInv /\ BooksInv(encoder) /\ r \notin submitted
  BY DEF EncoderInv, Submit
<1>2. deployed.prompt[r] \in Seq(Tokens)
  BY <1>1, InputsAssumption DEF PlacesInv
<1>3. all_token_ids' \in [Requests -> Seq(Tokens)]
      /\ \A s \in Requests \ {r} : all_token_ids'[s] = all_token_ids[s]
  BY <1>1, <1>2 DEF Submit, PlacesInv
<1>4. waiting' \in Seq(Requests) /\ Range(waiting') = Range(waiting) \cup {r}
  BY <1>1, AppendedRange DEF Submit, PlacesInv
<1>5. Live' = Live \cup {r} /\ Live' \subseteq submitted'
  BY <1>1, <1>4 DEF Submit, Live, PlacesInv
<1>6. pc # "allocate" /\ UNCHANGED <<pc, step, encoder, deployed, skipped_waiting, running>>
  BY DEF Submit, ClientsMayCall
<1>7. encoder.request_cached_ids[r] = {}
  BY <1>1 DEF EncoderInv, PlacesInv
<1>8. BooksInv(encoder)'
  BY <1>1, <1>3, <1>6, <1>7, BooksFollow DEF PlacesInv
<1>9. PlacesInv'
  BY <1>1, <1>3, <1>4, <1>5, <1>6 DEF PlacesInv
<1> QED BY <1>5, <1>6, <1>8, <1>9 DEF EncoderInv

\* What FreeRequest leaves of the books, if the request leaves its queue with it.
LEMMA FreeRequestKeepsBooks ==
    ASSUME EncoderInv, NEW r \in Requests, FreeRequest(r), deployed' = deployed
    PROVE  /\ BooksInv(encoder)' /\ all_token_ids' \in [Requests -> Seq(Tokens)]
           /\ encoder'.request_cached_ids = [encoder.request_cached_ids EXCEPT ![r] = {}]
<1>1. PlacesInv /\ BooksInv(encoder) /\ deployed \in Deployments
      /\ all_token_ids \in [Requests -> Seq(Tokens)]
  BY DEF EncoderInv, PlacesInv
<1>2. num_tokens(r) \in Nat
  BY <1>1, LenProperties DEF num_tokens
<1>3. PICK inputs : inputs = encoder.request_cached_ids[r]
  OBVIOUS
<1>4. encoder' = ReleasedAll(encoder, r, inputs)
  BY <1>3 DEF FreeRequest
<1>5. PICK f : f = ReleasedAll(encoder, r, inputs)
  OBVIOUS
<1>6. BooksInv(f) /\ f.request_cached_ids = [encoder.request_cached_ids EXCEPT ![r] = @ \ inputs]
  BY <1>1, <1>2, <1>5, ReleaseAllKeepsBooks
<1>7. encoder.request_cached_ids \in [Requests -> SUBSET Nat]
  BY <1>1, CacheIs DEF BooksInv
<1>8. f.request_cached_ids = [encoder.request_cached_ids EXCEPT ![r] = {}]
  BY <1>3, <1>6, <1>7
<1>9. all_token_ids' \in [Requests -> Seq(Tokens)]
      /\ \A s \in Requests \ {r} : all_token_ids'[s] = all_token_ids[s]
  BY <1>1, EmptySeq DEF FreeRequest
<1>10. f.request_cached_ids[r] = {}
  BY <1>7, <1>8
<1>11. BooksInv(encoder)'
  BY <1>1, <1>4, <1>5, <1>6, <1>9, <1>10, BooksFollow
<1> QED BY <1>4, <1>5, <1>8, <1>9, <1>11

LEMMA AbortKeepsEncoder ==
    ASSUME EncoderInv, NEW r \in Requests, Abort(r)
    PROVE  EncoderInv'
<1>1. PlacesInv /\ IdsOfTheLiving /\ encoder.request_cached_ids \in [Requests -> SUBSET Nat]
  BY CacheIs DEF EncoderInv, BooksInv, IdsOfTheLiving
<1>2. /\ running' = Without(running, r) /\ waiting' = Without(waiting, r) /\ FreeRequest(r)
      /\ UNCHANGED <<deployed, submitted, skipped_waiting, pc, step>> /\ pc # "allocate"
  BY DEF Abort, ClientsMayCall
<1>3. /\ BooksInv(encoder)' /\ all_token_ids' \in [Requests -> Seq(Tokens)]
      /\ encoder'.request_cached_ids = [encoder.request_cached_ids EXCEPT ![r] = {}]
  BY <1>2, FreeRequestKeepsBooks
<1>4. /\ running' \in Seq(Requests) /\ Range(running') = Range(running) \ {r}
      /\ waiting' \in Seq(Requests) /\ Range(waiting') = Range(waiting) \ {r}
  BY <1>1, <1>2, WithoutIt DEF PlacesInv
<1>5. Live' \subseteq Live /\ Live \subseteq Live' \cup {r}
  BY <1>2, <1>4 DEF Live
<1>6. PlacesInv'
  BY <1>1, <1>2, <1>3, <1>4, <1>5 DEF PlacesInv
<1>7. \A s \in Requests : encoder'.request_cached_ids[s] # {} => s \in Live'
  BY <1>1, <1>3, <1>5 DEF IdsOfTheLiving
<1> QED BY <1>3, <1>6, <1>7 DEF EncoderInv

LEMMA UpdateStopsKeepsEncoder ==
    ASSUME EncoderInv, NEW r \in Requests, UpdateStops(r)
    PROVE  EncoderInv'
<1>1. PlacesInv /\ IdsOfTheLiving /\ encoder.request_cached_ids \in [Requests -> SUBSET Nat]
  BY CacheIs DEF EncoderInv, BooksInv, IdsOfTheLiving
<1>2. /\ running' = Without(running, r) /\ FreeRequest(r)
      /\ UNCHANGED <<deployed, submitted, waiting, skipped_waiting, pc, step>> /\ pc # "allocate"
  BY DEF UpdateStops, Updating
<1>3. /\ BooksInv(encoder)' /\ all_token_ids' \in [Requests -> Seq(Tokens)]
      /\ encoder'.request_cached_ids = [encoder.request_cached_ids EXCEPT ![r] = {}]
  BY <1>2, FreeRequestKeepsBooks
<1>4. running' \in Seq(Requests) /\ Range(running') = Range(running) \ {r}
  BY <1>1, <1>2, WithoutIt DEF PlacesInv
<1>5. Live' \subseteq Live /\ Live \subseteq Live' \cup {r}
  BY <1>2, <1>4 DEF Live
<1>6. PlacesInv'
  BY <1>1, <1>2, <1>3, <1>4, <1>5 DEF PlacesInv
<1>7. \A s \in Requests : encoder'.request_cached_ids[s] # {} => s \in Live'
  BY <1>1, <1>3, <1>5 DEF IdsOfTheLiving
<1> QED BY <1>3, <1>6, <1>7 DEF EncoderInv

LEMMA UpdateContinuesKeepsEncoder ==
    ASSUME EncoderInv, NEW r \in Requests, UpdateContinues(r)
    PROVE  EncoderInv'
<1>1. PlacesInv /\ BooksInv(encoder) /\ Text \in Tokens
  BY InputsAssumption DEF EncoderInv
<1>2. /\ all_token_ids' = [all_token_ids EXCEPT ![r] = Append(@, Text)]
      /\ step' = [step EXCEPT !.req_index = @ + 1] /\ pc # "allocate"
      /\ UNCHANGED <<deployed, submitted, waiting, skipped_waiting, running, pc, encoder>>
  BY DEF UpdateContinues, Updating, queueVars
<1>3. Append(all_token_ids[r], Text) \in Seq(Tokens)
  BY <1>1, AppendProperties DEF PlacesInv
<1>4. /\ all_token_ids' \in [Requests -> Seq(Tokens)]
      /\ \A s \in Requests : \/ all_token_ids'[s] = all_token_ids[s]
                             \/ all_token_ids'[s] = Append(all_token_ids[s], Text)
  BY <1>1, <1>2, <1>3 DEF PlacesInv
<1>5. BooksInv(encoder)'
  BY <1>1, <1>2, <1>4, BooksFollow DEF PlacesInv
<1>6. Live' = Live
  BY <1>2 DEF Live
<1>7. PlacesInv'
  BY <1>1, <1>2, <1>4, <1>6, StepIs DEF PlacesInv, NoStep
<1> QED BY <1>2, <1>5, <1>6, <1>7 DEF EncoderInv

\* What a decision about a request of a queue leaves, if nobody leaves the queues.
LEMMA DecisionKeepsBooks ==
    ASSUME EncoderInv, NEW r \in Live, NEW start, NEW n,
           encoder' = ScheduleEncoder(r, start, n).encoder,
           UNCHANGED <<deployed, all_token_ids>>, Live' = Live
    PROVE  BooksInv(encoder)' /\ IdsOfTheLiving'
<1>1. PlacesInv /\ BooksInv(encoder) /\ IdsOfTheLiving
  BY DEF EncoderInv, IdsOfTheLiving
<1>2. r \in Requests
  BY <1>1, LenProperties, ElementOfSeq DEF PlacesInv, Live, Range
<1>3. PICK f : f = ScheduleEncoder(r, start, n).encoder
  OBVIOUS
<1>4. /\ BooksInv(f)
      /\ \A s \in Requests \ {r} : f.request_cached_ids[s] = encoder.request_cached_ids[s]
  BY <1>1, <1>2, <1>3, ScheduleKeepsBooks
<1>5. BooksInv(encoder)'
  BY <1>1, <1>3, <1>4, BooksFollow DEF PlacesInv
<1>6. IdsOfTheLiving'
  BY <1>1, <1>3, <1>4 DEF IdsOfTheLiving
<1> QED BY <1>5, <1>6

LEMMA ConsiderRunningKeepsEncoder ==
    ASSUME EncoderInv, ConsiderRunning
    PROVE  EncoderInv'
<1>1. PlacesInv /\ step.req_index \in Nat \ {0}
  BY DEF EncoderInv, PlacesInv
<1>2. PICK r : r = running[step.req_index]
  OBVIOUS
<1>3. step.req_index \in DOMAIN running /\ step.req_index <= Len(running) /\ r \in Live
  <2>1. DOMAIN running = 1 .. Len(running) /\ Len(running) \in Nat
    BY <1>1, LenProperties DEF PlacesInv
  <2>2. step.req_index \in DOMAIN running
    BY <1>1, <2>1 DEF ConsiderRunning, InRunningLoop
  <2> QED BY <1>2, <2>1, <2>2 DEF Live, Range
<1>4. PICK n, start, d : /\ n = NumNewTokens(r) /\ start = num_computed_tokens[r]
                          /\ d = ScheduleEncoder(r, start, n)
  OBVIOUS
<1>5. /\ UNCHANGED <<all_token_ids, deployed, submitted, waiting, skipped_waiting, running>>
      /\ encoder' = IF n > 0 THEN d.encoder ELSE encoder
      /\ \/ /\ step' = [step EXCEPT !.request = <<r>>, !.num_new_tokens = d.n,
                                     !.encoder_budget = d.budget, !.inputs[r] = d.inputs]
            /\ pc' = "allocate"
         \/ /\ step' = [step EXCEPT !.req_index = @ + 1,
                                     !.encoder_budget = IF n > 0 THEN d.budget ELSE @]
            /\ pc' = "running"
  <2>1. UNCHANGED <<all_token_ids, deployed, submitted, waiting, skipped_waiting, running>>
    BY DEF ConsiderRunning, vars, queueVars
  <2>2. /\ encoder' = IF n > 0 THEN d.encoder ELSE encoder
        /\ IF n > 0 /\ d.n > 0
           THEN /\ step' = [step EXCEPT !.request = <<r>>, !.num_new_tokens = d.n,
                                        !.encoder_budget = d.budget, !.inputs[r] = d.inputs]
                /\ Goto("allocate")
           ELSE /\ step' = [step EXCEPT !.req_index = @ + 1,
                                        !.encoder_budget = IF n > 0 THEN d.budget ELSE @]
                /\ UNCHANGED pc
    BY <1>2, <1>4 DEF ConsiderRunning, NextRunning
  <2>3. pc = "running"
    BY DEF ConsiderRunning, InRunningLoop
  <2> QED BY <2>1, <2>2, <2>3 DEF Goto
<1>6. Live' = Live
  BY <1>5 DEF Live
<1>7. BooksInv(encoder)' /\ IdsOfTheLiving'
  <2>1. CASE n > 0
    BY <1>3, <1>4, <1>5, <1>6, <2>1, DecisionKeepsBooks
  <2>2. CASE ~ (n > 0)
    BY <1>5, <1>6, <2>2, BooksUntouched DEF EncoderInv, IdsOfTheLiving
  <2> QED BY <2>1, <2>2
<1>8. DOMAIN step' = DOMAIN step /\ step'.req_index \in Nat \ {0}
      /\ (pc' = "allocate" => step'.req_index = step.req_index /\ step'.request = <<r>>)
  <2>1. CASE /\ step' = [step EXCEPT !.request = <<r>>, !.num_new_tokens = d.n,
                                     !.encoder_budget = d.budget, !.inputs[r] = d.inputs]
             /\ pc' = "allocate"
    BY <1>1, <2>1, StepIs
  <2>2. CASE /\ step' = [step EXCEPT !.req_index = @ + 1,
                                     !.encoder_budget = IF n > 0 THEN d.budget ELSE @]
             /\ pc' = "running"
    BY <1>1, <2>2, StepIs
  <2> QED BY <1>5, <2>1, <2>2
<1>9. PlacesInv'
  BY <1>1, <1>2, <1>3, <1>5, <1>6, <1>8 DEF PlacesInv, NoStep
<1> QED BY <1>7, <1>9 DEF EncoderInv, IdsOfTheLiving

LEMMA PreemptKeepsEncoder ==
    ASSUME EncoderInv, Preempt
    PROVE  EncoderInv'
<1>1. /\ PlacesInv /\ BooksInv(encoder) /\ IdsOfTheLiving /\ deployed \in Deployments
      /\ encoder.request_cached_ids \in [Requests -> SUBSET Nat]
  BY CacheIs DEF EncoderInv, BooksInv, IdsOfTheLiving, PlacesInv
<1>2. PICK k : k = step.req_index /\ k \in DOMAIN running /\ step.request = <<running[k]>>
  BY <1>1 DEF PlacesInv, Preempt
<1>3. running \in Seq(Requests) /\ running # <<>> /\ waiting \in Seq(Requests)
  BY <1>1, <1>2 DEF PlacesInv
<1>4. PICK v : v = Last(running)
  OBVIOUS
<1>5. /\ v \in Requests /\ Front(running) \in Seq(Requests)
      /\ Range(running) = Range(Front(running)) \cup {v}
      /\ running[k] # v => k \in DOMAIN Front(running) /\ Front(running)[k] = running[k]
  BY <1>2, <1>3, <1>4, FrontAndLast
<1>6. PICK inputs : inputs = step.inputs[v]
  OBVIOUS
<1>7. /\ UNCHANGED <<all_token_ids, deployed, submitted, skipped_waiting>>
      /\ running' = Front(running) /\ waiting' = <<v>> \o waiting
      /\ encoder' = ReleasedAll(encoder, v, inputs)
      /\ step' = [Unreserved(v) EXCEPT !.preempted = TRUE,
                                       !.request = IF v = running[k] THEN <<>> ELSE @]
      /\ pc' = IF v = running[k] THEN "finish" ELSE "allocate"
  BY <1>2, <1>4, <1>6 DEF Preempt, CurrentRequest, Goto
<1>8. waiting' \in Seq(Requests) /\ Range(waiting') = Range(waiting) \cup {v}
  <2>1. PICK t \in Seq(Requests) : t = <<v>> /\ Range(t) = {v}
    BY <1>5, OneRange
  <2>2. t \o waiting \in Seq(Requests) /\ Range(t \o waiting) = Range(t) \cup Range(waiting)
    BY <1>3, JoinedRange
  <2> QED BY <1>7, <2>1, <2>2
<1>9. Live' = Live
  BY <1>5, <1>7, <1>8 DEF Live
<1>10. num_tokens(v) \in Nat
  BY <1>1, <1>5, LenProperties DEF num_tokens, PlacesInv
<1>11. PICK f : f = ReleasedAll(encoder, v, inputs)
  OBVIOUS
<1>12. BooksInv(f) /\ f.request_cached_ids = [encoder.request_cached_ids EXCEPT ![v] = @ \ inputs]
  BY <1>1, <1>5, <1>10, <1>11, ReleaseAllKeepsBooks
<1>13. BooksInv(encoder)'
  BY <1>1, <1>7, <1>11, <1>12, BooksFollow DEF PlacesInv
<1>14. \A s \in Requests : f.request_cached_ids[s] \subseteq encoder.request_cached_ids[s]
  BY <1>1, <1>12
<1>15. \A s \in Requests : encoder'.request_cached_ids[s] # {} => s \in Live'
  BY <1>1, <1>7, <1>9, <1>11, <1>14 DEF IdsOfTheLiving
<1>16. /\ DOMAIN step' = DOMAIN step /\ step'.req_index = k
       /\ v # running[k] => step'.request = step.request
  BY <1>1, <1>2, <1>7, StepIs DEF Unreserved
<1>17. PlacesInv'
  BY <1>1, <1>2, <1>5, <1>7, <1>8, <1>9, <1>16 DEF PlacesInv, NoStep
<1> QED BY <1>13, <1>15, <1>17 DEF EncoderInv

LEMMA HeadLeaves ==
    ASSUME PlacesInv, waiting # <<>>
    PROVE  /\ waiting[1] \in Live /\ waiting[1] \in Requests /\ Tail(waiting) \in Seq(Requests)
           /\ Range(waiting) = {waiting[1]} \cup Range(Tail(waiting))
<1>1. /\ Head(waiting) \in Range(waiting) /\ Tail(waiting) \in Seq(Requests)
      /\ Range(waiting) = {Head(waiting)} \cup Range(Tail(waiting))
      /\ Head(waiting) \in Requests
  BY QueueOneLess, HeadTailProperties DEF PlacesInv
<1>2. Head(waiting) = waiting[1]
  BY DEF PlacesInv
<1> QED BY <1>1, <1>2 DEF Live

LEMMA AdmitWaitingKeepsEncoder ==
    ASSUME EncoderInv, AdmitWaiting
    PROVE  EncoderInv'
<1>1. PlacesInv /\ waiting # <<>> /\ pc # "allocate"
  BY DEF EncoderInv, AdmitWaiting, InWaitingLoop
<1>2. PICK r : r = waiting[1]
  OBVIOUS
<1>3. /\ r \in Live /\ r \in Requests /\ Tail(waiting) \in Seq(Requests)
      /\ Range(waiting) = {r} \cup Range(Tail(waiting))
  BY <1>1, <1>2, HeadLeaves
<1>4. /\ waiting' = Tail(waiting) /\ running' = Append(running, r)
      /\ UNCHANGED <<all_token_ids, deployed, submitted, skipped_waiting, pc>>
  BY <1>2 DEF AdmitWaiting, NextWaiting
<1>5. PICK hit : LET a == Admission(r, hit) IN
                 /\ encoder' = a.encoder
                 /\ step' = [step EXCEPT !.tokens[r] = a.n, !.token_budget = @ - a.n,
                                         !.encoder_budget = a.budget, !.inputs[r] = a.inputs]
  BY <1>2 DEF AdmitWaiting, NextWaiting
<1>6. running' \in Seq(Requests) /\ Range(running') = Range(running) \cup {r}
  BY <1>1, <1>3, <1>4, AppendedRange DEF PlacesInv
<1>7. Live' = Live
  BY <1>3, <1>4, <1>6 DEF Live
<1>8. \E start, n : encoder' = ScheduleEncoder(r, start, n).encoder
  BY <1>5 DEF Admission
<1>9. BooksInv(encoder)' /\ IdsOfTheLiving'
  BY <1>3, <1>4, <1>7, <1>8, DecisionKeepsBooks
<1>10. DOMAIN step' = DOMAIN step /\ step'.req_index = step.req_index
  BY <1>1, <1>5, StepIs
<1>11. PlacesInv'
  BY <1>1, <1>3, <1>4, <1>6, <1>7, <1>10 DEF PlacesInv, NoStep
<1> QED BY <1>9, <1>11 DEF EncoderInv, IdsOfTheLiving

LEMMA SetAsideWaitingKeepsEncoder ==
    ASSUME EncoderInv, SetAsideWaiting
    PROVE  EncoderInv'
<1>1. PlacesInv /\ waiting # <<>> /\ pc # "allocate"
  BY DEF EncoderInv, SetAsideWaiting, InWaitingLoop
<1>2. PICK r : r = waiting[1]
  OBVIOUS
<1>3. /\ r \in Live /\ r \in Requests /\ Tail(waiting) \in Seq(Requests)
      /\ Range(waiting) = {r} \cup Range(Tail(waiting))
  BY <1>1, <1>2, HeadLeaves
<1>4. /\ waiting' = Tail(waiting) /\ skipped_waiting' = Append(skipped_waiting, r)
      /\ UNCHANGED <<all_token_ids, deployed, submitted, running, pc>>
  BY <1>2 DEF SetAsideWaiting, NextWaiting, vars
<1>5. PICK hit : /\ encoder' = Admission(r, hit).encoder
                 /\ \E b : step' = [step EXCEPT !.encoder_budget = b]
  BY <1>2 DEF SetAsideWaiting, NextWaiting
<1>6. skipped_waiting' \in Seq(Requests) /\ Range(skipped_waiting') = Range(skipped_waiting) \cup {r}
  BY <1>1, <1>3, <1>4, AppendedRange DEF PlacesInv
<1>7. Live' = Live
  BY <1>3, <1>4, <1>6 DEF Live
<1>8. \E start, n : encoder' = ScheduleEncoder(r, start, n).encoder
  BY <1>5 DEF Admission
<1>9. BooksInv(encoder)' /\ IdsOfTheLiving'
  BY <1>3, <1>4, <1>7, <1>8, DecisionKeepsBooks
<1>10. DOMAIN step' = DOMAIN step /\ step'.req_index = step.req_index
  BY <1>1, <1>5, StepIs
<1>11. PlacesInv'
  BY <1>1, <1>3, <1>4, <1>6, <1>7, <1>10 DEF PlacesInv, NoStep
<1> QED BY <1>9, <1>11 DEF EncoderInv, IdsOfTheLiving

LEMMA BlockedWaitingKeepsEncoder ==
    ASSUME EncoderInv, BlockedWaiting
    PROVE  EncoderInv'
<1>1. PlacesInv /\ waiting # <<>> /\ BooksInv(encoder) /\ IdsOfTheLiving
      /\ deployed \in Deployments
  BY DEF EncoderInv, BlockedWaiting, InWaitingLoop, PlacesInv, IdsOfTheLiving
<1>2. PICK r : r = waiting[1]
  OBVIOUS
<1>3. r \in Live /\ r \in Requests
  BY <1>1, <1>2, HeadLeaves
<1>4. /\ UNCHANGED <<all_token_ids, deployed, submitted, waiting, skipped_waiting, running, step>>
      /\ pc' = "finish"
  BY DEF BlockedWaiting, Goto, vars, queueVars
<1>5. PICK hit : encoder' = ReleasedAll(Admission(r, hit).encoder, r, Admission(r, hit).inputs)
  BY <1>2 DEF BlockedWaiting, NextWaiting
<1>6. PICK start, n : Admission(r, hit).encoder = ScheduleEncoder(r, start, n).encoder
  BY DEF Admission
<1>7. PICK e, inputs : e = ScheduleEncoder(r, start, n).encoder /\ inputs = Admission(r, hit).inputs
  OBVIOUS
<1>8. /\ BooksInv(e)
      /\ \A s \in Requests \ {r} : e.request_cached_ids[s] = encoder.request_cached_ids[s]
  BY <1>1, <1>3, <1>7, ScheduleKeepsBooks
<1>9. num_tokens(r) \in Nat
  BY <1>1, <1>3, LenProperties DEF num_tokens, PlacesInv
<1>10. PICK f : f = ReleasedAll(e, r, inputs)
  OBVIOUS
<1>11. BooksInv(f) /\ f.request_cached_ids = [e.request_cached_ids EXCEPT ![r] = @ \ inputs]
  BY <1>1, <1>3, <1>8, <1>9, <1>10, ReleaseAllKeepsBooks
<1>12. encoder' = f
  BY <1>5, <1>6, <1>7, <1>10
<1>13. BooksInv(encoder)'
  BY <1>1, <1>4, <1>11, <1>12, BooksFollow DEF PlacesInv
<1>14. e.request_cached_ids \in [Requests -> SUBSET Nat]
  BY <1>8, CacheIs DEF BooksInv
<1>15. \A s \in Requests \ {r} : f.request_cached_ids[s] = encoder.request_cached_ids[s]
  BY <1>8, <1>11, <1>14
<1>16. Live' = Live
  BY <1>4 DEF Live
<1>17. \A s \in Requests : encoder'.request_cached_ids[s] # {} => s \in Live'
  BY <1>1, <1>3, <1>12, <1>15, <1>16 DEF IdsOfTheLiving
<1>18. PlacesInv'
  BY <1>1, <1>4, <1>16 DEF PlacesInv
<1> QED BY <1>13, <1>17, <1>18 DEF EncoderInv

LEMMA FinishScheduleKeepsEncoder ==
    ASSUME EncoderInv, FinishSchedule
    PROVE  EncoderInv'
<1>1. PlacesInv /\ BooksInv(encoder) /\ IdsOfTheLiving
  BY DEF EncoderInv, IdsOfTheLiving
<1>2. /\ waiting' = skipped_waiting \o waiting /\ skipped_waiting' = <<>>
      /\ encoder' = [encoder EXCEPT !.freed = {}] /\ pc' = "inflight"
      /\ UNCHANGED <<all_token_ids, deployed, submitted, running>>
  BY DEF FinishSchedule, Goto, vars
<1>3. /\ waiting' \in Seq(Requests) /\ Range(waiting') = Range(skipped_waiting) \cup Range(waiting)
      /\ skipped_waiting' \in Seq(Requests) /\ Range(skipped_waiting') = {}
  <2>1. <<>> \in Seq(Requests) /\ Range(<<>>) = {}
    BY DEF Range
  <2> QED BY <1>1, <1>2, <2>1, JoinedRange DEF PlacesInv
<1>4. Live' = Live
  BY <1>2, <1>3 DEF Live
<1>5. PICK f : f = [encoder EXCEPT !.freed = {}]
  OBVIOUS
<1>6. /\ f \in EncoderType /\ f.cached = encoder.cached /\ f.references = encoder.references
      /\ f.freeable = encoder.freeable /\ f.num_free_slots = encoder.num_free_slots
      /\ f.num_freeable_slots = encoder.num_freeable_slots
      /\ f.request_cached_ids = encoder.request_cached_ids
  BY <1>1, <1>5 DEF BooksInv, EncoderType
<1>7. BooksInv(f)
  BY <1>1, <1>6 DEF BooksInv, Unreferenced
<1>8. BooksInv(encoder)'
  BY <1>1, <1>2, <1>5, <1>7, BooksFollow DEF PlacesInv
<1>9. \A s \in Requests : encoder'.request_cached_ids[s] # {} => s \in Live'
  BY <1>1, <1>2, <1>4, <1>5, <1>6 DEF IdsOfTheLiving
<1>10. DOMAIN step' = DOMAIN step /\ step'.req_index = 1
  BY <1>1, StepIs DEF FinishSchedule
<1>11. PlacesInv'
  BY <1>1, <1>2, <1>3, <1>4, <1>10 DEF PlacesInv, NoStep
<1> QED BY <1>8, <1>9, <1>11 DEF EncoderInv

LEMMA EndUpdateKeepsEncoder ==
    ASSUME EncoderInv, EndUpdate
    PROVE  EncoderInv'
<1>1. PlacesInv /\ BooksInv(encoder) /\ IdsOfTheLiving
  BY DEF EncoderInv, IdsOfTheLiving
<1>2. /\ step' = NoStep /\ pc' = "idle" /\ pc = "update"
      /\ UNCHANGED <<all_token_ids, deployed, submitted, waiting, skipped_waiting, running>>
  BY DEF EndUpdate, Goto, vars, queueVars
<1>3. PICK f : f = encoder'
  OBVIOUS
<1>4. /\ BooksInv(f)
      /\ \A s \in Requests : f.request_cached_ids[s] \subseteq encoder.request_cached_ids[s]
  BY <1>1, <1>2, <1>3, PassedKeepsBooks
<1>5. BooksInv(encoder)'
  BY <1>1, <1>2, <1>3, <1>4, BooksFollow DEF PlacesInv
<1>6. Live' = Live
  BY <1>2 DEF Live
<1>7. \A s \in Requests : encoder'.request_cached_ids[s] # {} => s \in Live'
  BY <1>1, <1>3, <1>4, <1>6 DEF IdsOfTheLiving
<1>8. PlacesInv'
  BY <1>1, <1>2, <1>6 DEF PlacesInv, NoStep
<1> QED BY <1>5, <1>7, <1>8 DEF EncoderInv

\* The steps that change neither the cache nor who is alive: only where the step is.
LEMMA OthersKeepEncoder ==
    ASSUME EncoderInv,
           UNCHANGED <<encoder, deployed, all_token_ids, submitted, waiting, skipped_waiting, running>>,
           DOMAIN step' = DOMAIN step, step'.req_index \in Nat \ {0},
           pc' # "allocate" \/ UNCHANGED <<pc, step>>
    PROVE  EncoderInv'
<1>1. PlacesInv /\ IdsOfTheLiving
  BY DEF EncoderInv, IdsOfTheLiving
<1>2. Live' = Live
  BY DEF Live
<1>3. PlacesInv'
  BY <1>1, <1>2 DEF PlacesInv, NoStep
<1> QED BY <1>1, <1>2, <1>3, BooksUntouched DEF EncoderInv, IdsOfTheLiving

LEMMA EncoderNext == EncoderInv /\ [ENext]_evars => EncoderInv'
<1> SUFFICES ASSUME EncoderInv, [ENext]_evars PROVE EncoderInv'
  OBVIOUS
<1>1. /\ PlacesInv /\ step.req_index \in Nat \ {0} /\ DOMAIN step = DOMAIN NoStep
      /\ step.req_index + 1 \in Nat \ {0}
  BY DEF EncoderInv, PlacesInv
<1> DEFINE Others == <<encoder, deployed, all_token_ids, submitted, waiting, skipped_waiting, running>>
<1>2. CASE StartSchedule
  <2>1. UNCHANGED Others /\ pc' # "allocate"
    BY <1>2 DEF StartSchedule, Goto, vars, queueVars
  <2>2. DOMAIN step' = DOMAIN step /\ step'.req_index = 1
    BY <1>1, <1>2 DEF StartSchedule, NoStep
  <2> QED BY <2>1, <2>2, OthersKeepEncoder
<1>3. CASE ConsiderRunning
  BY <1>3, ConsiderRunningKeepsEncoder
<1>4. CASE AllocateRunning
  <2>1. UNCHANGED Others /\ pc' # "allocate"
    BY <1>4 DEF AllocateRunning, Goto, queueVars
  <2>2. DOMAIN step' = DOMAIN step /\ step'.req_index = step.req_index + 1
    BY <1>1, <1>4, StepIs DEF AllocateRunning
  <2> QED BY <1>1, <2>1, <2>2, OthersKeepEncoder
<1>5. CASE Preempt
  BY <1>5, PreemptKeepsEncoder
<1>6. CASE EndRunning
  <2>1. UNCHANGED Others /\ pc' # "allocate" /\ UNCHANGED step
    BY <1>6 DEF EndRunning, Goto, vars, queueVars
  <2> QED BY <1>1, <2>1, OthersKeepEncoder
<1>7. CASE AdmitWaiting
  BY <1>7, AdmitWaitingKeepsEncoder
<1>8. CASE SetAsideWaiting
  BY <1>8, SetAsideWaitingKeepsEncoder
<1>9. CASE BlockedWaiting
  BY <1>9, BlockedWaitingKeepsEncoder
<1>10. CASE EndAdmission
  <2>1. UNCHANGED Others /\ pc' # "allocate" /\ UNCHANGED step
    BY <1>10 DEF EndAdmission, Goto, vars, queueVars
  <2> QED BY <1>1, <2>1, OthersKeepEncoder
<1>11. CASE FinishSchedule
  BY <1>11, FinishScheduleKeepsEncoder
<1>12. CASE BatchLands
  <2>1. UNCHANGED Others /\ pc' # "allocate"
    BY <1>12 DEF BatchLands, Goto, vars, queueVars
  <2>2. DOMAIN step' = DOMAIN step /\ step'.req_index = step.req_index
    BY <1>1, <1>12, StepIs DEF BatchLands
  <2> QED BY <1>1, <2>1, <2>2, OthersKeepEncoder
<1>13. ASSUME NEW r \in Requests, UpdatePasses(r) PROVE EncoderInv'
  <2>1. UNCHANGED Others /\ pc' # "allocate"
    BY <1>13 DEF UpdatePasses, Updating, vars, queueVars
  <2>2. DOMAIN step' = DOMAIN step /\ step'.req_index = step.req_index + 1
    BY <1>1, <1>13, StepIs DEF UpdatePasses
  <2> QED BY <1>1, <2>1, <2>2, OthersKeepEncoder
<1>14. ASSUME NEW r \in Requests, UpdateContinues(r) PROVE EncoderInv'
  BY <1>14, UpdateContinuesKeepsEncoder
<1>15. ASSUME NEW r \in Requests, UpdateStops(r) PROVE EncoderInv'
  BY <1>15, UpdateStopsKeepsEncoder
<1>16. CASE EndUpdate
  BY <1>16, EndUpdateKeepsEncoder
<1>17. ASSUME NEW r \in Requests, Submit(r) PROVE EncoderInv'
  BY <1>17, SubmitKeepsEncoder
<1>18. ASSUME NEW r \in Requests, Abort(r) PROVE EncoderInv'
  BY <1>18, AbortKeepsEncoder
<1>19. ASSUME NEW content, OtherEngineWrites(content) PROVE EncoderInv'
  <2>1. UNCHANGED Others /\ UNCHANGED <<pc, step>>
    BY <1>19 DEF OtherEngineWrites, vars, queueVars
  <2> QED BY <1>1, <2>1, OthersKeepEncoder
<1>20. CASE UNCHANGED evars
  <2>1. UNCHANGED Others /\ UNCHANGED <<pc, step>>
    BY <1>20 DEF evars, vars
  <2> QED BY <1>1, <2>1, OthersKeepEncoder
<1> QED BY <1>2, <1>3, <1>4, <1>5, <1>6, <1>7, <1>8, <1>9, <1>10, <1>11, <1>12, <1>13, <1>14,
           <1>15, <1>16, <1>17, <1>18, <1>19, <1>20 DEF ENext, EngineStep

------------------------------------------------------------------------------
(* The theorems.                                                            *)

\* Every state of the engine has EncoderInv: exact books in an encoder cache, whose
\* references are those of live requests.
THEOREM EncoderInvariant == ESpec => []EncoderInv
<1>1. EInit => EncoderInv
  BY EncoderInit
<1>2. EncoderInv /\ [ENext]_evars => EncoderInv'
  BY EncoderNext
<1> QED BY <1>1, <1>2, PTL DEF ESpec

\* EncoderCacheManager's books are exact for every mix of prompts, budgets, pools and
\* stores (v1/core/encoder_cache_manager.py): can_allocate's assertion that what it
\* evicts is unreferenced never fails, and slots neither leak nor are given twice,
\* whatever is hit, rolled back, preempted or aborted.
THEOREM EncoderBooksAreExact == ESpec => []EncoderSlotsExact
<1>1. EncoderInv => EncoderSlotsExact
  <2> SUFFICES ASSUME EncoderInv PROVE EncoderSlotsExact
    OBVIOUS
  <2>1. BooksInv(encoder) /\ IdsOfTheLiving
    BY DEF EncoderInv, IdsOfTheLiving
  <2>2. encoder.freeable \in Seq(Images)
    BY <2>1, CacheIs DEF BooksInv
  <2>3. Range(encoder.freeable) = Unreferenced(encoder) /\ IsInjective(encoder.freeable)
    BY <2>1 DEF BooksInv
  <2>4. Len(encoder.freeable) = Cardinality(Unreferenced(encoder))
    BY <2>2, <2>3, InjectiveLen
  <2> QED BY <2>1, <2>3, <2>4 DEF EncoderSlotsExact, BooksInv, Unreferenced, IdsOfTheLiving
<1> QED BY <1>1, EncoderInvariant, PTL

==============================================================================
