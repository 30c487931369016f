---------------------------- MODULE FrontEndProofs ----------------------------
(***************************************************************************)
(* Proofs about the asynchronous front end, for every number of calls, any  *)
(* fan-out, any number of replicas and every transport: the router's books, *)
(* the parents of fanned-out calls, that nothing the front end has forgotten*)
(* goes on in the core, that a call gets all its outputs, once, and no      *)
(* other's, and that no call waits for what cannot come.                    *)
(***************************************************************************)
EXTENDS AsyncLLM, FiniteSetTheorems, FunctionTheorems, SequenceTheorems, TLAPS

------------------------------------------------------------------------------
(* Induction.  A set of numbers has a least element, because < is well      *)
(* founded; so what holds of 0 and passes from a number to the next holds   *)
(* of all.                                                                  *)

LEMMA LessIsWellFounded ==
    \E R : IsWellFoundedOn(R, Nat) /\ \A a, b \in Nat : a < b => <<a, b>> \in R
<1>1. IsWellFoundedOn(OpToRel(<, Nat), Nat)
  BY NatLessThanWellFounded
<1>2. \A a, b \in Nat : a < b => <<a, b>> \in OpToRel(<, Nat)
  BY DEF OpToRel
<1> QED BY <1>1, <1>2

LEMMA LeastElement ==
    ASSUME NEW T, T \subseteq Nat, T # {}
    PROVE  \E m \in T : \A n \in T : m <= n
<1>1. PICK R : IsWellFoundedOn(R, Nat) /\ \A a, b \in Nat : a < b => <<a, b>> \in R
  BY LessIsWellFounded
<1>2. PICK m \in T : \A y \in T : ~(<<y, m>> \in R)
  <2>1. IsWellFoundedOn(R, Nat)
    BY <1>1
  <2> QED BY <2>1, WFMin
<1>3. \A n \in T : ~(n < m)
  BY <1>1, <1>2
<1> QED BY <1>3

LEMMA Climb ==
    ASSUME NEW n \in Nat, NEW T, 0 \in T,
           \A k \in 0 .. n : k < n /\ k \in T => k + 1 \in T
    PROVE  n \in T
<1> SUFFICES ASSUME n \notin T PROVE FALSE
  OBVIOUS
<1> DEFINE Missed == {k \in 0 .. n : k \notin T}
<1>1. Missed \subseteq Nat /\ Missed # {}
  OBVIOUS
<1>2. PICK m \in Missed : \A k \in Missed : m <= k
  BY <1>1, LeastElement
<1>3. m # 0 /\ m - 1 \in 0 .. n /\ m - 1 < n
  BY <1>2
<1>4. m - 1 \in T
  BY <1>2, <1>3
<1> QED BY <1>2, <1>3, <1>4

------------------------------------------------------------------------------
(* Finite sets and sequences.                                               *)

LEMMA ImageIsFinite ==
    ASSUME NEW S, NEW f, IsFiniteSet(S)
    PROVE  IsFiniteSet({f[x] : x \in S})
<1> DEFINE g == [x \in S |-> f[x]]
<1>1. g \in Surjection(S, {f[x] : x \in S})
  BY DEF Surjection
<1> QED BY <1>1, FS_Surjection

LEMMA IdsAreFinite ==
    /\ \A c \in Calls : IsFiniteSet(ChildIds(c)) /\ ChildIds(c) \subseteq EngineIds
    /\ IsFiniteSet(EngineIds)
<1>1. ASSUME NEW c \in Calls PROVE IsFiniteSet(ChildIds(c))
  <2>1. IsFiniteSet(Indices(c))
    <3>1. Fanout[c] \in Int /\ 1 \in Int
      BY CallsAssumption
    <3> QED BY <3>1, FS_Interval, FS_Singleton DEF Indices
  <2> DEFINE f == [k \in Indices(c) |-> ChildId(c, k)]
  <2>2. ChildIds(c) = {f[k] : k \in Indices(c)}
    BY DEF ChildIds
  <2> HIDE DEF f
  <2> QED BY <2>1, <2>2, ImageIsFinite
<1>2. IsFiniteSet({ChildIds(c) : c \in Calls})
  <2> DEFINE f == [c \in Calls |-> ChildIds(c)]
  <2>1. {ChildIds(c) : c \in Calls} = {f[c] : c \in Calls}
    OBVIOUS
  <2> HIDE DEF f
  <2>2. IsFiniteSet({f[c] : c \in Calls})
    BY ImageIsFinite, CallsAssumption
  <2> QED BY <2>1, <2>2
<1>3. IsFiniteSet(UNION {ChildIds(c) : c \in Calls})
  BY <1>1, <1>2, FS_UNION
<1> QED BY <1>1, <1>3 DEF EngineIds

LEMMA SetToSeqIs ==
    ASSUME NEW S, IsFiniteSet(S)
    PROVE  /\ SetToSeq(S) \in Seq(S)
           /\ Len(SetToSeq(S)) = Cardinality(S)
           /\ \A i, j \in DOMAIN SetToSeq(S) : SetToSeq(S)[i] = SetToSeq(S)[j] => i = j
           /\ \A x \in S : \E i \in DOMAIN SetToSeq(S) : SetToSeq(S)[i] = x
<1>1. PICK n \in Nat : n = Cardinality(S) /\ ExistsBijection(1 .. n, S)
  BY FS_CardinalityType
<1>2. PICK f \in Bijection(1 .. n, S) : TRUE
  BY <1>1 DEF ExistsBijection
<1>3. f \in [1 .. n -> S] /\ IsInjective(f)
  BY <1>2 DEF Bijection, Injection, IsInjective
<1> DEFINE s == SetToSeq(S)
<1>4. s \in [1 .. n -> S] /\ IsInjective(s)
  BY <1>1, <1>3 DEF SetToSeq
<1> HIDE DEF s
<1>5. s \in Injection(1 .. n, S)
  BY <1>4 DEF Injection
<1>6. s \in Surjection(1 .. n, S)
  <2>1. IsFiniteSet(1 .. n) /\ Cardinality(1 .. n) = n
    BY FS_Interval
  <2> QED BY <1>1, <1>5, <2>1, FS_Injection
<1>7. s \in Seq(S) /\ Len(s) = n /\ DOMAIN s = 1 .. n
  BY <1>4
<1> QED BY <1>1, <1>4, <1>6, <1>7 DEF s, IsInjective, Surjection

------------------------------------------------------------------------------
(* The processor.                                                           *)

Output == [eid : EngineIds, origin : Calls, final : BOOLEAN]
Item == [id : Ids, parts : SUBSET Parts, finished : BOOLEAN]
Progress == [p : ProcessorType, items : Seq(Item)]

\* What an engine request's id says.
LEMMA IdIs ==
    ASSUME NEW e \in EngineIds
    PROVE  \E c \in Calls, k \in Nat :
              /\ e = <<IdOf[c], k>> /\ k \in Indices(c) /\ e \in ChildIds(c)
              /\ e[1] = IdOf[c] /\ e[2] = k /\ IdOf[c] \in Ids
<1>1. PICK c \in Calls : e \in ChildIds(c)
  BY DEF EngineIds
<1>2. PICK k \in Indices(c) : e = ChildId(c, k)
  BY <1>1 DEF ChildIds
<1>3. k \in Nat
  BY <1>2, CallsAssumption DEF Indices
<1> QED BY <1>1, <1>2, <1>3, CallsAssumption DEF ChildId

\* Whose children an engine request can be among.
LEMMA ChildIs ==
    ASSUME NEW c \in Calls, NEW d \in Calls, NEW e \in ChildIds(c)
    PROVE  /\ e[1] = IdOf[c]
           /\ e \in ChildIds(d) => IdOf[d] = IdOf[c]
           /\ (e[2] = 0) <=> ~IsParent(c)
           /\ ~IsParent(c) => e = <<IdOf[c], 0>>
           /\ IsParent(c) => e # <<IdOf[c], 0>>
<1>1. PICK k \in Indices(c) : e = <<IdOf[c], k>>
  BY DEF ChildIds, ChildId
<1>2. Fanout[c] \in Nat \ {0}
  BY CallsAssumption
<1>3. k = 0 <=> ~IsParent(c)
  BY <1>1, <1>2 DEF Indices, IsParent
<1> QED BY <1>1, <1>3 DEF ChildIds, ChildId

LEMMA NoCallIsNone == NoCall \notin Calls
BY CallsAssumption

\* The fields of a processor, which EXCEPT and the rest rely on.
LEMMA ProcessorIs ==
    ASSUME NEW p \in ProcessorType
    PROVE  /\ p.request_states \in [EngineIds -> MaybeCall]
           /\ p.parent_requests \in [Ids -> MaybeCall]
           /\ p.child_requests \in [Calls -> SUBSET EngineIds]
           /\ \A c \in Calls : p.child_requests[c] \subseteq
                                  (IF IsParent(c) THEN ChildIds(c) ELSE {})
           /\ p.output_aggregator \in [Calls -> SUBSET Parts]
BY DEF ProcessorType

\* What an output from e does to the states and to the parents' books.
Taken(p, p2, e, final) ==
    LET c == p.request_states[e]
    IN  IF c = NoCall THEN p2 = p
        ELSE /\ p2.request_states = [p.request_states EXCEPT ![e] = IF final THEN NoCall ELSE c]
             /\ p2.child_requests = [p.child_requests EXCEPT ![c] =
                                       p.child_requests[c] \ (IF final THEN {e} ELSE {})]
             /\ p2.parent_requests = [p.parent_requests EXCEPT ![IdOf[c]] =
                   IF final /\ IsParent(c)
                      /\ p.child_requests[c] \ (IF final THEN {e} ELSE {}) = {}
                   THEN NoCall ELSE p.parent_requests[IdOf[c]]]

LEMMA OneOutput ==
    ASSUME NEW acc \in Progress, NEW out \in Output
    PROVE  Taken(acc.p, ProcessOutput(acc, out).p, out.eid, out.final)
<1>1. acc.p \in ProcessorType /\ out.eid \in EngineIds
  BY DEF Progress, Output
<1>2. CASE acc.p.request_states[out.eid] = NoCall
  BY <1>2 DEF ProcessOutput, Taken
<1>3. CASE acc.p.request_states[out.eid] # NoCall
  BY <1>1, <1>3 DEF ProcessOutput, StateAfter, ProcessorType, Taken
<1> QED BY <1>2, <1>3

LEMMA OneOutputTyped ==
    ASSUME NEW acc \in Progress, NEW out \in Output
    PROVE  ProcessOutput(acc, out) \in Progress
<1> DEFINE p == acc.p
           c == p.request_states[out.eid]
           part == [index |-> out.eid[2], origin |-> out.origin, final |-> out.final]
           left == p.child_requests[c] \ (IF out.final THEN {out.eid} ELSE {})
           parts == IF IsParent(c) THEN Collected(p, c, part, left) ELSE {part}
           finished == Finished(c, out, left)
<1>1. p \in ProcessorType /\ acc.items \in Seq(Item) /\ acc = [p |-> p, items |-> acc.items]
  BY DEF Progress
<1>2. c \in MaybeCall /\ out.eid \in EngineIds
  BY <1>1, ProcessorIs DEF Output
<1>3. CASE c = NoCall
  BY <1>3 DEF ProcessOutput
<1>4. CASE c \in Calls
  <2>1. part \in Parts
    BY <1>2, IdIs DEF Output, Parts
  <2>2. Slots(p, c, part) \in SUBSET Parts
    BY <1>1, <1>4, <2>1, ProcessorIs DEF Slots
  <2>3. parts \in SUBSET Parts
    BY <2>1, <2>2 DEF Collected
  <2>4. finished \in BOOLEAN
    BY DEF Finished, Output
  <2>5. StateAfter(out, c) \in MaybeCall /\ IdOf[c] \in Ids
    BY <1>4, CallsAssumption DEF StateAfter, MaybeCall
  <2>6. [p EXCEPT
            !.child_requests[c] = left,
            !.output_aggregator[c] =
                IF IsParent(c) /\ c \notin Streaming THEN Slots(p, c, part) ELSE @,
            !.request_states[out.eid] = StateAfter(out, c),
            !.parent_requests[IdOf[c]] =
                IF out.final /\ IsParent(c) /\ left = {} THEN NoCall ELSE @] \in ProcessorType
    <3>1. [p.request_states EXCEPT ![out.eid] = StateAfter(out, c)] \in [EngineIds -> MaybeCall]
      BY <1>1, <2>5, ProcessorIs
    <3>2. [p.parent_requests EXCEPT ![IdOf[c]] =
             IF out.final /\ IsParent(c) /\ left = {} THEN NoCall ELSE p.parent_requests[IdOf[c]]]
            \in [Ids -> MaybeCall]
      BY <1>1, <2>5, ProcessorIs DEF MaybeCall
    <3>3. /\ [p.child_requests EXCEPT ![c] = left] \in [Calls -> SUBSET EngineIds]
          /\ \A d \in Calls : [p.child_requests EXCEPT ![c] = left][d] \subseteq
                (IF IsParent(d) THEN ChildIds(d) ELSE {})
      BY <1>1, <1>4, ProcessorIs
    <3>4. [p.output_aggregator EXCEPT ![c] =
             IF IsParent(c) /\ c \notin Streaming THEN Slots(p, c, part) ELSE p.output_aggregator[c]]
            \in [Calls -> SUBSET Parts]
      BY <1>1, <1>4, <2>2, ProcessorIs
    <3> HIDE DEF p, left, part
    <3> QED BY <1>1, <3>1, <3>2, <3>3, <3>4 DEF ProcessorType
  <2>7. [id |-> IdOf[c], parts |-> parts, finished |-> finished] \in Item
    BY <2>3, <2>4, <2>5 DEF Item
  <2>8. (IF parts = {} /\ ~finished THEN acc.items
         ELSE Append(acc.items, [id |-> IdOf[c], parts |-> parts, finished |-> finished]))
            \in Seq(Item)
    BY <1>1, <2>7, AppendProperties
  <2>9. c # NoCall
    BY <1>4, NoCallIsNone
  <2> QED BY <2>6, <2>8, <2>9 DEF ProcessOutput, Progress
<1> QED BY <1>2, <1>3, <1>4 DEF MaybeCall

LEMMA TakenState ==
    ASSUME NEW p \in ProcessorType, NEW p2, NEW x \in EngineIds, NEW final \in BOOLEAN, Taken(p, p2, x, final),
           NEW e \in EngineIds
    PROVE  \/ p2.request_states[e] = p.request_states[e]
           \/ p2.request_states[e] = NoCall /\ e = x /\ final
<1>1. p.request_states \in [EngineIds -> MaybeCall]
  BY ProcessorIs
<1>2. CASE p.request_states[x] = NoCall
  BY <1>2 DEF Taken
<1>3. CASE p.request_states[x] # NoCall
  BY <1>1, <1>3 DEF Taken
<1> QED BY <1>2, <1>3

LEMMA OneState ==
    ASSUME NEW acc \in Progress, NEW out \in Output, NEW acc2, acc2 = ProcessOutput(acc, out),
           NEW e \in EngineIds
    PROVE  \/ acc2.p.request_states[e] = acc.p.request_states[e]
           \/ acc2.p.request_states[e] = NoCall /\ out.eid = e /\ out.final
<1>1. acc.p \in ProcessorType /\ out.eid \in EngineIds /\ out.final \in BOOLEAN
  BY DEF Progress, Output
<1>2. Taken(acc.p, acc2.p, out.eid, out.final)
  BY OneOutput
<1>3. PICK final \in BOOLEAN : final = out.final
  BY <1>1
<1>4. PICK x \in EngineIds : x = out.eid
  BY <1>1
<1>5. PICK p1 \in ProcessorType : p1 = acc.p
  BY <1>1
<1>6. PICK p2 : p2 = acc2.p
  OBVIOUS
<1>7. Taken(p1, p2, x, final)
  BY <1>2, <1>3, <1>4, <1>5, <1>6
<1>8. \/ p2.request_states[e] = p1.request_states[e]
      \/ p2.request_states[e] = NoCall /\ e = x /\ final
  BY <1>7, TakenState
<1> QED BY <1>3, <1>4, <1>5, <1>6, <1>8

LEMMA TakenParents ==
    ASSUME NEW p \in ProcessorType, NEW p2, NEW e \in EngineIds, NEW final \in BOOLEAN, Taken(p, p2, e, final),
           ParentsKnown(p)
    PROVE  ParentsKnown(p2)
<1>1. PICK st \in [EngineIds -> MaybeCall] : st = p.request_states
  BY ProcessorIs
<1>2. PICK ch \in [Calls -> SUBSET EngineIds] : ch = p.child_requests
  BY ProcessorIs
<1>3. PICK pr \in [Ids -> MaybeCall] : pr = p.parent_requests
  BY ProcessorIs
<1>4. PICK c \in MaybeCall : c = st[e]
  OBVIOUS
<1>5. CASE c = NoCall
  <2>1. p2 = p
    BY <1>1, <1>4, <1>5 DEF Taken
  <2> QED BY <2>1
<1>6. CASE c \in Calls
  <2>1. c # NoCall /\ IdOf[c] \in Ids
    BY <1>6, CallsAssumption
  <2>2. PICK st2, ch2, pr2 :
          /\ st2 = p2.request_states /\ ch2 = p2.child_requests /\ pr2 = p2.parent_requests
    OBVIOUS
  <2>3. st2 = [st EXCEPT ![e] = IF final THEN NoCall ELSE c]
    BY <1>1, <1>4, <2>1, <2>2 DEF Taken
  <2>4. ch2 = [ch EXCEPT ![c] = ch[c] \ (IF final THEN {e} ELSE {})]
    BY <1>1, <1>2, <1>4, <2>1, <2>2 DEF Taken
  <2>5. pr2 = [pr EXCEPT ![IdOf[c]] =
                 IF final /\ IsParent(c) /\ ch2[c] = {} THEN NoCall ELSE pr[IdOf[c]]]
    <3>1. ch2[c] = ch[c] \ (IF final THEN {e} ELSE {})
      BY <1>6, <2>4
    <3> QED BY <1>1, <1>2, <1>3, <1>4, <2>1, <2>2, <3>1 DEF Taken
  <2>6. /\ \A i \in Ids : pr[i] # NoCall =>
               /\ IsParent(pr[i]) /\ IdOf[pr[i]] = i
               /\ ch[pr[i]] = {x \in EngineIds : st[x] = pr[i]} /\ ch[pr[i]] # {}
        /\ \A x \in EngineIds, d \in Calls : st[x] = d /\ IsParent(d) => pr[IdOf[d]] = d
    BY <1>1, <1>2, <1>3 DEF ParentsKnown
  <2>7. IsParent(c) => pr[IdOf[c]] = c /\ ch[c] = {x \in EngineIds : st[x] = c}
    BY <1>4, <1>6, <2>1, <2>6
  <2>8. ASSUME NEW d \in Calls
        PROVE  /\ {x \in EngineIds : st2[x] = d} =
                    {x \in EngineIds : st[x] = d} \ (IF final /\ d = c THEN {e} ELSE {})
               /\ ch2[d] = ch[d] \ (IF final /\ d = c THEN {e} ELSE {})
    BY <1>4, <1>6, <2>3, <2>4, <2>5, NoCallIsNone
  <2>9. ASSUME NEW i \in Ids, pr2[i] # NoCall
        PROVE  /\ IsParent(pr2[i]) /\ IdOf[pr2[i]] = i
               /\ ch2[pr2[i]] = {x \in EngineIds : st2[x] = pr2[i]} /\ ch2[pr2[i]] # {}
    <3>1. pr2[i] = pr[i] /\ pr[i] \in Calls
      BY <2>1, <2>3, <2>4, <2>5, <2>9 DEF MaybeCall
    <3>2. /\ IsParent(pr[i]) /\ IdOf[pr[i]] = i
          /\ ch[pr[i]] = {x \in EngineIds : st[x] = pr[i]} /\ ch[pr[i]] # {}
      BY <2>6, <2>9, <3>1
    <3>3. ch2[pr[i]] = {x \in EngineIds : st2[x] = pr[i]}
      BY <2>8, <3>1, <3>2
    <3>4. CASE pr[i] = c
      <4>1. ~(final /\ IsParent(c) /\ ch2[c] = {})
        BY <2>1, <2>3, <2>4, <2>5, <2>9, <3>2, <3>4
      <4>2. ~final => ch2[c] = ch[c]
        BY <1>6, <2>8
      <4> QED BY <3>1, <3>2, <3>3, <3>4, <4>1, <4>2
    <3>5. CASE pr[i] # c
      BY <2>8, <3>1, <3>2, <3>3, <3>5
    <3> QED BY <3>4, <3>5
  <2>10. ASSUME NEW x \in EngineIds, NEW d \in Calls, st2[x] = d, IsParent(d)
        PROVE  pr2[IdOf[d]] = d
    <3>1. st[x] = d /\ pr[IdOf[d]] = d /\ IdOf[d] \in Ids
      <4>1. x \in {y \in EngineIds : st2[y] = d}
        BY <2>10
      <4>2. st[x] = d
        BY <2>8, <4>1
      <4> QED BY <2>6, <2>10, <4>2, CallsAssumption
    <3>2. CASE d = c
      <4>1. ch2[c] = {y \in EngineIds : st2[y] = c}
        BY <1>6, <2>7, <2>8, <2>10, <3>2
      <4>2. ch2[c] # {}
        BY <2>10, <3>2, <4>1
      <4>3. pr2[IdOf[c]] = pr[IdOf[c]]
        BY <2>1, <2>3, <2>4, <2>5, <4>2
      <4> QED BY <3>1, <3>2, <4>3
    <3>3. CASE d # c
      <4>1. IdOf[d] = IdOf[c] => ~IsParent(c)
        BY <2>7, <3>1, <3>3
      <4> QED BY <2>1, <2>3, <2>4, <2>5, <3>1, <4>1
    <3> QED BY <3>2, <3>3
  <2> QED BY <2>2, <2>9, <2>10 DEF ParentsKnown
<1> QED BY <1>5, <1>6 DEF MaybeCall

\* process_outputs goes through the outputs one by one.
LEMMA OutputsOneByOne ==
    ASSUME NEW p, NEW outs, Len(outs) \in Nat
    PROVE  \E done :
              /\ done[0] = [p |-> p, items |-> <<>>]
              /\ \A n \in 1 .. Len(outs) : done[n] = ProcessOutput(done[n - 1], outs[n])
              /\ ProcessOutputs(p, outs) = done[Len(outs)]
<1> DEFINE base == [p |-> p, items |-> <<>>]
           Run(f, m) == f = [n \in 0 .. m |->
                               IF n = 0 THEN base ELSE ProcessOutput(f[n - 1], outs[n])]
           T == {m \in Nat : \E f : Run(f, m)}
<1>1. 0 \in T
  <2>1. Run([n \in 0 .. 0 |-> base], 0)
    OBVIOUS
  <2> HIDE DEF Run
  <2> QED BY <2>1
<1>2. ASSUME NEW m \in 0 .. Len(outs), m < Len(outs), m \in T PROVE m + 1 \in T
  <2>1. PICK f : Run(f, m)
    BY <1>2
  <2> DEFINE g == [n \in 0 .. (m + 1) |->
                     IF n <= m THEN f[n] ELSE ProcessOutput(f[m], outs[m + 1])]
  <2>2. Run(g, m + 1)
    BY <2>1
  <2> HIDE DEF Run, g
  <2> QED BY <2>2
<1> HIDE DEF Run
<1>3. Len(outs) \in T
  <2> HIDE DEF T
  <2> QED BY <1>1, <1>2, Climb
<1>4. \E f : Run(f, Len(outs))
  BY <1>3
<1> DEFINE h == CHOOSE f : Run(f, Len(outs))
<1>5. Run(h, Len(outs))
  BY <1>4
<1>6. ProcessOutputs(p, outs) = h[Len(outs)]
  BY DEF ProcessOutputs, Run
<1> HIDE DEF h
<1> QED BY <1>5, <1>6 DEF Run

\* Whatever they are, the outputs of a step keep the parents' books, and only a final one
\* takes a state.
LEMMA Processed ==
    ASSUME NEW p \in ProcessorType, NEW outs \in Seq(Output), NEW q, q = ProcessOutputs(p, outs)
    PROVE  /\ q \in Progress
           /\ ParentsKnown(p) => ParentsKnown(q.p)
           /\ \A e \in EngineIds :
                \/ q.p.request_states[e] = p.request_states[e]
                \/ /\ q.p.request_states[e] = NoCall
                   /\ \E i \in DOMAIN outs : outs[i].eid = e /\ outs[i].final
<1>1. Len(outs) \in Nat /\ DOMAIN outs = 1 .. Len(outs) /\ \A n \in 1 .. Len(outs) : outs[n] \in Output
  BY LenProperties, ElementOfSeq
<1>2. PICK done :
        /\ done[0] = [p |-> p, items |-> <<>>]
        /\ \A n \in 1 .. Len(outs) : done[n] = ProcessOutput(done[n - 1], outs[n])
        /\ q = done[Len(outs)]
  BY <1>1, OutputsOneByOne
<1> DEFINE Good(n) ==
             /\ done[n] \in Progress
             /\ ParentsKnown(p) => ParentsKnown(done[n].p)
             /\ \A e \in EngineIds :
                  \/ done[n].p.request_states[e] = p.request_states[e]
                  \/ /\ done[n].p.request_states[e] = NoCall
                     /\ \E i \in DOMAIN outs : outs[i].eid = e /\ outs[i].final
           T == {n \in 0 .. Len(outs) : Good(n)}
<1>3. 0 \in T
  <2>1. done[0] \in Progress /\ done[0].p = p
    BY <1>2, EmptySeq DEF Progress
  <2> QED BY <1>1, <2>1
<1>4. ASSUME NEW n \in 0 .. Len(outs), n < Len(outs), n \in T PROVE n + 1 \in T
  <2>1. n + 1 \in 1 .. Len(outs) /\ n + 1 - 1 = n
    BY <1>1, <1>4
  <2>2. PICK acc \in Progress : acc = done[n]
    BY <1>4
  <2>3. PICK out \in Output : out = outs[n + 1]
    BY <1>1, <2>1
  <2>4. PICK acc2 : acc2 = ProcessOutput(acc, out)
    OBVIOUS
  <2>5. done[n + 1] = acc2
    BY <1>2, <2>1, <2>2, <2>3, <2>4
  <2>6. acc2 \in Progress
    BY <2>4, OneOutputTyped
  <2>7. ParentsKnown(p) => ParentsKnown(acc2.p)
    <3>1. ParentsKnown(p) => ParentsKnown(acc.p)
      BY <1>4, <2>2
    <3> QED BY <2>4, <3>1, OneOutput, TakenParents DEF Progress, Output
  <2>8. ASSUME NEW e \in EngineIds
        PROVE  \/ acc2.p.request_states[e] = acc.p.request_states[e]
               \/ acc2.p.request_states[e] = NoCall /\ out.eid = e /\ out.final
    BY <2>4, OneState
  <2>9. \A e \in EngineIds :
          \/ acc2.p.request_states[e] = p.request_states[e]
          \/ /\ acc2.p.request_states[e] = NoCall
             /\ \E i \in DOMAIN outs : outs[i].eid = e /\ outs[i].final
    <3>1. \A e \in EngineIds :
          \/ acc.p.request_states[e] = p.request_states[e]
          \/ /\ acc.p.request_states[e] = NoCall
             /\ \E i \in DOMAIN outs : outs[i].eid = e /\ outs[i].final
      BY <1>4, <2>2
    <3>2. n + 1 \in DOMAIN outs
      BY <1>1, <2>1
    <3> QED BY <2>3, <2>8, <3>1, <3>2
  <2> QED BY <2>1, <2>5, <2>6, <2>7, <2>9
<1> HIDE DEF Good
<1>5. Len(outs) \in T
  <2> HIDE DEF T
  <2> QED BY <1>1, <1>3, <1>4, Climb
<1>6. Good(Len(outs))
  BY <1>5
<1> QED BY <1>2, <1>6 DEF Good

------------------------------------------------------------------------------
(* What a step produces.                                                    *)

HeldOutputs(ending) == {[eid |-> e, origin |-> core[e], final |-> e \in ending] : e \in Held}

LEMMA OutputsOfHeld ==
    ASSUME core \in [EngineIds -> MaybeCall], NEW ending, NEW es \in SUBSET Held
    PROVE  /\ Outputs(es, ending) \in Seq(HeldOutputs(ending))
           /\ es # {} => Outputs(es, ending) # <<>>
<1> DEFINE f == [e \in es |-> [eid |-> e, origin |-> core[e], final |-> e \in ending]]
           S == {f[e] : e \in es}
<1>1. S = {[eid |-> e, origin |-> core[e], final |-> e \in ending] : e \in es}
  OBVIOUS
<1>2. IsFiniteSet(es)
  BY IdsAreFinite, FS_Subset DEF Held
<1> HIDE DEF f
<1>3. IsFiniteSet(S)
  BY <1>2, ImageIsFinite
<1>4. S \subseteq HeldOutputs(ending)
  BY <1>1 DEF HeldOutputs
<1>5. es # {} => S # {}
  OBVIOUS
<1> HIDE DEF S
<1>6. /\ SetToSeq(S) \in Seq(S)
      /\ \A x \in S : \E i \in DOMAIN SetToSeq(S) : SetToSeq(S)[i] = x
  BY <1>3, SetToSeqIs
<1>7. Outputs(es, ending) = SetToSeq(S)
  BY <1>1 DEF Outputs
<1>8. SetToSeq(S) \in Seq(HeldOutputs(ending))
  BY <1>4, <1>6, SeqMonotonic
<1>9. S # {} => SetToSeq(S) # <<>>
  <2> SUFFICES ASSUME NEW x \in S, SetToSeq(S) = <<>> PROVE FALSE
    OBVIOUS
  <2>1. PICK i \in DOMAIN SetToSeq(S) : TRUE
    BY <1>6
  <2> QED BY <2>1
<1> QED BY <1>5, <1>7, <1>8, <1>9

LEMMA HeldOutputsTyped ==
    ASSUME core \in [EngineIds -> MaybeCall], NEW ending
    PROVE  HeldOutputs(ending) \subseteq Output
<1> SUFFICES ASSUME NEW e \in Held
             PROVE  [eid |-> e, origin |-> core[e], final |-> e \in ending] \in Output
  BY DEF HeldOutputs
<1>1. e \in EngineIds /\ core[e] \in Calls /\ (e \in ending) \in BOOLEAN
  BY DEF Held, MaybeCall
<1> QED BY <1>1 DEF Output

\* The replicas' outputs, merged one replica after the other.
LEMMA MergedOneByOne ==
    ASSUME NEW ending
    PROVE  \E merged :
              /\ merged[0] = <<>>
              /\ \A n \in 1 .. Replicas :
                    merged[n] = merged[n - 1] \o Outputs(PlacedAt(router, n - 1), ending)
              /\ Produced(ending) = merged[Replicas]
<1> DEFINE Run(f, m) == f = [n \in 0 .. m |->
                               IF n = 0 THEN <<>>
                               ELSE f[n - 1] \o Outputs(PlacedAt(router, n - 1), ending)]
           T == {m \in Nat : \E f : Run(f, m)}
<1>1. 0 \in T
  <2>1. Run([n \in 0 .. 0 |-> <<>>], 0)
    OBVIOUS
  <2> HIDE DEF Run
  <2> QED BY <2>1
<1>2. ASSUME NEW m \in 0 .. Replicas, m < Replicas, m \in T PROVE m + 1 \in T
  <2>1. PICK f : Run(f, m)
    BY <1>2
  <2> DEFINE g == [n \in 0 .. (m + 1) |->
                     IF n <= m THEN f[n] ELSE f[m] \o Outputs(PlacedAt(router, m), ending)]
  <2>2. Run(g, m + 1)
    BY <2>1
  <2> HIDE DEF Run, g
  <2> QED BY <2>2
<1> HIDE DEF Run
<1>3. Replicas \in T
  <2> HIDE DEF T
  <2> QED BY <1>1, <1>2, Climb, ReplicasAssumption
<1>4. \E f : Run(f, Replicas)
  BY <1>3
<1> DEFINE h == CHOOSE f : Run(f, Replicas)
<1>5. Run(h, Replicas)
  BY <1>4
<1>6. Produced(ending) = h[Replicas]
  BY DEF Produced, Run
<1> HIDE DEF h
<1>7. 0 \in 0 .. Replicas /\ Replicas \in Nat
  BY ReplicasAssumption
<1>8. h[0] = <<>>
  BY <1>5, <1>7 DEF Run
<1>9. ASSUME NEW n \in 1 .. Replicas
      PROVE  h[n] = h[n - 1] \o Outputs(PlacedAt(router, n - 1), ending)
  <2>1. n \in 0 .. Replicas /\ n # 0
    BY <1>7
  <2>2. h[n] = IF n = 0 THEN <<>> ELSE h[n - 1] \o Outputs(PlacedAt(router, n - 1), ending)
    BY <1>5, <2>1 DEF Run
  <2> QED BY <2>1, <2>2
<1> QED BY <1>6, <1>8, <1>9

LEMMA ProducedByHeld ==
    ASSUME core \in [EngineIds -> MaybeCall], NEW ending,
           \A e \in EngineIds : router.placed[e] \in Ranks => core[e] # NoCall
    PROVE  Produced(ending) \in Seq(HeldOutputs(ending))
<1>1. PICK merged :
        /\ merged[0] = <<>>
        /\ \A n \in 1 .. Replicas :
              merged[n] = merged[n - 1] \o Outputs(PlacedAt(router, n - 1), ending)
        /\ Produced(ending) = merged[Replicas]
  BY MergedOneByOne
<1> DEFINE T == {n \in 0 .. Replicas : merged[n] \in Seq(HeldOutputs(ending))}
<1>2. 0 \in T
  <2>1. merged[0] \in Seq(HeldOutputs(ending))
    BY <1>1, EmptySeq
  <2> QED BY <2>1, ReplicasAssumption
<1>3. ASSUME NEW n \in 0 .. Replicas, n < Replicas, n \in T PROVE n + 1 \in T
  <2>1. n + 1 \in 1 .. Replicas /\ n + 1 - 1 = n /\ n \in Ranks
    BY <1>3, ReplicasAssumption DEF Ranks
  <2>2. PlacedAt(router, n) \in SUBSET Held
    BY <2>1 DEF PlacedAt, Held
  <2>3. Outputs(PlacedAt(router, n), ending) \in Seq(HeldOutputs(ending))
    BY <2>2, OutputsOfHeld
  <2>4. merged[n + 1] = merged[n] \o Outputs(PlacedAt(router, n), ending)
    <3>1. PICK m \in 1 .. Replicas : m = n + 1 /\ m - 1 = n
      BY <2>1
    <3>2. merged[m] = merged[m - 1] \o Outputs(PlacedAt(router, m - 1), ending)
      BY <1>1
    <3> QED BY <3>1, <3>2
  <2>5. merged[n] \in Seq(HeldOutputs(ending))
    BY <1>3
  <2>6. merged[n] \o Outputs(PlacedAt(router, n), ending) \in Seq(HeldOutputs(ending))
    BY <2>3, <2>5, ConcatProperties
  <2>7. n + 1 \in 0 .. Replicas
    BY <2>1, ReplicasAssumption
  <2> QED BY <2>4, <2>6, <2>7
<1>4. Replicas \in T
  <2> HIDE DEF T
  <2> QED BY <1>2, <1>3, Climb, ReplicasAssumption
<1> QED BY <1>1, <1>4

LEMMA EndedByIs ==
    ASSUME NEW outs \in Seq(Output), NEW stops, NEW ended, ended = EndedBy(outs, stops)
    PROVE  /\ ended \in Seq(Output) /\ DOMAIN ended = DOMAIN outs
           /\ \A i \in DOMAIN outs :
                /\ ended[i].eid = outs[i].eid /\ ended[i].origin = outs[i].origin
                /\ ended[i].final <=> outs[i].final \/ outs[i].eid \in stops
<1>1. Len(outs) \in Nat /\ DOMAIN outs = 1 .. Len(outs) /\ \A i \in 1 .. Len(outs) : outs[i] \in Output
  BY LenProperties, ElementOfSeq
<1>2. ended = [i \in 1 .. Len(outs) |->
                 [outs[i] EXCEPT !.final = outs[i].final \/ outs[i].eid \in stops]]
  BY <1>1 DEF EndedBy
<1>3. ASSUME NEW i \in 1 .. Len(outs)
      PROVE  /\ ended[i] \in Output
             /\ ended[i].eid = outs[i].eid /\ ended[i].origin = outs[i].origin
             /\ ended[i].final <=> outs[i].final \/ outs[i].eid \in stops
  <2>1. PICK out \in Output : out = outs[i]
    BY <1>1
  <2>2. PICK final \in BOOLEAN : final <=> out.final \/ out.eid \in stops
    OBVIOUS
  <2>3. ended[i] = [out EXCEPT !.final = final]
    BY <1>2, <2>1, <2>2 DEF Output
  <2>4. /\ ended[i] \in Output /\ ended[i].final = final
        /\ ended[i].eid = out.eid /\ ended[i].origin = out.origin
    BY <2>3 DEF Output
  <2> QED BY <2>1, <2>2, <2>4
<1>4. ended \in [1 .. Len(outs) -> Output]
  BY <1>2, <1>3
<1>5. ended \in Seq(Output)
  BY <1>1, <1>4
<1> QED BY <1>1, <1>3, <1>4, <1>5

\* A step's outputs take states only of what ends with it, in the core or by a stop.
LEMMA HeldProcessed ==
    ASSUME core \in [EngineIds -> MaybeCall], NEW p \in ProcessorType,
           NEW ending, NEW stops, NEW outs \in Seq(HeldOutputs(ending)),
           NEW q, q = ProcessOutputs(p, EndedBy(outs, stops))
    PROVE  /\ q \in Progress
           /\ ParentsKnown(p) => ParentsKnown(q.p)
           /\ \A e \in EngineIds :
                \/ q.p.request_states[e] = p.request_states[e]
                \/ q.p.request_states[e] = NoCall /\ e \in ending \cup stops
<1>1. outs \in Seq(Output)
  BY HeldOutputsTyped, SeqMonotonic
<1>2. PICK ended \in Seq(Output) :
        /\ ended = EndedBy(outs, stops) /\ DOMAIN ended = DOMAIN outs
        /\ \A i \in DOMAIN outs :
             /\ ended[i].eid = outs[i].eid
             /\ ended[i].final <=> outs[i].final \/ outs[i].eid \in stops
  BY <1>1, EndedByIs
<1>3. /\ q \in Progress
      /\ ParentsKnown(p) => ParentsKnown(q.p)
      /\ \A e \in EngineIds :
           \/ q.p.request_states[e] = p.request_states[e]
           \/ /\ q.p.request_states[e] = NoCall
              /\ \E i \in DOMAIN ended : ended[i].eid = e /\ ended[i].final
  BY <1>2, Processed
<1>4. ASSUME NEW i \in DOMAIN outs PROVE outs[i].final => outs[i].eid \in ending
  <2>1. outs[i] \in HeldOutputs(ending)
    BY LenProperties, ElementOfSeq
  <2>2. PICK e \in Held : outs[i] = [eid |-> e, origin |-> core[e], final |-> e \in ending]
    BY <2>1 DEF HeldOutputs
  <2>3. outs[i].eid = e /\ (outs[i].final = (e \in ending))
    BY <2>2
  <2> QED BY <2>3
<1> QED BY <1>2, <1>3, <1>4

------------------------------------------------------------------------------
(* Registering and aborting.                                                *)

\* No state belongs to a call that uses c's id.
Fresh(p, c) ==
    \A e \in EngineIds : p.request_states[e] # NoCall => IdOf[p.request_states[e]] # IdOf[c]

LEMMA AddedIs ==
    ASSUME NEW p \in ProcessorType, NEW c \in Calls,
           NEW made \in SUBSET ChildIds(c), NEW added \in SUBSET ChildIds(c),
           NEW q, q = AddRequests(p, c, made, added)
    PROVE  /\ q \in ProcessorType
           /\ q.request_states = [e \in EngineIds |-> IF e \in added THEN c ELSE p.request_states[e]]
           /\ q.child_requests = [p.child_requests EXCEPT ![c] = IF IsParent(c) THEN made ELSE {}]
           /\ q.parent_requests = [p.parent_requests EXCEPT ![IdOf[c]] =
                 IF IsParent(c) /\ added # {} THEN c ELSE p.parent_requests[IdOf[c]]]
<1>1. /\ q.request_states = [e \in EngineIds |-> IF e \in added THEN c ELSE p.request_states[e]]
      /\ q.child_requests = [p.child_requests EXCEPT ![c] = IF IsParent(c) THEN made ELSE {}]
      /\ q.parent_requests = [p.parent_requests EXCEPT ![IdOf[c]] =
            IF IsParent(c) /\ added # {} THEN c ELSE p.parent_requests[IdOf[c]]]
      /\ q = [request_states |-> q.request_states, parent_requests |-> q.parent_requests,
              child_requests |-> q.child_requests, output_aggregator |-> p.output_aggregator]
  BY DEF AddRequests, ProcessorType
<1>2. IdOf[c] \in Ids /\ ChildIds(c) \subseteq EngineIds
  BY CallsAssumption, IdsAreFinite
<1>3. q.request_states \in [EngineIds -> MaybeCall]
  BY <1>1, ProcessorIs DEF MaybeCall
<1>4. q.parent_requests \in [Ids -> MaybeCall]
  BY <1>1, <1>2, ProcessorIs DEF MaybeCall
<1>5. /\ q.child_requests \in [Calls -> SUBSET EngineIds]
      /\ \A d \in Calls : q.child_requests[d] \subseteq (IF IsParent(d) THEN ChildIds(d) ELSE {})
  BY <1>1, <1>2, ProcessorIs
<1>6. p.output_aggregator \in [Calls -> SUBSET Parts]
  BY ProcessorIs
<1>7. q \in ProcessorType
  BY <1>1, <1>3, <1>4, <1>5, <1>6 DEF ProcessorType
<1> QED BY <1>1, <1>7

LEMMA AddedState ==
    ASSUME NEW p \in ProcessorType, NEW c \in Calls,
           NEW made \in SUBSET ChildIds(c), NEW added \in SUBSET ChildIds(c), NEW e \in EngineIds
    PROVE  AddRequests(p, c, made, added).request_states[e] =
              IF e \in added THEN c ELSE p.request_states[e]
<1>1. PICK q : q = AddRequests(p, c, made, added)
  OBVIOUS
<1>2. q.request_states = [x \in EngineIds |-> IF x \in added THEN c ELSE p.request_states[x]]
  BY <1>1 DEF AddRequests, ProcessorType
<1> QED BY <1>1, <1>2

LEMMA AddingKeepsParents ==
    ASSUME NEW p \in ProcessorType, NEW c \in Calls, Fresh(p, c), ParentsKnown(p),
           NEW made \in SUBSET ChildIds(c), NEW added \in {made, {}}
    PROVE  ParentsKnown(AddRequests(p, c, made, added))
<1>1. PICK q : q = AddRequests(p, c, made, added)
  OBVIOUS
<1>2. PICK st \in [EngineIds -> MaybeCall] : st = p.request_states
  BY ProcessorIs
<1>3. PICK ch \in [Calls -> SUBSET EngineIds] : ch = p.child_requests
  BY ProcessorIs
<1>4. PICK pr \in [Ids -> MaybeCall] : pr = p.parent_requests
  BY ProcessorIs
<1>5. PICK st2 : st2 = q.request_states
  OBVIOUS
<1>6. PICK ch2 : ch2 = q.child_requests
  OBVIOUS
<1>7. PICK pr2 : pr2 = q.parent_requests
  OBVIOUS
<1>8. /\ q.request_states = [e \in EngineIds |-> IF e \in added THEN c ELSE p.request_states[e]]
      /\ q.child_requests = [p.child_requests EXCEPT ![c] = IF IsParent(c) THEN made ELSE {}]
      /\ q.parent_requests = [p.parent_requests EXCEPT ![IdOf[c]] =
            IF IsParent(c) /\ added # {} THEN c ELSE p.parent_requests[IdOf[c]]]
  <2>1. added \in SUBSET ChildIds(c)
    OBVIOUS
  <2> QED BY <1>1, <2>1, AddedIs
<1>9. st2 = [e \in EngineIds |-> IF e \in added THEN c ELSE st[e]]
  BY <1>2, <1>5, <1>8
<1>10. ch2 = [ch EXCEPT ![c] = IF IsParent(c) THEN made ELSE {}]
  BY <1>3, <1>6, <1>8
<1>11. pr2 = [pr EXCEPT ![IdOf[c]] = IF IsParent(c) /\ added # {} THEN c ELSE pr[IdOf[c]]]
  BY <1>4, <1>7, <1>8
<1>12. /\ \A i \in Ids : pr[i] # NoCall =>
             /\ IsParent(pr[i]) /\ IdOf[pr[i]] = i
             /\ ch[pr[i]] = {x \in EngineIds : st[x] = pr[i]} /\ ch[pr[i]] # {}
       /\ \A x \in EngineIds, d \in Calls : st[x] = d /\ IsParent(d) => pr[IdOf[d]] = d
  BY <1>2, <1>3, <1>4 DEF ParentsKnown
<1>13. \A x \in EngineIds : st[x] # NoCall => IdOf[st[x]] # IdOf[c]
  BY <1>2 DEF Fresh
<1>14. IdOf[c] \in Ids /\ c # NoCall /\ ChildIds(c) \subseteq EngineIds
  BY CallsAssumption, IdsAreFinite
<1>15. pr[IdOf[c]] = NoCall
  <2> SUFFICES ASSUME pr[IdOf[c]] # NoCall PROVE FALSE
    OBVIOUS
  <2>1. PICK x \in EngineIds : st[x] = pr[IdOf[c]]
    BY <1>12, <1>14
  <2> QED BY <1>12, <1>13, <1>14, <2>1
<1>16. \A x \in EngineIds : st[x] # c
  BY <1>13, <1>14
<1>17. ASSUME NEW i \in Ids, pr2[i] # NoCall
       PROVE  /\ IsParent(pr2[i]) /\ IdOf[pr2[i]] = i
              /\ ch2[pr2[i]] = {x \in EngineIds : st2[x] = pr2[i]} /\ ch2[pr2[i]] # {}
  <2>1. CASE i = IdOf[c]
    <3>1. pr2[i] = c /\ IsParent(c) /\ added # {}
      BY <1>11, <1>14, <1>15, <1>17, <2>1
    <3>2. ch2[c] = made /\ added = made
      BY <1>10, <3>1
    <3>3. {x \in EngineIds : st2[x] = c} = made
      BY <1>9, <1>14, <1>16, <3>2
    <3> QED BY <2>1, <3>1, <3>2, <3>3
  <2>2. CASE i # IdOf[c]
    <3>1. pr2[i] = pr[i] /\ pr[i] # NoCall /\ pr[i] \in Calls
      BY <1>11, <1>17, <2>2 DEF MaybeCall
    <3>2. pr[i] # c
      BY <1>12, <2>2, <3>1
    <3>3. ch2[pr[i]] = ch[pr[i]]
      BY <1>10, <3>1, <3>2
    <3>4. {x \in EngineIds : st2[x] = pr[i]} = {x \in EngineIds : st[x] = pr[i]}
      <4>1. \A x \in added : st[x] = pr[i] => FALSE
        <5> SUFFICES ASSUME NEW x \in added, st[x] = pr[i] PROVE FALSE
          OBVIOUS
        <5>1. ch[pr[i]] = {y \in EngineIds : st[y] = pr[i]} /\ IdOf[pr[i]] = i /\ IsParent(pr[i])
          BY <1>12, <3>1
        <5>2. x \in ch[pr[i]] /\ x \in ChildIds(c)
          BY <1>14, <5>1
        <5>3. ch[pr[i]] \subseteq ChildIds(pr[i])
          BY <1>3, <3>1, <5>1, ProcessorIs
        <5> QED BY <2>2, <3>1, <5>1, <5>2, <5>3, ChildIs
      <4> QED BY <1>9, <3>2, <4>1
    <3> QED BY <1>12, <3>1, <3>3, <3>4
  <2> QED BY <2>1, <2>2
<1>18. ASSUME NEW x \in EngineIds, NEW d \in Calls, st2[x] = d, IsParent(d)
       PROVE  pr2[IdOf[d]] = d
  <2>1. CASE x \in added
    <3>1. d = c
      BY <1>9, <1>18, <2>1
    <3> QED BY <1>11, <1>14, <1>18, <2>1, <3>1
  <2>2. CASE x \notin added
    <3>1. st[x] = d /\ d # NoCall /\ IdOf[d] \in Ids
      BY <1>9, <1>18, <2>2, CallsAssumption
    <3>2. pr[IdOf[d]] = d /\ IdOf[d] # IdOf[c]
      BY <1>12, <1>13, <1>18, <3>1
    <3> QED BY <1>11, <3>1, <3>2
  <2> QED BY <2>1, <2>2
<1> QED BY <1>1, <1>5, <1>6, <1>7, <1>17, <1>18 DEF ParentsKnown

LEMMA AbortedIs ==
    ASSUME NEW p \in ProcessorType, NEW es \in SUBSET EngineIds, NEW q, q = AbortChildren(p, es)
    PROVE  /\ q \in ProcessorType
           /\ q.request_states = [e \in EngineIds |-> IF e \in es THEN NoCall ELSE p.request_states[e]]
           /\ q.child_requests = [c \in Calls |->
                 p.child_requests[c] \ {e \in es : p.request_states[e] = c}]
           /\ q.output_aggregator = p.output_aggregator
<1> DEFINE hit == LiveAmong(p, es)
           left == [c \in Calls |-> p.child_requests[c] \ {e \in hit : p.request_states[e] = c}]
           emptied == {p.request_states[e] : e \in hit} \cap {c \in Calls : left[c] = {}}
<1>1. \A e \in es : p.request_states[e] = NoCall \/ e \in hit
  BY DEF LiveAmong
<1>2. \A e \in hit : e \in es
  BY DEF LiveAmong
<1>3. \A c \in Calls : {e \in hit : p.request_states[e] = c} = {e \in es : p.request_states[e] = c}
  BY NoCallIsNone DEF LiveAmong
<1> HIDE DEF hit
<1>4. q = [p EXCEPT
            !.request_states = [e \in EngineIds |->
                                  IF e \in hit THEN NoCall ELSE p.request_states[e]],
            !.child_requests = left,
            !.parent_requests = [i \in Ids |->
               IF \E c \in emptied : IsParent(c) /\ IdOf[c] = i THEN NoCall
               ELSE p.parent_requests[i]]]
  BY DEF AbortChildren, hit, ProcessorType
<1> HIDE DEF emptied
<1>5. /\ q.request_states = [e \in EngineIds |-> IF e \in hit THEN NoCall ELSE p.request_states[e]]
      /\ q.child_requests = left
      /\ q.parent_requests = [i \in Ids |->
               IF \E c \in emptied : IsParent(c) /\ IdOf[c] = i THEN NoCall
               ELSE p.parent_requests[i]]
      /\ q.output_aggregator = p.output_aggregator
      /\ q = [request_states |-> q.request_states, parent_requests |-> q.parent_requests,
              child_requests |-> q.child_requests, output_aggregator |-> q.output_aggregator]
  BY <1>4 DEF ProcessorType
<1>6. q.request_states = [e \in EngineIds |-> IF e \in es THEN NoCall ELSE p.request_states[e]]
  BY <1>1, <1>2, <1>5
<1>7. q.child_requests = [c \in Calls |-> p.child_requests[c] \ {e \in es : p.request_states[e] = c}]
  BY <1>3, <1>5
<1>8. q.request_states \in [EngineIds -> MaybeCall]
  BY <1>6, ProcessorIs DEF MaybeCall
<1>9. q.parent_requests \in [Ids -> MaybeCall]
  BY <1>5, ProcessorIs DEF MaybeCall
<1>10. /\ q.child_requests \in [Calls -> SUBSET EngineIds]
       /\ \A d \in Calls : q.child_requests[d] \subseteq (IF IsParent(d) THEN ChildIds(d) ELSE {})
  <2>1. p.child_requests \in [Calls -> SUBSET EngineIds]
    BY ProcessorIs
  <2>2. \A d \in Calls : q.child_requests[d] \subseteq p.child_requests[d]
    BY <1>7
  <2> QED BY <1>7, <2>1, <2>2, ProcessorIs
<1>11. q \in ProcessorType
  BY <1>5, <1>8, <1>9, <1>10, ProcessorIs DEF ProcessorType
<1> QED BY <1>5, <1>6, <1>7, <1>11

LEMMA AbortedState ==
    ASSUME NEW p \in ProcessorType, NEW es \in SUBSET EngineIds, NEW e \in EngineIds
    PROVE  AbortChildren(p, es).request_states[e] =
              IF e \in es THEN NoCall ELSE p.request_states[e]
<1> DEFINE hit == LiveAmong(p, es)
<1>1. hit = {x \in es : p.request_states[x] # NoCall}
  BY DEF LiveAmong
<1>2. AbortChildren(p, es).request_states =
         [x \in EngineIds |-> IF x \in hit THEN NoCall ELSE p.request_states[x]]
  BY DEF AbortChildren, ProcessorType
<1> HIDE DEF hit
<1>3. AbortChildren(p, es).request_states[e] = IF e \in hit THEN NoCall ELSE p.request_states[e]
  BY <1>2
<1> QED BY <1>1, <1>3

LEMMA AbortedParents ==
    ASSUME NEW p \in ProcessorType, NEW es \in SUBSET EngineIds, NEW i \in Ids, ParentsKnown(p)
    PROVE  /\ AbortChildren(p, es).parent_requests \in [Ids -> MaybeCall]
           /\ LET c == p.parent_requests[i]
              IN  AbortChildren(p, es).parent_requests[i] =
                     IF c # NoCall /\ {e \in EngineIds : p.request_states[e] = c} \subseteq es
                     THEN NoCall ELSE c
<1> DEFINE hit == LiveAmong(p, es)
           left == [c \in Calls |-> p.child_requests[c] \ {e \in hit : p.request_states[e] = c}]
           emptied == {p.request_states[e] : e \in hit} \cap {c \in Calls : left[c] = {}}
<1>1. PICK q : q = AbortChildren(p, es)
  OBVIOUS
<1>2. q \in ProcessorType
  BY <1>1, AbortedIs
<1>3. PICK st \in [EngineIds -> MaybeCall] : st = p.request_states
  BY ProcessorIs
<1>4. PICK ch \in [Calls -> SUBSET EngineIds] : ch = p.child_requests
  BY ProcessorIs
<1>5. PICK pr \in [Ids -> MaybeCall] : pr = p.parent_requests
  BY ProcessorIs
<1>6. hit = {e \in es : st[e] # NoCall}
  BY <1>3 DEF LiveAmong
<1>7. q.parent_requests[i] =
         IF \E c \in emptied : IsParent(c) /\ IdOf[c] = i THEN NoCall ELSE pr[i]
  BY <1>1, <1>5 DEF AbortChildren, ProcessorType
<1>8. \A c \in emptied : c \in Calls /\ (\E e \in hit : st[e] = c) /\ ch[c] \subseteq hit
  BY <1>3, <1>4
<1>9. \A c \in Calls : (\E e \in hit : st[e] = c) /\ ch[c] \subseteq {e \in hit : st[e] = c}
                          => c \in emptied
  BY <1>3, <1>4
<1> HIDE DEF emptied, hit
<1>10. /\ \A j \in Ids : pr[j] # NoCall =>
             /\ IsParent(pr[j]) /\ IdOf[pr[j]] = j
             /\ ch[pr[j]] = {x \in EngineIds : st[x] = pr[j]} /\ ch[pr[j]] # {}
       /\ \A x \in EngineIds, d \in Calls : st[x] = d /\ IsParent(d) => pr[IdOf[d]] = d
  BY <1>3, <1>4, <1>5 DEF ParentsKnown
<1>11. ASSUME NEW c \in emptied, IsParent(c), IdOf[c] = i
       PROVE  pr[i] = c /\ c # NoCall /\ {e \in EngineIds : st[e] = c} \subseteq es
  <2>1. c \in Calls /\ ch[c] \subseteq hit
    BY <1>8
  <2>2. PICK e \in hit : st[e] = c
    BY <1>8
  <2>3. e \in EngineIds /\ hit \subseteq es
    BY <1>6
  <2>4. pr[i] = c /\ c # NoCall
    BY <1>10, <1>11, <2>1, <2>2, <2>3, NoCallIsNone
  <2> QED BY <1>10, <2>1, <2>3, <2>4
<1>12. ASSUME pr[i] # NoCall, {e \in EngineIds : st[e] = pr[i]} \subseteq es
       PROVE  pr[i] \in emptied /\ IsParent(pr[i]) /\ IdOf[pr[i]] = i
  <2>1. /\ IsParent(pr[i]) /\ IdOf[pr[i]] = i
        /\ ch[pr[i]] = {x \in EngineIds : st[x] = pr[i]} /\ ch[pr[i]] # {}
    BY <1>10, <1>12
  <2>2. \A e \in ch[pr[i]] : e \in hit /\ st[e] = pr[i]
    BY <1>6, <1>12, <2>1
  <2>3. pr[i] \in Calls
    BY <1>12 DEF MaybeCall
  <2> QED BY <1>9, <2>1, <2>2, <2>3
<1>13. q.parent_requests[i] =
         IF pr[i] # NoCall /\ {e \in EngineIds : st[e] = pr[i]} \subseteq es THEN NoCall ELSE pr[i]
  BY <1>7, <1>11, <1>12
<1> QED BY <1>1, <1>2, <1>3, <1>5, <1>13, ProcessorIs

LEMMA AbortingKeepsParents ==
    ASSUME NEW p \in ProcessorType, NEW es \in SUBSET EngineIds, ParentsKnown(p)
    PROVE  ParentsKnown(AbortChildren(p, es))
<1>1. PICK q : q = AbortChildren(p, es)
  OBVIOUS
<1>2. PICK st \in [EngineIds -> MaybeCall] : st = p.request_states
  BY ProcessorIs
<1>3. PICK ch \in [Calls -> SUBSET EngineIds] : ch = p.child_requests
  BY ProcessorIs
<1>4. PICK pr \in [Ids -> MaybeCall] : pr = p.parent_requests
  BY ProcessorIs
<1>5. PICK st2 : st2 = q.request_states
  OBVIOUS
<1>6. PICK ch2 : ch2 = q.child_requests
  OBVIOUS
<1>7. PICK pr2 : pr2 = q.parent_requests
  OBVIOUS
<1>8. /\ q.request_states = [e \in EngineIds |-> IF e \in es THEN NoCall ELSE p.request_states[e]]
      /\ q.child_requests = [c \in Calls |-> p.child_requests[c] \ {e \in es : p.request_states[e] = c}]
  BY <1>1, AbortedIs
<1>9. st2 = [e \in EngineIds |-> IF e \in es THEN NoCall ELSE st[e]]
  BY <1>2, <1>5, <1>8
<1>10. ch2 = [c \in Calls |-> ch[c] \ {e \in es : st[e] = c}]
  BY <1>2, <1>3, <1>6, <1>8
<1>11. \A i \in Ids : pr2[i] = IF pr[i] # NoCall /\ {e \in EngineIds : st[e] = pr[i]} \subseteq es
                               THEN NoCall ELSE pr[i]
  BY <1>1, <1>2, <1>4, <1>7, AbortedParents
<1>12. /\ \A i \in Ids : pr[i] # NoCall =>
             /\ IsParent(pr[i]) /\ IdOf[pr[i]] = i
             /\ ch[pr[i]] = {x \in EngineIds : st[x] = pr[i]} /\ ch[pr[i]] # {}
       /\ \A x \in EngineIds, d \in Calls : st[x] = d /\ IsParent(d) => pr[IdOf[d]] = d
  BY <1>2, <1>3, <1>4 DEF ParentsKnown
<1>13. ASSUME NEW i \in Ids, pr2[i] # NoCall
       PROVE  /\ IsParent(pr2[i]) /\ IdOf[pr2[i]] = i
              /\ ch2[pr2[i]] = {x \in EngineIds : st2[x] = pr2[i]} /\ ch2[pr2[i]] # {}
  <2>1. /\ pr2[i] = pr[i] /\ pr[i] # NoCall
        /\ ~({e \in EngineIds : st[e] = pr[i]} \subseteq es)
    BY <1>11, <1>13
  <2>2. pr[i] \in Calls
    BY <2>1 DEF MaybeCall
  <2>3. /\ IsParent(pr[i]) /\ IdOf[pr[i]] = i
        /\ ch[pr[i]] = {x \in EngineIds : st[x] = pr[i]}
    BY <1>12, <2>1
  <2>4. ch2[pr[i]] = {x \in EngineIds : st[x] = pr[i]} \ es
    BY <1>10, <2>2, <2>3
  <2>5. {x \in EngineIds : st2[x] = pr[i]} = {x \in EngineIds : st[x] = pr[i]} \ es
    BY <1>9, <2>1
  <2> QED BY <2>1, <2>3, <2>4, <2>5
<1>14. ASSUME NEW x \in EngineIds, NEW d \in Calls, st2[x] = d, IsParent(d)
       PROVE  pr2[IdOf[d]] = d
  <2>1. x \notin es /\ st[x] = d /\ IdOf[d] \in Ids
    BY <1>9, <1>14, NoCallIsNone, CallsAssumption
  <2>2. pr[IdOf[d]] = d
    BY <1>12, <1>14, <2>1
  <2> QED BY <1>11, <2>1, <2>2
<1> QED BY <1>1, <1>5, <1>6, <1>7, <1>13, <1>14 DEF ParentsKnown

\* The client's id names engine requests that have state.
LEMMA NamedHaveState ==
    ASSUME NEW p \in ProcessorType, NEW id \in Ids
    PROVE  /\ Named(p, id) \in SUBSET EngineIds
           /\ \A e \in Named(p, id) : p.request_states[e] # NoCall
<1> DEFINE own == {e \in EngineIds : e = <<id, 0>> /\ p.request_states[e] # NoCall}
           c == p.parent_requests[id]
<1>1. CASE own # {}
  BY <1>1 DEF Named
<1>2. CASE own = {} /\ c = NoCall
  BY <1>2 DEF Named
<1>3. CASE own = {} /\ c # NoCall
  <2>1. Named(p, id) = LiveAmong(p, p.child_requests[c])
    BY <1>3 DEF Named
  <2>2. p.child_requests[c] \subseteq EngineIds
    BY <1>3, ProcessorIs DEF MaybeCall
  <2> QED BY <2>1, <2>2 DEF LiveAmong
<1> QED BY <1>1, <1>2, <1>3

LEMMA AbortIdState ==
    ASSUME NEW p \in ProcessorType, NEW id \in Ids, NEW e \in EngineIds
    PROVE  AbortId(p, id).request_states[e] =
              IF e \in Named(p, id) THEN NoCall ELSE p.request_states[e]
<1>1. PICK es \in SUBSET EngineIds : es = Named(p, id)
  BY NamedHaveState
<1>2. CASE <<id, 0>> \in es
  BY <1>1, <1>2, AbortedState DEF AbortId
<1>3. CASE <<id, 0>> \notin es
  BY <1>1, <1>3 DEF AbortId, ProcessorType
<1> QED BY <1>2, <1>3

LEMMA AbortIdIs ==
    ASSUME NEW p \in ProcessorType, NEW id \in Ids, NEW q, q = AbortId(p, id)
    PROVE  /\ q \in ProcessorType
           /\ \A e \in EngineIds : q.request_states[e] =
                 IF e \in Named(p, id) THEN NoCall ELSE p.request_states[e]
           /\ ParentsKnown(p) => ParentsKnown(q)
<1>1. PICK es \in SUBSET EngineIds : es = Named(p, id)
  BY NamedHaveState
<1>2. CASE <<id, 0>> \in es
  <2>1. q = AbortChildren(p, es)
    BY <1>1, <1>2 DEF AbortId
  <2>2. q \in ProcessorType
    BY <2>1, AbortedIs
  <2>3. \A e \in EngineIds : q.request_states[e] = IF e \in es THEN NoCall ELSE p.request_states[e]
    BY <2>1, AbortedState
  <2>4. ParentsKnown(p) => ParentsKnown(q)
    BY <2>1, AbortingKeepsParents
  <2> QED BY <1>1, <2>2, <2>3, <2>4
<1>3. CASE <<id, 0>> \notin es
  <2>1. q = [p EXCEPT
              !.request_states = [e \in EngineIds |->
                                    IF e \in es THEN NoCall ELSE p.request_states[e]],
              !.parent_requests = [p.parent_requests EXCEPT ![id] = NoCall]]
    BY <1>1, <1>3 DEF AbortId, ProcessorType
  <2>2. /\ q.request_states = [e \in EngineIds |-> IF e \in es THEN NoCall ELSE p.request_states[e]]
        /\ q.parent_requests = [p.parent_requests EXCEPT ![id] = NoCall]
        /\ q.child_requests = p.child_requests
        /\ q.output_aggregator = p.output_aggregator
        /\ q = [request_states |-> q.request_states, parent_requests |-> q.parent_requests,
                child_requests |-> q.child_requests, output_aggregator |-> q.output_aggregator]
    BY <2>1 DEF ProcessorType
  <2>3. q.request_states \in [EngineIds -> MaybeCall]
    BY <2>2, ProcessorIs DEF MaybeCall
  <2>4. q.parent_requests \in [Ids -> MaybeCall]
    BY <2>2, ProcessorIs DEF MaybeCall
  <2>5. q \in ProcessorType
    BY <2>2, <2>3, <2>4, ProcessorIs DEF ProcessorType
  <2>6. ASSUME ParentsKnown(p) PROVE ParentsKnown(q)
    <3>1. PICK st \in [EngineIds -> MaybeCall] : st = p.request_states
      BY ProcessorIs
    <3>2. PICK ch \in [Calls -> SUBSET EngineIds] : ch = p.child_requests
      BY ProcessorIs
    <3>3. PICK pr \in [Ids -> MaybeCall] : pr = p.parent_requests
      BY ProcessorIs
    <3>4. PICK st2 : st2 = q.request_states
      OBVIOUS
    <3>5. PICK pr2 : pr2 = q.parent_requests
      OBVIOUS
    <3>6. st2 = [e \in EngineIds |-> IF e \in es THEN NoCall ELSE st[e]]
      BY <2>2, <3>1, <3>4
    <3>7. pr2 = [pr EXCEPT ![id] = NoCall]
      BY <2>2, <3>3, <3>5
    <3>8. /\ \A i \in Ids : pr[i] # NoCall =>
                /\ IsParent(pr[i]) /\ IdOf[pr[i]] = i
                /\ ch[pr[i]] = {x \in EngineIds : st[x] = pr[i]} /\ ch[pr[i]] # {}
          /\ \A x \in EngineIds, d \in Calls : st[x] = d /\ IsParent(d) => pr[IdOf[d]] = d
      BY <2>6, <3>1, <3>2, <3>3 DEF ParentsKnown
    <3>9. es = IF pr[id] = NoCall THEN {} ELSE {x \in EngineIds : st[x] = pr[id]}
      <4>1. {e \in EngineIds : e = <<id, 0>> /\ st[e] # NoCall} = {}
        BY <1>1, <1>3, <3>1 DEF Named
      <4>2. es = IF pr[id] = NoCall THEN {} ELSE LiveAmong(p, ch[pr[id]])
        BY <1>1, <3>1, <3>2, <3>3, <4>1 DEF Named
      <4>3. CASE pr[id] = NoCall
        BY <4>2, <4>3
      <4>4. CASE pr[id] # NoCall
        <5>1. pr[id] \in Calls /\ ch[pr[id]] = {x \in EngineIds : st[x] = pr[id]}
          BY <3>8, <4>4 DEF MaybeCall
        <5>2. LiveAmong(p, ch[pr[id]]) = {x \in ch[pr[id]] : st[x] # NoCall}
          BY <3>1 DEF LiveAmong
        <5>3. \A x \in ch[pr[id]] : st[x] # NoCall
          BY <4>4, <5>1
        <5> QED BY <4>2, <4>4, <5>1, <5>2, <5>3
      <4> QED BY <4>3, <4>4
    <3>10. ASSUME NEW i \in Ids, pr2[i] # NoCall
           PROVE  /\ IsParent(pr2[i]) /\ IdOf[pr2[i]] = i
                  /\ ch[pr2[i]] = {x \in EngineIds : st2[x] = pr2[i]} /\ ch[pr2[i]] # {}
      <4>1. i # id /\ pr2[i] = pr[i] /\ pr[i] # NoCall
        BY <3>7, <3>10
      <4>2. /\ IsParent(pr[i]) /\ IdOf[pr[i]] = i
            /\ ch[pr[i]] = {x \in EngineIds : st[x] = pr[i]} /\ ch[pr[i]] # {}
        BY <3>8, <4>1
      <4>3. pr[id] # NoCall => IdOf[pr[id]] = id
        BY <3>8
      <4>4. \A x \in es : st[x] # pr[i]
        BY <3>9, <4>1, <4>2, <4>3
      <4>5. {x \in EngineIds : st2[x] = pr[i]} = {x \in EngineIds : st[x] = pr[i]}
        BY <3>6, <4>1, <4>4
      <4> QED BY <4>1, <4>2, <4>5
    <3>11. ASSUME NEW x \in EngineIds, NEW d \in Calls, st2[x] = d, IsParent(d)
           PROVE  pr2[IdOf[d]] = d
      <4>1. x \notin es /\ st[x] = d /\ IdOf[d] \in Ids /\ d # NoCall
        BY <3>6, <3>11, NoCallIsNone, CallsAssumption
      <4>2. pr[IdOf[d]] = d
        BY <3>8, <3>11, <4>1
      <4>3. IdOf[d] # id
        BY <3>9, <4>1, <4>2
      <4> QED BY <3>7, <4>1, <4>2, <4>3
    <3> QED BY <2>2, <3>2, <3>4, <3>5, <3>10, <3>11 DEF ParentsKnown
  <2> QED BY <1>1, <2>2, <2>5, <2>6
<1> QED BY <1>2, <1>3

------------------------------------------------------------------------------
(* Types.                                                                   *)

Message == [kind : {"ADD", "ABORT"}, eids : SUBSET EngineIds, call : MaybeCall]

SocketTypes ==
    /\ to_core \in Seq(Message)
    /\ to_client \in Seq(Seq(Output))
    /\ reader \in Seq(Output)
    /\ frames \in Seq(Seq(Output))

FrontTypes == AsyncTypeOK /\ SocketTypes

\* What adding and aborting requests assigns, whichever the transport.
ClientTypes ==
    /\ core \in [EngineIds -> MaybeCall]
    /\ produced \in [EngineIds -> Nat]
    /\ cleanup \in BOOLEAN
    /\ outstanding \in Int
    /\ to_core \in Seq(Message)

LEMMA WithTyped ==
    ASSUME core \in [EngineIds -> MaybeCall], NEW es, NEW c \in MaybeCall
    PROVE  /\ WithRequests(core, es, c) \in [EngineIds -> MaybeCall]
           /\ Without(core, es) \in [EngineIds -> MaybeCall]
BY DEF WithRequests, Without, MaybeCall

LEMMA SendTyped ==
    ASSUME to_core \in Seq(Message), NEW ms \in Seq(Message), Send(ms)
    PROVE  to_core' \in Seq(Message)
BY ConcatProperties DEF Send

\* One message per child.
AddMessages(es, c) == {[kind |-> "ADD", eids |-> {e}, call |-> c] : e \in es}

LEMMA AddMessagesAre ==
    ASSUME NEW c \in Calls, NEW es \in SUBSET EngineIds
    PROVE  /\ IsFiniteSet(AddMessages(es, c))
           /\ AddMessages(es, c) \subseteq Message
<1> DEFINE f == [e \in es |-> [kind |-> "ADD", eids |-> {e}, call |-> c]]
<1>1. AddMessages(es, c) = {f[e] : e \in es}
  BY DEF AddMessages
<1>2. IsFiniteSet(es)
  BY IdsAreFinite, FS_Subset
<1> HIDE DEF f
<1>3. IsFiniteSet({f[e] : e \in es})
  BY <1>2, ImageIsFinite
<1>4. AddMessages(es, c) \subseteq Message
  BY DEF AddMessages, Message, MaybeCall
<1> QED BY <1>1, <1>3, <1>4

LEMMA SubmitTyped ==
    ASSUME ClientTypes, NEW c \in Calls, NEW es \in SUBSET EngineIds, Submit(es, c)
    PROVE  ClientTypes'
<1>1. UNCHANGED cleanup
  BY DEF Submit
<1>2. CASE transport # "mp"
  <2>1. /\ core' = WithRequests(core, es, c)
        /\ produced' = [e \in EngineIds |-> IF e \in es THEN 0 ELSE produced[e]]
        /\ UNCHANGED <<to_core, outstanding>>
    BY <1>2 DEF Submit
  <2>2. core' \in [EngineIds -> MaybeCall]
    BY <2>1, WithTyped DEF ClientTypes, MaybeCall
  <2>3. produced' \in [EngineIds -> Nat]
    BY <2>1 DEF ClientTypes
  <2> QED BY <1>1, <2>1, <2>2, <2>3 DEF ClientTypes
<1>3. CASE transport = "mp"
  <2>1. /\ Send(SetToSeq(AddMessages(es, c)))
        /\ outstanding' = outstanding + Cardinality(es)
        /\ UNCHANGED <<core, produced>>
    BY <1>3 DEF Submit, AddMessages
  <2>2. IsFiniteSet(es)
    BY IdsAreFinite, FS_Subset
  <2>3. outstanding' \in Int
    BY <2>1, <2>2, FS_CardinalityType DEF ClientTypes
  <2>4. SetToSeq(AddMessages(es, c)) \in Seq(AddMessages(es, c))
    BY AddMessagesAre, SetToSeqIs
  <2>5. SetToSeq(AddMessages(es, c)) \in Seq(Message)
    BY <2>4, AddMessagesAre, SeqMonotonic
  <2>6. to_core' \in Seq(Message)
    BY <2>1, <2>5, SendTyped DEF ClientTypes
  <2> QED BY <1>1, <2>1, <2>3, <2>6 DEF ClientTypes
<1> QED BY <1>2, <1>3

LEMMA SendAbortTyped ==
    ASSUME to_core \in Seq(Message), outstanding \in Int, NEW es \in SUBSET EngineIds, SendAbort(es)
    PROVE  to_core' \in Seq(Message) /\ outstanding' \in Int
<1>1. CASE es = {}
  BY <1>1 DEF SendAbort
<1>2. CASE es # {}
  <2>1. /\ Send(<<[kind |-> "ABORT", eids |-> es, call |-> NoCall]>>)
        /\ outstanding' = NoteAborted(Cardinality(es))
    BY <1>2 DEF SendAbort
  <2>2. [kind |-> "ABORT", eids |-> es, call |-> NoCall] \in Message
    BY DEF Message, MaybeCall
  <2>3. <<[kind |-> "ABORT", eids |-> es, call |-> NoCall]>> \in Seq(Message)
    BY <2>2
  <2>4. Cardinality(es) \in Nat
    BY IdsAreFinite, FS_Subset, FS_CardinalityType
  <2>5. to_core' \in Seq(Message)
    BY <2>1, <2>3, SendTyped
  <2>6. outstanding' \in Int
    BY <2>1, <2>4 DEF NoteAborted
  <2> QED BY <2>5, <2>6
<1> QED BY <1>1, <1>2

LEMMA AbortTyped ==
    ASSUME ClientTypes, transport \in {"inproc", "mp", "dp", "ep"},
           NEW es \in SUBSET EngineIds, Abort(es)
    PROVE  ClientTypes'
<1>1. UNCHANGED produced
  BY DEF Abort
<1>2. CASE transport = "inproc"
  BY <1>1, <1>2, WithTyped DEF Abort, ClientTypes, MaybeCall
<1>3. CASE transport = "mp"
  <2>1. SendAbort(es)
    BY <1>3 DEF Abort, Replicated
  <2>2. UNCHANGED <<core, cleanup>>
    BY <1>3 DEF Abort, Replicated
  <2> QED BY <1>1, <2>1, <2>2, SendAbortTyped DEF ClientTypes
<1>4. CASE transport \in {"dp", "ep"}
  <2>1. core' = Without(core, Reached(router, es)) /\ UNCHANGED <<cleanup, to_core, outstanding>>
    BY <1>4 DEF Abort, Replicated
  <2> QED BY <1>1, <2>1, WithTyped DEF ClientTypes, MaybeCall
<1> QED BY <1>2, <1>3, <1>4

LEMMA FramesAre ==
    ASSUME NEW outs \in Seq(Output)
    PROVE  /\ MayStop(outs) \subseteq EngineIds
           /\ NumFinal(outs) \in Nat
           /\ DOMAIN outs = 1 .. Len(outs)
           /\ \A i \in DOMAIN outs : outs[i] \in Output
<1>1. /\ Len(outs) \in Nat /\ DOMAIN outs = 1 .. Len(outs)
      /\ \A i \in DOMAIN outs : outs[i] \in Output
  BY LenProperties, ElementOfSeq
<1>2. MayStop(outs) \subseteq EngineIds
  BY <1>1 DEF MayStop, Output
<1>3. IsFiniteSet({i \in DOMAIN outs : outs[i].final})
  <2>1. IsFiniteSet(1 .. Len(outs))
    BY <1>1, FS_Interval
  <2> QED BY <1>1, <2>1, FS_Subset
<1>4. NumFinal(outs) \in Nat
  BY <1>3, FS_CardinalityType DEF NumFinal
<1> QED BY <1>1, <1>2, <1>4

\* The states a step's outputs leave, and the requests it leaves in the core.
LEMMA RoundTyped ==
    ASSUME core \in [EngineIds -> MaybeCall], produced \in [EngineIds -> Nat],
           NEW ks, NEW ending, NEW stops, Round(ks, ending, stops)
    PROVE  core' \in [EngineIds -> MaybeCall] /\ produced' \in [EngineIds -> Nat]
<1>1. core' \in [EngineIds -> MaybeCall]
  <2>1. core' = Without(core, ending \cup stops)
    BY DEF Round
  <2> QED BY <2>1, WithTyped DEF MaybeCall
<1>2. produced' \in [EngineIds -> Nat]
  BY DEF Round
<1> QED BY <1>1, <1>2

LEMMA FinallyTyped ==
    ASSUME FrontTypes, NEW c \in Calls, Finally(c)
    PROVE  /\ ClientTypes' /\ queues' \in [Ids -> MaybeCall] /\ processor' \in ProcessorType
           /\ UNCHANGED <<transport, batch, proc, dead_error, to_client, reader, frames>>
<1>1. ChildIds(c) \in SUBSET EngineIds /\ IdOf[c] \in Ids
  BY IdsAreFinite, CallsAssumption
<1>2. processor' \in ProcessorType
  BY <1>1, AbortedIs DEF Finally, FrontTypes, AsyncTypeOK
<1>3. queues' \in [Ids -> MaybeCall]
  BY <1>1 DEF Finally, FrontTypes, AsyncTypeOK, MaybeCall
<1>4. ClientTypes /\ transport \in {"inproc", "mp", "dp", "ep"}
  BY TransportAssumption DEF FrontTypes, AsyncTypeOK, SocketTypes, ClientTypes
<1>5. CASE Alive
  <2>1. PICK es \in SUBSET EngineIds : es = LiveAmong(processor, ChildIds(c))
    BY <1>1 DEF LiveAmong
  <2>2. Abort(es)
    BY <1>5, <2>1 DEF Finally
  <2>3. UNCHANGED <<transport, batch, proc, dead_error, to_client, reader, frames>>
    BY <2>2 DEF Abort
  <2> QED BY <1>2, <1>3, <1>4, <2>2, <2>3, AbortTyped
<1>6. CASE ~Alive
  <2>1. UNCHANGED clientVars
    BY <1>6 DEF Finally
  <2> QED BY <1>2, <1>3, <1>4, <2>1 DEF clientVars, coreVars, socketVars, ClientTypes
<1> QED BY <1>5, <1>6

LEMMA CallStepTyped ==
    ASSUME FrontTypes, NEW c \in Calls, CallStep(c)
    PROVE  FrontTypes'
<1>1. ClientTypes /\ transport \in {"inproc", "mp", "dp", "ep"}
  BY TransportAssumption DEF FrontTypes, AsyncTypeOK, SocketTypes, ClientTypes
<1>2. ChildIds(c) \in SUBSET EngineIds /\ IdOf[c] \in Ids
  BY IdsAreFinite, CallsAssumption
<1>3. CASE Generate(c)
  <2>1. ClientTypes' /\ UNCHANGED <<transport, batch, proc, dead_error, to_client, reader, frames>>
    <3>1. Submit(ChildIds(c), c)
      BY <1>3 DEF Generate
    <3>2. UNCHANGED <<transport, batch, proc, dead_error, to_client, reader, frames>>
      BY <3>1 DEF Submit
    <3> QED BY <1>1, <1>2, <3>1, <3>2, SubmitTyped
  <2>2. processor' \in ProcessorType
    <3>1. processor \in ProcessorType
      BY DEF FrontTypes, AsyncTypeOK
    <3> QED BY <1>3, <3>1, AddedIs DEF Generate
  <2>3. queues' \in [Ids -> MaybeCall] /\ handler' \in {"none", "top", "stepping"}
    BY <1>2, <1>3 DEF Generate, FrontTypes, AsyncTypeOK, MaybeCall
  <2>4. phase' \in [Calls -> {"new", "waiting", "yielded", "last", "done"}] /\ UNCHANGED errored
    BY <1>3 DEF Generate, FrontTypes, AsyncTypeOK
  <2> QED BY <2>1, <2>2, <2>3, <2>4 DEF FrontTypes, AsyncTypeOK, SocketTypes, ClientTypes
<1>4. CASE GenerateRefused(c)
  BY <1>4 DEF GenerateRefused, FrontTypes, AsyncTypeOK, SocketTypes, clientVars, coreVars, socketVars
<1>5. CASE GenerateFails(c)
  <2>1. PICK k \in Indices(c) :
          LET added == {ChildId(c, j) : j \in {i \in Indices(c) : i < k}}
          IN  /\ processor' = AbortChildren(
                    AddRequests(processor, c, added \cup {ChildId(c, k)}, added), added)
              /\ Submit(added, c)
    BY <1>5 DEF GenerateFails
  <2>2. PICK added \in SUBSET ChildIds(c) : added = {ChildId(c, j) : j \in {i \in Indices(c) : i < k}}
    BY DEF ChildIds
  <2>3. PICK made \in SUBSET ChildIds(c) : made = added \cup {ChildId(c, k)}
    BY DEF ChildIds
  <2>4. processor' = AbortChildren(AddRequests(processor, c, made, added), added) /\ Submit(added, c)
    BY <2>1, <2>2, <2>3
  <2>5. ClientTypes' /\ UNCHANGED <<transport, batch, proc, dead_error, to_client, reader, frames>>
    <3>1. UNCHANGED <<transport, batch, proc, dead_error, to_client, reader, frames>>
      BY <2>4 DEF Submit
    <3> QED BY <1>1, <1>2, <2>4, <3>1, SubmitTyped
  <2>6. processor' \in ProcessorType
    <3>1. processor \in ProcessorType
      BY DEF FrontTypes, AsyncTypeOK
    <3>2. AddRequests(processor, c, made, added) \in ProcessorType
      BY <3>1, AddedIs
    <3> QED BY <1>2, <2>4, <3>2, AbortedIs
  <2>7. /\ phase' \in [Calls -> {"new", "waiting", "yielded", "last", "done"}]
        /\ UNCHANGED <<queues, handler, errored>>
    BY <1>5 DEF GenerateFails, FrontTypes, AsyncTypeOK
  <2> QED BY <2>5, <2>6, <2>7 DEF FrontTypes, AsyncTypeOK, SocketTypes, ClientTypes
<1>6. CASE Receive(c)
  BY <1>6 DEF Receive, FrontTypes, AsyncTypeOK, SocketTypes, clientVars, coreVars, socketVars
<1>7. CASE ReceiveError(c) \/ Close(c)
  <2>1. /\ Finally(c) /\ UNCHANGED <<handler, errored>>
        /\ phase' \in [Calls -> {"new", "waiting", "yielded", "last", "done"}]
    BY <1>7 DEF ReceiveError, Close, FrontTypes, AsyncTypeOK
  <2>2. /\ ClientTypes' /\ queues' \in [Ids -> MaybeCall] /\ processor' \in ProcessorType
        /\ UNCHANGED <<transport, batch, proc, dead_error, to_client, reader, frames>>
    BY <2>1, FinallyTyped
  <2> QED BY <2>1, <2>2 DEF FrontTypes, AsyncTypeOK, SocketTypes, ClientTypes
<1>8. CASE Resume(c)
  BY <1>8 DEF Resume, FrontTypes, AsyncTypeOK, SocketTypes, clientVars, coreVars, socketVars
<1> QED BY <1>3, <1>4, <1>5, <1>6, <1>7, <1>8 DEF CallStep

LEMMA AbortCallTyped ==
    ASSUME FrontTypes, NEW id \in Ids, AbortCall(id)
    PROVE  FrontTypes'
<1>1. ClientTypes /\ transport \in {"inproc", "mp", "dp", "ep"} /\ processor \in ProcessorType
  BY TransportAssumption DEF FrontTypes, AsyncTypeOK, SocketTypes, ClientTypes
<1>2. PICK es \in SUBSET EngineIds : es = Named(processor, id)
  BY <1>1, NamedHaveState
<1>3. processor' \in ProcessorType
  BY <1>1, AbortIdIs DEF AbortCall
<1>4. UNCHANGED <<phase, handler, errored>>
  BY DEF AbortCall
<1>5. CASE es # {} /\ ~Alive
  <2>1. UNCHANGED <<queues, clientVars>>
    BY <1>2, <1>5 DEF AbortCall
  <2> QED BY <1>3, <1>4, <2>1
      DEF FrontTypes, AsyncTypeOK, SocketTypes, clientVars, coreVars, socketVars
<1>6. CASE ~(es # {} /\ ~Alive)
  <2>1. Abort(es) /\ queues' = [queues EXCEPT ![id] = NoCall]
    BY <1>2, <1>6 DEF AbortCall
  <2>2. UNCHANGED <<transport, batch, proc, dead_error, to_client, reader, frames>>
    BY <2>1 DEF Abort
  <2>3. ClientTypes'
    BY <1>1, <2>1, AbortTyped
  <2>4. queues' \in [Ids -> MaybeCall]
    BY <2>1 DEF FrontTypes, AsyncTypeOK, MaybeCall
  <2> QED BY <1>3, <1>4, <2>2, <2>3, <2>4 DEF FrontTypes, AsyncTypeOK, SocketTypes, ClientTypes
<1> QED BY <1>5, <1>6

\* Fanning out what the requests that are held have produced.
LEMMA HeldFanOut ==
    ASSUME core \in [EngineIds -> MaybeCall], processor \in ProcessorType,
           NEW ending, NEW stops, NEW outs \in Seq(HeldOutputs(ending)),
           FanOut(EndedBy(outs, stops))
    PROVE  /\ processor' \in ProcessorType
           /\ ParentsKnown(processor) => ParentsKnown(processor')
           /\ \A e \in EngineIds :
                \/ processor'.request_states[e] = processor.request_states[e]
                \/ processor'.request_states[e] = NoCall /\ e \in ending \cup stops
<1>1. PICK q : q = ProcessOutputs(processor, EndedBy(outs, stops))
  OBVIOUS
<1>2. processor' = q.p
  BY <1>1 DEF FanOut
<1>3. q \in Progress
  BY <1>1, HeldProcessed
<1>4. ParentsKnown(processor) => ParentsKnown(q.p)
  BY <1>1, HeldProcessed
<1>5. \A e \in EngineIds :
        \/ q.p.request_states[e] = processor.request_states[e]
        \/ q.p.request_states[e] = NoCall /\ e \in ending \cup stops
  BY <1>1, HeldProcessed
<1>6. q.p \in ProcessorType
  BY <1>3 DEF Progress
<1> QED BY <1>2, <1>4, <1>5, <1>6

\* The same for a frame.
LEMMA FrameFanOut ==
    ASSUME processor \in ProcessorType, NEW outs \in Seq(Output), NEW stops,
           FanOut(EndedBy(outs, stops))
    PROVE  /\ processor' \in ProcessorType
           /\ ParentsKnown(processor) => ParentsKnown(processor')
           /\ \A e \in EngineIds :
                \/ processor'.request_states[e] = processor.request_states[e]
                \/ /\ processor'.request_states[e] = NoCall
                   /\ \E i \in DOMAIN outs : outs[i].eid = e /\ (outs[i].final \/ e \in stops)
<1>1. PICK ended \in Seq(Output) :
        /\ ended = EndedBy(outs, stops) /\ DOMAIN ended = DOMAIN outs
        /\ \A i \in DOMAIN outs :
             /\ ended[i].eid = outs[i].eid
             /\ ended[i].final <=> outs[i].final \/ outs[i].eid \in stops
  BY EndedByIs
<1>2. PICK q : q = ProcessOutputs(processor, ended)
  OBVIOUS
<1>3. processor' = q.p
  BY <1>1, <1>2 DEF FanOut
<1>4. /\ q \in Progress
      /\ ParentsKnown(processor) => ParentsKnown(q.p)
      /\ \A e \in EngineIds :
           \/ q.p.request_states[e] = processor.request_states[e]
           \/ /\ q.p.request_states[e] = NoCall
              /\ \E i \in DOMAIN ended : ended[i].eid = e /\ ended[i].final
  BY <1>2, Processed
<1>5. q.p \in ProcessorType
  BY <1>4 DEF Progress
<1> QED BY <1>1, <1>3, <1>4, <1>5

\* What the router says of requests lets the replicas' outputs be read from the core.
LEMMA RoundOutputs ==
    ASSUME FrontTypes, RouterInv, Replicated, NEW ending
    PROVE  Produced(ending) \in Seq(HeldOutputs(ending))
<1>1. ASSUME NEW e \in EngineIds, router.placed[e] \in Ranks PROVE core[e] # NoCall
  <2>1. router.placed[e] # NoRank
    BY <1>1, ReplicasAssumption DEF Ranks, NoRank
  <2> QED BY <2>1 DEF RouterInv, RoutingExact
<1> QED BY <1>1, ProducedByHeld DEF FrontTypes, AsyncTypeOK

LEMMA HandlerStepTyped ==
    ASSUME FrontTypes, RouterInv, HandlerStep
    PROVE  FrontTypes'
<1>1. core \in [EngineIds -> MaybeCall] /\ processor \in ProcessorType
  BY DEF FrontTypes, AsyncTypeOK
<1>2. CASE HandlerPolls
  <2>1. batch' \subseteq EngineIds \X Calls /\ cleanup' \in BOOLEAN
    <3>1. CASE transport = "inproc"
      <4>1. batch' = {<<e, core[e]>> : e \in Held} /\ cleanup' = FALSE
        BY <1>2, <3>1 DEF HandlerPolls
      <4>2. \A e \in Held : e \in EngineIds /\ core[e] \in Calls
        BY <1>1 DEF Held, MaybeCall
      <4>3. {<<e, core[e]>> : e \in Held} \subseteq EngineIds \X Calls
        <5> SUFFICES ASSUME NEW e \in Held PROVE <<e, core[e]>> \in EngineIds \X Calls
          OBVIOUS
        <5> QED BY <4>2
      <4> QED BY <4>1, <4>3
    <3>2. CASE transport # "inproc"
      BY <1>2, <3>2 DEF HandlerPolls, FrontTypes, AsyncTypeOK
    <3> QED BY <3>1, <3>2
  <2> QED BY <1>2, <2>1 DEF HandlerPolls, FrontTypes, AsyncTypeOK, SocketTypes, callVars, socketVars
<1>3. CASE HandlerReturns \/ HandlerGivesUp \/ HandlerDies
  <2>1. UNCHANGED <<phase, queues, processor, clientVars>> /\ handler' \in {"none", "top"} /\ errored' \in BOOLEAN
    BY <1>3 DEF HandlerReturns, HandlerGivesUp, HandlerDies, callVars, FrontTypes, AsyncTypeOK
  <2> QED BY <2>1 DEF FrontTypes, AsyncTypeOK, SocketTypes, clientVars, coreVars, socketVars
<1>4. CASE HandlerStepsInproc
  <2>1. PICK ran \in SUBSET Held : ran = {e \in Held : <<e, core[e]>> \in batch}
    OBVIOUS
  <2>2. PICK ending \in Endings(ran) :
          LET outs == Outputs(ran, ending)
          IN  \E stops \in SUBSET MayStop(outs) :
                   /\ FanOut(EndedBy(outs, stops))
                   /\ core' = Without(core, ending \cup stops)
                   /\ produced' = [e \in EngineIds |->
                                     IF e \in ending THEN 0
                                     ELSE IF e \in ran THEN produced[e] + 1 ELSE produced[e]]
                   /\ cleanup' = (cleanup \/ ending \cup stops # {})
    BY <1>4, <2>1 DEF HandlerStepsInproc
  <2>3. PICK outs \in Seq(HeldOutputs(ending)) : outs = Outputs(ran, ending)
    BY <1>1, OutputsOfHeld
  <2>4. PICK stops :
          /\ FanOut(EndedBy(outs, stops))
          /\ core' = Without(core, ending \cup stops)
          /\ produced' = [e \in EngineIds |->
                            IF e \in ending THEN 0
                            ELSE IF e \in ran THEN produced[e] + 1 ELSE produced[e]]
          /\ cleanup' = (cleanup \/ ending \cup stops # {})
    BY <2>2, <2>3
  <2>5. processor' \in ProcessorType
    BY <1>1, <2>4, HeldFanOut
  <2>6. core' \in [EngineIds -> MaybeCall]
    BY <1>1, <2>4, WithTyped DEF MaybeCall
  <2>7. produced' \in [EngineIds -> Nat] /\ cleanup' \in BOOLEAN
    BY <2>4 DEF FrontTypes, AsyncTypeOK
  <2>8. /\ UNCHANGED <<phase, queues, delivered, errored, transport, router, socketVars>>
        /\ batch' = {} /\ handler' = "top"
    BY <1>4 DEF HandlerStepsInproc
  <2> QED BY <2>5, <2>6, <2>7, <2>8 DEF FrontTypes, AsyncTypeOK, SocketTypes, socketVars
<1>5. CASE HandlerRounds
  <2>1. PICK ending \in Endings(Held) : \E stops \in SUBSET MayStop(Produced(ending)) :
          FanOut(EndedBy(Produced(ending), stops)) /\ Round(Ranks, ending, stops)
    BY <1>5 DEF HandlerRounds
  <2>2. PICK outs \in Seq(HeldOutputs(ending)) : outs = Produced(ending)
    BY <1>5, RoundOutputs DEF HandlerRounds
  <2>3. PICK stops : FanOut(EndedBy(outs, stops)) /\ Round(Ranks, ending, stops)
    BY <2>1, <2>2
  <2>4. processor' \in ProcessorType
    BY <1>1, <2>3, HeldFanOut
  <2>5. core' \in [EngineIds -> MaybeCall] /\ produced' \in [EngineIds -> Nat]
    BY <1>1, <2>3, RoundTyped DEF FrontTypes, AsyncTypeOK
  <2>6. UNCHANGED <<phase, queues, handler, errored, transport, cleanup, batch, socketVars>>
    BY <1>5, <2>3 DEF HandlerRounds, Round
  <2> QED BY <2>4, <2>5, <2>6 DEF FrontTypes, AsyncTypeOK, SocketTypes, socketVars
<1>6. CASE HandlerTakesFrame
  <2>1. frames \in Seq(Seq(Output)) /\ frames # <<>>
    BY <1>6 DEF HandlerTakesFrame, FrontTypes, SocketTypes
  <2>2. PICK outs \in Seq(Output) : outs = Head(frames)
    BY <2>1, HeadTailProperties
  <2>3. PICK stops \in SUBSET MayStop(outs) : FanOut(EndedBy(outs, stops)) /\ SendAbort(stops)
    BY <1>6, <2>2 DEF HandlerTakesFrame
  <2>4. processor' \in ProcessorType
    BY <1>1, <2>3, FrameFanOut
  <2>5. to_core' \in Seq(Message) /\ outstanding' \in Int
    <3>1. to_core \in Seq(Message) /\ outstanding \in Int
      BY DEF FrontTypes, AsyncTypeOK, SocketTypes
    <3>2. stops \in SUBSET EngineIds
      BY FramesAre
    <3> QED BY <2>3, <3>1, <3>2, SendAbortTyped
  <2>6. frames' \in Seq(Seq(Output))
    BY <1>6, <2>1, HeadTailProperties DEF HandlerTakesFrame
  <2>7. /\ UNCHANGED <<phase, queues, errored, transport, coreVars, to_client, reader, proc, dead_error>>
        /\ handler' = "top"
    BY <1>6 DEF HandlerTakesFrame
  <2> QED BY <2>4, <2>5, <2>6, <2>7 DEF FrontTypes, AsyncTypeOK, SocketTypes, coreVars
<1>7. CASE RoundDies
  <2>1. PICK ks, ending : Round(ks, ending, {})
    BY <1>7 DEF RoundDies
  <2>2. core' \in [EngineIds -> MaybeCall] /\ produced' \in [EngineIds -> Nat]
    BY <1>1, <2>1, RoundTyped DEF FrontTypes, AsyncTypeOK
  <2>3. /\ UNCHANGED <<phase, queues, processor, transport, cleanup, batch, socketVars>>
        /\ handler' = "none" /\ errored' = TRUE
    BY <1>7, <2>1 DEF RoundDies, Round
  <2> QED BY <2>2, <2>3 DEF FrontTypes, AsyncTypeOK, SocketTypes, socketVars
<1> QED BY <1>2, <1>3, <1>4, <1>5, <1>6, <1>7 DEF HandlerStep

LEMMA ProcessStepTyped ==
    ASSUME FrontTypes, Outside(ProcessStep)
    PROVE  FrontTypes'
<1>1. UNCHANGED <<phase, queues, processor, handler, errored, transport, batch>>
  BY DEF Outside, callVars, ProcessStep, CoreReceives, CoreSteps, CoreCrashes, CoreExits,
         ReaderTakes, ReaderPuts, coreVars
<1>2. core \in [EngineIds -> MaybeCall] /\ produced \in [EngineIds -> Nat] /\ to_core \in Seq(Message)
  BY DEF FrontTypes, AsyncTypeOK, SocketTypes
<1>3. to_client \in Seq(Seq(Output)) /\ reader \in Seq(Output) /\ frames \in Seq(Seq(Output))
  BY DEF FrontTypes, SocketTypes
<1>4. CASE CoreReceives
  <2>1. to_core' = Tail(to_core) /\ to_core # <<>>
    BY <1>4 DEF CoreReceives
  <2>2. to_core' \in Seq(Message)
    BY <1>2, <2>1, HeadTailProperties
  <2>3. PICK m \in Message : m = Head(to_core)
    BY <1>2, <2>1, HeadTailProperties
  <2>4. core' = WithRequests(core, m.eids, m.call) \/ core' = Without(core, m.eids)
    BY <1>4, <2>3 DEF CoreReceives
  <2>5. core' \in [EngineIds -> MaybeCall]
    <3>1. m.call \in MaybeCall
      BY DEF Message
    <3> QED BY <1>2, <2>4, <3>1, WithTyped
  <2>6. produced' \in [EngineIds -> Nat] /\ cleanup' \in BOOLEAN
    <3>1. CASE m.kind = "ADD"
      <4>1. produced' = [e \in EngineIds |-> IF e \in m.eids THEN 0 ELSE produced[e]] /\ UNCHANGED cleanup
        BY <1>4, <2>3, <3>1 DEF CoreReceives
      <4> QED BY <1>2, <4>1 DEF FrontTypes, AsyncTypeOK
    <3>2. CASE m.kind # "ADD"
      <4>1. UNCHANGED produced /\ cleanup' = (cleanup \/ m.eids \cap Held # {})
        BY <1>4, <2>3, <3>2 DEF CoreReceives
      <4> QED BY <1>2, <4>1 DEF FrontTypes, AsyncTypeOK
    <3> QED BY <3>1, <3>2
  <2>7. UNCHANGED <<to_client, reader, frames, outstanding, proc, dead_error>>
    BY <1>4 DEF CoreReceives
  <2> QED BY <1>1, <2>2, <2>5, <2>6, <2>7 DEF FrontTypes, AsyncTypeOK, SocketTypes
<1>5. CASE CoreSteps
  <2>1. PICK ending \in Endings(Held) :
         /\ core' = Without(core, ending)
         /\ produced' = [e \in EngineIds |-> IF e \in Held \ ending THEN produced[e] + 1 ELSE 0]
         /\ cleanup' = (ending # {})
         /\ to_client' = IF Held = {} THEN to_client ELSE Append(to_client, Outputs(Held, ending))
    BY <1>5 DEF CoreSteps
  <2>2. core' \in [EngineIds -> MaybeCall]
    BY <1>2, <2>1, WithTyped DEF MaybeCall
  <2>3. produced' \in [EngineIds -> Nat] /\ cleanup' \in BOOLEAN
    BY <1>2, <2>1
  <2>4. to_client' \in Seq(Seq(Output))
    <3>1. Outputs(Held, ending) \in Seq(HeldOutputs(ending))
      BY <1>2, OutputsOfHeld
    <3>2. Outputs(Held, ending) \in Seq(Output)
      BY <1>2, <3>1, HeldOutputsTyped, SeqMonotonic
    <3>3. Append(to_client, Outputs(Held, ending)) \in Seq(Seq(Output))
      BY <1>3, <3>2, AppendProperties
    <3> QED BY <1>3, <2>1, <3>3
  <2>5. UNCHANGED <<to_core, reader, frames, outstanding, proc, dead_error>>
    BY <1>5 DEF CoreSteps
  <2> QED BY <1>1, <2>2, <2>3, <2>4, <2>5 DEF FrontTypes, AsyncTypeOK, SocketTypes
<1>6. CASE CoreCrashes
  <2>1. PICK sent \in 0..Len(to_client) : \E last \in {<<>>, <<Dead>>} :
          to_client' = SubSeq(to_client, 1, sent) \o last
    BY <1>6 DEF CoreCrashes
  <2>2. PICK last \in {<<>>, <<Dead>>} : to_client' = SubSeq(to_client, 1, sent) \o last
    BY <2>1
  <2>3. to_client' \in Seq(Seq(Output))
    <3>1. SubSeq(to_client, 1, sent) \in Seq(Seq(Output))
      BY <1>3, SubSeqProperties
    <3>2. PICK dead \in Seq(Output) : dead = Dead
      BY EmptySeq DEF Dead
    <3>3. <<dead>> \in Seq(Seq(Output)) /\ <<>> \in Seq(Seq(Output))
      OBVIOUS
    <3>4. last \in Seq(Seq(Output))
      BY <3>2, <3>3
    <3> QED BY <2>2, <3>1, <3>4, ConcatProperties
  <2>4. /\ core' = Without(core, EngineIds) /\ produced' = [e \in EngineIds |-> 0]
        /\ cleanup' = FALSE /\ to_core' = <<>> /\ proc' = "crashed"
        /\ UNCHANGED <<reader, frames, outstanding, dead_error>>
    BY <1>6 DEF CoreCrashes
  <2>5. core' \in [EngineIds -> MaybeCall]
    BY <1>2, <2>4, WithTyped DEF MaybeCall
  <2> QED BY <1>1, <2>3, <2>4, <2>5, EmptySeq DEF FrontTypes, AsyncTypeOK, SocketTypes
<1>7. CASE CoreExits
  BY <1>1, <1>7 DEF CoreExits, FrontTypes, AsyncTypeOK, SocketTypes, coreVars
<1>8. CASE ReaderTakes
  <2>1. to_client # <<>> /\ to_client' = Tail(to_client) /\ UNCHANGED <<coreVars, to_core, frames, proc>>
    BY <1>8 DEF ReaderTakes
  <2>2. to_client' \in Seq(Seq(Output))
    BY <1>3, <2>1, HeadTailProperties
  <2>3. PICK outs \in Seq(Output) : outs = Head(to_client)
    BY <1>3, <2>1, HeadTailProperties
  <2>4. reader' \in Seq(Output) /\ outstanding' \in Int /\ dead_error' \in BOOLEAN
    <3>1. CASE outs = Dead
      BY <1>3, <1>8, <2>3, <3>1 DEF ReaderTakes, FrontTypes, AsyncTypeOK
    <3>2. CASE outs # Dead
      <4>1. reader' = outs /\ outstanding' = outstanding - NumFinal(outs) /\ UNCHANGED dead_error
        BY <1>8, <2>3, <3>2 DEF ReaderTakes
      <4>2. NumFinal(outs) \in Nat /\ outstanding \in Int /\ dead_error \in BOOLEAN
        BY FramesAre DEF FrontTypes, AsyncTypeOK
      <4> QED BY <4>1, <4>2
    <3> QED BY <3>1, <3>2
  <2> QED BY <1>1, <2>1, <2>2, <2>4 DEF FrontTypes, AsyncTypeOK, SocketTypes, coreVars
<1>9. CASE ReaderPuts
  <2>1. /\ frames' = Append(frames, reader) /\ reader' = <<>>
        /\ UNCHANGED <<coreVars, to_core, to_client, outstanding, proc, dead_error>>
    BY <1>9 DEF ReaderPuts
  <2>2. frames' \in Seq(Seq(Output)) /\ reader' \in Seq(Output)
    BY <1>3, <2>1, AppendProperties, EmptySeq
  <2> QED BY <1>1, <2>1, <2>2 DEF FrontTypes, AsyncTypeOK, SocketTypes, coreVars
<1> QED BY <1>4, <1>5, <1>6, <1>7, <1>8, <1>9 DEF Outside, ProcessStep

------------------------------------------------------------------------------
(* Calls, their queues and their states.                                    *)

CallsInv == QueuesInv /\ StatesInv

\* Only abort() by name makes an id free while its call is under way, and then no other
\* call has it: a new call meets no trace of an earlier one.
LEMMA FreeIdIsFresh ==
    ASSUME ReuseIsOrderly, FrontTypes, CallsInv, NEW c \in Calls,
           phase[c] = "new", ~InFlight(IdOf[c])
    PROVE  /\ \A d \in Calls : UnderWay(d) => IdOf[d] # IdOf[c]
           /\ Fresh(processor, c)
<1>1. ASSUME NEW d \in Calls, UnderWay(d), IdOf[d] = IdOf[c] PROVE FALSE
  <2>1. d # c
    BY <1>1 DEF UnderWay
  <2>2. IdOf[d] \notin AbortedIds
    BY <1>1, <2>1 DEF ReuseIsOrderly
  <2>3. queues[IdOf[d]] = d
    BY <1>1, <2>2 DEF CallsInv, QueuesInv
  <2> QED BY <1>1, <2>3, NoCallIsNone DEF InFlight
<1>2. ASSUME NEW e \in EngineIds, processor.request_states[e] # NoCall
      PROVE  IdOf[processor.request_states[e]] # IdOf[c]
  <2>1. processor.request_states[e] \in Calls
    BY <1>2, ProcessorIs DEF FrontTypes, AsyncTypeOK, MaybeCall
  <2>2. UnderWay(processor.request_states[e])
    BY <2>1 DEF CallsInv, StatesInv
  <2> QED BY <1>1, <2>1, <2>2
<1> QED BY <1>1, <1>2 DEF Fresh

\* A step that starts and ends no call, and forgets at most states.
LEMMA CallsGoOn ==
    ASSUME FrontTypes, CallsInv, UNCHANGED queues,
           \A c \in Calls : UnderWay(c)' <=> UnderWay(c),
           \A e \in EngineIds : processor'.request_states[e] \in
                                   {processor.request_states[e], NoCall}
    PROVE  CallsInv'
<1>1. QueuesInv'
  BY DEF CallsInv, QueuesInv, InFlight, FrontTypes, AsyncTypeOK, MaybeCall
<1>2. StatesInv'
  BY NoCallIsNone DEF CallsInv, StatesInv
<1> QED BY <1>1, <1>2 DEF CallsInv

LEMMA CallEnds ==
    ASSUME ReuseIsOrderly, FrontTypes, CallsInv, NEW c \in Calls, UnderWay(c),
           phase' = [phase EXCEPT ![c] = "done"], Finally(c)
    PROVE  CallsInv'
<1>1. processor \in ProcessorType /\ phase \in [Calls -> {"new", "waiting", "yielded", "last", "done"}]
  BY DEF FrontTypes, AsyncTypeOK
<1>2. queues \in [Ids -> MaybeCall] /\ IdOf[c] \in Ids /\ ChildIds(c) \in SUBSET EngineIds
  BY CallsAssumption, IdsAreFinite DEF FrontTypes, AsyncTypeOK
<1>3. queues' = [queues EXCEPT ![IdOf[c]] = NoCall]
  BY DEF Finally
<1>4. \A e \in EngineIds : processor'.request_states[e] =
          IF e \in ChildIds(c) THEN NoCall ELSE processor.request_states[e]
  BY <1>1, <1>2, AbortedState DEF Finally
<1>5. \A d \in Calls : UnderWay(d)' <=> UnderWay(d) /\ d # c
  BY <1>1 DEF UnderWay
<1>6. QueuesInv'
  <2>1. ASSUME NEW i \in Ids, InFlight(i)' PROVE IdOf[queues'[i]] = i /\ UnderWay(queues[i])'
    <3>1. queues'[i] = queues[i] /\ InFlight(i) /\ i # IdOf[c]
      BY <1>2, <1>3, <2>1 DEF InFlight
    <3>2. IdOf[queues[i]] = i /\ UnderWay(queues[i]) /\ queues[i] \in Calls
      BY <1>2, <3>1 DEF CallsInv, QueuesInv, MaybeCall, InFlight
    <3>3. UnderWay(queues[i])'
      BY <1>1, <3>1, <3>2 DEF UnderWay
    <3> QED BY <3>1, <3>2, <3>3
  <2>2. ASSUME NEW d \in Calls, UnderWay(d)' PROVE queues'[IdOf[d]] = d \/ IdOf[d] \in AbortedIds
    <3>1. UnderWay(d) /\ d # c /\ IdOf[d] \in Ids
      BY <1>5, <2>2, CallsAssumption
    <3>2. IdOf[d] # IdOf[c] \/ IdOf[d] \in AbortedIds
      <4> SUFFICES ASSUME IdOf[d] = IdOf[c], IdOf[d] \notin AbortedIds PROVE FALSE
        OBVIOUS
      <4> QED BY <3>1 DEF CallsInv, QueuesInv
    <3> QED BY <1>2, <1>3, <3>1, <3>2 DEF CallsInv, QueuesInv
  <2> QED BY <2>1, <2>2 DEF QueuesInv
<1>7. StatesInv'
  <2> SUFFICES ASSUME NEW e \in EngineIds, NEW d \in Calls, processor'.request_states[e] = d
               PROVE  UnderWay(d)' /\ e \in ChildIds(d)
    BY DEF StatesInv
  <2>1. e \notin ChildIds(c) /\ processor.request_states[e] = d
    BY <1>4, NoCallIsNone
  <2>2. UnderWay(d) /\ e \in ChildIds(d)
    BY <2>1 DEF CallsInv, StatesInv
  <2> QED BY <1>5, <2>1, <2>2
<1> QED BY <1>6, <1>7 DEF CallsInv

\* What GenerateFails does, named.
LEMMA FailedGenerate ==
    ASSUME NEW c \in Calls, GenerateFails(c)
    PROVE  \E made, added \in SUBSET ChildIds(c) :
              /\ IF added = {} THEN ~Alive ELSE Alive /\ proc = "crashed"
              /\ processor' = AbortChildren(AddRequests(processor, c, made, added), added)
              /\ Submit(added, c)
              /\ added \in {made, {}} \/ proc = "crashed"
<1>1. PICK k \in Indices(c) :
         LET added == {ChildId(c, j) : j \in {i \in Indices(c) : i < k}}
         IN  /\ IF added = {} THEN ~Alive ELSE Alive /\ proc = "crashed"
             /\ processor' = AbortChildren(
                    AddRequests(processor, c, added \cup {ChildId(c, k)}, added), added)
             /\ Submit(added, c)
  BY DEF GenerateFails
<1>2. PICK added \in SUBSET ChildIds(c) : added = {ChildId(c, j) : j \in {i \in Indices(c) : i < k}}
  BY DEF ChildIds
<1>3. PICK made \in SUBSET ChildIds(c) : made = added \cup {ChildId(c, k)}
  BY DEF ChildIds
<1>4. /\ IF added = {} THEN ~Alive ELSE Alive /\ proc = "crashed"
      /\ processor' = AbortChildren(AddRequests(processor, c, made, added), added)
      /\ Submit(added, c)
  BY <1>1, <1>2, <1>3
<1> QED BY <1>4

LEMMA CallStepCalls ==
    ASSUME ReuseIsOrderly, FrontTypes, CallsInv, NEW c \in Calls, CallStep(c)
    PROVE  CallsInv'
<1>1. processor \in ProcessorType /\ phase \in [Calls -> {"new", "waiting", "yielded", "last", "done"}]
  BY DEF FrontTypes, AsyncTypeOK
<1>2. queues \in [Ids -> MaybeCall] /\ IdOf[c] \in Ids /\ ChildIds(c) \in SUBSET EngineIds
  BY CallsAssumption, IdsAreFinite DEF FrontTypes, AsyncTypeOK
<1>3. CASE Generate(c)
  <2>1. /\ phase[c] = "new" /\ ~InFlight(IdOf[c])
        /\ phase' = [phase EXCEPT ![c] = "waiting"]
        /\ queues' = [queues EXCEPT ![IdOf[c]] = c]
        /\ processor' = AddRequests(processor, c, ChildIds(c), ChildIds(c))
    BY <1>3 DEF Generate
  <2>2. \A d \in Calls : UnderWay(d) => IdOf[d] # IdOf[c]
    BY <2>1, FreeIdIsFresh
  <2>3. \A e \in EngineIds : processor'.request_states[e] =
            IF e \in ChildIds(c) THEN c ELSE processor.request_states[e]
    <3>1. ChildIds(c) \in SUBSET ChildIds(c)
      OBVIOUS
    <3> QED BY <1>1, <2>1, <3>1, AddedState
  <2>4. \A d \in Calls : UnderWay(d)' <=> UnderWay(d) \/ d = c
    BY <1>1, <2>1 DEF UnderWay
  <2>5. QueuesInv'
    <3>1. ASSUME NEW i \in Ids, InFlight(i)' PROVE IdOf[queues'[i]] = i /\ UnderWay(queues[i])'
      <4>1. CASE i = IdOf[c]
        BY <1>1, <1>2, <2>1, <4>1 DEF UnderWay
      <4>2. CASE i # IdOf[c]
        <5>1. queues'[i] = queues[i] /\ InFlight(i)
          BY <1>2, <2>1, <3>1, <4>2 DEF InFlight
        <5>2. IdOf[queues[i]] = i /\ UnderWay(queues[i]) /\ queues[i] \in Calls
          BY <1>2, <5>1 DEF CallsInv, QueuesInv, MaybeCall, InFlight
        <5>3. UnderWay(queues[i])'
          BY <1>1, <2>1, <5>1, <5>2 DEF UnderWay
        <5> QED BY <5>1, <5>2, <5>3
      <4> QED BY <4>1, <4>2
    <3>2. ASSUME NEW d \in Calls, UnderWay(d)' PROVE queues'[IdOf[d]] = d \/ IdOf[d] \in AbortedIds
      <4>1. CASE d = c
        BY <1>2, <2>1, <4>1
      <4>2. CASE d # c
        BY <1>2, <2>1, <2>2, <2>4, <3>2, <4>2, CallsAssumption DEF CallsInv, QueuesInv
      <4> QED BY <4>1, <4>2
    <3> QED BY <3>1, <3>2 DEF QueuesInv
  <2>6. StatesInv'
    <3> SUFFICES ASSUME NEW e \in EngineIds, NEW d \in Calls, processor'.request_states[e] = d
                 PROVE  UnderWay(d)' /\ e \in ChildIds(d)
      BY DEF StatesInv
    <3>1. CASE e \in ChildIds(c)
      BY <2>3, <2>4, <3>1
    <3>2. CASE e \notin ChildIds(c)
      BY <2>3, <2>4, <3>2 DEF CallsInv, StatesInv
    <3> QED BY <3>1, <3>2
  <2> QED BY <2>5, <2>6 DEF CallsInv
<1>4. CASE GenerateRefused(c)
  <2>1. \A d \in Calls : UnderWay(d)' <=> UnderWay(d)
    BY <1>1, <1>4 DEF GenerateRefused, UnderWay
  <2> QED BY <1>4, <2>1, CallsGoOn DEF GenerateRefused
<1>5. CASE GenerateFails(c)
  <2>1. PICK made, added \in SUBSET ChildIds(c) :
          processor' = AbortChildren(AddRequests(processor, c, made, added), added)
    BY <1>5, FailedGenerate
  <2>2. PICK p : p = AddRequests(processor, c, made, added)
    OBVIOUS
  <2>3. p \in ProcessorType
    BY <1>1, <2>2, AddedIs
  <2>4. \A e \in EngineIds : p.request_states[e] =
            IF e \in added THEN c ELSE processor.request_states[e]
    BY <1>1, <2>2, AddedState
  <2>5. \A e \in EngineIds : processor'.request_states[e] =
            IF e \in added THEN NoCall ELSE p.request_states[e]
    <3>1. added \in SUBSET EngineIds
      BY <1>2
    <3> QED BY <2>1, <2>2, <2>3, <3>1, AbortedState
  <2>6. \A d \in Calls : UnderWay(d)' <=> UnderWay(d)
    BY <1>1, <1>5 DEF GenerateFails, UnderWay
  <2>7. \A e \in EngineIds : processor'.request_states[e] \in
                                  {processor.request_states[e], NoCall}
    BY <2>4, <2>5
  <2> QED BY <1>5, <2>6, <2>7, CallsGoOn DEF GenerateFails
<1>6. CASE Receive(c) \/ Resume(c)
  <2>1. \A d \in Calls : UnderWay(d)' <=> UnderWay(d)
    BY <1>1, <1>6 DEF Receive, Resume, UnderWay
  <2> QED BY <1>6, <2>1, CallsGoOn DEF Receive, Resume
<1>7. CASE ReceiveError(c) \/ Close(c)
  <2>1. UnderWay(c) /\ phase' = [phase EXCEPT ![c] = "done"] /\ Finally(c)
    BY <1>7 DEF ReceiveError, Close, UnderWay
  <2> QED BY <2>1, CallEnds
<1> QED BY <1>3, <1>4, <1>5, <1>6, <1>7 DEF CallStep

LEMMA AbortCallCalls ==
    ASSUME FrontTypes, CallsInv, NEW id \in Ids, AbortCall(id)
    PROVE  CallsInv'
<1>1. processor \in ProcessorType /\ queues \in [Ids -> MaybeCall]
  BY DEF FrontTypes, AsyncTypeOK
<1>2. id \in AbortedIds /\ UNCHANGED phase
      /\ (queues' = queues \/ queues' = [queues EXCEPT ![id] = NoCall])
  BY DEF AbortCall
<1>3. \A e \in EngineIds : processor'.request_states[e] =
         IF e \in Named(processor, id) THEN NoCall ELSE processor.request_states[e]
  <2>1. processor' = AbortId(processor, id)
    BY DEF AbortCall
  <2> QED BY <1>1, <2>1, AbortIdState
<1>4. QueuesInv'
  <2>1. \A i \in Ids : queues'[i] = queues[i] \/ (queues'[i] = NoCall /\ i = id)
    BY <1>1, <1>2
  <2>2. \A d \in Calls : UnderWay(d)' <=> UnderWay(d)
    BY <1>2 DEF UnderWay
  <2>3. \A i \in Ids : InFlight(i)' => queues'[i] = queues[i] /\ InFlight(i)
    BY <2>1 DEF InFlight
  <2> QED BY <1>1, <1>2, <2>1, <2>2, <2>3, CallsAssumption DEF CallsInv, QueuesInv, InFlight, MaybeCall
<1>5. StatesInv'
  BY <1>2, <1>3, NoCallIsNone DEF CallsInv, StatesInv, UnderWay
<1> QED BY <1>4, <1>5 DEF CallsInv

\* The output task starts and ends no call, and only forgets states.
LEMMA HandlerForgets ==
    ASSUME FrontTypes, RouterInv, HandlerStep
    PROVE  /\ UNCHANGED <<phase, queues, transport>>
           /\ \A e \in EngineIds : processor'.request_states[e] \in
                                      {processor.request_states[e], NoCall}
           /\ ParentsKnown(processor) => ParentsKnown(processor')
<1>1. core \in [EngineIds -> MaybeCall] /\ processor \in ProcessorType
  BY DEF FrontTypes, AsyncTypeOK
<1>2. UNCHANGED <<phase, queues, transport>>
  BY DEF HandlerStep, HandlerPolls, HandlerReturns, HandlerStepsInproc, HandlerRounds,
         HandlerTakesFrame, HandlerGivesUp, HandlerDies, RoundDies, Round, callVars, clientVars
<1>3. CASE HandlerPolls \/ HandlerReturns \/ HandlerGivesUp \/ HandlerDies \/ RoundDies
  <2>1. UNCHANGED processor
    BY <1>3 DEF HandlerPolls, HandlerReturns, HandlerGivesUp, HandlerDies, RoundDies
  <2> QED BY <1>2, <2>1
<1>4. CASE HandlerStepsInproc
  <2>1. PICK ran \in SUBSET Held : ran = {e \in Held : <<e, core[e]>> \in batch}
    OBVIOUS
  <2>2. PICK ending \in Endings(ran) : \E stops \in SUBSET MayStop(Outputs(ran, ending)) :
          FanOut(EndedBy(Outputs(ran, ending), stops))
    BY <1>4, <2>1 DEF HandlerStepsInproc
  <2>3. PICK outs \in Seq(HeldOutputs(ending)) : outs = Outputs(ran, ending)
    BY <1>1, OutputsOfHeld
  <2>4. PICK stops : FanOut(EndedBy(outs, stops))
    BY <2>2, <2>3
  <2> QED BY <1>1, <1>2, <2>4, HeldFanOut
<1>5. CASE HandlerRounds
  <2>1. PICK ending \in Endings(Held) : \E stops \in SUBSET MayStop(Produced(ending)) :
          FanOut(EndedBy(Produced(ending), stops))
    BY <1>5 DEF HandlerRounds
  <2>2. PICK outs \in Seq(HeldOutputs(ending)) : outs = Produced(ending)
    BY <1>5, RoundOutputs DEF HandlerRounds
  <2>3. PICK stops : FanOut(EndedBy(outs, stops))
    BY <2>1, <2>2
  <2> QED BY <1>1, <1>2, <2>3, HeldFanOut
<1>6. CASE HandlerTakesFrame
  <2>1. PICK outs \in Seq(Output) : outs = Head(frames)
    BY <1>6, HeadTailProperties DEF HandlerTakesFrame, FrontTypes, SocketTypes
  <2>2. PICK stops : FanOut(EndedBy(outs, stops))
    BY <1>6, <2>1 DEF HandlerTakesFrame
  <2> QED BY <1>1, <1>2, <2>2, FrameFanOut
<1> QED BY <1>3, <1>4, <1>5, <1>6 DEF HandlerStep

LEMMA ProcessKeeps ==
    ASSUME Outside(ProcessStep)
    PROVE  UNCHANGED <<phase, queues, mailbox, delivered, processor, handler, errored,
                       transport, batch, router>>
BY DEF Outside, callVars, ProcessStep, CoreReceives, CoreSteps, CoreCrashes, CoreExits,
       ReaderTakes, ReaderPuts, coreVars

LEMMA CallsStep ==
    ASSUME ReuseIsOrderly, FrontTypes, RouterInv, CallsInv, [AsyncNext]_avars
    PROVE  CallsInv'
<1>1. ASSUME NEW c \in Calls, CallStep(c) PROVE CallsInv'
  BY <1>1, CallStepCalls
<1>2. ASSUME NEW i \in Ids, AbortCall(i) PROVE CallsInv'
  BY <1>2, AbortCallCalls
<1>3. CASE HandlerStep
  <2>1. \A c \in Calls : UnderWay(c)' <=> UnderWay(c)
    BY <1>3, HandlerForgets DEF UnderWay
  <2> QED BY <1>3, <2>1, HandlerForgets, CallsGoOn
<1>4. CASE Outside(ProcessStep)
  <2>1. UNCHANGED <<phase, queues, processor>>
    BY <1>4, ProcessKeeps
  <2> QED BY <2>1, CallsGoOn DEF UnderWay
<1>5. CASE UNCHANGED avars
  BY <1>5, CallsGoOn DEF UnderWay, avars, callVars
<1> QED BY <1>1, <1>2, <1>3, <1>4, <1>5 DEF AsyncNext

------------------------------------------------------------------------------
(* The parents' books.                                                      *)

LEMMA ParentsStep ==
    ASSUME ReuseIsOrderly, FrontTypes, RouterInv, CallsInv, ParentsInv, [AsyncNext]_avars
    PROVE  ParentsInv'
<1> SUFFICES ASSUME proc' = "up" PROVE ParentsKnown(processor')
  BY DEF ParentsInv
<1>1. processor \in ProcessorType
  BY DEF FrontTypes, AsyncTypeOK
<1>2. ASSUME proc = "up" PROVE ParentsKnown(processor)
  BY <1>2 DEF ParentsInv
<1>3. ASSUME NEW c \in Calls, CallStep(c) PROVE ParentsKnown(processor')
  <2>1. UNCHANGED proc
    BY <1>3 DEF CallStep, Generate, GenerateRefused, GenerateFails, Receive, ReceiveError,
                Resume, Close, Finally, Submit, Abort, clientVars, socketVars
  <2>2. ParentsKnown(processor)
    BY <1>2, <2>1
  <2>3. ChildIds(c) \in SUBSET ChildIds(c) /\ ChildIds(c) \in SUBSET EngineIds
    BY IdsAreFinite
  <2>4. CASE Generate(c)
    <3>1. Fresh(processor, c)
      BY <2>4, FreeIdIsFresh DEF Generate
    <3>2. processor' = AddRequests(processor, c, ChildIds(c), ChildIds(c))
      BY <2>4 DEF Generate
    <3> QED BY <1>1, <2>2, <2>3, <3>1, <3>2, AddingKeepsParents
  <2>5. CASE GenerateFails(c)
    <3>1. Fresh(processor, c)
      BY <2>5, FreeIdIsFresh DEF GenerateFails
    <3>2. PICK made, added \in SUBSET ChildIds(c) :
              /\ processor' = AbortChildren(AddRequests(processor, c, made, added), added)
              /\ added \in {made, {}}
      BY <2>1, <2>5, FailedGenerate
    <3>3. AddRequests(processor, c, made, added) \in ProcessorType
      BY <1>1, AddedIs
    <3>4. ParentsKnown(AddRequests(processor, c, made, added))
      BY <1>1, <2>2, <3>1, <3>2, AddingKeepsParents
    <3>5. added \in SUBSET EngineIds
      BY <2>3
    <3> QED BY <3>2, <3>3, <3>4, <3>5, AbortingKeepsParents
  <2>6. CASE ReceiveError(c) \/ Close(c)
    <3>1. processor' = AbortChildren(processor, ChildIds(c))
      BY <2>6 DEF ReceiveError, Close, Finally
    <3> QED BY <1>1, <2>2, <2>3, <3>1, AbortingKeepsParents
  <2>7. CASE GenerateRefused(c) \/ Receive(c) \/ Resume(c)
    BY <2>2, <2>7 DEF GenerateRefused, Receive, Resume
  <2> QED BY <1>3, <2>4, <2>5, <2>6, <2>7 DEF CallStep
<1>4. ASSUME NEW i \in Ids, AbortCall(i) PROVE ParentsKnown(processor')
  <2>1. UNCHANGED proc
    BY <1>4 DEF AbortCall, Abort, clientVars, socketVars
  <2>2. processor' = AbortId(processor, i)
    BY <1>4 DEF AbortCall
  <2> QED BY <1>1, <1>2, <2>1, <2>2, AbortIdIs
<1>5. CASE HandlerStep
  <2>1. UNCHANGED proc
    BY <1>5 DEF HandlerStep, HandlerPolls, HandlerReturns, HandlerStepsInproc, HandlerRounds,
         HandlerTakesFrame, HandlerGivesUp, HandlerDies, RoundDies, Round, clientVars, socketVars
  <2> QED BY <1>2, <1>5, <2>1, HandlerForgets
<1>6. CASE Outside(ProcessStep)
  <2>1. proc = "up"
    BY <1>6 DEF Outside, ProcessStep, CoreReceives, CoreSteps, CoreCrashes, CoreExits,
                ReaderTakes, ReaderPuts
  <2> QED BY <1>2, <1>6, <2>1, ProcessKeeps
<1>7. CASE UNCHANGED avars
  BY <1>2, <1>7 DEF avars, clientVars, socketVars
<1> QED BY <1>3, <1>4, <1>5, <1>6, <1>7 DEF AsyncNext

------------------------------------------------------------------------------
(* The router's books.                                                      *)

Placement == [EngineIds -> Ranks \cup {NoRank}]

IsRouter(rt) ==
    rt \in [request_to_engine : Placement, engine_inflight : [Ranks -> Nat], placed : Placement,
            cleaning : {rt.cleaning}, passes : {rt.passes}]

\* What RoutingExact says of the router by itself.
Books(rt) ==
    /\ IsRouter(rt)
    /\ rt.request_to_engine = rt.placed
    /\ \A k \in Ranks : rt.engine_inflight[k] = Cardinality(PlacedAt(rt, k))

LEMMA NoRankIsNone == \A k \in Ranks : k # NoRank
BY ReplicasAssumption DEF Ranks, NoRank

LEMMA CountIsNat ==
    ASSUME NEW es \in SUBSET EngineIds
    PROVE  IsFiniteSet(es) /\ Cardinality(es) \in Nat
BY IdsAreFinite, FS_Subset, FS_CardinalityType

\* The requests among es that f puts at k.
At(f, es, k) == {e \in es : f[e] = k}

LEMMA CountMore ==
    ASSUME NEW pl, NEW pl2, NEW es \in SUBSET EngineIds, NEW to, NEW k \in Ranks,
           \A e \in es : pl[e] = NoRank,
           \A e \in EngineIds : pl2[e] = IF e \in es THEN to[e] ELSE pl[e]
    PROVE  Cardinality(At(pl2, EngineIds, k)) =
              Cardinality(At(pl, EngineIds, k)) + Cardinality(At(to, es, k))
<1> DEFINE S == {e \in EngineIds : pl[e] = k}
           T == {e \in es : to[e] = k}
<1>1. {e \in EngineIds : pl2[e] = k} = S \cup T
  BY NoRankIsNone
<1>2. S \cap T = {}
  BY NoRankIsNone
<1>3. /\ IsFiniteSet(S) /\ Cardinality(S) \in Nat
      /\ IsFiniteSet(T) /\ Cardinality(T) \in Nat
  <2>1. S \in SUBSET EngineIds /\ T \in SUBSET EngineIds
    OBVIOUS
  <2> HIDE DEF S, T
  <2> QED BY <2>1, CountIsNat
<1> HIDE DEF S, T
<1>4. Cardinality(S \cup T) = Cardinality(S) + Cardinality(T) - Cardinality(S \cap T)
  BY <1>3, FS_Union
<1>5. Cardinality(S \cap T) = 0
  BY <1>2, FS_EmptySet
<1>6. Cardinality(S \cup T) = Cardinality(S) + Cardinality(T)
  BY <1>3, <1>4, <1>5
<1> QED BY <1>1, <1>6 DEF S, T, At

LEMMA MaxWithZero ==
    ASSUME NEW n \in Nat
    PROVE  Max({0, n}) = n
<1>1. \E x \in {0, n} : \A y \in {0, n} : x >= y
  OBVIOUS
<1> DEFINE m == Max({0, n})
<1>2. m \in {0, n} /\ \A y \in {0, n} : m >= y
  BY <1>1 DEF Max
<1> HIDE DEF m
<1>3. m = n
  BY <1>2
<1> QED BY <1>3 DEF m

LEMMA CountLess ==
    ASSUME NEW pl, NEW pl2, NEW es \in SUBSET EngineIds, NEW k \in Ranks,
           \A e \in EngineIds : pl2[e] = IF e \in es THEN NoRank ELSE pl[e]
    PROVE  Cardinality(At(pl2, EngineIds, k)) =
              Max({0, Cardinality(At(pl, EngineIds, k))
                        - Cardinality(At(pl, es, k))})
<1> DEFINE S == {e \in EngineIds : pl[e] = k}
           T == {e \in es : pl[e] = k}
<1>1. {e \in EngineIds : pl2[e] = k} = S \ T
  BY NoRankIsNone
<1>2. S \cap T = T
  OBVIOUS
<1>3. /\ IsFiniteSet(S) /\ Cardinality(S) \in Nat
      /\ IsFiniteSet(T) /\ Cardinality(T) \in Nat
  <2>1. S \in SUBSET EngineIds /\ T \in SUBSET EngineIds
    OBVIOUS
  <2> HIDE DEF S, T
  <2> QED BY <2>1, CountIsNat
<1>4. (S \ T) \in SUBSET EngineIds
  OBVIOUS
<1> HIDE DEF S, T
<1>5. Cardinality(S \ T) = Cardinality(S) - Cardinality(S \cap T)
  BY <1>3, FS_Difference
<1>6. Cardinality(S \ T) = Cardinality(S) - Cardinality(T)
  BY <1>2, <1>5
<1>7. Cardinality(S \ T) \in Nat
  BY <1>4, CountIsNat
<1>8. Max({0, Cardinality(S) - Cardinality(T)}) = Cardinality(S) - Cardinality(T)
  BY <1>6, <1>7, MaxWithZero
<1>9. Cardinality(S \ T) = Max({0, Cardinality(S) - Cardinality(T)})
  BY <1>6, <1>8
<1> QED BY <1>1, <1>9 DEF S, T, At

LEMMA RouterIs ==
    ASSUME NEW rt, IsRouter(rt)
    PROVE  /\ rt.request_to_engine \in Placement /\ rt.placed \in Placement
           /\ rt.engine_inflight \in [Ranks -> Nat]
           /\ rt = [request_to_engine |-> rt.request_to_engine,
                    engine_inflight |-> rt.engine_inflight, placed |-> rt.placed,
                    cleaning |-> rt.cleaning, passes |-> rt.passes]
BY DEF IsRouter

\* A router made of its parts.
LEMMA RouterOf ==
    ASSUME NEW rt, NEW r \in Placement, NEW f \in [Ranks -> Nat], NEW p \in Placement, NEW cl, NEW ps,
           rt = [request_to_engine |-> r, engine_inflight |-> f, placed |-> p,
                 cleaning |-> cl, passes |-> ps]
    PROVE  IsRouter(rt) /\ rt.request_to_engine = r /\ rt.engine_inflight = f /\ rt.placed = p
BY DEF IsRouter

LEMMA NewRouterBooks == Books(NewRouter) /\ \A e \in EngineIds : NewRouter.placed[e] = NoRank
<1> DEFINE none == [e \in EngineIds |-> NoRank]
           zero == [k \in Ranks |-> 0]
<1>1. NewRouter = [request_to_engine |-> none, engine_inflight |-> zero, placed |-> none,
                   cleaning |-> {}, passes |-> zero]
  BY DEF NewRouter
<1>2. none \in Placement /\ zero \in [Ranks -> Nat]
  BY DEF Placement
<1>3. (\A e \in EngineIds : none[e] = NoRank) /\ (\A k \in Ranks : zero[k] = 0)
  OBVIOUS
<1> HIDE DEF none, zero
<1>4. /\ IsRouter(NewRouter) /\ NewRouter.request_to_engine = none
      /\ NewRouter.engine_inflight = zero /\ NewRouter.placed = none
  BY <1>1, <1>2, RouterOf
<1>5. ASSUME NEW k \in Ranks PROVE NewRouter.engine_inflight[k] = Cardinality(PlacedAt(NewRouter, k))
  <2>1. PlacedAt(NewRouter, k) = {}
    BY <1>3, <1>4, NoRankIsNone DEF PlacedAt
  <2>2. Cardinality(PlacedAt(NewRouter, k)) = 0
    BY <2>1, FS_EmptySet
  <2> QED BY <1>3, <1>4, <2>2
<1> QED BY <1>3, <1>4, <1>5 DEF Books

LEMMA RoutedBooks ==
    ASSUME NEW rt, Books(rt), NEW es \in SUBSET EngineIds, NEW to \in [es -> Ranks],
           \A e \in es : rt.placed[e] = NoRank,
           NEW rt2, rt2 = Routed(rt, to)
    PROVE  /\ Books(rt2)
           /\ \A e \in EngineIds : rt2.placed[e] = IF e \in es THEN to[e] ELSE rt.placed[e]
<1>1. PICK pl \in Placement : pl = rt.placed /\ pl = rt.request_to_engine
  BY RouterIs DEF Books
<1>2. PICK fl \in [Ranks -> Nat] : fl = rt.engine_inflight
  BY RouterIs DEF Books
<1>3. rt = [request_to_engine |-> pl, engine_inflight |-> fl, placed |-> pl,
            cleaning |-> rt.cleaning, passes |-> rt.passes]
  BY <1>1, <1>2, RouterIs DEF Books
<1> DEFINE pl2 == [e \in EngineIds |-> IF e \in DOMAIN to THEN to[e] ELSE pl[e]]
           fl2 == [k \in Ranks |-> fl[k] + Cardinality(At(to, DOMAIN to, k))]
<1>4. rt2 = [request_to_engine |-> pl2, engine_inflight |-> fl2, placed |-> pl2,
             cleaning |-> rt.cleaning, passes |-> rt.passes]
  <2>1. rt2 = [rt EXCEPT !.request_to_engine = pl2, !.placed = pl2, !.engine_inflight = fl2]
    BY <1>1, <1>2 DEF Routed, At
  <2> HIDE DEF pl2, fl2
  <2> QED BY <1>3, <2>1
<1>5. pl2 \in Placement
  BY DEF Placement
<1>6. fl2 \in [Ranks -> Nat]
  <2> SUFFICES ASSUME NEW k \in Ranks
               PROVE  fl[k] + Cardinality(At(to, es, k)) \in Nat
    OBVIOUS
  <2>1. At(to, es, k) \in SUBSET EngineIds
    BY DEF At
  <2>2. Cardinality(At(to, es, k)) \in Nat
    BY <2>1, CountIsNat
  <2> QED BY <2>2
<1>7. \A e \in EngineIds : pl2[e] = IF e \in es THEN to[e] ELSE pl[e]
  OBVIOUS
<1>8. \A k \in Ranks : fl2[k] = fl[k] + Cardinality(At(to, es, k))
  OBVIOUS
<1> HIDE DEF pl2, fl2
<1>9. /\ IsRouter(rt2) /\ rt2.request_to_engine = pl2
      /\ rt2.engine_inflight = fl2 /\ rt2.placed = pl2
  BY <1>4, <1>5, <1>6, RouterOf
<1>10. ASSUME NEW k \in Ranks PROVE rt2.engine_inflight[k] = Cardinality(PlacedAt(rt2, k))
  <2>1. Cardinality(At(pl2, EngineIds, k)) =
          Cardinality(At(pl, EngineIds, k)) + Cardinality(At(to, es, k))
    BY <1>1, <1>7, CountMore
  <2>2. fl[k] = Cardinality(At(pl, EngineIds, k))
    BY <1>1, <1>2 DEF Books, PlacedAt, At
  <2>3. Cardinality(PlacedAt(rt2, k)) = Cardinality(At(pl2, EngineIds, k))
    BY <1>9 DEF PlacedAt, At
  <2> QED BY <1>8, <1>9, <2>1, <2>2, <2>3
<1> QED BY <1>1, <1>7, <1>9, <1>10 DEF Books

\* What giving up the requests of es does to the books.
Dropped(rt, rt2, es) ==
    LET left(f) == [e \in EngineIds |-> IF e \in es THEN NoRank ELSE f[e]]
    IN  rt2 = [request_to_engine |-> left(rt.request_to_engine),
               engine_inflight   |->
                  [k \in Ranks |->
                     Max({0, rt.engine_inflight[k]
                               - Cardinality(At(rt.request_to_engine, es, k))})],
               placed            |-> left(rt.placed),
               cleaning          |-> rt2.cleaning,
               passes            |-> rt2.passes]

LEMMA DroppedBooks ==
    ASSUME NEW rt, Books(rt), NEW es \in SUBSET EngineIds, NEW rt2, Dropped(rt, rt2, es)
    PROVE  /\ Books(rt2)
           /\ \A e \in EngineIds : rt2.placed[e] = IF e \in es THEN NoRank ELSE rt.placed[e]
<1>1. PICK pl \in Placement : pl = rt.placed /\ pl = rt.request_to_engine
  BY RouterIs DEF Books
<1>2. PICK fl \in [Ranks -> Nat] : fl = rt.engine_inflight
  BY RouterIs DEF Books
<1> DEFINE pl2 == [e \in EngineIds |-> IF e \in es THEN NoRank ELSE pl[e]]
           fl2 == [k \in Ranks |-> Max({0, fl[k] - Cardinality(At(pl, es, k))})]
<1>3. rt2 = [request_to_engine |-> pl2, engine_inflight |-> fl2, placed |-> pl2,
             cleaning |-> rt2.cleaning, passes |-> rt2.passes]
  BY <1>1, <1>2 DEF Dropped
<1>4. pl2 \in Placement
  BY DEF Placement
<1>5. \A e \in EngineIds : pl2[e] = IF e \in es THEN NoRank ELSE pl[e]
  OBVIOUS
<1>6. ASSUME NEW k \in Ranks PROVE fl2[k] = Cardinality(At(pl2, EngineIds, k))
  <2>1. Cardinality(At(pl2, EngineIds, k)) =
          Max({0, Cardinality(At(pl, EngineIds, k))
                    - Cardinality(At(pl, es, k))})
    <3> HIDE DEF pl2
    <3> QED BY <1>5, CountLess
  <2>2. fl[k] = Cardinality(At(pl, EngineIds, k))
    BY <1>1, <1>2 DEF Books, PlacedAt, At
  <2> QED BY <2>1, <2>2
<1>7. fl2 \in [Ranks -> Nat]
  <2>1. \A k \in Ranks : fl2[k] \in Nat
    <3> SUFFICES ASSUME NEW k \in Ranks PROVE fl2[k] \in Nat
      OBVIOUS
    <3>1. At(pl2, EngineIds, k) \in SUBSET EngineIds
      BY DEF At
    <3> HIDE DEF pl2, fl2
    <3>2. Cardinality(At(pl2, EngineIds, k)) \in Nat
      BY <3>1, CountIsNat
    <3> QED BY <1>6, <3>2
  <2>2. fl2 = [k \in Ranks |-> fl2[k]]
    OBVIOUS
  <2> HIDE DEF fl2
  <2> QED BY <2>1, <2>2
<1> HIDE DEF pl2, fl2
<1>8. /\ IsRouter(rt2) /\ rt2.request_to_engine = pl2
      /\ rt2.engine_inflight = fl2 /\ rt2.placed = pl2
  BY <1>3, <1>4, <1>7, RouterOf
<1>9. \A k \in Ranks : Cardinality(PlacedAt(rt2, k)) = Cardinality(At(pl2, EngineIds, k))
  BY <1>8 DEF PlacedAt, At
<1> QED BY <1>1, <1>5, <1>6, <1>8, <1>9 DEF Books

LEMMA ReachedIs ==
    ASSUME NEW rt, Books(rt), NEW es \in SUBSET EngineIds
    PROVE  Reached(rt, es) = {e \in es : rt.placed[e] # NoRank}
BY DEF Reached, Books

LEMMA AbortedBooks ==
    ASSUME NEW rt, Books(rt), NEW es \in SUBSET EngineIds, NEW rt2, rt2 = AbortedAt(rt, es)
    PROVE  /\ Books(rt2)
           /\ \A e \in EngineIds : rt2.placed[e] = IF e \in es THEN NoRank ELSE rt.placed[e]
<1>1. PICK pl \in Placement : pl = rt.placed /\ pl = rt.request_to_engine
  BY RouterIs DEF Books
<1>2. PICK fl \in [Ranks -> Nat] : fl = rt.engine_inflight
  BY RouterIs DEF Books
<1>3. rt = [request_to_engine |-> pl, engine_inflight |-> fl, placed |-> pl,
            cleaning |-> rt.cleaning, passes |-> rt.passes]
  BY <1>1, <1>2, RouterIs DEF Books
<1>4. PICK gone : gone = Reached(rt, es)
  OBVIOUS
<1> DEFINE pl2 == [e \in EngineIds |-> IF e \in es THEN NoRank ELSE pl[e]]
           pl3 == [e \in EngineIds |-> IF e \in gone THEN NoRank ELSE pl[e]]
           fl2 == [k \in Ranks |-> Max({0, fl[k] - Cardinality(At(pl, es, k))})]
<1>5. pl3 = pl2
  <2>1. \A e \in EngineIds : e \in gone <=> (e \in es /\ pl[e] # NoRank)
    <3>1. Reached(rt, es) = {e \in es : rt.placed[e] # NoRank}
      BY ReachedIs
    <3> QED BY <1>1, <1>4, <3>1
  <2>2. \A e \in EngineIds : (IF e \in gone THEN NoRank ELSE pl[e])
                               = (IF e \in es THEN NoRank ELSE pl[e])
    BY <2>1
  <2> QED BY <2>2
<1>6. PICK rt3 : rt3 = Released(rt, es)
  OBVIOUS
<1>7. rt3 = [rt EXCEPT !.request_to_engine = pl2, !.engine_inflight = fl2]
  BY <1>1, <1>2, <1>6 DEF Released, At
<1>8. PICK rt4 : rt4 = Unplaced(rt3, gone)
  OBVIOUS
<1>9. rt3.placed = pl
  BY <1>3, <1>7
<1>10. rt4 = [rt3 EXCEPT !.placed = pl3]
  BY <1>8, <1>9 DEF Unplaced
<1>11. PICK cl2 : rt2 = [rt4 EXCEPT !.cleaning = cl2]
  BY <1>4, <1>6, <1>8 DEF AbortedAt
<1> HIDE DEF pl2, pl3, fl2
<1>12. rt2 = [request_to_engine |-> pl2, engine_inflight |-> fl2, placed |-> pl2,
              cleaning |-> rt2.cleaning, passes |-> rt2.passes]
  BY <1>3, <1>5, <1>7, <1>10, <1>11
<1>13. Dropped(rt, rt2, es)
  BY <1>1, <1>2, <1>12 DEF Dropped, pl2, fl2
<1> QED BY <1>13, DroppedBooks

LEMMA SteppedBooks ==
    ASSUME NEW rt, Books(rt), NEW lockstep, NEW ks, NEW es \in SUBSET EngineIds,
           NEW rt2, rt2 = Stepped(rt, lockstep, ks, es)
    PROVE  /\ Books(rt2)
           /\ \A e \in EngineIds : rt2.placed[e] = IF e \in es THEN NoRank ELSE rt.placed[e]
<1>1. PICK pl \in Placement : pl = rt.placed /\ pl = rt.request_to_engine
  BY RouterIs DEF Books
<1>2. PICK fl \in [Ranks -> Nat] : fl = rt.engine_inflight
  BY RouterIs DEF Books
<1>3. rt = [request_to_engine |-> pl, engine_inflight |-> fl, placed |-> pl,
            cleaning |-> rt.cleaning, passes |-> rt.passes]
  BY <1>1, <1>2, RouterIs DEF Books
<1> DEFINE pl2 == [e \in EngineIds |-> IF e \in es THEN NoRank ELSE pl[e]]
           fl2 == [k \in Ranks |-> Max({0, fl[k] - Cardinality(At(pl, es, k))})]
<1>4. PICK rt3 : rt3 = Released(rt, es)
  OBVIOUS
<1>5. rt3 = [rt EXCEPT !.request_to_engine = pl2, !.engine_inflight = fl2]
  BY <1>1, <1>2, <1>4 DEF Released, At
<1>6. PICK rt4 : rt4 = Unplaced(rt3, es)
  OBVIOUS
<1>7. rt3.placed = pl
  BY <1>3, <1>5
<1>8. rt4 = [rt3 EXCEPT !.placed = pl2]
  BY <1>6, <1>7 DEF Unplaced
<1>9. PICK cl2, ps2 : rt2 = [rt4 EXCEPT !.cleaning = cl2, !.passes = ps2]
  BY <1>4, <1>6 DEF Stepped
<1> HIDE DEF pl2, fl2
<1>10. rt2 = [request_to_engine |-> pl2, engine_inflight |-> fl2, placed |-> pl2,
              cleaning |-> rt2.cleaning, passes |-> rt2.passes]
  BY <1>3, <1>5, <1>8, <1>9
<1>11. Dropped(rt, rt2, es)
  BY <1>1, <1>2, <1>10 DEF Dropped, pl2, fl2
<1> QED BY <1>11, DroppedBooks

------------------------------------------------------------------------------
(* Without sockets the core, the router and the front end agree.            *)

Agreement == DirectInv /\ RouterInv /\ Books(router)

LEMMA AgreementIs ==
    ASSUME Agreement, transport # "mp"
    PROVE  /\ \A e \in EngineIds : core[e] # NoCall => processor.request_states[e] = core[e]
           /\ Replicated => \A e \in EngineIds : core[e] # NoCall <=> router.placed[e] # NoRank
           /\ ~Replicated => router = NewRouter
           /\ to_core = <<>> /\ to_client = <<>> /\ reader = <<>> /\ frames = <<>> /\ proc = "up"
BY DEF Agreement, DirectInv, RouterInv, RoutingExact

LEMMA AgreementFollows ==
    ASSUME Agreement, transport # "mp",
           UNCHANGED <<transport, to_core, to_client, reader, frames, proc>>,
           Books(router'),
           \A e \in EngineIds : core'[e] # NoCall => processor'.request_states[e] = core'[e],
           Replicated => \A e \in EngineIds : core'[e] # NoCall <=> router'.placed[e] # NoRank,
           ~Replicated => router' = NewRouter
    PROVE  Agreement'
<1>1. DirectInv'
  BY AgreementIs DEF DirectInv
<1>2. RouterInv'
  BY DEF RouterInv, RoutingExact, Books, Replicated
<1> QED BY <1>1, <1>2 DEF Agreement, Books, IsRouter

\* Nothing the agreement is about changes, but for states that are not the core's.
LEMMA AgreementStays ==
    ASSUME Agreement, transport # "mp",
           UNCHANGED <<transport, core, router, to_core, to_client, reader, frames, proc>>,
           \A e \in EngineIds : core[e] # NoCall =>
                processor'.request_states[e] = processor.request_states[e]
    PROVE  Agreement'
<1>1. Books(router')
  BY DEF Agreement, Books, IsRouter
<1> QED BY <1>1, AgreementIs, AgreementFollows

LEMMA WithoutIs ==
    ASSUME NEW k, NEW es, NEW e \in EngineIds
    PROVE  Without(k, es)[e] = IF e \in es THEN NoCall ELSE k[e]
BY DEF Without

LEMMA AbortAgreement ==
    ASSUME FrontTypes, Agreement, transport # "mp", NEW es \in SUBSET EngineIds, Abort(es),
           \A e \in EngineIds : e \notin es =>
                processor'.request_states[e] = processor.request_states[e]
    PROVE  Agreement'
<1>1. transport \in {"inproc", "dp", "ep"}
  BY TransportAssumption DEF FrontTypes, AsyncTypeOK
<1>2. UNCHANGED <<transport, to_core, to_client, reader, frames, proc>>
  BY <1>1 DEF Abort, Replicated
<1>3. CASE ~Replicated
  <2>1. core' = Without(core, es) /\ UNCHANGED router
    BY <1>1, <1>3 DEF Abort, Replicated
  <2>2. Books(router')
    BY <2>1 DEF Agreement, Books, IsRouter
  <2>3. \A e \in EngineIds : core'[e] # NoCall => processor'.request_states[e] = core'[e]
    BY <2>1, WithoutIs, AgreementIs
  <2> QED BY <1>2, <1>3, <2>1, <2>2, <2>3, AgreementIs, AgreementFollows
<1>4. CASE Replicated
  <2>1. core' = Without(core, Reached(router, es)) /\ router' = AbortedAt(router, es)
    BY <1>1, <1>4 DEF Abort, Replicated
  <2>2. Books(router)
    BY DEF Agreement
  <2>3. /\ Books(router')
        /\ \A e \in EngineIds : router'.placed[e] = IF e \in es THEN NoRank ELSE router.placed[e]
    BY <2>1, <2>2, AbortedBooks
  <2>4. \A e \in EngineIds : core'[e] = IF e \in es THEN NoCall ELSE core[e]
    <3>1. Reached(router, es) = {e \in es : router.placed[e] # NoRank}
      BY <2>2, ReachedIs
    <3> QED BY <1>4, <2>1, <3>1, WithoutIs, AgreementIs
  <2>5. \A e \in EngineIds : core'[e] # NoCall => processor'.request_states[e] = core'[e]
    BY <2>4, AgreementIs
  <2>6. \A e \in EngineIds : core'[e] # NoCall <=> router'.placed[e] # NoRank
    BY <1>4, <2>3, <2>4, AgreementIs
  <2> QED BY <1>2, <1>4, <2>3, <2>5, <2>6, AgreementFollows
<1> QED BY <1>3, <1>4

LEMMA RoundAgreement ==
    ASSUME FrontTypes, Agreement, transport # "mp", Replicated, NEW ks,
           NEW ending \in SUBSET EngineIds, NEW stops \in SUBSET EngineIds, Round(ks, ending, stops),
           \A e \in EngineIds : e \notin ending \cup stops =>
                processor'.request_states[e] = processor.request_states[e]
    PROVE  Agreement'
<1>1. core' = Without(core, ending \cup stops)
  BY DEF Round
<1>2. PICK rt : rt = Stepped(router, Lockstep, ks, ending)
  OBVIOUS
<1>3. router' = AbortedAt(rt, stops)
  BY <1>2 DEF Round
<1>4. Books(router)
  BY DEF Agreement
<1>5. /\ Books(rt)
      /\ \A e \in EngineIds : rt.placed[e] = IF e \in ending THEN NoRank ELSE router.placed[e]
  BY <1>2, <1>4, SteppedBooks
<1>6. /\ Books(router')
      /\ \A e \in EngineIds : router'.placed[e] = IF e \in stops THEN NoRank ELSE rt.placed[e]
  BY <1>3, <1>5, AbortedBooks
<1>7. \A e \in EngineIds : core'[e] = IF e \in ending \cup stops THEN NoCall ELSE core[e]
  BY <1>1, WithoutIs
<1>8. \A e \in EngineIds : core'[e] # NoCall => processor'.request_states[e] = core'[e]
  BY <1>7, AgreementIs
<1>9. \A e \in EngineIds : core'[e] # NoCall <=> router'.placed[e] # NoRank
  BY <1>5, <1>6, <1>7, AgreementIs
<1>10. UNCHANGED <<transport, to_core, to_client, reader, frames, proc>>
  BY DEF Round, socketVars
<1> QED BY <1>6, <1>8, <1>9, <1>10, AgreementFollows

LEMMA SubmitAgreement ==
    ASSUME FrontTypes, Agreement, transport # "mp", NEW c \in Calls, NEW es \in SUBSET EngineIds,
           Submit(es, c), \A e \in es : core[e] = NoCall,
           \A e \in EngineIds : processor'.request_states[e] =
                IF e \in es THEN c ELSE processor.request_states[e]
    PROVE  Agreement'
<1>1. core' = WithRequests(core, es, c)
  BY DEF Submit
<1>2. UNCHANGED <<transport, to_core, to_client, reader, frames, proc>>
  BY DEF Submit
<1>3. \A e \in EngineIds : core'[e] = IF e \in es THEN c ELSE core[e]
  BY <1>1 DEF WithRequests
<1>4. \A e \in EngineIds : core'[e] # NoCall => processor'.request_states[e] = core'[e]
  BY <1>3, AgreementIs
<1>5. CASE ~Replicated
  <2>1. UNCHANGED router
    BY <1>5 DEF Submit
  <2>2. Books(router')
    BY <2>1 DEF Agreement, Books, IsRouter
  <2> QED BY <1>2, <1>4, <1>5, <2>1, <2>2, AgreementIs, AgreementFollows
<1>6. CASE Replicated
  <2>1. PICK to \in Routings(router, es) : router' = Routed(router, to)
    BY <1>6 DEF Submit
  <2>2. to \in [es -> Ranks]
    BY DEF Routings
  <2>3. \A e \in es : router.placed[e] = NoRank
    BY <1>6, AgreementIs
  <2>4. Books(router)
    BY DEF Agreement
  <2>5. /\ Books(router')
        /\ \A e \in EngineIds : router'.placed[e] = IF e \in es THEN to[e] ELSE router.placed[e]
    BY <2>1, <2>2, <2>3, <2>4, RoutedBooks
  <2>6. \A e \in EngineIds : core'[e] # NoCall <=> router'.placed[e] # NoRank
    <3>1. c # NoCall
      BY NoCallIsNone
    <3>2. \A e \in es : to[e] # NoRank
      BY <2>2, NoRankIsNone
    <3> QED BY <1>3, <1>6, <2>5, <3>1, <3>2, AgreementIs
  <2> QED BY <1>2, <1>4, <1>6, <2>5, <2>6, AgreementFollows
<1> QED BY <1>5, <1>6

\* A new call's engine requests are not in the core.
LEMMA FreshInCore ==
    ASSUME FrontTypes, CallsInv, Agreement, transport # "mp", NEW c \in Calls, Fresh(processor, c),
           NEW e \in ChildIds(c)
    PROVE  core[e] = NoCall
<1> SUFFICES ASSUME core[e] # NoCall PROVE FALSE
  OBVIOUS
<1>1. e \in EngineIds
  BY IdsAreFinite
<1>2. core[e] \in Calls /\ processor.request_states[e] = core[e]
  BY <1>1, AgreementIs DEF FrontTypes, AsyncTypeOK, MaybeCall
<1>3. e \in ChildIds(core[e])
  BY <1>1, <1>2 DEF CallsInv, StatesInv
<1>4. IdOf[core[e]] = IdOf[c]
  BY <1>2, <1>3, ChildIs
<1> QED BY <1>1, <1>2, <1>4 DEF Fresh

LEMMA CallStepAgreement ==
    ASSUME ReuseIsOrderly, FrontTypes, CallsInv, Agreement, transport # "mp",
           NEW c \in Calls, CallStep(c)
    PROVE  Agreement'
<1>1. processor \in ProcessorType /\ ChildIds(c) \in SUBSET EngineIds
  BY IdsAreFinite DEF FrontTypes, AsyncTypeOK
<1>2. Alive
  BY DEF Alive
<1>3. CASE Generate(c)
  <2>1. /\ phase[c] = "new" /\ ~InFlight(IdOf[c])
        /\ processor' = AddRequests(processor, c, ChildIds(c), ChildIds(c))
        /\ Submit(ChildIds(c), c)
    BY <1>3 DEF Generate
  <2>2. \A e \in ChildIds(c) : core[e] = NoCall
    BY <2>1, FreeIdIsFresh, FreshInCore
  <2>3. \A e \in EngineIds : processor'.request_states[e] =
            IF e \in ChildIds(c) THEN c ELSE processor.request_states[e]
    <3>1. ChildIds(c) \in SUBSET ChildIds(c)
      OBVIOUS
    <3> QED BY <1>1, <2>1, <3>1, AddedState
  <2> QED BY <1>1, <2>1, <2>2, <2>3, SubmitAgreement
<1>4. CASE GenerateFails(c)
  <2>1. proc = "crashed"
    BY <1>2, <1>4, FailedGenerate
  <2> QED BY <2>1, AgreementIs
<1>5. CASE ReceiveError(c) \/ Close(c)
  <2>1. PICK es \in SUBSET EngineIds : es = LiveAmong(processor, ChildIds(c))
    BY <1>1 DEF LiveAmong
  <2>2. processor' = AbortChildren(processor, ChildIds(c)) /\ Abort(es)
    BY <1>2, <1>5, <2>1 DEF ReceiveError, Close, Finally
  <2>3. \A e \in EngineIds : processor'.request_states[e] =
            IF e \in ChildIds(c) THEN NoCall ELSE processor.request_states[e]
    BY <1>1, <2>2, AbortedState
  <2>4. \A e \in EngineIds : e \notin es =>
            processor'.request_states[e] = processor.request_states[e]
    BY <2>1, <2>3 DEF LiveAmong
  <2> QED BY <2>2, <2>4, AbortAgreement
<1>6. CASE GenerateRefused(c) \/ Receive(c) \/ Resume(c)
  <2>1. UNCHANGED <<processor, clientVars>>
    BY <1>6 DEF GenerateRefused, Receive, Resume
  <2> QED BY <2>1, AgreementStays DEF clientVars, coreVars, socketVars
<1> QED BY <1>3, <1>4, <1>5, <1>6 DEF CallStep

LEMMA AbortCallAgreement ==
    ASSUME FrontTypes, Agreement, transport # "mp", NEW id \in Ids, AbortCall(id)
    PROVE  Agreement'
<1>1. processor \in ProcessorType /\ Alive
  BY DEF FrontTypes, AsyncTypeOK, Alive
<1>2. PICK es \in SUBSET EngineIds : es = Named(processor, id)
  BY <1>1, NamedHaveState
<1>3. Abort(es) /\ processor' = AbortId(processor, id)
  BY <1>1, <1>2 DEF AbortCall
<1>4. \A e \in EngineIds : e \notin es =>
          processor'.request_states[e] = processor.request_states[e]
  BY <1>1, <1>2, <1>3, AbortIdState
<1> QED BY <1>3, <1>4, AbortAgreement

LEMMA HandlerAgreement ==
    ASSUME FrontTypes, Agreement, transport # "mp", HandlerStep
    PROVE  Agreement'
<1>1. core \in [EngineIds -> MaybeCall] /\ processor \in ProcessorType
  BY DEF FrontTypes, AsyncTypeOK
<1>2. CASE HandlerPolls \/ HandlerReturns \/ HandlerGivesUp \/ HandlerDies
  <2>1. UNCHANGED <<processor, transport, core, router, to_core, to_client, reader, frames, proc>>
    BY <1>2 DEF HandlerPolls, HandlerReturns, HandlerGivesUp, HandlerDies,
                clientVars, coreVars, socketVars
  <2> QED BY <2>1, AgreementStays
<1>3. CASE HandlerStepsInproc
  <2>1. PICK ran \in SUBSET Held : ran = {e \in Held : <<e, core[e]>> \in batch}
    OBVIOUS
  <2>2. PICK ending \in Endings(ran) : \E stops \in SUBSET MayStop(Outputs(ran, ending)) :
          FanOut(EndedBy(Outputs(ran, ending), stops)) /\ core' = Without(core, ending \cup stops)
    BY <1>3, <2>1 DEF HandlerStepsInproc
  <2>3. PICK outs \in Seq(HeldOutputs(ending)) : outs = Outputs(ran, ending)
    BY <1>1, OutputsOfHeld
  <2>4. PICK stops : FanOut(EndedBy(outs, stops)) /\ core' = Without(core, ending \cup stops)
    BY <2>2, <2>3
  <2>5. \A e \in EngineIds : e \notin ending \cup stops =>
            processor'.request_states[e] = processor.request_states[e]
    BY <1>1, <2>4, HeldFanOut
  <2>6. \A e \in EngineIds : core'[e] # NoCall => processor'.request_states[e] = core'[e]
    BY <2>4, <2>5, WithoutIs, AgreementIs
  <2>7. UNCHANGED <<transport, router, to_core, to_client, reader, frames, proc>>
    BY <1>3 DEF HandlerStepsInproc, socketVars
  <2>8. ~Replicated
    BY <1>3 DEF HandlerStepsInproc, Replicated
  <2>9. Books(router')
    BY <2>7 DEF Agreement, Books, IsRouter
  <2> QED BY <2>6, <2>7, <2>8, <2>9, AgreementIs, AgreementFollows
<1>4. CASE HandlerRounds
  <2>1. RouterInv /\ Replicated
    BY <1>4 DEF Agreement, HandlerRounds
  <2>2. PICK ending \in Endings(Held) : \E stops \in SUBSET MayStop(Produced(ending)) :
          FanOut(EndedBy(Produced(ending), stops)) /\ Round(Ranks, ending, stops)
    BY <1>4 DEF HandlerRounds
  <2>3. PICK outs \in Seq(HeldOutputs(ending)) : outs = Produced(ending)
    BY <2>1, RoundOutputs
  <2>4. PICK stops \in SUBSET MayStop(outs) :
          FanOut(EndedBy(outs, stops)) /\ Round(Ranks, ending, stops)
    BY <2>2, <2>3
  <2>5. ending \in SUBSET EngineIds /\ stops \in SUBSET EngineIds
    <3>1. outs \in Seq(Output)
      BY <1>1, HeldOutputsTyped, SeqMonotonic
    <3> QED BY <3>1, FramesAre DEF Endings, Held
  <2>6. \A e \in EngineIds : e \notin ending \cup stops =>
            processor'.request_states[e] = processor.request_states[e]
    BY <1>1, <2>4, HeldFanOut
  <2> QED BY <2>1, <2>4, <2>5, <2>6, RoundAgreement
<1>5. CASE HandlerTakesFrame
  BY <1>5 DEF HandlerTakesFrame
<1>6. CASE RoundDies
  <2>1. PICK k \in Working(router) : LET before == {j \in Ranks : j < k} IN
          \E ending \in Endings({e \in Held : router.placed[e] \in before}) : Round(before, ending, {})
    BY <1>6 DEF RoundDies
  <2>2. PICK before : \E ending \in Endings({e \in Held : router.placed[e] \in before}) :
          Round(before, ending, {})
    BY <2>1
  <2>3. PICK ending \in Endings({e \in Held : router.placed[e] \in before}) :
          Round(before, ending, {})
    BY <2>2
  <2>4. ending \in SUBSET EngineIds
    BY DEF Endings, Held
  <2>5. UNCHANGED processor /\ Replicated /\ {} \in SUBSET EngineIds
    BY <1>6 DEF RoundDies
  <2> QED BY <2>3, <2>4, <2>5, RoundAgreement
<1> QED BY <1>2, <1>3, <1>4, <1>5, <1>6 DEF HandlerStep

\* Sockets: nothing here is said of them, and the router is not used.
LEMMA OverSockets ==
    ASSUME Agreement, transport = "mp", [AsyncNext]_avars
    PROVE  Agreement'
<1>1. UNCHANGED <<transport, router>>
  <2>1. ASSUME NEW c \in Calls, CallStep(c) PROVE UNCHANGED <<transport, router>>
    BY <2>1 DEF CallStep, Generate, GenerateRefused, GenerateFails, Receive, ReceiveError,
                Resume, Close, Finally, Submit, Abort, Replicated, clientVars, coreVars
  <2>2. ASSUME NEW i \in Ids, AbortCall(i) PROVE UNCHANGED <<transport, router>>
    BY <2>2 DEF AbortCall, Abort, Replicated, clientVars, coreVars
  <2>3. HandlerStep => UNCHANGED <<transport, router>>
    BY DEF HandlerStep, HandlerPolls, HandlerReturns, HandlerStepsInproc, HandlerRounds,
         HandlerTakesFrame, HandlerGivesUp, HandlerDies, RoundDies, Replicated, clientVars, coreVars
  <2>4. Outside(ProcessStep) => UNCHANGED <<transport, router>>
    BY ProcessKeeps
  <2>5. UNCHANGED avars => UNCHANGED <<transport, router>>
    BY DEF avars, clientVars, coreVars
  <2> QED BY <2>1, <2>2, <2>3, <2>4, <2>5 DEF AsyncNext
<1>2. Books(router')
  BY <1>1 DEF Agreement, Books, IsRouter
<1>3. DirectInv'
  BY <1>1 DEF DirectInv
<1>4. RouterInv'
  BY <1>1 DEF Agreement, RouterInv, RoutingExact, Replicated
<1> QED BY <1>2, <1>3, <1>4 DEF Agreement, Books, IsRouter

LEMMA AgreementStep ==
    ASSUME ReuseIsOrderly, FrontTypes, CallsInv, Agreement, [AsyncNext]_avars
    PROVE  Agreement'
<1>1. CASE transport = "mp"
  BY <1>1, OverSockets
<1>2. CASE transport # "mp"
  <2>1. ASSUME NEW c \in Calls, CallStep(c) PROVE Agreement'
    BY <1>2, <2>1, CallStepAgreement
  <2>2. ASSUME NEW i \in Ids, AbortCall(i) PROVE Agreement'
    BY <1>2, <2>2, AbortCallAgreement
  <2>3. CASE HandlerStep
    BY <1>2, <2>3, HandlerAgreement
  <2>4. ~Outside(ProcessStep)
    BY <1>2, AgreementIs DEF Outside, ProcessStep, CoreReceives, CoreSteps, CoreCrashes, CoreExits,
                ReaderTakes, ReaderPuts
  <2>5. CASE UNCHANGED avars
    BY <1>2, <2>5, AgreementStays DEF avars, clientVars, coreVars, socketVars
  <2> QED BY <2>1, <2>2, <2>3, <2>4, <2>5 DEF AsyncNext
<1> QED BY <1>1, <1>2

------------------------------------------------------------------------------
(* The invariant of the front end, and what follows from it.                *)

FrontInv == FrontTypes /\ CallsInv /\ ParentsInv /\ Agreement

LEMMA EmptyProcessorIs ==
    /\ EmptyProcessor \in ProcessorType
    /\ \A e \in EngineIds : EmptyProcessor.request_states[e] = NoCall
    /\ ParentsKnown(EmptyProcessor)
<1>1. /\ \A e \in EngineIds : EmptyProcessor.request_states[e] = NoCall
      /\ \A i \in Ids : EmptyProcessor.parent_requests[i] = NoCall
  BY DEF EmptyProcessor
<1>2. EmptyProcessor \in ProcessorType
  BY DEF EmptyProcessor, ProcessorType, MaybeCall
<1>3. ParentsKnown(EmptyProcessor)
  BY <1>1, NoCallIsNone DEF ParentsKnown
<1> QED BY <1>1, <1>2, <1>3

LEMMA FrontInit == AsyncInit => FrontInv
<1> SUFFICES ASSUME AsyncInit PROVE FrontInv
  OBVIOUS
<1>1. processor = EmptyProcessor
  BY DEF AsyncInit
<1>2. FrontTypes
  <2>1. AsyncTypeOK
    <3>1. processor \in ProcessorType
      BY <1>1, EmptyProcessorIs
    <3>2. core \in [EngineIds -> MaybeCall] /\ queues \in [Ids -> MaybeCall]
      BY DEF AsyncInit, ClientInit, MaybeCall
    <3>3. /\ phase \in [Calls -> {"new", "waiting", "yielded", "last", "done"}]
          /\ produced \in [EngineIds -> Nat]
      BY DEF AsyncInit, ClientInit
    <3>4. batch \subseteq EngineIds \X Calls
      BY DEF AsyncInit, ClientInit
    <3>5. outstanding \in Int
      BY DEF AsyncInit, ClientInit
    <3>6. /\ transport \in Transports /\ proc \in {"up", "crashed", "exited"}
          /\ handler \in {"none", "top", "stepping"}
          /\ cleanup \in BOOLEAN /\ dead_error \in BOOLEAN /\ errored \in BOOLEAN
      BY Zenon DEF AsyncInit, ClientInit
    <3> QED BY <3>1, <3>2, <3>3, <3>4, <3>5, <3>6 DEF AsyncTypeOK
  <2>2. SocketTypes
    BY EmptySeq DEF AsyncInit, ClientInit, SocketTypes
  <2> QED BY <2>1, <2>2 DEF FrontTypes
<1>3. CallsInv
  <2>1. QueuesInv
    BY CallsAssumption DEF AsyncInit, QueuesInv, InFlight, UnderWay
  <2>2. StatesInv
    BY <1>1, EmptyProcessorIs, NoCallIsNone DEF StatesInv
  <2> QED BY <2>1, <2>2 DEF CallsInv
<1>4. ParentsInv
  BY <1>1, EmptyProcessorIs DEF ParentsInv
<1>5. Agreement
  <2>1. router = NewRouter /\ \A e \in EngineIds : core[e] = NoCall
    BY DEF AsyncInit, ClientInit
  <2>2. Books(router)
    BY <2>1, NewRouterBooks
  <2>3. DirectInv
    BY <2>1 DEF AsyncInit, ClientInit, DirectInv
  <2>4. RouterInv
    BY <2>1, <2>2, NewRouterBooks DEF RouterInv, RoutingExact, Books
  <2> QED BY <2>2, <2>3, <2>4 DEF Agreement
<1> QED BY <1>2, <1>3, <1>4, <1>5 DEF FrontInv

LEMMA FrontTypesStep ==
    ASSUME FrontTypes, RouterInv, [AsyncNext]_avars
    PROVE  FrontTypes'
<1>1. CASE UNCHANGED avars
  BY <1>1 DEF FrontTypes, AsyncTypeOK, SocketTypes, avars, callVars, clientVars, coreVars, socketVars
<1>2. ASSUME NEW c \in Calls, CallStep(c) PROVE FrontTypes'
  BY <1>2, CallStepTyped
<1>3. ASSUME NEW i \in Ids, AbortCall(i) PROVE FrontTypes'
  BY <1>3, AbortCallTyped
<1> QED BY <1>1, <1>2, <1>3, HandlerStepTyped, ProcessStepTyped DEF AsyncNext

LEMMA FrontStep == ReuseIsOrderly /\ FrontInv /\ [AsyncNext]_avars => FrontInv'
<1> SUFFICES ASSUME ReuseIsOrderly, FrontInv, [AsyncNext]_avars PROVE FrontInv'
  OBVIOUS
<1>1. FrontTypes /\ CallsInv /\ ParentsInv /\ Agreement /\ RouterInv
  BY DEF FrontInv, Agreement
<1>2. FrontTypes'
  BY <1>1, FrontTypesStep
<1>3. CallsInv'
  BY <1>1, CallsStep
<1>4. ParentsInv'
  BY <1>1, ParentsStep
<1>5. Agreement'
  BY <1>1, AgreementStep
<1> QED BY <1>2, <1>3, <1>4, <1>5 DEF FrontInv

LEMMA FrontInvariant == ReuseIsOrderly /\ AsyncSpec => []FrontInv
<1>1. ASSUME ReuseIsOrderly PROVE AsyncSpec => []FrontInv
  <2>1. FrontInv /\ [AsyncNext]_avars => FrontInv'
    BY <1>1, FrontStep
  <2> QED BY <2>1, FrontInit, PTL DEF AsyncSpec
<1> QED BY <1>1

\* Every variable keeps its type (AsyncLLM, CoreClient and the processor's books).
THEOREM FrontEndTypes == ReuseIsOrderly /\ AsyncSpec => []AsyncTypeOK
<1>1. FrontInv => AsyncTypeOK
  BY DEF FrontInv, FrontTypes
<1> QED BY <1>1, FrontInvariant, PTL

\* The router believes a request to be where it is and counts what each replica has
\* (dp_client.py), for any number of replicas and calls.
THEOREM RouterKeepsItsBooks == ReuseIsOrderly /\ AsyncSpec => []RoutingExact
<1>1. FrontInv => RoutingExact
  BY DEF FrontInv, Agreement, RouterInv
<1> QED BY <1>1, FrontInvariant, PTL

\* A parent is registered exactly while a child of its has state
\* (output_processor.py, parallel_sampling.py), as long as the engine lives.
THEOREM ParentsAreNeitherLostNorLeft == ReuseIsOrderly /\ AsyncSpec => []ParentsExact
<1>1. FrontInv => ParentsExact
  <2> SUFFICES ASSUME FrontInv, proc = "up", NEW i \in Ids, NEW c \in Calls
               PROVE  (processor.parent_requests[i] = c)
                         <=> (/\ IsParent(c) /\ IdOf[c] = i
                              /\ \E e \in EngineIds : processor.request_states[e] = c)
    BY DEF ParentsExact
  <2>1. ParentsKnown(processor)
    BY DEF FrontInv, ParentsInv
  <2>2. ASSUME processor.parent_requests[i] = c
        PROVE  /\ IsParent(c) /\ IdOf[c] = i
               /\ \E e \in EngineIds : processor.request_states[e] = c
    BY <2>1, <2>2, NoCallIsNone DEF ParentsKnown
  <2>3. ASSUME IsParent(c), IdOf[c] = i, NEW e \in EngineIds, processor.request_states[e] = c
        PROVE  processor.parent_requests[i] = c
    BY <2>1, <2>3 DEF ParentsKnown
  <2> QED BY <2>2, <2>3
<1> QED BY <1>1, FrontInvariant, PTL

------------------------------------------------------------------------------
(* Over sockets.                                                            *)

AbortOf(es) == [kind |-> "ABORT", eids |-> es, call |-> NoCall]

\* Calls only leave "new", and a retry does not over sockets.
LifeGoesOn ==
    /\ \A c \in Calls : phase[c] # "new" => phase'[c] # "new"
    /\ \A c \in Retries : phase'[c] = "new"

LEMMA OwnIdStays ==
    ASSUME LifeGoesOn, NEW e, NEW c, UnderOwnId(e, c)
    PROVE  UnderOwnId(e, c)'
BY DEF LifeGoesOn, UnderOwnId

\* To whom an engine request belongs is settled by its id.
LEMMA OneOwner ==
    ASSUME SocketsSeeNoReuse, \A c \in Retries : phase[c] = "new",
           NEW e, NEW c, NEW d \in Calls, UnderOwnId(e, c), e \in ChildIds(d), d \notin Retries
    PROVE  c = d
<1>1. c \in Calls /\ c \notin Retries /\ e \in ChildIds(c)
  BY DEF UnderOwnId
<1>2. IdOf[c] = IdOf[d]
  BY <1>1, ChildIs
<1> QED BY <1>1, <1>2 DEF SocketsSeeNoReuse

LEMMA QueueOf ==
    ASSUME FrontTypes
    PROVE  /\ Len(to_core) \in Nat /\ DOMAIN to_core = 1 .. Len(to_core)
           /\ \A i \in DOMAIN to_core : to_core[i] \in Message
<1>1. to_core \in Seq(Message)
  BY DEF FrontTypes, SocketTypes
<1> QED BY <1>1, LenProperties, ElementOfSeq

\* The front end forgets requests and, at once, sends the aborts of es.
LEMMA AbortsFollow ==
    ASSUME FrontTypes, SocketInv, transport = "mp", NEW es \in SUBSET EngineIds,
           UNCHANGED <<transport, core>>, LifeGoesOn,
           to_core' \in {to_core, Append(to_core, AbortOf(es))},
           \A e \in EngineIds :
              core[e] # NoCall \/ (\E i \in DOMAIN to_core : Adds(i, e)) =>
                 \/ processor'.request_states[e] = processor.request_states[e]
                 \/ e \in es /\ to_core' = Append(to_core, AbortOf(es)),
           \A f \in Unread' : f \in Unread \cup {<<>>},
           DeathInv'
    PROVE  SocketInv'
<1>1. AddsInv /\ CoreInv /\ UnreadInv
  BY DEF SocketInv
<1>2. to_core \in Seq(Message) /\ AbortOf(es) \in Message
  BY DEF FrontTypes, SocketTypes, Message, AbortOf, MaybeCall
<1>3. PICK n \in Nat : n = Len(to_core) /\ DOMAIN to_core = 1 .. n
  BY QueueOf
<1>4. to_core' = Append(to_core, AbortOf(es)) =>
         /\ DOMAIN to_core' = 1 .. (n + 1)
         /\ \A i \in 1 .. n : to_core'[i] = to_core[i]
         /\ to_core'[n + 1] = AbortOf(es)
  BY <1>2, <1>3, AppendProperties, LenProperties
<1>5. /\ DOMAIN to_core \subseteq DOMAIN to_core'
      /\ \A i \in DOMAIN to_core : to_core'[i] = to_core[i]
  BY <1>3, <1>4
<1>6. ASSUME NEW i \in DOMAIN to_core', NEW e \in EngineIds, Adds(i, e)'
      PROVE  i \in DOMAIN to_core /\ Adds(i, e)
  <2>1. CASE i \in DOMAIN to_core
    BY <1>5, <1>6, <2>1 DEF Adds
  <2>2. CASE i \notin DOMAIN to_core
    <3>1. to_core'[i] = AbortOf(es)
      BY <1>3, <1>4, <2>2
    <3> QED BY <1>6, <3>1 DEF Adds, AbortOf
  <2> QED BY <2>1, <2>2
<1>7. ASSUME NEW e \in es, to_core' = Append(to_core, AbortOf(es))
      PROVE  n + 1 \in DOMAIN to_core' /\ Drops(n + 1, e)'
  BY <1>4, <1>7 DEF Drops, AbortOf
<1>8. ASSUME NEW i \in DOMAIN to_core, NEW e, Drops(i, e)
      PROVE  i \in DOMAIN to_core' /\ Drops(i, e)'
  BY <1>5, <1>8 DEF Drops
<1>9. AddsInv'
  <2> SUFFICES ASSUME NEW i \in DOMAIN to_core', NEW e \in EngineIds, Adds(i, e)'
               PROVE  /\ UnderOwnId(e, to_core[i].call)' /\ core'[e] = NoCall
                      /\ \A j \in DOMAIN to_core' : Adds(j, e)' => j = i
                      /\ \/ processor'.request_states[e] = to_core'[i].call
                         \/ \E j \in DOMAIN to_core' : j > i /\ Drops(j, e)'
    BY DEF AddsInv
  <2>1. i \in DOMAIN to_core /\ Adds(i, e) /\ to_core'[i] = to_core[i]
    BY <1>5, <1>6
  <2>2. UnderOwnId(e, to_core[i].call) /\ core[e] = NoCall
    BY <1>1, <2>1 DEF AddsInv
  <2>3. UnderOwnId(e, to_core[i].call)'
    <3>1. PICK c : c = to_core[i].call /\ c = to_core'[i].call
      BY <2>1
    <3>2. UnderOwnId(e, c)'
      BY <2>2, <3>1, OwnIdStays
    <3> QED BY <3>1, <3>2 DEF UnderOwnId
  <2>4. \A j \in DOMAIN to_core' : Adds(j, e)' => j = i
    BY <1>1, <1>6, <2>1 DEF AddsInv
  <2>5. \/ processor'.request_states[e] = to_core'[i].call
        \/ \E j \in DOMAIN to_core' : j > i /\ Drops(j, e)'
    <3>1. CASE \E j \in DOMAIN to_core : j > i /\ Drops(j, e)
      BY <1>8, <3>1
    <3>2. CASE processor.request_states[e] = to_core[i].call
      <4>1. CASE processor'.request_states[e] = processor.request_states[e]
        BY <2>1, <3>2, <4>1
      <4>2. CASE e \in es /\ to_core' = Append(to_core, AbortOf(es))
        BY <1>3, <1>7, <2>1, <4>2
      <4> QED BY <2>1, <4>1, <4>2
    <3> QED BY <1>1, <2>1, <3>1, <3>2 DEF AddsInv
  <2> QED BY <2>2, <2>3, <2>4, <2>5
<1>10. CoreInv'
  <2> SUFFICES ASSUME NEW e \in EngineIds, core[e] # NoCall
               PROVE  /\ UnderOwnId(e, core[e])'
                      /\ processor'.request_states[e] = core[e] \/ AbortSent(e)'
    BY DEF CoreInv
  <2>1. UnderOwnId(e, core[e]) /\ (processor.request_states[e] = core[e] \/ AbortSent(e))
    BY <1>1 DEF CoreInv
  <2>2. UnderOwnId(e, core[e])'
    BY <2>1, OwnIdStays DEF UnderOwnId
  <2>3. processor'.request_states[e] = core[e] \/ AbortSent(e)'
    <3>1. CASE AbortSent(e)
      BY <1>5, <3>1 DEF AbortSent
    <3>2. CASE processor.request_states[e] = core[e]
      <4>1. CASE processor'.request_states[e] = processor.request_states[e]
        BY <3>2, <4>1
      <4>2. CASE e \in es /\ to_core' = Append(to_core, AbortOf(es))
        BY <1>7, <4>2 DEF AbortSent, Drops
      <4> QED BY <4>1, <4>2
    <3> QED BY <2>1, <3>1, <3>2
  <2> QED BY <2>2, <2>3
<1>11. UnreadInv'
  <2> SUFFICES ASSUME NEW f \in Unread', NEW m \in DOMAIN f
               PROVE  /\ UnderOwnId(f[m].eid, f[m].origin)'
                      /\ f[m].final => /\ core'[f[m].eid] = NoCall
                                       /\ \A i \in DOMAIN to_core' : ~Adds(i, f[m].eid)'
    BY DEF UnreadInv
  <2>1. f \in Unread
    OBVIOUS
  <2>2. UnderOwnId(f[m].eid, f[m].origin)
    BY <1>1, <2>1 DEF UnreadInv
  <2>3. f[m].eid \in EngineIds
    BY <2>2, IdsAreFinite DEF UnderOwnId
  <2>4. f[m].final => core[f[m].eid] = NoCall /\ \A i \in DOMAIN to_core : ~Adds(i, f[m].eid)
    BY <1>1, <2>1 DEF UnreadInv
  <2>5. UnderOwnId(f[m].eid, f[m].origin)'
    BY <2>2, OwnIdStays
  <2> QED BY <1>6, <2>3, <2>4, <2>5
<1> QED BY <1>9, <1>10, <1>11 DEF SocketInv, LifeGoesOn

LEMMA TailRange ==
    ASSUME NEW S, NEW s \in Seq(S), s # <<>>
    PROVE  Head(s) \in Range(s) /\ Range(Tail(s)) \subseteq Range(s)
<1>1. PICK n \in Nat : n = Len(s) /\ DOMAIN s = 1 .. n /\ n # 0
  BY LenProperties, EmptySeq
<1>2. /\ Tail(s) \in Seq(S) /\ Len(Tail(s)) = n - 1
      /\ \A i \in 1 .. Len(Tail(s)) : Tail(s)[i] = s[i + 1]
  BY <1>1, HeadTailProperties
<1>3. DOMAIN Tail(s) = 1 .. (n - 1)
  BY <1>2, LenProperties
<1>4. \A i \in 1 .. (n - 1) : i + 1 \in 1 .. n
  OBVIOUS
<1>5. Range(Tail(s)) \subseteq Range(s)
  BY <1>1, <1>2, <1>3, <1>4 DEF Range
<1>6. Head(s) = s[1] /\ 1 \in 1 .. n
  BY <1>1
<1> QED BY <1>1, <1>5, <1>6 DEF Range

LEMMA AppendRange ==
    ASSUME NEW S, NEW s \in Seq(S), NEW x \in S
    PROVE  Range(Append(s, x)) \subseteq Range(s) \cup {x}
<1>1. PICK n \in Nat : n = Len(s) /\ DOMAIN s = 1 .. n
  BY LenProperties
<1>2. /\ Append(s, x) \in Seq(S) /\ Len(Append(s, x)) = n + 1
      /\ \A i \in 1 .. n : Append(s, x)[i] = s[i]
      /\ Append(s, x)[n + 1] = x
  BY <1>1, AppendProperties
<1>3. DOMAIN Append(s, x) = 1 .. (n + 1)
  BY <1>2, LenProperties
<1>4. \A i \in 1 .. (n + 1) : i \in 1 .. n \/ i = n + 1
  OBVIOUS
<1> QED BY <1>1, <1>2, <1>3, <1>4 DEF Range

\* A dead process has nothing left.
LEMMA NothingIsLeft ==
    ASSUME FrontTypes, SocketInv, transport = "mp", UNCHANGED transport, LifeGoesOn,
           proc' # "up", to_core' = <<>>, \A e \in EngineIds : core'[e] = NoCall,
           \A f \in Unread' : f \in Unread \cup {<<>>}
    PROVE  SocketInv'
<1>1. DOMAIN to_core' = {}
  OBVIOUS
<1>2. AddsInv'
  BY <1>1 DEF AddsInv
<1>3. CoreInv'
  BY DEF CoreInv
<1>4. DeathInv'
  BY DEF DeathInv
<1>5. UnreadInv'
  <2> SUFFICES ASSUME NEW f \in Unread', NEW m \in DOMAIN f
               PROVE  UnderOwnId(f[m].eid, f[m].origin)' /\ core'[f[m].eid] = NoCall
    BY <1>1 DEF UnreadInv
  <2>1. f \in Unread
    OBVIOUS
  <2>2. UnderOwnId(f[m].eid, f[m].origin)
    BY <2>1 DEF SocketInv, UnreadInv
  <2>3. f[m].eid \in EngineIds
    BY <2>2, IdsAreFinite DEF UnderOwnId
  <2>4. UnderOwnId(f[m].eid, f[m].origin)'
    BY <2>2, OwnIdStays
  <2> QED BY <2>3, <2>4
<1> QED BY <1>2, <1>3, <1>4, <1>5 DEF SocketInv, LifeGoesOn

\* Nothing about the process or its sockets changes, nor any state it still matters for.
LEMMA SocketsStay ==
    ASSUME FrontTypes, SocketInv, transport = "mp", LifeGoesOn,
           UNCHANGED <<transport, core, to_core, to_client, reader, proc, dead_error>>,
           \A f \in Range(frames') : f \in Range(frames),
           \A e \in EngineIds :
              core[e] # NoCall \/ (\E i \in DOMAIN to_core : Adds(i, e)) =>
                 processor'.request_states[e] = processor.request_states[e]
    PROVE  SocketInv'
<1>1. DeathInv'
  BY DEF SocketInv, DeathInv
<1>2. \A f \in Unread' : f \in Unread \cup {<<>>}
  BY DEF Unread
<1> QED BY <1>1, <1>2, AbortsFollow

LEMMA PhaseGoesOn ==
    ASSUME FrontTypes, SocketInv, transport = "mp", UNCHANGED phase
    PROVE  LifeGoesOn
BY DEF LifeGoesOn, SocketInv

LEMMA CallGoesOn ==
    ASSUME FrontTypes, SocketInv, SocketsSeeNoReuse, transport = "mp", NEW c \in Calls,
           phase[c] = "new" => MayUse(c), NEW new, new # "new", phase' = [phase EXCEPT ![c] = new]
    PROVE  LifeGoesOn /\ c \notin Retries
<1>1. phase \in [Calls -> {"new", "waiting", "yielded", "last", "done"}]
  BY DEF FrontTypes, AsyncTypeOK
<1>2. \A d \in Retries : phase[d] = "new" /\ d \in Calls
  BY AsyncAssumption DEF SocketInv
<1>3. c \notin Retries
  BY <1>2 DEF MayUse, SocketsSeeNoReuse
<1> QED BY <1>1, <1>2, <1>3 DEF LifeGoesOn

\* The front end aborts es over the sockets, having forgotten no other request that counts.
LEMMA AbortOverSockets ==
    ASSUME FrontTypes, SocketInv, transport = "mp", NEW es \in SUBSET EngineIds, Abort(es), LifeGoesOn,
           \A e \in EngineIds : e \notin es =>
              processor'.request_states[e] = processor.request_states[e]
    PROVE  SocketInv'
<1>1. SendAbort(es) /\ UNCHANGED <<core, cleanup, router>>
  BY DEF Abort, Replicated
<1>2. UNCHANGED <<transport, to_client, reader, frames, proc, dead_error>>
  BY DEF Abort
<1>3. to_core \in Seq(Message) /\ AbortOf(es) \in Message
  BY DEF FrontTypes, SocketTypes, Message, AbortOf, MaybeCall
<1>4. CASE proc = "up"
  <2>1. DeathInv'
    BY <1>2, <1>4 DEF SocketInv, DeathInv
  <2>2. \A f \in Unread' : f \in Unread \cup {<<>>}
    BY <1>2 DEF Unread
  <2>3. CASE es = {}
    <3>1. UNCHANGED to_core
      BY <1>1, <2>3 DEF SendAbort
    <3> QED BY <1>1, <1>2, <2>1, <2>2, <2>3, <3>1, AbortsFollow
  <2>4. CASE es # {}
    <3>1. to_core' = Append(to_core, AbortOf(es))
      <4>1. to_core' = to_core \o <<AbortOf(es)>>
        BY <1>1, <1>4, <2>4 DEF SendAbort, Send, AbortOf
      <4> QED BY <1>3, <4>1, AppendIsConcat
    <3> QED BY <1>1, <1>2, <2>1, <2>2, <3>1, AbortsFollow
  <2> QED BY <2>3, <2>4
<1>5. CASE proc # "up"
  <2>1. to_core' = <<>> /\ \A e \in EngineIds : core'[e] = NoCall
    BY <1>1, <1>5 DEF SocketInv, DeathInv, SendAbort, Send
  <2>2. \A f \in Unread' : f \in Unread \cup {<<>>}
    BY <1>2 DEF Unread
  <2> QED BY <1>2, <1>5, <2>1, <2>2, NothingIsLeft
<1> QED BY <1>4, <1>5

\* Without a live process nothing more is said than that it has nothing.
LEMMA DeadClient ==
    ASSUME FrontTypes, SocketInv, transport = "mp", ~Alive
    PROVE  proc # "up" /\ to_core = <<>> /\ \A e \in EngineIds : core[e] = NoCall
BY DEF SocketInv, DeathInv, Alive

LEMMA FinallyOverSockets ==
    ASSUME FrontTypes, SocketInv, transport = "mp", NEW c \in Calls, Finally(c), LifeGoesOn
    PROVE  SocketInv'
<1>1. processor \in ProcessorType /\ ChildIds(c) \in SUBSET EngineIds
  BY IdsAreFinite DEF FrontTypes, AsyncTypeOK
<1>2. CASE Alive
  <2>1. PICK es \in SUBSET EngineIds : es = LiveAmong(processor, ChildIds(c))
    BY <1>1 DEF LiveAmong
  <2>2. processor' = AbortChildren(processor, ChildIds(c)) /\ Abort(es)
    BY <1>2, <2>1 DEF Finally
  <2>3. \A e \in EngineIds : processor'.request_states[e] =
            IF e \in ChildIds(c) THEN NoCall ELSE processor.request_states[e]
    BY <1>1, <2>2, AbortedState
  <2>4. \A e \in EngineIds : e \notin es =>
            processor'.request_states[e] = processor.request_states[e]
    BY <2>1, <2>3 DEF LiveAmong
  <2> QED BY <2>2, <2>4, AbortOverSockets
<1>3. CASE ~Alive
  <2>1. UNCHANGED clientVars
    BY <1>3 DEF Finally
  <2>2. UNCHANGED <<transport, proc, to_core, core, reader, to_client, frames>>
    BY <2>1 DEF clientVars, coreVars, socketVars
  <2>3. \A f \in Unread' : f \in Unread \cup {<<>>}
    BY <2>2 DEF Unread
  <2> QED BY <1>3, <2>2, <2>3, DeadClient, NothingIsLeft
<1> QED BY <1>2, <1>3

LEMMA AddMessagesQueue ==
    ASSUME NEW c \in Calls, NEW es \in SUBSET EngineIds, NEW ms, ms = SetToSeq(AddMessages(es, c))
    PROVE  /\ ms \in Seq(Message) /\ Len(ms) \in Nat /\ DOMAIN ms = 1 .. Len(ms)
           /\ \A i \in DOMAIN ms : \E e \in es : ms[i] = [kind |-> "ADD", eids |-> {e}, call |-> c]
           /\ \A i, j \in DOMAIN ms : ms[i] = ms[j] => i = j
<1>1. /\ ms \in Seq(AddMessages(es, c))
      /\ \A i, j \in DOMAIN ms : ms[i] = ms[j] => i = j
  BY AddMessagesAre, SetToSeqIs
<1>2. ms \in Seq(Message)
  BY <1>1, AddMessagesAre, SeqMonotonic
<1>3. Len(ms) \in Nat /\ DOMAIN ms = 1 .. Len(ms) /\ \A i \in DOMAIN ms : ms[i] \in AddMessages(es, c)
  BY <1>1, LenProperties, ElementOfSeq
<1> QED BY <1>1, <1>2, <1>3 DEF AddMessages

LEMMA GenerateOverSockets ==
    ASSUME FrontTypes, SocketInv, SocketsSeeNoReuse, transport = "mp", NEW c \in Calls, Generate(c)
    PROVE  SocketInv'
<1>1. processor \in ProcessorType /\ ChildIds(c) \in SUBSET EngineIds
  BY IdsAreFinite DEF FrontTypes, AsyncTypeOK
<1>2. /\ phase[c] = "new" /\ MayUse(c) /\ Alive /\ phase' = [phase EXCEPT ![c] = "waiting"]
      /\ processor' = AddRequests(processor, c, ChildIds(c), ChildIds(c))
      /\ Submit(ChildIds(c), c)
  BY DEF Generate
<1>3. LifeGoesOn /\ c \notin Retries
  BY <1>2, CallGoesOn
<1>4. \A e \in EngineIds : processor'.request_states[e] =
         IF e \in ChildIds(c) THEN c ELSE processor.request_states[e]
  <2>1. ChildIds(c) \in SUBSET ChildIds(c)
    OBVIOUS
  <2> QED BY <1>1, <1>2, <2>1, AddedState
<1>5. ASSUME NEW e \in ChildIds(c), NEW d PROVE ~UnderOwnId(e, d)
  <2> SUFFICES ASSUME UnderOwnId(e, d) PROVE FALSE
    OBVIOUS
  <2>1. d = c
    BY <1>3, OneOwner DEF SocketInv
  <2> QED BY <1>2, <2>1 DEF UnderOwnId
<1>6. AddsInv /\ CoreInv /\ UnreadInv /\ DeathInv
  BY DEF SocketInv
<1>7. UNCHANGED <<transport, core, reader, to_client, frames, proc, dead_error>>
  BY <1>2 DEF Submit, Replicated
<1>8. PICK ms : ms = SetToSeq(AddMessages(ChildIds(c), c))
  OBVIOUS
<1>9. Send(ms)
  BY <1>2, <1>8 DEF Submit, AddMessages
<1>10. CASE proc # "up"
  <2>1. to_core' = <<>> /\ \A e \in EngineIds : core'[e] = NoCall
    BY <1>6, <1>7, <1>9, <1>10 DEF Send, DeathInv
  <2>2. \A f \in Unread' : f \in Unread \cup {<<>>}
    BY <1>7 DEF Unread
  <2> QED BY <1>3, <1>7, <1>10, <2>1, <2>2, NothingIsLeft
<1>11. CASE proc = "up"
  <2>1. to_core' = to_core \o ms
    BY <1>9, <1>11 DEF Send
  <2>2. PICK n \in Nat : n = Len(to_core) /\ DOMAIN to_core = 1 .. n
    BY QueueOf
  <2>3. PICK m \in Nat : m = Len(ms) /\ DOMAIN ms = 1 .. m
    BY <1>1, <1>8, AddMessagesQueue
  <2>4. /\ DOMAIN to_core' = 1 .. (n + m)
        /\ \A i \in 1 .. n : to_core'[i] = to_core[i]
        /\ \A i \in 1 .. (n + m) : i > n => to_core'[i] = ms[i - n] /\ i - n \in 1 .. m
    <3>1. ms \in Seq(Message) /\ to_core \in Seq(Message)
      BY <1>1, <1>8, AddMessagesQueue DEF FrontTypes, SocketTypes
    <3> QED BY <2>1, <2>2, <2>3, <3>1, ConcatProperties, LenProperties
  <2>5. ASSUME NEW i \in DOMAIN to_core', i > n
        PROVE  \E e \in ChildIds(c) : to_core'[i] = [kind |-> "ADD", eids |-> {e}, call |-> c]
    BY <1>1, <1>8, <2>3, <2>4, <2>5, AddMessagesQueue
  <2>6. ASSUME NEW i \in DOMAIN to_core, NEW e, Adds(i, e) PROVE e \notin ChildIds(c)
    <3>1. e \in EngineIds
      BY <2>6, QueueOf DEF Adds, Message
    <3>2. UnderOwnId(e, to_core[i].call)
      BY <1>6, <2>6, <3>1 DEF AddsInv
    <3> QED BY <1>5, <3>2
  <2>7. AddsInv'
    <3> SUFFICES ASSUME NEW i \in DOMAIN to_core', NEW e \in EngineIds, Adds(i, e)'
                 PROVE  /\ UnderOwnId(e, to_core[i].call)' /\ core'[e] = NoCall
                        /\ \A j \in DOMAIN to_core' : Adds(j, e)' => j = i
                        /\ \/ processor'.request_states[e] = to_core'[i].call
                           \/ \E j \in DOMAIN to_core' : j > i /\ Drops(j, e)'
      BY DEF AddsInv
    <3>1. CASE i \in 1 .. n
      <4>1. i \in DOMAIN to_core /\ Adds(i, e) /\ to_core'[i] = to_core[i]
        BY <2>2, <2>4, <3>1 DEF Adds
      <4>2. e \notin ChildIds(c)
        BY <2>6, <4>1
      <4>3. PICK d : d = to_core[i].call
        OBVIOUS
      <4>4. UnderOwnId(e, d) /\ core[e] = NoCall
        BY <1>6, <4>1, <4>3 DEF AddsInv
      <4>5. UnderOwnId(e, to_core[i].call)'
        BY <1>3, <4>1, <4>3, <4>4, OwnIdStays DEF UnderOwnId
      <4>6. ASSUME NEW j \in DOMAIN to_core', Adds(j, e)' PROVE j = i
        <5>1. CASE j \in 1 .. n
          <6>1. j \in DOMAIN to_core /\ Adds(j, e)
            BY <2>2, <2>4, <4>6, <5>1 DEF Adds
          <6> QED BY <1>6, <4>1, <6>1 DEF AddsInv
        <5>2. CASE j \notin 1 .. n
          <6>1. j > n
            BY <2>4, <5>2
          <6> QED BY <2>5, <4>2, <4>6, <6>1 DEF Adds
        <5> QED BY <5>1, <5>2
      <4>7. \/ processor'.request_states[e] = to_core'[i].call
            \/ \E j \in DOMAIN to_core' : j > i /\ Drops(j, e)'
        <5>1. \/ processor.request_states[e] = to_core[i].call
              \/ \E j \in DOMAIN to_core : j > i /\ Drops(j, e)
          BY <1>6, <4>1 DEF AddsInv
        <5>2. CASE \E j \in DOMAIN to_core : j > i /\ Drops(j, e)
          <6>1. PICK j \in DOMAIN to_core : j > i /\ Drops(j, e)
            BY <5>2
          <6>2. j \in DOMAIN to_core' /\ Drops(j, e)'
            BY <2>2, <2>4, <6>1 DEF Drops
          <6> QED BY <6>1, <6>2
        <5> QED BY <1>4, <4>1, <4>2, <5>1, <5>2
      <4> QED BY <1>7, <4>4, <4>5, <4>6, <4>7
    <3>2. CASE i \notin 1 .. n
      <4>1. i > n /\ to_core'[i] = ms[i - n] /\ i - n \in 1 .. m
        BY <2>4, <3>2
      <4>2. PICK x \in ChildIds(c) : to_core'[i] = [kind |-> "ADD", eids |-> {x}, call |-> c]
        BY <2>5, <4>1
      <4>3. x = e
        BY <4>2 DEF Adds
      <4>4. UnderOwnId(e, to_core[i].call)'
        <5>1. to_core'[i].call = c /\ phase'[c] # "new"
          BY <1>2, <4>2 DEF FrontTypes, AsyncTypeOK
        <5> QED BY <4>2, <4>3, <5>1 DEF UnderOwnId
      <4>5. core[e] = NoCall
        <5> SUFFICES ASSUME core[e] # NoCall PROVE FALSE
          OBVIOUS
        <5> QED BY <1>5, <1>6, <4>2, <4>3 DEF CoreInv
      <4>6. ASSUME NEW j \in DOMAIN to_core', Adds(j, e)' PROVE j = i
        <5>1. CASE j \in 1 .. n
          <6>1. j \in DOMAIN to_core /\ Adds(j, e)
            BY <2>2, <2>4, <4>6, <5>1 DEF Adds
          <6> QED BY <2>6, <4>3, <6>1
        <5>2. CASE j \notin 1 .. n
          <6>1. j > n /\ to_core'[j] = ms[j - n] /\ j - n \in 1 .. m
            BY <2>4, <5>2
          <6>2. PICK y \in ChildIds(c) : to_core'[j] = [kind |-> "ADD", eids |-> {y}, call |-> c]
            BY <2>5, <6>1
          <6>3. y = e
            BY <4>6, <6>2 DEF Adds
          <6>4. ms[i - n] = ms[j - n]
            BY <4>1, <4>2, <4>3, <6>1, <6>2, <6>3
          <6>5. i - n = j - n
            BY <1>1, <1>8, <2>3, <4>1, <6>1, <6>4, AddMessagesQueue
          <6> QED BY <2>4, <6>5
        <5> QED BY <5>1, <5>2
      <4>7. processor'.request_states[e] = to_core'[i].call
        BY <1>4, <4>2, <4>3
      <4> QED BY <1>7, <4>4, <4>5, <4>6, <4>7
    <3> QED BY <3>1, <3>2
  <2>8. CoreInv'
    <3> SUFFICES ASSUME NEW e \in EngineIds, core[e] # NoCall
                 PROVE  /\ UnderOwnId(e, core[e])'
                        /\ processor'.request_states[e] = core[e] \/ AbortSent(e)'
      BY <1>7 DEF CoreInv
    <3>1. UnderOwnId(e, core[e]) /\ (processor.request_states[e] = core[e] \/ AbortSent(e))
      BY <1>6 DEF CoreInv
    <3>2. e \notin ChildIds(c)
      BY <1>5, <3>1
    <3>3. UnderOwnId(e, core[e])'
      BY <1>3, <1>7, <3>1, OwnIdStays DEF UnderOwnId
    <3>4. AbortSent(e) => AbortSent(e)'
      BY <2>2, <2>4 DEF AbortSent
    <3> QED BY <1>4, <3>1, <3>2, <3>3, <3>4
  <2>9. UnreadInv'
    <3> SUFFICES ASSUME NEW f \in Unread', NEW k \in DOMAIN f
                 PROVE  /\ UnderOwnId(f[k].eid, f[k].origin)'
                        /\ f[k].final => /\ core'[f[k].eid] = NoCall
                                         /\ \A i \in DOMAIN to_core' : ~Adds(i, f[k].eid)'
      BY DEF UnreadInv
    <3>1. f \in Unread
      BY <1>7 DEF Unread
    <3>2. UnderOwnId(f[k].eid, f[k].origin)
      BY <1>6, <3>1 DEF UnreadInv
    <3>3. f[k].final => core[f[k].eid] = NoCall /\ \A i \in DOMAIN to_core : ~Adds(i, f[k].eid)
      BY <1>6, <3>1 DEF UnreadInv
    <3>4. f[k].eid \notin ChildIds(c)
      BY <1>5, <3>2
    <3>5. UnderOwnId(f[k].eid, f[k].origin)'
      BY <1>3, <3>2, OwnIdStays
    <3>6. ASSUME f[k].final, NEW i \in DOMAIN to_core', Adds(i, f[k].eid)' PROVE FALSE
      <4>1. CASE i \in 1 .. n
        BY <2>2, <2>4, <3>3, <3>6, <4>1 DEF Adds
      <4>2. CASE i \notin 1 .. n
        <5>1. i > n
          BY <2>4, <4>2
        <5> QED BY <2>5, <3>4, <3>6, <5>1 DEF Adds
      <4> QED BY <4>1, <4>2
    <3> QED BY <1>7, <3>3, <3>5, <3>6
  <2>10. DeathInv'
    BY <1>6, <1>7, <1>11 DEF DeathInv
  <2> QED BY <1>3, <2>7, <2>8, <2>9, <2>10 DEF SocketInv, LifeGoesOn
<1> QED BY <1>10, <1>11

LEMMA CallStepSockets ==
    ASSUME FrontTypes, SocketInv, SocketsSeeNoReuse, transport = "mp", NEW c \in Calls, CallStep(c)
    PROVE  SocketInv'
<1>1. CASE Generate(c)
  BY <1>1, GenerateOverSockets
<1>2. CASE GenerateRefused(c) \/ Receive(c) \/ Resume(c)
  <2>1. UNCHANGED <<processor, clientVars>>
    BY <1>2 DEF GenerateRefused, Receive, Resume
  <2>2. UNCHANGED <<transport, core, to_core, to_client, reader, proc, dead_error, frames>>
    BY <2>1 DEF clientVars, coreVars, socketVars
  <2>3. LifeGoesOn
    <3>1. PICK new : phase' = [phase EXCEPT ![c] = new] /\ new # "new"
      BY <1>2 DEF GenerateRefused, Receive, Resume
    <3>2. phase[c] = "new" => MayUse(c)
      BY <1>2 DEF GenerateRefused, Receive, Resume
    <3> QED BY <3>1, <3>2, CallGoesOn
  <2> QED BY <2>1, <2>2, <2>3, SocketsStay
<1>3. CASE GenerateFails(c)
  <2>1. PICK made, added \in SUBSET ChildIds(c) :
              /\ IF added = {} THEN ~Alive ELSE Alive /\ proc = "crashed"
              /\ Submit(added, c)
    BY <1>3, FailedGenerate
  <2>2. proc # "up" /\ to_core = <<>> /\ \A e \in EngineIds : core[e] = NoCall
    BY <2>1, DeadClient DEF SocketInv, DeathInv
  <2>3. UNCHANGED <<transport, core, reader, to_client, frames, proc>>
    BY <2>1 DEF Submit, Replicated
  <2>4. to_core' = <<>>
    BY <2>1, <2>2 DEF Submit, Send
  <2>5. LifeGoesOn
    <3>1. phase' = [phase EXCEPT ![c] = "done"] /\ MayUse(c)
      BY <1>3 DEF GenerateFails
    <3> QED BY <3>1, CallGoesOn
  <2>6. \A f \in Unread' : f \in Unread \cup {<<>>}
    BY <2>3 DEF Unread
  <2> QED BY <2>2, <2>3, <2>4, <2>5, <2>6, NothingIsLeft
<1>4. CASE ReceiveError(c) \/ Close(c)
  <2>1. Finally(c) /\ phase' = [phase EXCEPT ![c] = "done"] /\ phase[c] # "new"
    BY <1>4 DEF ReceiveError, Close
  <2>2. LifeGoesOn
    BY <2>1, CallGoesOn
  <2> QED BY <2>1, <2>2, FinallyOverSockets
<1> QED BY <1>1, <1>2, <1>3, <1>4 DEF CallStep

LEMMA AbortCallSockets ==
    ASSUME FrontTypes, SocketInv, transport = "mp", NEW id \in Ids, AbortCall(id)
    PROVE  SocketInv'
<1>1. processor \in ProcessorType
  BY DEF FrontTypes, AsyncTypeOK
<1>2. PICK es \in SUBSET EngineIds : es = Named(processor, id)
  BY <1>1, NamedHaveState
<1>3. processor' = AbortId(processor, id)
  BY DEF AbortCall
<1>4. \A e \in EngineIds : e \notin es =>
          processor'.request_states[e] = processor.request_states[e]
  BY <1>1, <1>2, <1>3, AbortIdState
<1>5. LifeGoesOn
  <2>1. UNCHANGED phase
    BY DEF AbortCall
  <2> QED BY <2>1, PhaseGoesOn
<1>6. CASE es # {} /\ ~Alive
  <2>1. UNCHANGED clientVars
    BY <1>2, <1>6 DEF AbortCall
  <2>2. UNCHANGED <<transport, proc, to_core, core, reader, to_client, frames>>
    BY <2>1 DEF clientVars, coreVars, socketVars
  <2>3. \A f \in Unread' : f \in Unread \cup {<<>>}
    BY <2>2 DEF Unread
  <2> QED BY <1>5, <1>6, <2>2, <2>3, DeadClient, NothingIsLeft
<1>7. CASE ~(es # {} /\ ~Alive)
  <2>1. Abort(es)
    BY <1>2, <1>7 DEF AbortCall
  <2> QED BY <1>4, <1>5, <2>1, AbortOverSockets
<1> QED BY <1>6, <1>7

LEMMA HandlerSockets ==
    ASSUME FrontTypes, SocketInv, transport = "mp", HandlerStep
    PROVE  SocketInv'
<1>1. CASE HandlerPolls \/ HandlerReturns \/ HandlerGivesUp \/ HandlerDies
  <2>1. /\ UNCHANGED <<processor, phase, core>>
        /\ UNCHANGED <<transport, to_core, to_client, reader, proc, dead_error, frames>>
    BY <1>1 DEF HandlerPolls, HandlerReturns, HandlerGivesUp, HandlerDies, callVars,
                clientVars, coreVars, socketVars
  <2> QED BY <2>1, PhaseGoesOn, SocketsStay
<1>2. CASE HandlerTakesFrame
  <2>1. processor \in ProcessorType /\ frames \in Seq(Seq(Output)) /\ frames # <<>>
    BY <1>2 DEF HandlerTakesFrame, FrontTypes, AsyncTypeOK, SocketTypes
  <2>2. PICK outs \in Seq(Output) : outs = Head(frames)
    BY <2>1, HeadTailProperties
  <2>3. outs \in Unread /\ Range(frames') \subseteq Range(frames)
    BY <1>2, <2>1, <2>2, TailRange DEF HandlerTakesFrame, Unread
  <2>4. PICK stops \in SUBSET MayStop(outs) : FanOut(EndedBy(outs, stops)) /\ SendAbort(stops)
    BY <1>2, <2>2 DEF HandlerTakesFrame
  <2>5. stops \in SUBSET EngineIds
    BY FramesAre
  <2>6. UNCHANGED <<transport, core, phase, to_client, reader, proc, dead_error>>
    BY <1>2 DEF HandlerTakesFrame, coreVars
  <2>7. ASSUME NEW e \in EngineIds, core[e] # NoCall \/ (\E i \in DOMAIN to_core : Adds(i, e)),
               e \notin stops
        PROVE  processor'.request_states[e] = processor.request_states[e]
    <3>1. ASSUME NEW i \in DOMAIN outs, outs[i].eid = e, outs[i].final PROVE FALSE
      BY <2>3, <2>7, <3>1 DEF SocketInv, UnreadInv
    <3>2. \/ processor'.request_states[e] = processor.request_states[e]
          \/ \E i \in DOMAIN outs : outs[i].eid = e /\ (outs[i].final \/ e \in stops)
      BY <2>1, <2>4, FrameFanOut
    <3> QED BY <2>7, <3>1, <3>2
  <2>8. \A f \in Unread' : f \in Unread \cup {<<>>}
    BY <2>3, <2>6 DEF Unread
  <2>9. LifeGoesOn
    BY <2>6, PhaseGoesOn
  <2>10. CASE proc = "up"
    <3>1. DeathInv'
      BY <2>6, <2>10 DEF SocketInv, DeathInv
    <3>2. CASE stops = {}
      <4>1. UNCHANGED to_core
        BY <2>4, <3>2 DEF SendAbort
      <4> QED BY <2>5, <2>6, <2>7, <2>8, <2>9, <3>1, <3>2, <4>1, AbortsFollow
    <3>3. CASE stops # {}
      <4>1. to_core' = Append(to_core, AbortOf(stops))
        <5>1. to_core \in Seq(Message) /\ AbortOf(stops) \in Message
          BY <2>5 DEF FrontTypes, SocketTypes, Message, AbortOf, MaybeCall
        <5>2. to_core' = to_core \o <<AbortOf(stops)>>
          BY <2>4, <2>10, <3>3 DEF SendAbort, Send, AbortOf
        <5> QED BY <5>1, <5>2, AppendIsConcat
      <4> QED BY <2>5, <2>6, <2>7, <2>8, <2>9, <3>1, <4>1, AbortsFollow
    <3> QED BY <3>2, <3>3
  <2>11. CASE proc # "up"
    <3>1. to_core' = <<>> /\ \A e \in EngineIds : core'[e] = NoCall
      BY <2>4, <2>6, <2>11 DEF SocketInv, DeathInv, SendAbort, Send
    <3> QED BY <2>6, <2>8, <2>9, <2>11, <3>1, NothingIsLeft
  <2> QED BY <2>10, <2>11
<1>3. ~HandlerStepsInproc /\ ~HandlerRounds /\ ~RoundDies
  BY DEF HandlerStepsInproc, HandlerRounds, RoundDies, Replicated
<1> QED BY <1>1, <1>2, <1>3 DEF HandlerStep

LEMMA ReceivesSockets ==
    ASSUME FrontTypes, SocketInv, transport = "mp", LifeGoesOn, CoreReceives,
           UNCHANGED <<phase, processor, transport>>
    PROVE  SocketInv'
<1>1. AddsInv /\ CoreInv /\ UnreadInv /\ DeathInv
  BY DEF SocketInv
<1>2. to_core \in Seq(Message) /\ to_core # <<>> /\ to_core' = Tail(to_core) /\ proc = "up"
  BY DEF CoreReceives, FrontTypes, SocketTypes
<1>3. PICK n \in Nat : n = Len(to_core) /\ DOMAIN to_core = 1 .. n /\ n > 0
  <2>1. PICK n \in Nat : n = Len(to_core) /\ DOMAIN to_core = 1 .. n
    BY QueueOf
  <2>2. n # 0
    BY <1>2, <2>1, EmptySeq
  <2> QED BY <2>1, <2>2
<1>4. DOMAIN to_core' = 1 .. (n - 1) /\ \A i \in 1 .. (n - 1) : to_core'[i] = to_core[i + 1]
  BY <1>2, <1>3, HeadTailProperties, LenProperties
<1>5. PICK m \in Message : m = Head(to_core) /\ m = to_core[1]
  BY <1>2, <1>3, HeadTailProperties
<1>6. 1 \in DOMAIN to_core /\ \A i \in 1 .. (n - 1) : i + 1 \in DOMAIN to_core
  BY <1>3
<1>7. UNCHANGED <<to_client, reader, frames, proc, dead_error>>
  BY DEF CoreReceives
<1>8. \A e \in EngineIds : core'[e] = IF e \in m.eids THEN (IF m.kind = "ADD" THEN m.call ELSE NoCall)
                                      ELSE core[e]
  <2>1. CASE m.kind = "ADD"
    BY <1>5, <2>1 DEF CoreReceives, WithRequests
  <2>2. CASE m.kind # "ADD"
    BY <1>5, <2>2 DEF CoreReceives, Without
  <2> QED BY <2>1, <2>2
<1>9. ASSUME NEW e \in EngineIds, NEW i \in 1 .. (n - 1), Adds(i, e)'
      PROVE  /\ Adds(i + 1, e) /\ i + 1 \in DOMAIN to_core
             /\ m.kind = "ADD" => e \notin m.eids
             /\ core[e] = NoCall /\ core'[e] = NoCall
  <2>1. Adds(i + 1, e) /\ i + 1 \in DOMAIN to_core
    BY <1>4, <1>6, <1>9 DEF Adds
  <2>2. core[e] = NoCall
    BY <1>1, <2>1 DEF AddsInv
  <2>3. ASSUME m.kind = "ADD", e \in m.eids PROVE FALSE
    <3>1. Adds(1, e)
      BY <1>5, <2>3 DEF Adds
    <3>2. 1 = i + 1
      BY <1>1, <1>6, <2>1, <3>1 DEF AddsInv
    <3> QED BY <3>2
  <2> QED BY <1>8, <2>1, <2>2, <2>3
<1>10. ASSUME NEW e, NEW j \in DOMAIN to_core, j > 1, Drops(j, e)
       PROVE  j - 1 \in 1 .. (n - 1) /\ Drops(j - 1, e)'
  <2>1. j - 1 \in 1 .. (n - 1) /\ j - 1 + 1 = j
    BY <1>3, <1>10
  <2>2. to_core'[j - 1] = to_core[j]
    BY <1>4, <2>1
  <2> QED BY <1>10, <2>1, <2>2 DEF Drops
<1>11. \A e, c : UnderOwnId(e, c) => UnderOwnId(e, c)'
  BY OwnIdStays
<1>12. AddsInv'
  <2> SUFFICES ASSUME NEW i \in DOMAIN to_core', NEW e \in EngineIds, Adds(i, e)'
               PROVE  /\ UnderOwnId(e, to_core[i].call)' /\ core'[e] = NoCall
                      /\ \A j \in DOMAIN to_core' : Adds(j, e)' => j = i
                      /\ \/ processor'.request_states[e] = to_core'[i].call
                         \/ \E j \in DOMAIN to_core' : j > i /\ Drops(j, e)'
    BY DEF AddsInv
  <2>1. i \in 1 .. (n - 1) /\ Adds(i + 1, e) /\ i + 1 \in DOMAIN to_core /\ core'[e] = NoCall
    BY <1>4, <1>9
  <2>2. to_core'[i] = to_core[i + 1]
    BY <1>4, <2>1
  <2>3. UnderOwnId(e, to_core[i].call)'
    <3>1. UnderOwnId(e, to_core[i + 1].call)
      BY <1>1, <2>1 DEF AddsInv
    <3> QED BY <2>2, <3>1 DEF UnderOwnId, LifeGoesOn
  <2>4. ASSUME NEW j \in DOMAIN to_core', Adds(j, e)' PROVE j = i
    <3>1. j \in 1 .. (n - 1) /\ Adds(j + 1, e) /\ j + 1 \in DOMAIN to_core
      BY <1>4, <1>9, <2>4
    <3>2. j + 1 = i + 1
      BY <1>1, <2>1, <3>1 DEF AddsInv
    <3> QED BY <2>1, <3>1, <3>2
  <2>5. \/ processor'.request_states[e] = to_core'[i].call
        \/ \E j \in DOMAIN to_core' : j > i /\ Drops(j, e)'
    <3>1. \/ processor.request_states[e] = to_core[i + 1].call
          \/ \E j \in DOMAIN to_core : j > i + 1 /\ Drops(j, e)
      BY <1>1, <2>1 DEF AddsInv
    <3>2. CASE \E j \in DOMAIN to_core : j > i + 1 /\ Drops(j, e)
      <4>1. PICK j \in DOMAIN to_core : j > i + 1 /\ Drops(j, e)
        BY <3>2
      <4>2. j > 1 /\ j - 1 > i
        BY <1>3, <2>1, <4>1
      <4>3. j - 1 \in DOMAIN to_core' /\ Drops(j - 1, e)'
        BY <1>4, <1>10, <4>1, <4>2
      <4> QED BY <4>2, <4>3
    <3> QED BY <2>2, <3>1, <3>2
  <2> QED BY <2>1, <2>3, <2>4, <2>5
<1>13. CoreInv'
  <2> SUFFICES ASSUME NEW e \in EngineIds, core'[e] # NoCall
               PROVE  /\ UnderOwnId(e, core[e])'
                      /\ processor'.request_states[e] = core'[e] \/ AbortSent(e)'
    BY DEF CoreInv
  <2>1. CASE e \in m.eids
    <3>1. m.kind = "ADD" /\ core'[e] = m.call
      BY <1>8, <2>1
    <3>2. Adds(1, e)
      BY <1>5, <2>1, <3>1 DEF Adds
    <3>3. /\ UnderOwnId(e, m.call)
          /\ \/ processor.request_states[e] = m.call
             \/ \E j \in DOMAIN to_core : j > 1 /\ Drops(j, e)
      BY <1>1, <1>5, <1>6, <3>2 DEF AddsInv
    <3>4. ASSUME NEW j \in DOMAIN to_core, j > 1, Drops(j, e) PROVE AbortSent(e)'
      BY <1>4, <1>10, <3>4 DEF AbortSent, Drops
    <3> QED BY <3>1, <3>3, <3>4 DEF UnderOwnId, LifeGoesOn
  <2>2. CASE e \notin m.eids
    <3>1. core'[e] = core[e]
      BY <1>8, <2>2
    <3>2. UnderOwnId(e, core[e]) /\ (processor.request_states[e] = core[e] \/ AbortSent(e))
      BY <1>1, <3>1 DEF CoreInv
    <3>3. ASSUME AbortSent(e) PROVE AbortSent(e)'
      <4>1. PICK j \in DOMAIN to_core : Drops(j, e)
        BY <3>3 DEF AbortSent, Drops
      <4>2. j > 1
        BY <1>3, <1>5, <2>2, <4>1 DEF Drops
      <4> QED BY <1>4, <1>10, <4>1, <4>2 DEF AbortSent, Drops
    <3> QED BY <3>1, <3>2, <3>3 DEF UnderOwnId, LifeGoesOn
  <2> QED BY <2>1, <2>2
<1>14. UnreadInv'
  <2> SUFFICES ASSUME NEW f \in Unread', NEW k \in DOMAIN f
               PROVE  /\ UnderOwnId(f[k].eid, f[k].origin)'
                      /\ f[k].final => /\ core'[f[k].eid] = NoCall
                                       /\ \A i \in DOMAIN to_core' : ~Adds(i, f[k].eid)'
    BY DEF UnreadInv
  <2>1. f \in Unread
    BY <1>7 DEF Unread
  <2>2. UnderOwnId(f[k].eid, f[k].origin)
    BY <1>1, <2>1 DEF UnreadInv
  <2>3. f[k].final => core[f[k].eid] = NoCall /\ \A i \in DOMAIN to_core : ~Adds(i, f[k].eid)
    BY <1>1, <2>1 DEF UnreadInv
  <2>4. f[k].eid \in EngineIds
    BY <2>2, IdsAreFinite DEF UnderOwnId
  <2>5. ASSUME f[k].final PROVE core'[f[k].eid] = NoCall
    <3>1. ~Adds(1, f[k].eid)
      BY <1>6, <2>3, <2>5
    <3> QED BY <1>5, <1>8, <2>3, <2>4, <2>5, <3>1 DEF Adds
  <2>6. ASSUME f[k].final, NEW i \in DOMAIN to_core', Adds(i, f[k].eid)' PROVE FALSE
    BY <1>4, <1>9, <2>3, <2>4, <2>6
  <2> QED BY <1>11, <2>2, <2>5, <2>6
<1>15. DeathInv'
  BY <1>1, <1>2, <1>7 DEF DeathInv
<1> QED BY <1>12, <1>13, <1>14, <1>15 DEF SocketInv, LifeGoesOn


\* A step's frame: whatever ends in it leaves the core with it.
LEMMA StepsSockets ==
    ASSUME FrontTypes, SocketInv, transport = "mp", LifeGoesOn, CoreSteps, UNCHANGED processor
    PROVE  SocketInv'
<1>1. AddsInv /\ CoreInv /\ UnreadInv /\ DeathInv
  BY DEF SocketInv
<1>2. PICK ending \in Endings(Held) :
        /\ core' = Without(core, ending)
        /\ to_client' = IF Held = {} THEN to_client ELSE Append(to_client, Outputs(Held, ending))
  BY DEF CoreSteps
<1>3. UNCHANGED <<transport, to_core, reader, frames, proc, dead_error>> /\ proc = "up"
  BY DEF CoreSteps
<1>4. core \in [EngineIds -> MaybeCall] /\ to_client \in Seq(Seq(Output))
  BY DEF FrontTypes, AsyncTypeOK, SocketTypes
<1>5. PICK outs : outs = Outputs(Held, ending)
  OBVIOUS
<1>6. outs \in Seq(HeldOutputs(ending)) /\ (Held # {} => outs # <<>>)
  BY <1>4, <1>5, OutputsOfHeld
<1>7. \A f \in Unread' : f \in Unread \/ (f = outs /\ Held # {})
  <2>1. CASE Held = {}
    BY <1>2, <1>3, <2>1 DEF Unread
  <2>2. CASE Held # {}
    <3>1. outs \in Seq(Output)
      BY <1>4, <1>6, HeldOutputsTyped, SeqMonotonic
    <3>2. to_client' = Append(to_client, outs)
      BY <1>2, <1>5, <2>2
    <3>3. Range(to_client') \subseteq Range(to_client) \cup {outs}
      BY <1>4, <3>1, <3>2, AppendRange
    <3> QED BY <1>3, <2>2, <3>3 DEF Unread
  <2> QED BY <2>1, <2>2
<1>8. \A e \in EngineIds : core'[e] = IF e \in ending THEN NoCall ELSE core[e]
  BY <1>2 DEF Without
<1>9. \A i, e : Adds(i, e)' <=> Adds(i, e)
  BY <1>3 DEF Adds
<1>10. \A e, c : UnderOwnId(e, c) => UnderOwnId(e, c)'
  BY OwnIdStays
<1>11. AddsInv'
  <2> SUFFICES ASSUME NEW i \in DOMAIN to_core, NEW e \in EngineIds, Adds(i, e)
               PROVE  /\ UnderOwnId(e, to_core[i].call)' /\ core'[e] = NoCall
                      /\ \A j \in DOMAIN to_core : Adds(j, e) => j = i
                      /\ \/ processor.request_states[e] = to_core[i].call
                         \/ \E j \in DOMAIN to_core : j > i /\ Drops(j, e)
    BY <1>3, <1>9 DEF AddsInv, Drops
  <2>1. UnderOwnId(e, to_core[i].call) /\ core[e] = NoCall
    BY <1>1 DEF AddsInv
  <2>2. UnderOwnId(e, to_core[i].call)'
    BY <1>3, <2>1 DEF UnderOwnId, LifeGoesOn
  <2> QED BY <1>1, <1>8, <2>1, <2>2 DEF AddsInv
<1>12. CoreInv'
  <2> SUFFICES ASSUME NEW e \in EngineIds, core'[e] # NoCall
               PROVE  /\ UnderOwnId(e, core[e])'
                      /\ processor.request_states[e] = core[e] \/ AbortSent(e)'
    BY <1>8 DEF CoreInv, UnderOwnId
  <2>1. core[e] # NoCall
    BY <1>8
  <2>2. UnderOwnId(e, core[e]) /\ (processor.request_states[e] = core[e] \/ AbortSent(e))
    BY <1>1, <2>1 DEF CoreInv
  <2> QED BY <1>3, <1>8, <2>2 DEF UnderOwnId, LifeGoesOn, AbortSent
<1>13. UnreadInv'
  <2> SUFFICES ASSUME NEW f \in Unread', NEW n \in DOMAIN f
               PROVE  /\ UnderOwnId(f[n].eid, f[n].origin)'
                      /\ f[n].final => /\ core'[f[n].eid] = NoCall
                                       /\ \A i \in DOMAIN to_core : ~Adds(i, f[n].eid)
    BY <1>3, <1>9 DEF UnreadInv
  <2>1. CASE f \in Unread
    <3>1. /\ UnderOwnId(f[n].eid, f[n].origin)
          /\ f[n].final => /\ core[f[n].eid] = NoCall
                           /\ \A i \in DOMAIN to_core : ~Adds(i, f[n].eid)
      BY <1>1, <2>1 DEF UnreadInv
    <3>2. f[n].eid \in EngineIds
      BY <3>1, IdsAreFinite DEF UnderOwnId
    <3> QED BY <1>8, <1>10, <3>1, <3>2
  <2>2. CASE f = outs
    <3>1. f[n] \in HeldOutputs(ending)
      BY <1>6, <2>2, ElementOfSeq, LenProperties
    <3>2. PICK e \in Held : f[n] = [eid |-> e, origin |-> core[e], final |-> e \in ending]
      BY <3>1 DEF HeldOutputs
    <3>3. f[n].eid = e /\ f[n].origin = core[e] /\ f[n].final = (e \in ending)
      BY <3>2
    <3>4. e \in EngineIds /\ core[e] # NoCall
      BY DEF Held
    <3>5. UnderOwnId(e, core[e])
      BY <1>1, <3>4 DEF CoreInv
    <3>6. UnderOwnId(f[n].eid, f[n].origin)'
      <4>1. UnderOwnId(f[n].eid, f[n].origin)
        BY <3>3, <3>5 DEF UnderOwnId
      <4> QED BY <1>10, <4>1
    <3>7. \A i \in DOMAIN to_core : ~Adds(i, e)
      BY <1>1, <3>4 DEF AddsInv
    <3>8. f[n].final => core'[e] = NoCall
      BY <1>8, <3>3, <3>4
    <3> QED BY <3>3, <3>6, <3>7, <3>8
  <2> QED BY <1>7, <2>1, <2>2
<1>14. DeathInv'
  <2>1. Dead \notin Range(to_client')
    <3>1. CASE Held = {}
      BY <1>1, <1>2, <1>3, <3>1 DEF DeathInv
    <3>2. CASE Held # {}
      <4>1. outs \in Seq(Output)
        BY <1>4, <1>6, HeldOutputsTyped, SeqMonotonic
      <4>2. to_client' = Append(to_client, outs)
        BY <1>2, <1>5, <3>2
      <4>3. Range(to_client') \subseteq Range(to_client) \cup {outs}
        BY <1>4, <4>1, <4>2, AppendRange
      <4>4. Dead \notin Range(to_client)
        BY <1>1, <1>3 DEF DeathInv
      <4> QED BY <1>6, <3>2, <4>3, <4>4 DEF Dead
    <3> QED BY <3>1, <3>2
  <2> QED BY <1>1, <1>3, <2>1 DEF DeathInv
<1> QED BY <1>11, <1>12, <1>13, <1>14 DEF SocketInv, LifeGoesOn

\* Frames lost and a DEAD one: nothing is read that was not there to be read.
LEMMA CrashLosesFrames ==
    ASSUME to_client \in Seq(Seq(Output)), NEW sent \in 0 .. Len(to_client),
           NEW last \in {<<>>, <<Dead>>}
    PROVE  Range(SubSeq(to_client, 1, sent) \o last) \subseteq Range(to_client) \cup {<<>>}
<1>1. PICK n \in Nat : n = Len(to_client) /\ DOMAIN to_client = 1 .. n
  BY LenProperties
<1>2. PICK part : part = SubSeq(to_client, 1, sent)
  OBVIOUS
<1>3. sent \in Nat /\ sent <= n
  BY <1>1
<1>4. /\ part \in Seq(Seq(Output)) /\ Len(part) = sent
      /\ \A i \in 1 .. sent : part[i] = to_client[i]
  <2>1. \A i \in 1 .. sent : to_client[i] \in Seq(Output)
    BY <1>1, <1>3, ElementOfSeq
  <2>2. part = [i \in 1 .. sent |-> to_client[i]]
    BY <1>2, <1>3
  <2>3. part \in [1 .. sent -> Seq(Output)]
    BY <2>1, <2>2
  <2>4. part \in Seq(Seq(Output)) /\ Len(part) = sent
    BY <1>3, <2>3, LenProperties
  <2> QED BY <2>2, <2>4
<1>5. DOMAIN part = 1 .. sent
  BY <1>4, LenProperties
<1>6. Range(part) \subseteq Range(to_client)
  <2> SUFFICES ASSUME NEW i \in 1 .. sent PROVE part[i] \in Range(to_client)
    BY <1>5 DEF Range
  <2>1. i \in 1 .. n
    BY <1>3
  <2> QED BY <1>1, <1>4, <2>1 DEF Range
<1>7. CASE last = <<>>
  <2>1. part \o last = part
    BY <1>4, <1>7, ConcatEmptySeq
  <2> QED BY <1>2, <1>6, <2>1
<1>8. CASE last = <<Dead>>
  <2>1. Dead \in Seq(Output)
    BY EmptySeq DEF Dead
  <2>2. part \o last = Append(part, Dead)
    BY <1>4, <1>8, <2>1, AppendIsConcat
  <2>3. Range(part \o last) \subseteq Range(part) \cup {Dead}
    BY <1>4, <2>1, <2>2, AppendRange
  <2> QED BY <1>2, <1>6, <2>3 DEF Dead
<1> QED BY <1>7, <1>8


LEMMA ReaderSockets ==
    ASSUME FrontTypes, SocketInv, transport = "mp", LifeGoesOn, UNCHANGED processor,
           ReaderTakes \/ ReaderPuts
    PROVE  SocketInv'
<1>1. DeathInv /\ to_client \in Seq(Seq(Output)) /\ frames \in Seq(Seq(Output)) /\ reader \in Seq(Output)
  BY DEF SocketInv, FrontTypes, SocketTypes
<1>2. UNCHANGED <<transport, core, to_core, proc>>
  BY DEF ReaderTakes, ReaderPuts, coreVars
<1>3. CASE ReaderTakes
  <2>1. to_client # <<>> /\ to_client' = Tail(to_client) /\ UNCHANGED frames
    BY <1>3 DEF ReaderTakes
  <2>2. Head(to_client) \in Range(to_client) /\ Range(to_client') \subseteq Range(to_client)
    BY <1>1, <2>1, TailRange
  <2>3. reader' \in {reader, Head(to_client)}
    BY <1>3 DEF ReaderTakes
  <2>4. \A f \in Unread' : f \in Unread \cup {<<>>}
    BY <2>1, <2>2, <2>3 DEF Unread
  <2>5. DeathInv'
    <3>1. CASE proc = "up"
      <4>1. Head(to_client) # Dead
        BY <1>1, <2>2, <3>1 DEF DeathInv
      <4>2. ~dead_error'
        BY <1>1, <1>3, <3>1, <4>1 DEF ReaderTakes, DeathInv
      <4> QED BY <1>1, <1>2, <2>2, <3>1, <4>2 DEF DeathInv
    <3>2. CASE proc # "up"
      BY <1>1, <1>2, <3>2 DEF DeathInv
    <3> QED BY <3>1, <3>2
  <2> QED BY <1>2, <2>4, <2>5, AbortsFollow
<1>4. CASE ReaderPuts
  <2>1. frames' = Append(frames, reader) /\ reader' = <<>> /\ UNCHANGED <<to_client, dead_error>>
    BY <1>4 DEF ReaderPuts
  <2>2. Range(frames') \subseteq Range(frames) \cup {reader}
    BY <1>1, <2>1, AppendRange
  <2>3. \A f \in Unread' : f \in Unread \cup {<<>>}
    BY <2>1, <2>2 DEF Unread
  <2>4. DeathInv'
    BY <1>1, <1>2, <2>1 DEF DeathInv
  <2> QED BY <1>2, <2>3, <2>4, AbortsFollow
<1> QED BY <1>3, <1>4

LEMMA ProcessSockets ==
    ASSUME FrontTypes, SocketInv, transport = "mp", Outside(ProcessStep)
    PROVE  SocketInv'
<1>1. UNCHANGED <<phase, processor>>
  BY DEF Outside, callVars
<1>2. LifeGoesOn
  BY <1>1, PhaseGoesOn
<1>3. CASE CoreReceives
  <2>1. UNCHANGED transport
    BY <1>3 DEF CoreReceives
  <2> QED BY <1>1, <1>2, <1>3, <2>1, ReceivesSockets
<1>4. CASE CoreSteps
  BY <1>1, <1>2, <1>4, StepsSockets
<1>5. CASE CoreCrashes
  <2>1. /\ proc' = "crashed" /\ to_core' = <<>> /\ core' = Without(core, EngineIds)
        /\ UNCHANGED <<transport, reader, frames>>
    BY <1>5 DEF CoreCrashes
  <2>2. \A e \in EngineIds : core'[e] = NoCall
    BY <2>1 DEF Without
  <2>3. Range(to_client') \subseteq Range(to_client) \cup {<<>>}
    BY <1>5, CrashLosesFrames DEF CoreCrashes, FrontTypes, SocketTypes
  <2>4. \A f \in Unread' : f \in Unread \cup {<<>>}
    BY <2>1, <2>3 DEF Unread
  <2> QED BY <1>2, <2>1, <2>2, <2>4, NothingIsLeft
<1>6. CASE CoreExits
  <2>1. proc = "crashed" /\ proc' = "exited" /\ UNCHANGED <<transport, core, to_core, to_client, reader, frames>>
    BY <1>6 DEF CoreExits, coreVars
  <2>2. to_core' = <<>> /\ \A e \in EngineIds : core'[e] = NoCall
    BY <2>1 DEF SocketInv, DeathInv
  <2>3. \A f \in Unread' : f \in Unread \cup {<<>>}
    BY <2>1 DEF Unread
  <2> QED BY <1>2, <2>1, <2>2, <2>3, NothingIsLeft
<1>7. CASE ReaderTakes \/ ReaderPuts
  BY <1>1, <1>2, <1>7, ReaderSockets
<1> QED BY <1>3, <1>4, <1>5, <1>6, <1>7 DEF Outside, ProcessStep

LEMMA SocketInit == AsyncInit => SocketInv
<1> SUFFICES ASSUME AsyncInit PROVE SocketInv
  OBVIOUS
<1>1. /\ \A c \in Calls : phase[c] = "new"
      /\ \A e \in EngineIds : core[e] = NoCall
      /\ to_core = <<>> /\ to_client = <<>> /\ reader = <<>> /\ frames = <<>>
      /\ proc = "up" /\ ~dead_error
  BY DEF AsyncInit, ClientInit
<1>2. DOMAIN to_core = {} /\ Range(to_client) = {} /\ Unread = {<<>>}
  BY <1>1 DEF Unread, Range
<1>3. AddsInv
  BY <1>2 DEF AddsInv
<1>4. CoreInv
  BY <1>1 DEF CoreInv
<1>5. UnreadInv
  BY <1>2 DEF UnreadInv
<1>6. DeathInv
  BY <1>1, <1>2 DEF DeathInv
<1> QED BY <1>1, <1>3, <1>4, <1>5, <1>6, AsyncAssumption DEF SocketInv

LEMMA TransportStays ==
    ASSUME [AsyncNext]_avars
    PROVE  UNCHANGED transport
<1>1. ASSUME NEW c \in Calls, CallStep(c) PROVE UNCHANGED transport
  BY <1>1 DEF CallStep, Generate, GenerateRefused, GenerateFails, Receive, ReceiveError,
              Resume, Close, Finally, Submit, Abort, clientVars
<1>2. ASSUME NEW i \in Ids, AbortCall(i) PROVE UNCHANGED transport
  BY <1>2 DEF AbortCall, Abort, clientVars
<1>3. HandlerStep => UNCHANGED transport
  BY DEF HandlerStep, HandlerPolls, HandlerReturns, HandlerStepsInproc, HandlerRounds,
         HandlerTakesFrame, HandlerGivesUp, HandlerDies, RoundDies, Round, clientVars
<1>4. Outside(ProcessStep) => UNCHANGED transport
  BY DEF Outside, ProcessStep, CoreReceives, CoreSteps, CoreCrashes, CoreExits, ReaderTakes, ReaderPuts
<1>5. UNCHANGED avars => UNCHANGED transport
  BY DEF avars, clientVars
<1> QED BY <1>1, <1>2, <1>3, <1>4, <1>5 DEF AsyncNext

LEMMA SocketStep ==
    ASSUME SocketsSeeNoReuse, FrontInv, SocketInv, [AsyncNext]_avars
    PROVE  SocketInv'
<1>1. FrontTypes
  BY DEF FrontInv
<1>2. CASE transport # "mp"
  BY <1>2, TransportStays DEF SocketInv
<1>3. CASE transport = "mp"
  <2>1. ASSUME NEW c \in Calls, CallStep(c) PROVE SocketInv'
    BY <1>1, <1>3, <2>1, CallStepSockets
  <2>2. ASSUME NEW i \in Ids, AbortCall(i) PROVE SocketInv'
    BY <1>1, <1>3, <2>2, AbortCallSockets
  <2>3. CASE UNCHANGED avars
    <3>1. /\ UNCHANGED <<transport, core, to_core, to_client, reader, proc, dead_error>>
          /\ UNCHANGED <<phase, processor, frames>>
      BY <2>3 DEF avars, callVars, clientVars, coreVars, socketVars
    <3> QED BY <1>1, <1>3, <3>1, PhaseGoesOn, SocketsStay
  <2> QED BY <1>1, <1>3, <2>1, <2>2, <2>3, HandlerSockets, ProcessSockets DEF AsyncNext
<1> QED BY <1>2, <1>3

\* Nobody's disconnected request keeps generating (async_llm.py:14): what the core runs
\* has its state in the front end, or its abort is on the way - over sockets too, past
\* crashes, lost frames and the thread that reads them.
THEOREM NothingRunsForNobody ==
    ReuseIsOrderly /\ SocketsSeeNoReuse /\ AsyncSpec => []NoOrphanInCore
<1>1. ASSUME ReuseIsOrderly, SocketsSeeNoReuse PROVE AsyncSpec => []NoOrphanInCore
  <2>1. FrontInv /\ [AsyncNext]_avars => FrontInv'
    BY <1>1, FrontStep
  <2>2. FrontInv /\ SocketInv /\ [AsyncNext]_avars => SocketInv'
    BY <1>1, SocketStep
  <2>3. FrontInv /\ SocketInv => NoOrphanInCore
    BY DEF FrontInv, Agreement, DirectInv, SocketInv, CoreInv, NoOrphanInCore
  <2> QED BY <2>1, <2>2, <2>3, FrontInit, SocketInit, PTL DEF AsyncSpec
<1> QED BY <1>1


------------------------------------------------------------------------------
(* The records of the calls that have state, whether the engine lives or not. *)

\* States are only lost, and nothing is forgotten of a parent that keeps one.
LEMMA ChildrenFollow ==
    ASSUME NEW p, NEW q, ChildrenKnown(p),
           \A i \in Ids : q.parent_requests[i] \in {p.parent_requests[i], NoCall},
           \A e \in EngineIds : q.request_states[e] \in {p.request_states[e], NoCall},
           \A c \in Calls : IsParent(c) /\ HasState(q, c) =>
              /\ q.parent_requests[IdOf[c]] = p.parent_requests[IdOf[c]]
              /\ \A x \in EngineIds : x \in q.child_requests[c] <=>
                    x \in p.child_requests[c] /\ q.request_states[x] = p.request_states[x],
           \A c \in Calls : q.child_requests[c] \subseteq EngineIds
    PROVE  ChildrenKnown(q)
<1>1. ASSUME NEW i \in Ids, q.parent_requests[i] # NoCall
      PROVE  IdOf[q.parent_requests[i]] = i
  BY <1>1 DEF ChildrenKnown
<1>2. ASSUME NEW e \in EngineIds, NEW c \in Calls, q.request_states[e] = c
      PROVE  /\ e \in ChildIds(c)
             /\ IsParent(c) => /\ q.parent_requests[IdOf[c]] = c
                               /\ q.child_requests[c] = {x \in EngineIds : q.request_states[x] = c}
  <2>1. p.request_states[e] = c /\ HasState(q, c)
    BY <1>2, NoCallIsNone DEF HasState
  <2>2. /\ e \in ChildIds(c)
        /\ IsParent(c) => /\ p.parent_requests[IdOf[c]] = c
                          /\ p.child_requests[c] = {x \in EngineIds : p.request_states[x] = c}
    BY <2>1 DEF ChildrenKnown
  <2>3. ASSUME IsParent(c), NEW x \in EngineIds
        PROVE  x \in q.child_requests[c] <=> q.request_states[x] = c
    BY <2>1, <2>2, <2>3, NoCallIsNone
  <2>4. IsParent(c) => q.child_requests[c] = {x \in EngineIds : q.request_states[x] = c}
    BY <2>3
  <2> QED BY <2>1, <2>2, <2>4
<1> QED BY <1>1, <1>2 DEF ChildrenKnown

LEMMA TakenChildren ==
    ASSUME NEW p \in ProcessorType, NEW q \in ProcessorType, NEW e \in EngineIds,
           NEW final \in BOOLEAN, Taken(p, q, e, final), ChildrenKnown(p)
    PROVE  ChildrenKnown(q)
<1>1. PICK st \in [EngineIds -> MaybeCall] : st = p.request_states
  BY ProcessorIs
<1>2. PICK ch \in [Calls -> SUBSET EngineIds] : ch = p.child_requests
  BY ProcessorIs
<1>3. PICK pr \in [Ids -> MaybeCall] : pr = p.parent_requests
  BY ProcessorIs
<1>4. PICK c \in MaybeCall : c = st[e]
  OBVIOUS
<1>5. CASE c = NoCall
  <2>1. q = p
    BY <1>1, <1>4, <1>5 DEF Taken
  <2> QED BY <2>1
<1>6. CASE c \in Calls
  <2>1. c # NoCall /\ IdOf[c] \in Ids
    BY <1>6, CallsAssumption
  <2>2. PICK st2, ch2, pr2 :
          /\ st2 = q.request_states /\ ch2 = q.child_requests /\ pr2 = q.parent_requests
    OBVIOUS
  <2>3. st2 = [st EXCEPT ![e] = IF final THEN NoCall ELSE c]
    BY <1>1, <1>4, <2>1, <2>2 DEF Taken
  <2>4. ch2 = [ch EXCEPT ![c] = ch[c] \ (IF final THEN {e} ELSE {})]
    BY <1>1, <1>2, <1>4, <2>1, <2>2 DEF Taken
  <2>5. pr2 = [pr EXCEPT ![IdOf[c]] =
                 IF final /\ IsParent(c) /\ ch2[c] = {} THEN NoCall ELSE pr[IdOf[c]]]
    <3>1. ch2[c] = ch[c] \ (IF final THEN {e} ELSE {})
      BY <1>6, <2>4
    <3> QED BY <1>1, <1>2, <1>3, <1>4, <2>1, <2>2, <3>1 DEF Taken
  <2>6. \A x \in EngineIds, d \in Calls : st[x] = d /\ IsParent(d) =>
            pr[IdOf[d]] = d /\ ch[d] = {y \in EngineIds : st[y] = d}
    BY <1>1, <1>2, <1>3 DEF ChildrenKnown
  <2>7. ASSUME NEW d \in Calls, IsParent(d), NEW x \in EngineIds, st2[x] = d
        PROVE  pr2[IdOf[d]] = pr[IdOf[d]]
    <3>1. st[x] = d
      BY <1>4, <2>3, <2>7, NoCallIsNone
    <3>2. pr[IdOf[d]] = d /\ IdOf[d] \in Ids
      BY <2>6, <2>7, <3>1, CallsAssumption
    <3> SUFFICES ASSUME IdOf[d] = IdOf[c], final, IsParent(c), ch2[c] = {} PROVE FALSE
      BY <2>1, <2>5, <3>2
    <3>3. d = c
      BY <1>4, <1>6, <2>6, <3>2
    <3>4. x \in ch[c] /\ x # e
      BY <2>3, <2>6, <2>7, <3>1, <3>3, <2>1
    <3> QED BY <1>6, <2>4, <3>4
  <2>8. ASSUME NEW d \in Calls, IsParent(d), HasState(q, d), NEW x \in EngineIds
        PROVE  x \in ch2[d] <=> x \in ch[d] /\ st2[x] = st[x]
    <3>1. CASE d = c
      <4>1. e \in ch[c] /\ ch[c] = {y \in EngineIds : st[y] = c}
        BY <1>4, <1>6, <2>6, <2>8, <3>1
      <4> QED BY <1>6, <2>1, <2>3, <2>4, <3>1, <4>1
    <3>2. CASE d # c
      <4>1. PICK y \in EngineIds : st2[y] = d
        BY <2>2, <2>8 DEF HasState
      <4>2. st[y] = d
        BY <1>4, <2>3, <3>2, <4>1, NoCallIsNone
      <4>3. ch[d] = {z \in EngineIds : st[z] = d}
        BY <2>6, <2>8, <4>2
      <4> QED BY <1>4, <2>3, <2>4, <3>2, <4>3
    <3> QED BY <3>1, <3>2
  <2>9. /\ \A i \in Ids : q.parent_requests[i] \in {p.parent_requests[i], NoCall}
        /\ \A x \in EngineIds : q.request_states[x] \in {p.request_states[x], NoCall}
    BY <1>1, <1>3, <1>4, <2>2, <2>3, <2>5
  <2>10. \A d \in Calls : IsParent(d) /\ HasState(q, d) =>
           q.parent_requests[IdOf[d]] = p.parent_requests[IdOf[d]]
    BY <1>3, <2>2, <2>7 DEF HasState
  <2>11. \A d \in Calls : IsParent(d) /\ HasState(q, d) =>
           \A x \in EngineIds : x \in q.child_requests[d] <=>
              x \in p.child_requests[d] /\ q.request_states[x] = p.request_states[x]
    BY <1>1, <1>2, <2>2, <2>8
  <2>12. \A d \in Calls : q.child_requests[d] \subseteq EngineIds
    BY ProcessorIs
  <2> QED BY <2>9, <2>10, <2>11, <2>12, ChildrenFollow
<1> QED BY <1>5, <1>6 DEF MaybeCall

LEMMA AddedChildren ==
    ASSUME NEW p \in ProcessorType, NEW c \in Calls, Fresh(p, c), ChildrenKnown(p),
           NEW q, q = AddRequests(p, c, ChildIds(c), ChildIds(c))
    PROVE  /\ ChildrenKnown(q)
           /\ q.output_aggregator = p.output_aggregator
<1>1. PICK st \in [EngineIds -> MaybeCall] : st = p.request_states
  BY ProcessorIs
<1>2. PICK ch \in [Calls -> SUBSET EngineIds] : ch = p.child_requests
  BY ProcessorIs
<1>3. PICK pr \in [Ids -> MaybeCall] : pr = p.parent_requests
  BY ProcessorIs
<1>4. PICK st2, ch2, pr2 :
        /\ st2 = q.request_states /\ ch2 = q.child_requests /\ pr2 = q.parent_requests
  OBVIOUS
<1>5. ChildIds(c) \in SUBSET ChildIds(c) /\ ChildIds(c) \subseteq EngineIds /\ IdOf[c] \in Ids
  BY IdsAreFinite, CallsAssumption
<1>6. /\ q.request_states = [e \in EngineIds |-> IF e \in ChildIds(c) THEN c ELSE p.request_states[e]]
      /\ q.child_requests = [p.child_requests EXCEPT ![c] = IF IsParent(c) THEN ChildIds(c) ELSE {}]
      /\ q.parent_requests = [p.parent_requests EXCEPT ![IdOf[c]] =
            IF IsParent(c) /\ ChildIds(c) # {} THEN c ELSE p.parent_requests[IdOf[c]]]
  BY <1>5, AddedIs
<1>7. st2 = [e \in EngineIds |-> IF e \in ChildIds(c) THEN c ELSE st[e]]
  BY <1>1, <1>4, <1>6
<1>8. ch2 = [ch EXCEPT ![c] = IF IsParent(c) THEN ChildIds(c) ELSE {}]
  BY <1>2, <1>4, <1>6
<1>9. pr2 = [pr EXCEPT ![IdOf[c]] = IF IsParent(c) /\ ChildIds(c) # {} THEN c ELSE pr[IdOf[c]]]
  BY <1>3, <1>4, <1>6
<1>10. \A x \in EngineIds : st[x] # NoCall => IdOf[st[x]] # IdOf[c]
  BY <1>1 DEF Fresh
<1>11. /\ \A i \in Ids : pr[i] # NoCall => IdOf[pr[i]] = i
       /\ \A x \in EngineIds, d \in Calls : st[x] = d =>
            /\ x \in ChildIds(d)
            /\ IsParent(d) => pr[IdOf[d]] = d /\ ch[d] = {y \in EngineIds : st[y] = d}
  BY <1>1, <1>2, <1>3 DEF ChildrenKnown
<1>12. \A x \in EngineIds : st2[x] = c <=> x \in ChildIds(c)
  BY <1>7, <1>10, CallsAssumption
<1>13. \A i \in Ids : pr2[i] # NoCall => IdOf[pr2[i]] = i
  BY <1>5, <1>9, <1>11
<1>14. ASSUME NEW x \in EngineIds, NEW d \in Calls, st2[x] = d
       PROVE  /\ x \in ChildIds(d)
              /\ IsParent(d) => pr2[IdOf[d]] = d /\ ch2[d] = {y \in EngineIds : st2[y] = d}
  <2>1. CASE d = c
    <3>1. x \in ChildIds(c)
      BY <1>12, <1>14, <2>1
    <3>2. IsParent(c) => pr2[IdOf[c]] = c /\ ch2[c] = ChildIds(c)
      BY <1>5, <1>8, <1>9, <3>1
    <3> QED BY <1>5, <1>12, <2>1, <3>1, <3>2
  <2>2. CASE d # c
    <3>1. st[x] = d /\ IdOf[d] # IdOf[c]
      BY <1>7, <1>10, <1>14, <2>2, NoCallIsNone
    <3>2. x \in ChildIds(d) /\ (IsParent(d) => pr[IdOf[d]] = d /\ ch[d] = {y \in EngineIds : st[y] = d})
      BY <1>11, <3>1
    <3>3. ASSUME NEW y \in EngineIds PROVE st2[y] = d <=> st[y] = d
      <4>1. ASSUME y \in ChildIds(c), st[y] = d PROVE FALSE
        BY <1>11, <3>1, <4>1, ChildIs
      <4> QED BY <1>7, <2>2, <4>1
    <3>4. {y \in EngineIds : st2[y] = d} = {y \in EngineIds : st[y] = d}
      BY <3>3
    <3>5. pr2[IdOf[d]] = pr[IdOf[d]] /\ ch2[d] = ch[d]
      BY <1>8, <1>9, <2>2, <3>1, CallsAssumption
    <3> QED BY <3>2, <3>4, <3>5
  <2> QED BY <2>1, <2>2
<1>15. q.output_aggregator = p.output_aggregator
  BY DEF AddRequests, ProcessorType
<1> QED BY <1>4, <1>13, <1>14, <1>15 DEF ChildrenKnown


\* A parent is only forgotten with the last of its children.
LEMMA ForgottenParents ==
    ASSUME NEW p \in ProcessorType, NEW es \in SUBSET EngineIds, NEW q, q = AbortChildren(p, es),
           NEW i \in Ids, q.parent_requests[i] # p.parent_requests[i]
    PROVE  /\ q.parent_requests[i] = NoCall
           /\ \E c \in Calls : /\ IsParent(c) /\ IdOf[c] = i /\ p.child_requests[c] \subseteq es
                               /\ \E e \in es : p.request_states[e] = c
<1> DEFINE hit == LiveAmong(p, es)
           left == [c \in Calls |-> p.child_requests[c] \ {e \in hit : p.request_states[e] = c}]
           emptied == {p.request_states[e] : e \in hit} \cap {c \in Calls : left[c] = {}}
<1>1. q.parent_requests[i] =
         IF \E c \in emptied : IsParent(c) /\ IdOf[c] = i THEN NoCall ELSE p.parent_requests[i]
  BY DEF AbortChildren, ProcessorType
<1>2. hit \subseteq es
  BY DEF LiveAmong
<1>3. \A c \in emptied : c \in Calls /\ (\E e \in hit : p.request_states[e] = c)
                           /\ p.child_requests[c] \subseteq hit
  OBVIOUS
<1> HIDE DEF emptied, hit
<1>4. PICK c \in emptied : IsParent(c) /\ IdOf[c] = i
  BY <1>1
<1> QED BY <1>1, <1>2, <1>3, <1>4

LEMMA AbortedChildren ==
    ASSUME NEW p \in ProcessorType, NEW es \in SUBSET EngineIds, ChildrenKnown(p),
           NEW q, q = AbortChildren(p, es)
    PROVE  ChildrenKnown(q)
<1> DEFINE hit == LiveAmong(p, es)
           left == [c \in Calls |-> p.child_requests[c] \ {e \in hit : p.request_states[e] = c}]
           emptied == {p.request_states[e] : e \in hit} \cap {c \in Calls : left[c] = {}}
<1>1. PICK st \in [EngineIds -> MaybeCall] : st = p.request_states
  BY ProcessorIs
<1>2. PICK ch \in [Calls -> SUBSET EngineIds] : ch = p.child_requests
  BY ProcessorIs
<1>3. PICK pr \in [Ids -> MaybeCall] : pr = p.parent_requests
  BY ProcessorIs
<1>4. PICK st2, ch2, pr2 :
        /\ st2 = q.request_states /\ ch2 = q.child_requests /\ pr2 = q.parent_requests
  OBVIOUS
<1>5. \A i \in Ids : pr2[i] =
         IF \E c \in emptied : IsParent(c) /\ IdOf[c] = i THEN NoCall ELSE pr[i]
  BY <1>3, <1>4 DEF AbortChildren, ProcessorType
<1>6. hit \subseteq es
  BY DEF LiveAmong
<1>7. \A c \in emptied : c \in Calls /\ (\E e \in hit : st[e] = c) /\ ch[c] \subseteq hit
  BY <1>1, <1>2
<1> HIDE DEF emptied, hit
<1>8. /\ q.request_states = [e \in EngineIds |-> IF e \in es THEN NoCall ELSE p.request_states[e]]
      /\ q.child_requests = [c \in Calls |-> p.child_requests[c] \ {e \in es : p.request_states[e] = c}]
  BY AbortedIs
<1>9. st2 = [e \in EngineIds |-> IF e \in es THEN NoCall ELSE st[e]]
  BY <1>1, <1>4, <1>8
<1>10. ch2 = [c \in Calls |-> ch[c] \ {e \in es : st[e] = c}]
  BY <1>1, <1>2, <1>4, <1>8
<1>11. \A x \in EngineIds, d \in Calls : st[x] = d /\ IsParent(d) =>
          pr[IdOf[d]] = d /\ ch[d] = {y \in EngineIds : st[y] = d}
  BY <1>1, <1>2, <1>3 DEF ChildrenKnown
<1>12. ASSUME NEW d \in Calls, IsParent(d), NEW x \in EngineIds, st2[x] = d
       PROVE  /\ pr2[IdOf[d]] = pr[IdOf[d]]
              /\ \A y \in EngineIds : y \in ch2[d] <=> y \in ch[d] /\ st2[y] = st[y]
  <2>1. st[x] = d /\ x \notin es /\ IdOf[d] \in Ids
    BY <1>9, <1>12, NoCallIsNone, CallsAssumption
  <2>2. pr[IdOf[d]] = d /\ ch[d] = {y \in EngineIds : st[y] = d}
    BY <1>11, <1>12, <2>1
  <2>3. ASSUME NEW c \in emptied, IsParent(c), IdOf[c] = IdOf[d] PROVE FALSE
    <3>1. PICK e \in hit : st[e] = c
      BY <1>7, <2>3
    <3>2. c \in Calls /\ e \in EngineIds /\ ch[c] \subseteq hit
      BY <1>6, <1>7, <2>3
    <3>3. pr[IdOf[c]] = c
      BY <1>11, <2>3, <3>1, <3>2
    <3>4. c = d
      BY <2>2, <2>3, <3>3
    <3> QED BY <1>6, <2>1, <2>2, <3>2, <3>4
  <2>4. pr2[IdOf[d]] = pr[IdOf[d]]
    BY <1>5, <2>1, <2>3
  <2>5. \A y \in EngineIds : y \in ch2[d] <=> y \in ch[d] /\ st2[y] = st[y]
    BY <1>9, <1>10, <2>2, NoCallIsNone
  <2> QED BY <2>4, <2>5
<1>13. /\ \A i \in Ids : q.parent_requests[i] \in {p.parent_requests[i], NoCall}
       /\ \A e \in EngineIds : q.request_states[e] \in {p.request_states[e], NoCall}
  BY <1>1, <1>3, <1>4, <1>5, <1>9
<1>14. \A c \in Calls : IsParent(c) /\ HasState(q, c) =>
          /\ q.parent_requests[IdOf[c]] = p.parent_requests[IdOf[c]]
          /\ \A x \in EngineIds : x \in q.child_requests[c] <=>
                x \in p.child_requests[c] /\ q.request_states[x] = p.request_states[x]
  BY <1>1, <1>2, <1>3, <1>4, <1>12 DEF HasState
<1>15. \A c \in Calls : q.child_requests[c] \subseteq EngineIds
  BY <1>2, <1>4, <1>10
<1> QED BY <1>13, <1>14, <1>15, ChildrenFollow

\* A call that fails on its way in leaves every state, and what is known of the others.
LEMMA FailedChildren ==
    ASSUME NEW p \in ProcessorType, NEW c \in Calls, Fresh(p, c), ChildrenKnown(p),
           NEW made \in SUBSET ChildIds(c), NEW added \in SUBSET ChildIds(c),
           NEW q, q = AbortChildren(AddRequests(p, c, made, added), added)
    PROVE  /\ ChildrenKnown(q)
           /\ \A e \in EngineIds : q.request_states[e] = p.request_states[e]
           /\ q.output_aggregator = p.output_aggregator
<1>1. PICK m : m = AddRequests(p, c, made, added)
  OBVIOUS
<1>2. PICK st \in [EngineIds -> MaybeCall] : st = p.request_states
  BY ProcessorIs
<1>3. PICK ch \in [Calls -> SUBSET EngineIds] : ch = p.child_requests
  BY ProcessorIs
<1>4. PICK pr \in [Ids -> MaybeCall] : pr = p.parent_requests
  BY ProcessorIs
<1>5. added \in SUBSET EngineIds /\ IdOf[c] \in Ids
  BY IdsAreFinite, CallsAssumption
<1>6. /\ m \in ProcessorType
      /\ m.request_states = [e \in EngineIds |-> IF e \in added THEN c ELSE st[e]]
      /\ m.child_requests = [ch EXCEPT ![c] = IF IsParent(c) THEN made ELSE {}]
      /\ m.parent_requests = [pr EXCEPT ![IdOf[c]] =
            IF IsParent(c) /\ added # {} THEN c ELSE pr[IdOf[c]]]
  BY <1>1, <1>2, <1>3, <1>4, AddedIs
<1>7. \A x \in EngineIds : st[x] # NoCall => IdOf[st[x]] # IdOf[c]
  BY <1>2 DEF Fresh
<1>8. /\ \A i \in Ids : pr[i] # NoCall => IdOf[pr[i]] = i
      /\ \A x \in EngineIds, d \in Calls : st[x] = d =>
           /\ x \in ChildIds(d)
           /\ IsParent(d) => pr[IdOf[d]] = d /\ ch[d] = {y \in EngineIds : st[y] = d}
  BY <1>2, <1>3, <1>4 DEF ChildrenKnown
<1>9. \A x \in added : st[x] = NoCall
  <2> SUFFICES ASSUME NEW x \in added, st[x] # NoCall PROVE FALSE
    OBVIOUS
  <2>1. st[x] \in Calls /\ x \in EngineIds
    BY <1>5 DEF MaybeCall
  <2>2. x \in ChildIds(st[x]) /\ x \in ChildIds(c)
    BY <1>8, <2>1
  <2> QED BY <1>7, <2>1, <2>2, ChildIs
<1>10. q = AbortChildren(m, added)
  BY <1>1
<1>11. /\ q.request_states = [e \in EngineIds |-> IF e \in added THEN NoCall ELSE m.request_states[e]]
       /\ q.child_requests = [d \in Calls |-> m.child_requests[d] \ {e \in added : m.request_states[e] = d}]
       /\ q.output_aggregator = m.output_aggregator /\ q \in ProcessorType
  <2>1. m \in ProcessorType /\ added \in SUBSET EngineIds
    BY <1>5, <1>6
  <2> QED BY <1>10, <2>1, AbortedIs
<1>12. \A e \in EngineIds : q.request_states[e] = st[e]
  <2>1. \A e \in EngineIds : m.request_states[e] = IF e \in added THEN c ELSE st[e]
    BY <1>6
  <2>2. \A e \in EngineIds : q.request_states[e] = IF e \in added THEN NoCall ELSE m.request_states[e]
    BY <1>11
  <2> QED BY <1>9, <2>1, <2>2
<1>13. \A d \in Calls : d # c => q.child_requests[d] = ch[d]
  BY <1>6, <1>11
<1>14. ASSUME NEW i \in Ids, i # IdOf[c] PROVE q.parent_requests[i] = pr[i]
  <2>1. m.parent_requests[i] = pr[i]
    BY <1>5, <1>6, <1>14
  <2>2. \A e \in added : m.request_states[e] = c
    BY <1>5, <1>6
  <2>3. m \in ProcessorType /\ added \in SUBSET EngineIds
    BY <1>5, <1>6
  <2>4. ASSUME q.parent_requests[i] # m.parent_requests[i]
        PROVE  \E d \in Calls : IdOf[d] = i /\ \E e \in added : m.request_states[e] = d
    BY <1>10, <2>3, <2>4, ForgottenParents
  <2> QED BY <1>14, <2>1, <2>2, <2>4
<1>15. q.parent_requests[IdOf[c]] \in {pr[IdOf[c]], c, NoCall}
  <2>1. m.parent_requests[IdOf[c]] \in {pr[IdOf[c]], c}
    BY <1>5, <1>6
  <2>2. m \in ProcessorType /\ added \in SUBSET EngineIds
    BY <1>5, <1>6
  <2>3. PICK i \in Ids : i = IdOf[c]
    BY <1>5
  <2>4. ASSUME q.parent_requests[i] # m.parent_requests[i] PROVE q.parent_requests[i] = NoCall
    BY <1>10, <2>2, <2>4, ForgottenParents
  <2> QED BY <2>1, <2>3, <2>4
<1>16. \A i \in Ids : q.parent_requests[i] # NoCall => IdOf[q.parent_requests[i]] = i
  BY <1>8, <1>14, <1>15
<1>17. ASSUME NEW x \in EngineIds, NEW d \in Calls, q.request_states[x] = d
       PROVE  /\ x \in ChildIds(d)
              /\ IsParent(d) => /\ q.parent_requests[IdOf[d]] = d
                                /\ q.child_requests[d] = {y \in EngineIds : q.request_states[y] = d}
  <2>1. st[x] = d /\ IdOf[d] # IdOf[c] /\ d # c /\ IdOf[d] \in Ids
    BY <1>7, <1>12, <1>17, NoCallIsNone, CallsAssumption
  <2>2. {y \in EngineIds : q.request_states[y] = d} = {y \in EngineIds : st[y] = d}
    BY <1>12
  <2> QED BY <1>8, <1>13, <1>14, <2>1, <2>2
<1>18. m.output_aggregator = p.output_aggregator
  BY <1>1 DEF AddRequests, ProcessorType
<1> QED BY <1>2, <1>11, <1>12, <1>16, <1>17, <1>18 DEF ChildrenKnown

\* The client's id names engine requests of calls that use it, ...
LEMMA NamedUseTheId ==
    ASSUME NEW p \in ProcessorType, NEW id \in Ids, ChildrenKnown(p),
           NEW e \in EngineIds, NEW c \in Calls, p.request_states[e] = c, e \in Named(p, id)
    PROVE  IdOf[c] = id
<1> DEFINE own == {x \in EngineIds : x = <<id, 0>> /\ p.request_states[x] # NoCall}
<1>1. e \in ChildIds(c)
  BY DEF ChildrenKnown
<1>2. CASE own # {}
  <2>1. e = <<id, 0>>
    BY <1>2 DEF Named
  <2> QED BY <1>1, <2>1, ChildIs
<1>3. CASE own = {}
  <2>1. PICK d : d = p.parent_requests[id] /\ d # NoCall
    BY <1>3 DEF Named
  <2>2. d \in Calls /\ IdOf[d] = id
    BY <2>1, ProcessorIs DEF ChildrenKnown, MaybeCall
  <2>3. e \in p.child_requests[d]
    BY <1>3, <2>1 DEF Named, LiveAmong
  <2>4. e \in ChildIds(d)
    BY <2>2, <2>3, ProcessorIs
  <2> QED BY <1>1, <2>2, <2>4, ChildIs
<1> QED BY <1>2, <1>3

\* ... and all of them, when one call at most does.
LEMMA NamedAreAll ==
    ASSUME NEW p \in ProcessorType, NEW id \in Ids, ChildrenKnown(p),
           NEW e \in EngineIds, NEW c \in Calls, p.request_states[e] = c, IdOf[c] = id,
           \A d \in Calls : HasState(p, d) /\ IdOf[d] = id => d = c
    PROVE  e \in Named(p, id)
<1> DEFINE own == {x \in EngineIds : x = <<id, 0>> /\ p.request_states[x] # NoCall}
<1>1. e \in ChildIds(c) /\ c # NoCall
  BY NoCallIsNone DEF ChildrenKnown
<1>2. CASE own # {}
  <2>1. PICK x \in EngineIds : x = <<id, 0>> /\ p.request_states[x] # NoCall
    BY <1>2
  <2>2. PICK d \in Calls : p.request_states[x] = d
    BY <2>1, ProcessorIs DEF MaybeCall
  <2>3. x \in ChildIds(d)
    BY <2>2 DEF ChildrenKnown
  <2>4. IdOf[d] = id /\ ~IsParent(d)
    <3>1. x[1] = id /\ x[2] = 0
      BY <2>1
    <3> QED BY <2>3, <3>1, ChildIs
  <2>5. d = c
    BY <2>2, <2>4 DEF HasState
  <2>6. e = x
    BY <1>1, <2>1, <2>4, <2>5, ChildIs
  <2> QED BY <1>2, <2>1, <2>6 DEF Named
<1>3. CASE own = {}
  <2>1. e # <<id, 0>>
    BY <1>1, <1>3
  <2>2. IsParent(c)
    BY <1>1, <2>1, ChildIs
  <2>3. p.parent_requests[id] = c /\ e \in p.child_requests[c]
    BY <2>2 DEF ChildrenKnown
  <2> QED BY <1>1, <1>3, <2>3 DEF Named, LiveAmong
<1> QED BY <1>2, <1>3

LEMMA AbortIdChildren ==
    ASSUME NEW p \in ProcessorType, NEW id \in Ids, ChildrenKnown(p), NEW q, q = AbortId(p, id)
    PROVE  ChildrenKnown(q) /\ q.output_aggregator = p.output_aggregator
<1>1. PICK es \in SUBSET EngineIds : es = Named(p, id)
  BY NamedHaveState
<1>2. CASE <<id, 0>> \in es
  <2>1. q = AbortChildren(p, es)
    BY <1>1, <1>2 DEF AbortId
  <2>2. ChildrenKnown(q)
    BY <2>1, AbortedChildren
  <2>3. q.output_aggregator = p.output_aggregator
    BY <2>1 DEF AbortChildren, ProcessorType
  <2> QED BY <2>2, <2>3
<1>3. CASE <<id, 0>> \notin es
  <2>1. /\ q.request_states = [e \in EngineIds |-> IF e \in es THEN NoCall ELSE p.request_states[e]]
        /\ q.parent_requests = [p.parent_requests EXCEPT ![id] = NoCall]
        /\ q.child_requests = p.child_requests
        /\ q.output_aggregator = p.output_aggregator
    BY <1>1, <1>3 DEF AbortId, ProcessorType
  <2>2. /\ \A i \in Ids : q.parent_requests[i] \in {p.parent_requests[i], NoCall}
        /\ \A e \in EngineIds : q.request_states[e] \in {p.request_states[e], NoCall}
        /\ \A c \in Calls : q.child_requests[c] \subseteq EngineIds
    BY <2>1, ProcessorIs
  <2>3. ASSUME NEW c \in Calls, IsParent(c), HasState(q, c)
        PROVE  /\ q.parent_requests[IdOf[c]] = p.parent_requests[IdOf[c]]
               /\ \A x \in EngineIds : x \in q.child_requests[c] <=>
                     x \in p.child_requests[c] /\ q.request_states[x] = p.request_states[x]
    <3>1. PICK e \in EngineIds : q.request_states[e] = c
      BY <2>3 DEF HasState
    <3>2. p.request_states[e] = c /\ e \notin es
      BY <2>1, <3>1, NoCallIsNone
    <3>3. /\ p.parent_requests[IdOf[c]] = c
          /\ p.child_requests[c] = {x \in EngineIds : p.request_states[x] = c}
      BY <2>3, <3>2 DEF ChildrenKnown
    <3>4. {x \in EngineIds : x = <<id, 0>> /\ p.request_states[x] # NoCall} = {}
      BY <1>1, <1>3 DEF Named
    <3>5. IdOf[c] # id
      <4> SUFFICES ASSUME IdOf[c] = id PROVE FALSE
        OBVIOUS
      <4>1. e \in LiveAmong(p, p.child_requests[c])
        BY <3>2, <3>3, NoCallIsNone DEF LiveAmong
      <4>2. e \in Named(p, id)
        BY <3>3, <3>4, <4>1, NoCallIsNone DEF Named
      <4> QED BY <1>1, <3>2, <4>2
    <3>6. \A x \in es : p.request_states[x] # c
      BY <1>1, <3>5, NamedUseTheId
    <3>7. IdOf[c] \in Ids
      BY CallsAssumption
    <3> QED BY <2>1, <3>3, <3>5, <3>6, <3>7, ProcessorIs
  <2> QED BY <2>1, <2>2, <2>3, ChildrenFollow
<1> QED BY <1>2, <1>3


------------------------------------------------------------------------------
(* What is in the queues, and what is still to come.                        *)

Mail == Item \cup {Failure, Cancelled}

MailTypes ==
    /\ mailbox \in [Calls -> Seq(Mail)]
    /\ delivered = [c \in Calls |-> delivered[c]]

Kept(p, box, c) == StateInv(p, c) /\ BoxInv(p, box, c) /\ OnceInv(p, box, c)

LEMMA ItemsDoNotRaise == \A item \in Item : ~Raises(item)
<1> SUFFICES ASSUME NEW item \in Item, Raises(item) PROVE FALSE
  OBVIOUS
<1>1. DOMAIN item = {"id", "parts", "finished"}
  BY DEF Item
<1>2. item = [error |-> "EngineDeadError"] \/ item = [error |-> "CancelledError"]
  BY DEF Raises, Failure, Cancelled
<1>3. DOMAIN item = {"error"}
  BY <1>2
<1>4. "id" \in DOMAIN item /\ "id" \notin DOMAIN item
  BY <1>1, <1>3
<1> QED BY <1>4

LEMMA RaisedEnd == Raises(Failure) /\ Raises(Cancelled) /\ Failure # Cancelled
<1>1. Failure.error # Cancelled.error
  BY DEF Failure, Cancelled
<1> QED BY <1>1 DEF Raises

LEMMA BoxIs ==
    ASSUME NEW box \in Seq(Mail)
    PROVE  \E n \in Nat : n = Len(box) /\ DOMAIN box = 1 .. n
BY LenProperties

LEMMA AppendMail ==
    ASSUME NEW box \in Seq(Mail), NEW x \in Mail
    PROVE  /\ Append(box, x) \in Seq(Mail)
           /\ \E n \in Nat : /\ DOMAIN box = 1 .. n /\ DOMAIN Append(box, x) = 1 .. (n + 1)
                             /\ \A i \in 1 .. n : Append(box, x)[i] = box[i]
                             /\ Append(box, x)[n + 1] = x
<1>1. PICK n \in Nat : n = Len(box) /\ DOMAIN box = 1 .. n
  BY BoxIs
<1>2. /\ Append(box, x) \in Seq(Mail) /\ Len(Append(box, x)) = n + 1
      /\ \A i \in 1 .. n : Append(box, x)[i] = box[i]
      /\ Append(box, x)[n + 1] = x
  BY <1>1, AppendProperties
<1>3. DOMAIN Append(box, x) = 1 .. (n + 1)
  BY <1>2, LenProperties
<1> QED BY <1>1, <1>2, <1>3

LEMMA TailMail ==
    ASSUME NEW box \in Seq(Mail), box # <<>>
    PROVE  /\ Tail(box) \in Seq(Mail) /\ Head(box) \in Mail
           /\ \E n \in Nat : /\ n > 0 /\ DOMAIN box = 1 .. n /\ DOMAIN Tail(box) = 1 .. (n - 1)
                             /\ \A i \in 1 .. (n - 1) : Tail(box)[i] = box[i + 1]
                             /\ Head(box) = box[1]
<1>1. PICK n \in Nat : n = Len(box) /\ DOMAIN box = 1 .. n
  BY BoxIs
<1>2. n # 0
  BY <1>1, EmptySeq
<1>3. /\ Tail(box) \in Seq(Mail) /\ Len(Tail(box)) = n - 1 /\ Head(box) \in Mail
      /\ \A i \in 1 .. Len(Tail(box)) : Tail(box)[i] = box[i + 1]
  BY <1>1, <1>2, HeadTailProperties
<1>4. DOMAIN Tail(box) = 1 .. (n - 1)
  BY <1>3, LenProperties
<1> QED BY <1>1, <1>2, <1>3, <1>4

\* A step that leaves c's queue and what it was given, and at most loses all its state.
LEMMA KeptFollows ==
    ASSUME NEW c \in Calls, NEW p, NEW q, NEW box, Kept(p, box, c), delivered'[c] = delivered[c],
           phase'[c] = "new" => phase[c] = "new", phase'[c] = "last" => phase[c] = "last",
           errored => errored', queues'[IdOf[c]] = c => queues[IdOf[c]] = c,
           HasState(q, c) => queues'[IdOf[c]] = c,
           \A e \in EngineIds : q.request_states[e] = c => p.request_states[e] = c,
           HasState(q, c) => \A e \in EngineIds : p.request_states[e] = c => q.request_states[e] = c,
           q.output_aggregator[c] = p.output_aggregator[c]
    PROVE  Kept(q, box, c)'
<1>1. HasState(q, c) => HasState(p, c)
  BY DEF HasState
<1>2. StateInv(q, c)'
  BY DEF Kept, StateInv, HasState
<1>3. BoxInv(q, box, c)'
  BY <1>1 DEF Kept, BoxInv, HasState, Raises, Ends
<1>4. OnceInv(q, box, c)'
  <2> SUFFICES ASSUME NEW k \in Indices(c)
               PROVE  /\ delivered'[c][k] \in {0, 1}
                      /\ phase'[c] = "new" => delivered'[c][k] = 0
                      /\ delivered'[c][k] = 1 => \A i \in DOMAIN box : ~Carries(box[i], k)
                      /\ \A i, j \in DOMAIN box : Carries(box[i], k) /\ Carries(box[j], k) => i = j
                      /\ Given(box, c, k)' => q.request_states[ChildId(c, k)] # c
                      /\ phase'[c] = "last" => delivered'[c][k] = 1
                      /\ \A i \in DOMAIN box : ~Raises(box[i]) /\ box[i].finished => Given(box, c, k)'
                      /\ HasState(q, c) =>
                           \/ q.request_states[ChildId(c, k)] = c
                           \/ IF Gathers(c) THEN \E s \in q.output_aggregator[c] : s.index = k /\ s.final
                                            ELSE Given(box, c, k)'
                      /\ HasState(q, c) /\ Gathers(c) => ~Given(box, c, k)'
    BY DEF OnceInv, HasState, Raises, Carries
  <2>1. Given(box, c, k)' <=> Given(box, c, k)
    BY DEF Given, Carries, Raises
  <2>2. ChildId(c, k) \in EngineIds
    BY IdsAreFinite DEF ChildIds
  <2>3. OnceInv(p, box, c)
    BY DEF Kept
  <2> HIDE DEF Kept
  <2> QED BY <1>1, <2>1, <2>2, <2>3 DEF OnceInv
<1> QED BY <1>2, <1>3, <1>4 DEF Kept

\* The same when an exception ends up behind what is in the queue.
LEMMA RaisingKeeps ==
    ASSUME NEW c \in Calls, NEW p, NEW box \in Seq(Mail), Kept(p, box, c)', NEW x \in {Failure, Cancelled},
           x = Cancelled => queues'[IdOf[c]] # c, x = Failure => errored', phase'[c] # "new"
    PROVE  Kept(p, Append(box, x), c)'
<1>1. PICK box2 : box2 = Append(box, x)
  OBVIOUS
<1>2. PICK n \in Nat : /\ DOMAIN box = 1 .. n /\ DOMAIN box2 = 1 .. (n + 1)
                       /\ \A i \in 1 .. n : box2[i] = box[i]
                       /\ box2[n + 1] = x
  <2>1. x \in Mail
    BY DEF Mail
  <2> QED BY <1>1, <2>1, AppendMail
<1>3. Raises(x)
  BY RaisedEnd
<1>4. ASSUME NEW i \in 1 .. (n + 1), ~Raises(box2[i]) PROVE i \in 1 .. n /\ box2[i] = box[i]
  BY <1>2, <1>3, <1>4
<1>5. BoxInv(p, box, c)' /\ OnceInv(p, box, c)' /\ StateInv(p, c)'
  BY DEF Kept
<1>6. BoxInv(p, box2, c)'
  <2>1. ASSUME NEW i \in DOMAIN box2, ~Raises(box2[i])
        PROVE  /\ \A s \in box2[i].parts : s.origin = c
               /\ \A j \in 1 .. (i - 1) : ~Ends(box2[j])
    <3>1. i \in 1 .. n /\ box2[i] = box[i]
      BY <1>2, <1>4, <2>1
    <3>2. \A j \in 1 .. (i - 1) : box2[j] = box[j]
      BY <1>2, <3>1
    <3> QED BY <1>2, <1>5, <2>1, <3>1, <3>2 DEF BoxInv
  <2>2. ASSUME NEW i \in DOMAIN box2
        PROVE  /\ box2[i] = Cancelled => queues'[IdOf[c]] # c
               /\ box2[i] = Failure => errored'
               /\ ~Raises(box2[i]) /\ box2[i].finished => ~HasState(p, c)
    <3>1. CASE i = n + 1
      BY <1>2, <1>3, <3>1
    <3>2. CASE i # n + 1
      <4>1. i \in 1 .. n /\ box2[i] = box[i]
        BY <1>2, <3>2
      <4> QED BY <1>2, <1>5, <4>1 DEF BoxInv
    <3> QED BY <3>1, <3>2
  <2>3. phase'[c] = "last" => ~HasState(p, c)
    BY <1>5 DEF BoxInv
  <2> QED BY <2>1, <2>2, <2>3 DEF BoxInv
<1>7. ASSUME NEW k PROVE Given(box2, c, k)' <=> Given(box, c, k)'
  <2>1. ASSUME NEW i \in DOMAIN box2, Carries(box2[i], k) PROVE i \in DOMAIN box /\ Carries(box[i], k)
    BY <1>2, <1>4, <2>1 DEF Carries
  <2>2. ASSUME NEW i \in DOMAIN box, Carries(box[i], k) PROVE i \in DOMAIN box2 /\ Carries(box2[i], k)
    BY <1>2, <2>2
  <2> QED BY <2>1, <2>2 DEF Given
<1>8. OnceInv(p, box2, c)'
  <2>1. ASSUME NEW k, NEW i \in DOMAIN box2, Carries(box2[i], k)
        PROVE  i \in DOMAIN box /\ Carries(box[i], k)
    BY <1>2, <1>4, <2>1 DEF Carries
  <2>2. ASSUME NEW i \in DOMAIN box2, ~Raises(box2[i]) PROVE i \in DOMAIN box /\ box2[i] = box[i]
    BY <1>2, <1>4, <2>2
  <2> QED BY <1>5, <1>7, <2>1, <2>2 DEF OnceInv
<1> QED BY <1>1, <1>5, <1>6, <1>8 DEF Kept

\* And when the one at the head is taken.
LEMMA TakingKeeps ==
    ASSUME NEW c \in Calls, NEW p, NEW box \in Seq(Mail), box # <<>>, Raises(Head(box)), Kept(p, box, c)
    PROVE  Kept(p, Tail(box), c)
<1>1. PICK box2 : box2 = Tail(box)
  OBVIOUS
<1>2. PICK n \in Nat : /\ n > 0 /\ DOMAIN box = 1 .. n /\ DOMAIN box2 = 1 .. (n - 1)
                       /\ \A i \in 1 .. (n - 1) : box2[i] = box[i + 1]
                       /\ Raises(box[1])
  BY <1>1, TailMail
<1>3. BoxInv(p, box, c) /\ OnceInv(p, box, c) /\ StateInv(p, c)
  BY DEF Kept
<1>4. \A i \in 1 .. n : Raises(box[i])
  <2> SUFFICES ASSUME NEW i \in 1 .. n, ~Raises(box[i]) PROVE FALSE
    OBVIOUS
  <2>1. 1 \in 1 .. (i - 1)
    BY <1>2
  <2> QED BY <1>2, <1>3, <2>1 DEF BoxInv, Ends
<1>5. \A i \in DOMAIN box2 : i + 1 \in 1 .. n /\ box2[i] = box[i + 1] /\ Raises(box2[i])
  BY <1>2, <1>4
<1>6. BoxInv(p, box2, c)
  <2>1. phase[c] = "new" => box2 = <<>>
    BY <1>2, <1>3 DEF BoxInv
  <2>2. phase[c] = "last" => ~HasState(p, c)
    BY <1>3 DEF BoxInv
  <2>3. ASSUME NEW i \in DOMAIN box2
        PROVE  (box2[i] = Cancelled => queues[IdOf[c]] # c) /\ (box2[i] = Failure => errored)
    BY <1>2, <1>3, <1>5 DEF BoxInv
  <2> QED BY <1>5, <2>1, <2>2, <2>3 DEF BoxInv
<1>7. \A k : Given(box2, c, k) <=> Given(box, c, k)
  BY <1>2, <1>4, <1>5 DEF Given, Carries
<1>8. OnceInv(p, box2, c)
  <2>1. \A k, i : i \in DOMAIN box2 => ~Carries(box2[i], k)
    BY <1>5 DEF Carries
  <2> QED BY <1>3, <1>5, <1>7, <2>1 DEF OnceInv
<1> QED BY <1>1, <1>3, <1>6, <1>8 DEF Kept


\* What one output of a call with state leaves, and what it puts in the queue: a final
\* part at once or, where the parts are gathered, all of them with the last.
Part(c, k, out) == [index |-> k, origin |-> c, final |-> out.final]

ItemOf(p, q, out, c, k, item) ==
    /\ out.eid = ChildId(c, k)
    /\ \A e \in EngineIds, d \in Calls :
          q.request_states[e] = d <=> p.request_states[e] = d /\ ~(out.final /\ e = out.eid)
    /\ item.id = IdOf[c]
    /\ item.finished <=> ~HasState(q, c)
    /\ item.finished => out.final
    /\ \A d \in Calls : d # c => q.output_aggregator[d] = p.output_aggregator[d]
    /\ q.output_aggregator[c] =
          IF Gathers(c) THEN {s \in p.output_aggregator[c] : s.index # k} \cup {Part(c, k, out)}
                        ELSE p.output_aggregator[c]
    /\ item.parts = IF Gathers(c) THEN q.output_aggregator[c] ELSE {Part(c, k, out)}

After(box, c, item) == IF Gathers(c) /\ ~item.finished THEN box ELSE Append(box, item)

LEMMA OneItem ==
    ASSUME NEW acc \in Progress, NEW out \in Output, NEW c \in Calls,
           acc.p.request_states[out.eid] = c, out.origin = c, ChildrenKnown(acc.p),
           NEW acc2, acc2 = ProcessOutput(acc, out)
    PROVE  \E k \in Indices(c), item \in Item :
              /\ ItemOf(acc.p, acc2.p, out, c, k, item)
              /\ acc2.items = After(acc.items, c, item)
<1> DEFINE p == acc.p
           part == [index |-> out.eid[2], origin |-> out.origin, final |-> out.final]
           left == p.child_requests[c] \ (IF out.final THEN {out.eid} ELSE {})
           parts == IF IsParent(c) THEN Collected(p, c, part, left) ELSE {part}
           finished == Finished(c, out, left)
<1>1. p \in ProcessorType /\ out.eid \in EngineIds /\ out.final \in BOOLEAN /\ c # NoCall
  BY NoCallIsNone DEF Progress, Output
<1>2. out.eid \in ChildIds(c)
  BY <1>1 DEF ChildrenKnown
<1>3. PICK k \in Indices(c) : out.eid = ChildId(c, k)
  BY <1>2 DEF ChildIds
<1>4. out.eid[2] = k
  BY <1>3 DEF ChildId
<1>5. part = Part(c, k, out)
  BY <1>4 DEF Part
<1>6. IsParent(c) => p.child_requests[c] = {x \in EngineIds : p.request_states[x] = c}
  BY <1>1 DEF ChildrenKnown
<1>7. Taken(p, acc2.p, out.eid, out.final)
  BY OneOutput
<1>8. acc2.p.request_states = [p.request_states EXCEPT ![out.eid] = IF out.final THEN NoCall ELSE c]
  BY <1>1, <1>7 DEF Taken
<1>9. \A x \in EngineIds, d \in Calls : acc2.p.request_states[x] = d <=>
          p.request_states[x] = d /\ ~(out.final /\ x = out.eid)
  BY <1>1, <1>8, ProcessorIs, NoCallIsNone
<1>10. finished <=> ~HasState(acc2.p, c)
  <2>1. CASE IsParent(c)
    <3>1. \A x \in EngineIds : x \in left <=> acc2.p.request_states[x] = c
      BY <1>6, <1>9, <2>1
    <3>2. left \subseteq EngineIds
      BY <1>6, <2>1
    <3> QED BY <2>1, <3>1, <3>2 DEF HasState, Finished
  <2>2. CASE ~IsParent(c)
    <3>1. \A x \in EngineIds : p.request_states[x] = c => x = out.eid
      BY <1>1, <1>2, <2>2, ChildIs DEF ChildrenKnown
    <3> QED BY <1>1, <1>9, <2>2, <3>1 DEF HasState, Finished
  <2> QED BY <2>1, <2>2
<1>11. finished \in BOOLEAN /\ (finished => out.final)
  BY <1>1, <1>6 DEF Finished
<1>12. parts = IF Gathers(c) THEN IF finished THEN Slots(p, c, part) ELSE {} ELSE {part}
  <2>1. IsParent(c) => ChildId(c, part.index) \in p.child_requests[c]
    BY <1>1, <1>3, <1>4, <1>6
  <2>2. CASE Gathers(c)
    <3> HIDE DEF p, part, left
    <3> QED BY <2>2 DEF Collected, Gathers, Finished
  <2>3. CASE IsParent(c) /\ c \in Streaming
    <3> HIDE DEF p, part, left
    <3> QED BY <2>1, <2>3 DEF Collected, Gathers
  <2>4. CASE ~IsParent(c)
    BY <2>4 DEF Gathers
  <2> QED BY <2>2, <2>3, <2>4 DEF Gathers
<1>13. acc2 = [p |-> [p EXCEPT
                        !.child_requests[c] = left,
                        !.output_aggregator[c] =
                            IF IsParent(c) /\ c \notin Streaming THEN Slots(p, c, part) ELSE @,
                        !.request_states[out.eid] = StateAfter(out, c),
                        !.parent_requests[IdOf[c]] =
                            IF out.final /\ IsParent(c) /\ left = {} THEN NoCall ELSE @],
               items |-> IF parts = {} /\ ~finished THEN acc.items
                         ELSE Append(acc.items, [id |-> IdOf[c], parts |-> parts, finished |-> finished])]
  BY <1>1 DEF ProcessOutput
<1>14. acc2.p.output_aggregator =
         [p.output_aggregator EXCEPT ![c] = IF Gathers(c) THEN Slots(p, c, part) ELSE p.output_aggregator[c]]
  <2>1. acc2.p.output_aggregator =
          [p.output_aggregator EXCEPT ![c] = IF IsParent(c) /\ c \notin Streaming
                                             THEN Slots(p, c, part) ELSE p.output_aggregator[c]]
    BY <1>1 DEF ProcessOutput, ProcessorType
  <2> QED BY <2>1 DEF Gathers
<1>15. acc2.items = IF parts = {} /\ ~finished THEN acc.items
                    ELSE Append(acc.items, [id |-> IdOf[c], parts |-> parts, finished |-> finished])
  BY <1>13
<1>16. p.output_aggregator \in [Calls -> SUBSET Parts]
  BY <1>1, ProcessorIs
<1>17. PICK given : given = IF Gathers(c) THEN Slots(p, c, part) ELSE {part}
  OBVIOUS
<1>18. PICK item : item = [id |-> IdOf[c], parts |-> given, finished |-> finished]
  OBVIOUS
<1>19. part \in Parts
  BY <1>1, <1>2, IdIs DEF Output, Parts
<1>20. item \in Item
  <2>1. given \in SUBSET Parts
    BY <1>16, <1>17, <1>19 DEF Slots
  <2>2. IdOf[c] \in Ids
    BY CallsAssumption
  <2> QED BY <1>11, <1>18, <2>1, <2>2 DEF Item
<1>21. /\ item.id = IdOf[c]
       /\ item.finished <=> ~HasState(acc2.p, c)
       /\ item.finished => out.final
  BY <1>10, <1>11, <1>18
<1>22. \A d \in Calls : d # c => acc2.p.output_aggregator[d] = p.output_aggregator[d]
  BY <1>14, <1>16
<1>23. acc2.p.output_aggregator[c] =
          IF Gathers(c) THEN {s \in p.output_aggregator[c] : s.index # k} \cup {Part(c, k, out)}
                        ELSE p.output_aggregator[c]
  BY <1>4, <1>5, <1>14, <1>16 DEF Slots
<1>24. item.parts = IF Gathers(c) THEN acc2.p.output_aggregator[c] ELSE {Part(c, k, out)}
  BY <1>5, <1>14, <1>16, <1>17, <1>18
<1>25. acc2.items = After(acc.items, c, item)
  <2> HIDE DEF p, part, left, parts, finished
  <2>1. Gathers(c) /\ ~finished => acc2.items = acc.items
    BY <1>12, <1>15
  <2>2. ~(Gathers(c) /\ ~finished) => parts = given /\ (parts # {} \/ finished)
    BY <1>12, <1>17
  <2>3. item.finished = finished
    BY <1>18
  <2> QED BY <1>15, <1>18, <2>1, <2>2, <2>3 DEF After
<1>26. ItemOf(p, acc2.p, out, c, k, item)
  BY <1>3, <1>9, <1>21, <1>22, <1>23, <1>24 DEF ItemOf
<1> QED BY <1>20, <1>25, <1>26


\* Among the queues, only that of the call whose engine request it came from sees an output.
LEMMA ItemKeeps ==
    ASSUME NEW c \in Calls, NEW k \in Indices(c), NEW p, NEW q, NEW out \in Output, NEW item \in Item,
           NEW box \in Seq(Mail), NEW box2,
           Kept(p, box, c), ~errored, handler # "none", phase[c] # "new",
           ItemOf(p, q, out, c, k, item), p.request_states[out.eid] = c,
           box2 = After(box, c, item)
    PROVE  Kept(q, box2, c) /\ ServedInv(q, box2, c)
<1> USE DEF ItemOf, After
<1> DEFINE put == ~(Gathers(c) /\ ~item.finished)
<1>1. StateInv(p, c) /\ BoxInv(p, box, c) /\ OnceInv(p, box, c)
  BY DEF Kept
<1>2. out.eid \in EngineIds /\ HasState(p, c) /\ queues[IdOf[c]] = c /\ ~Raises(item)
  BY <1>1, ItemsDoNotRaise DEF Output, HasState, StateInv
<1>3. \A x \in Indices(c) : ChildId(c, x) \in EngineIds /\ (ChildId(c, x) = out.eid => x = k)
  <2>1. ASSUME NEW x \in Indices(c) PROVE ChildId(c, x) \in EngineIds
    <3>1. ChildId(c, x) \in ChildIds(c)
      BY DEF ChildIds
    <3> QED BY <3>1, IdsAreFinite
  <2>2. \A x \in Indices(c) : ChildId(c, x)[2] = x
    BY DEF ChildId
  <2> QED BY <2>1, <2>2
<1>4. \A i \in DOMAIN box : ~Ends(box[i])
  BY <1>1, <1>2 DEF BoxInv, Ends, Raises
<1>5. HasState(q, c) => HasState(p, c)
  BY DEF HasState
<1>6. PICK n \in Nat : /\ DOMAIN box = 1 .. n
                       /\ DOMAIN box2 = IF put THEN 1 .. (n + 1) ELSE 1 .. n
                       /\ \A i \in 1 .. n : box2[i] = box[i]
                       /\ put => box2[n + 1] = item
  <2>1. item \in Mail
    BY DEF Mail
  <2>2. CASE put
    <3>1. box2 = Append(box, item)
      BY <2>2
    <3> HIDE DEF put
    <3> QED BY <2>1, <2>2, <3>1, AppendMail
  <2>3. CASE ~put
    <3>1. box2 = box
      BY <2>3
    <3> HIDE DEF put
    <3> QED BY <2>3, <3>1, BoxIs
  <2> QED BY <2>2, <2>3
<1>7. put <=> (Gathers(c) => item.finished)
  OBVIOUS
<1> HIDE DEF put
<1>8. \A i \in DOMAIN box2 : \/ i \in 1 .. n /\ i \in DOMAIN box /\ box2[i] = box[i]
                             \/ i = n + 1 /\ put /\ box2[i] = item
  BY <1>6
<1>9. \A s \in q.output_aggregator[c] : s.origin = c
  BY <1>1 DEF StateInv, Part
<1>10. StateInv(q, c)
  BY <1>2, <1>9 DEF StateInv
<1>11. BoxInv(q, box2, c)
  <2>1. ASSUME NEW i \in DOMAIN box2, ~Raises(box2[i])
        PROVE  /\ \A s \in box2[i].parts : s.origin = c
               /\ \A j \in 1 .. (i - 1) : ~Ends(box2[j])
    <3>1. \A j \in 1 .. (i - 1) : j \in DOMAIN box /\ box2[j] = box[j]
      BY <1>6, <1>8
    <3>2. \A s \in item.parts : s.origin = c
      BY <1>9 DEF Part
    <3> QED BY <1>1, <1>4, <1>8, <2>1, <3>1, <3>2 DEF BoxInv
  <2>2. ASSUME NEW i \in DOMAIN box2
        PROVE  /\ ~Raises(box2[i])
               /\ box2[i].finished => ~HasState(q, c)
    BY <1>2, <1>4, <1>8 DEF Ends
  <2>3. phase[c] # "last"
    BY <1>1, <1>2 DEF BoxInv
  <2> QED BY <2>1, <2>2, <2>3 DEF BoxInv, Raises
<1>12. ASSUME NEW x \in Indices(c), Gathers(c), ~HasState(q, c)
       PROVE  \E s \in q.output_aggregator[c] : s.index = x /\ s.final
  <2>1. CASE x = k
    <3>1. out.final /\ Part(c, k, out) \in q.output_aggregator[c]
      BY <1>12
    <3>2. Part(c, k, out).index = k /\ Part(c, k, out).final = out.final
      BY DEF Part
    <3> QED BY <2>1, <3>1, <3>2
  <2>2. CASE x # k
    <3>1. p.request_states[ChildId(c, x)] # c
      BY <1>3, <1>12, <2>2 DEF HasState
    <3>2. PICK s \in p.output_aggregator[c] : s.index = x /\ s.final
      BY <1>1, <1>2, <1>12, <3>1 DEF OnceInv
    <3> QED BY <1>12, <2>2, <3>2
  <2> QED BY <2>1, <2>2
<1>13. ASSUME NEW x \in Indices(c)
       PROVE  put /\ Carries(item, x) <=> IF Gathers(c) THEN item.finished ELSE x = k /\ out.final
  <2>1. Carries(item, x) <=> \E s \in item.parts : s.final /\ s.index = x
    BY <1>2 DEF Carries, FinalIndices
  <2>2. CASE Gathers(c)
    BY <1>7, <1>12, <2>1, <2>2
  <2>3. CASE ~Gathers(c)
    <3>1. Part(c, k, out).index = k /\ Part(c, k, out).final = out.final
      BY DEF Part
    <3>2. item.parts = {Part(c, k, out)}
      BY <2>3
    <3> QED BY <1>7, <2>1, <2>3, <3>1, <3>2
  <2> QED BY <2>2, <2>3
<1>14. ASSUME NEW x \in Indices(c), put, Carries(item, x) PROVE ~Given(box, c, x)
  <2>1. CASE Gathers(c)
    BY <1>1, <1>2, <2>1 DEF OnceInv
  <2>2. CASE ~Gathers(c)
    <3>1. x = k
      BY <1>13, <1>14, <2>2
    <3> QED BY <1>1, <3>1 DEF OnceInv
  <2> QED BY <2>1, <2>2
<1>15. ASSUME NEW x \in Indices(c)
       PROVE  Given(box2, c, x) <=> Given(box, c, x) \/ (put /\ Carries(item, x))
  <2>1. ASSUME NEW i \in DOMAIN box2, Carries(box2[i], x)
        PROVE  Given(box, c, x) \/ (put /\ Carries(item, x))
    BY <1>8, <2>1 DEF Given
  <2>2. ASSUME NEW i \in DOMAIN box, Carries(box[i], x) PROVE i \in DOMAIN box2 /\ Carries(box2[i], x)
    BY <1>6, <2>2
  <2>3. put => n + 1 \in DOMAIN box2 /\ box2[n + 1] = item
    BY <1>6
  <2> QED BY <2>1, <2>2, <2>3 DEF Given
<1>16. OnceInv(q, box2, c)
  <2> SUFFICES ASSUME NEW x \in Indices(c)
               PROVE  /\ delivered[c][x] \in {0, 1}
                      /\ delivered[c][x] = 1 => \A i \in DOMAIN box2 : ~Carries(box2[i], x)
                      /\ \A i, j \in DOMAIN box2 : Carries(box2[i], x) /\ Carries(box2[j], x) => i = j
                      /\ Given(box2, c, x) => q.request_states[ChildId(c, x)] # c
                      /\ phase[c] # "last"
                      /\ \A i \in DOMAIN box2 : ~Raises(box2[i]) /\ box2[i].finished => Given(box2, c, x)
                      /\ HasState(q, c) =>
                           \/ q.request_states[ChildId(c, x)] = c
                           \/ IF Gathers(c) THEN \E s \in q.output_aggregator[c] : s.index = x /\ s.final
                                            ELSE Given(box2, c, x)
                      /\ HasState(q, c) /\ Gathers(c) => ~Given(box2, c, x)
    BY DEF OnceInv
  <2>1. /\ delivered[c][x] \in {0, 1}
        /\ delivered[c][x] = 1 => \A i \in DOMAIN box : ~Carries(box[i], x)
        /\ \A i, j \in DOMAIN box : Carries(box[i], x) /\ Carries(box[j], x) => i = j
        /\ Given(box, c, x) => p.request_states[ChildId(c, x)] # c
        /\ \/ p.request_states[ChildId(c, x)] = c
           \/ IF Gathers(c) THEN \E s \in p.output_aggregator[c] : s.index = x /\ s.final
                            ELSE Given(box, c, x)
        /\ Gathers(c) => ~Given(box, c, x)
    BY <1>1, <1>2 DEF OnceInv
  <2>2. phase[c] # "last"
    BY <1>1, <1>2 DEF BoxInv
  <2>3. put /\ Carries(item, x) => delivered[c][x] # 1 /\ \A i \in DOMAIN box : ~Carries(box[i], x)
    BY <1>14 DEF Given
  <2>4. delivered[c][x] = 1 => \A i \in DOMAIN box2 : ~Carries(box2[i], x)
    BY <1>8, <2>1, <2>3
  <2>5. \A i, j \in DOMAIN box2 : Carries(box2[i], x) /\ Carries(box2[j], x) => i = j
    BY <1>8, <2>1, <2>3
  <2>6. Given(box2, c, x) => q.request_states[ChildId(c, x)] # c
    <3>1. CASE Given(box, c, x)
      BY <1>3, <2>1, <3>1
    <3>2. CASE put /\ Carries(item, x)
      BY <1>3, <1>13, <3>2 DEF HasState
    <3> QED BY <1>15, <3>1, <3>2
  <2>7. ASSUME NEW i \in DOMAIN box2, ~Raises(box2[i]), box2[i].finished PROVE Given(box2, c, x)
    <3>1. put /\ item.finished
      BY <1>4, <1>8, <2>7 DEF Ends
    <3>2. CASE Gathers(c)
      BY <1>13, <1>15, <3>1, <3>2
    <3>3. CASE ~Gathers(c) /\ x = k
      BY <1>13, <1>15, <3>1, <3>3
    <3>4. CASE ~Gathers(c) /\ x # k
      <4>1. p.request_states[ChildId(c, x)] # c
        BY <1>3, <3>1, <3>4 DEF HasState
      <4> QED BY <1>15, <2>1, <3>4, <4>1
    <3> QED BY <3>2, <3>3, <3>4
  <2>8. ASSUME HasState(q, c)
        PROVE  \/ q.request_states[ChildId(c, x)] = c
               \/ IF Gathers(c) THEN \E s \in q.output_aggregator[c] : s.index = x /\ s.final
                                ELSE Given(box2, c, x)
    <3>1. CASE x = k /\ ~out.final
      BY <1>3, <3>1
    <3>2. CASE x = k /\ out.final /\ Gathers(c)
      <4>1. Part(c, k, out).index = k /\ Part(c, k, out).final = out.final
        BY DEF Part
      <4>2. Part(c, k, out) \in q.output_aggregator[c]
        BY <3>2
      <4> QED BY <3>2, <4>1, <4>2
    <3>3. CASE x = k /\ out.final /\ ~Gathers(c)
      BY <1>13, <1>15, <3>3
    <3>4. CASE x # k /\ Gathers(c)
      BY <1>3, <2>1, <3>4
    <3>5. CASE x # k /\ ~Gathers(c)
      BY <1>3, <1>15, <2>1, <3>5
    <3> QED BY <3>1, <3>2, <3>3, <3>4, <3>5
  <2>9. HasState(q, c) /\ Gathers(c) => ~Given(box2, c, x)
    BY <1>13, <1>15, <2>1
  <2> QED BY <2>1, <2>2, <2>4, <2>5, <2>6, <2>7, <2>8, <2>9
<1>17. ServedInv(q, box2, c)
  <2> SUFFICES ASSUME \A i \in DOMAIN box2 : ~Ends(box2[i]) PROVE HasState(q, c)
    BY <1>2 DEF ServedInv
  <2> QED BY <1>6, <1>7 DEF Ends
<1> QED BY <1>10, <1>11, <1>16, <1>17 DEF Kept


LEMMA SameKeeps ==
    ASSUME NEW c \in Calls, NEW p, NEW q, NEW box, Kept(p, box, c), ServedInv(p, box, c),
           \A e \in EngineIds : q.request_states[e] = c <=> p.request_states[e] = c,
           q.output_aggregator[c] = p.output_aggregator[c]
    PROVE  Kept(q, box, c) /\ ServedInv(q, box, c)
<1>1. HasState(q, c) <=> HasState(p, c)
  BY DEF HasState
<1>2. \A k \in Indices(c) : q.request_states[ChildId(c, k)] = c <=> p.request_states[ChildId(c, k)] = c
  BY IdsAreFinite DEF ChildIds
<1>3. StateInv(q, c)
  BY <1>1 DEF Kept, StateInv
<1>4. BoxInv(q, box, c)
  BY <1>1 DEF Kept, BoxInv
<1>5. OnceInv(q, box, c)
  <2>1. OnceInv(p, box, c)
    BY DEF Kept
  <2> QED BY <1>1, <1>2, <2>1 DEF OnceInv
<1>6. ServedInv(q, box, c)
  BY <1>1 DEF ServedInv
<1> QED BY <1>3, <1>4, <1>5, <1>6 DEF Kept

\* One output of a step, and its item where it has one.
LEMMA OneMail ==
    ASSUME NEW acc \in Progress, NEW out \in Output, NEW boxes \in [Calls -> Seq(Mail)],
           MailInv(acc.p, boxes), handler # "none", ~errored,
           \A c \in Calls : HasState(acc.p, c) => phase[c] # "new",
           acc.p.request_states[out.eid] \in {out.origin, NoCall},
           NEW acc2, acc2 = ProcessOutput(acc, out)
    PROVE  \/ acc2.items = acc.items /\ MailInv(acc2.p, boxes)
           \/ \E item \in Item :
                /\ acc2.items = Append(acc.items, item)
                /\ Put(boxes, item) \in [Calls -> Seq(Mail)]
                /\ MailInv(acc2.p, Put(boxes, item))
<1>1. acc.p \in ProcessorType /\ out.eid \in EngineIds /\ out.final \in BOOLEAN /\ acc2 \in Progress
  BY OneOutputTyped DEF Progress, Output
<1>2. CASE acc.p.request_states[out.eid] = NoCall
  <2>1. acc2 = acc
    BY <1>2 DEF ProcessOutput
  <2> QED BY <2>1
<1>3. CASE acc.p.request_states[out.eid] # NoCall
  <2>1. PICK c \in Calls : c = out.origin
    BY DEF Output
  <2>2. acc.p.request_states[out.eid] = c /\ out.origin = c /\ c # NoCall
    BY <1>3, <2>1, NoCallIsNone
  <2>3. ChildrenKnown(acc.p)
    BY DEF MailInv
  <2>4. PICK k \in Indices(c), item \in Item :
          /\ ItemOf(acc.p, acc2.p, out, c, k, item)
          /\ acc2.items = After(acc.items, c, item)
    BY <2>2, <2>3, OneItem
  <2>5. Taken(acc.p, acc2.p, out.eid, out.final)
    BY OneOutput
  <2>7. \A x \in EngineIds, d \in Calls : acc2.p.request_states[x] = d <=>
           acc.p.request_states[x] = d /\ ~(out.final /\ x = out.eid)
    BY <2>4 DEF ItemOf
  <2>8. ChildrenKnown(acc2.p)
    <3>1. PICK p1 \in ProcessorType, p2 \in ProcessorType : p1 = acc.p /\ p2 = acc2.p
      BY <1>1 DEF Progress
    <3>2. PICK e \in EngineIds, final \in BOOLEAN : e = out.eid /\ final = out.final
      BY <1>1
    <3>3. Taken(p1, p2, e, final) /\ ChildrenKnown(p1)
      BY <2>3, <2>5, <3>1, <3>2
    <3> QED BY <3>1, <3>3, TakenChildren
  <2>9. PICK boxes2 : boxes2 = IF Gathers(c) /\ ~item.finished THEN boxes ELSE Put(boxes, item)
    OBVIOUS
  <2>10. HasState(acc.p, c)
    BY <1>1, <2>2 DEF HasState
  <2>11. /\ Kept(acc.p, boxes[c], c)
         /\ \A d \in Calls : Kept(acc.p, boxes[d], d) /\ ServedInv(acc.p, boxes[d], d)
    BY DEF MailInv, Kept
  <2>12. Put(boxes, item) = [boxes EXCEPT ![c] = Append(boxes[c], item)]
    <3>1. queues[IdOf[c]] = c
      BY <2>10, <2>11 DEF Kept, StateInv
    <3> QED BY <2>2, <2>4, <3>1 DEF Put, InFlight, ItemOf
  <2>13. Put(boxes, item) \in [Calls -> Seq(Mail)]
    <3>1. Append(boxes[c], item) \in Seq(Mail)
      BY AppendMail DEF Mail
    <3> QED BY <2>12, <3>1
  <2>14. boxes2[c] = IF Gathers(c) /\ ~item.finished THEN boxes[c] ELSE Append(boxes[c], item)
    BY <2>9, <2>12
  <2>15. \A d \in Calls : d # c => boxes2[d] = boxes[d]
    BY <2>9, <2>12
  <2>16. Kept(acc2.p, boxes2[c], c) /\ ServedInv(acc2.p, boxes2[c], c)
    <3>1. PICK p, q, box2 : p = acc.p /\ q = acc2.p /\ box2 = boxes2[c]
      OBVIOUS
    <3> PICK box \in Seq(Mail) : box = boxes[c]
      OBVIOUS
    <3>2. Kept(p, box, c) /\ phase[c] # "new" /\ p.request_states[out.eid] = c
      BY <2>2, <2>10, <2>11, <3>1
    <3>3. ItemOf(p, q, out, c, k, item) /\ box2 = After(box, c, item)
      BY <2>4, <2>14, <3>1 DEF After
    <3>4. Kept(q, box2, c) /\ ServedInv(q, box2, c)
      BY <3>2, <3>3, ItemKeeps
    <3> QED BY <3>1, <3>4
  <2>17. ASSUME NEW d \in Calls, d # c
         PROVE  Kept(acc2.p, boxes2[d], d) /\ ServedInv(acc2.p, boxes2[d], d)
    <3>1. \A e \in EngineIds : acc2.p.request_states[e] = d <=> acc.p.request_states[e] = d
      BY <2>2, <2>7, <2>17
    <3>2. acc2.p.output_aggregator[d] = acc.p.output_aggregator[d]
      BY <2>4, <2>17 DEF ItemOf
    <3> QED BY <2>11, <2>15, <2>17, <3>1, <3>2, SameKeeps
  <2>18. MailInv(acc2.p, boxes2)
    BY <2>8, <2>16, <2>17 DEF MailInv, Kept
  <2> QED BY <2>4, <2>9, <2>13, <2>18 DEF After
<1> QED BY <1>2, <1>3

\* Items are put one by one.
LEMMA PutOneByOne ==
    ASSUME NEW items, Len(items) \in Nat
    PROVE  \E put :
              /\ put[0] = mailbox
              /\ \A n \in 1 .. Len(items) : put[n] = Put(put[n - 1], items[n])
              /\ PutAll(items) = put[Len(items)]
<1> DEFINE Run(f, m) == f = [n \in 0 .. m |-> IF n = 0 THEN mailbox ELSE Put(f[n - 1], items[n])]
           T == {m \in Nat : \E f : Run(f, m)}
<1>1. 0 \in T
  <2>1. Run([n \in 0 .. 0 |-> mailbox], 0)
    OBVIOUS
  <2> HIDE DEF Run
  <2> QED BY <2>1
<1>2. ASSUME NEW m \in 0 .. Len(items), m < Len(items), m \in T PROVE m + 1 \in T
  <2>1. PICK f : Run(f, m)
    BY <1>2
  <2> DEFINE g == [n \in 0 .. (m + 1) |-> IF n <= m THEN f[n] ELSE Put(f[m], items[m + 1])]
  <2>2. Run(g, m + 1)
    BY <2>1
  <2> HIDE DEF Run, g
  <2> QED BY <2>2
<1> HIDE DEF Run
<1>3. Len(items) \in T
  <2> HIDE DEF T
  <2> QED BY <1>1, <1>2, Climb
<1>4. \E f : Run(f, Len(items))
  BY <1>3
<1> DEFINE h == CHOOSE f : Run(f, Len(items))
<1>5. Run(h, Len(items))
  BY <1>4
<1>6. PutAll(items) = h[Len(items)]
  BY DEF PutAll, Run
<1> HIDE DEF h
<1> QED BY <1>5, <1>6 DEF Run


LEMMA PutNone == PutAll(<<>>) = mailbox
BY PutOneByOne

LEMMA PutLast ==
    ASSUME NEW items \in Seq(Item), NEW item \in Item
    PROVE  PutAll(Append(items, item)) = Put(PutAll(items), item)
<1>1. PICK more : more = Append(items, item)
  OBVIOUS
<1>2. PICK m \in Nat : m = Len(items)
  BY LenProperties
<1>3. /\ Len(more) = m + 1 /\ more[m + 1] = item
      /\ \A n \in 1 .. m : more[n] = items[n]
  BY <1>1, <1>2, AppendProperties
<1>4. PICK put : /\ put[0] = mailbox
                 /\ \A n \in 1 .. m : put[n] = Put(put[n - 1], items[n])
                 /\ PutAll(items) = put[m]
  BY <1>2, PutOneByOne
<1>5. PICK put2 : /\ put2[0] = mailbox
                  /\ \A n \in 1 .. (m + 1) : put2[n] = Put(put2[n - 1], more[n])
                  /\ PutAll(more) = put2[m + 1]
  <2>1. Len(more) \in Nat
    BY <1>3
  <2> QED BY <1>3, <2>1, PutOneByOne
<1> DEFINE T == {n \in 0 .. m : put2[n] = put[n]}
<1>6. 0 \in T
  BY <1>4, <1>5
<1>7. ASSUME NEW n \in 0 .. m, n < m, n \in T PROVE n + 1 \in T
  <2>1. n + 1 \in 1 .. m /\ n + 1 \in 1 .. (m + 1) /\ n + 1 - 1 = n
    BY <1>7
  <2>2. put2[n + 1] = Put(put2[n], items[n + 1]) /\ put[n + 1] = Put(put[n], items[n + 1])
    BY <1>3, <1>4, <1>5, <2>1
  <2> QED BY <1>7, <2>1, <2>2
<1>8. m \in T
  <2> HIDE DEF T
  <2> QED BY <1>6, <1>7, Climb
<1>9. put2[m + 1] = Put(put2[m], item)
  BY <1>3, <1>5
<1> QED BY <1>1, <1>4, <1>5, <1>8, <1>9

\* All of a step's outputs.
LEMMA AllMail ==
    ASSUME NEW p \in ProcessorType, p = processor, mailbox \in [Calls -> Seq(Mail)],
           MailInv(p, mailbox), handler # "none", ~errored,
           \A c \in Calls : HasState(p, c) => phase[c] # "new",
           NEW outs \in Seq(Output),
           \A n \in DOMAIN outs : p.request_states[outs[n].eid] \in {outs[n].origin, NoCall},
           NEW q, q = ProcessOutputs(p, outs)
    PROVE  PutAll(q.items) \in [Calls -> Seq(Mail)] /\ MailInv(q.p, PutAll(q.items))
<1>1. Len(outs) \in Nat /\ DOMAIN outs = 1 .. Len(outs) /\ \A n \in 1 .. Len(outs) : outs[n] \in Output
  BY LenProperties, ElementOfSeq
<1>2. PICK done :
        /\ done[0] = [p |-> p, items |-> <<>>]
        /\ \A n \in 1 .. Len(outs) : done[n] = ProcessOutput(done[n - 1], outs[n])
        /\ q = done[Len(outs)]
  BY <1>1, OutputsOneByOne
<1> DEFINE Good(n) ==
             /\ done[n] \in Progress
             /\ \A e \in EngineIds : done[n].p.request_states[e] \in {p.request_states[e], NoCall}
             /\ PutAll(done[n].items) \in [Calls -> Seq(Mail)]
             /\ MailInv(done[n].p, PutAll(done[n].items))
           T == {n \in 0 .. Len(outs) : Good(n)}
<1>3. 0 \in T
  <2>1. done[0] \in Progress /\ done[0].p = p /\ done[0].items = <<>>
    BY <1>2, EmptySeq DEF Progress
  <2> QED BY <1>1, <2>1, PutNone
<1>4. ASSUME NEW n \in 0 .. Len(outs), n < Len(outs), n \in T PROVE n + 1 \in T
  <2>1. n + 1 \in 1 .. Len(outs) /\ n + 1 - 1 = n
    BY <1>1, <1>4
  <2>2. PICK acc \in Progress : acc = done[n]
    BY <1>4
  <2>3. PICK out \in Output : out = outs[n + 1]
    BY <1>1, <2>1
  <2>4. PICK acc2 : acc2 = ProcessOutput(acc, out)
    OBVIOUS
  <2>5. done[n + 1] = acc2
    BY <1>2, <2>1, <2>2, <2>3, <2>4
  <2>6. acc2 \in Progress
    BY <2>4, OneOutputTyped
  <2>7. \A e \in EngineIds : acc.p.request_states[e] \in {p.request_states[e], NoCall}
    BY <1>4, <2>2
  <2>8. PICK boxes \in [Calls -> Seq(Mail)] : boxes = PutAll(acc.items) /\ MailInv(acc.p, boxes)
    BY <1>4, <2>2
  <2>9. \A c \in Calls : HasState(acc.p, c) => phase[c] # "new"
    BY <2>7, NoCallIsNone DEF HasState
  <2>10. acc.p.request_states[out.eid] \in {out.origin, NoCall}
    <3>1. p.request_states[out.eid] \in {out.origin, NoCall} /\ out.eid \in EngineIds
      BY <1>1, <2>1, <2>3 DEF Output
    <3> QED BY <2>7, <3>1
  <2>11. \/ acc2.items = acc.items /\ MailInv(acc2.p, boxes)
         \/ \E item \in Item :
              /\ acc2.items = Append(acc.items, item)
              /\ Put(boxes, item) \in [Calls -> Seq(Mail)]
              /\ MailInv(acc2.p, Put(boxes, item))
    BY <2>4, <2>8, <2>9, <2>10, OneMail
  <2>12. PutAll(acc2.items) \in [Calls -> Seq(Mail)] /\ MailInv(acc2.p, PutAll(acc2.items))
    <3>1. acc.items \in Seq(Item)
      BY DEF Progress
    <3> QED BY <2>8, <2>11, <3>1, PutLast
  <2>13. ASSUME NEW e \in EngineIds PROVE acc2.p.request_states[e] \in {p.request_states[e], NoCall}
    <3>1. \/ acc2.p.request_states[e] = acc.p.request_states[e]
          \/ acc2.p.request_states[e] = NoCall /\ out.eid = e /\ out.final
      BY <2>4, OneState
    <3> QED BY <2>7, <3>1
  <2> QED BY <2>1, <2>5, <2>6, <2>12, <2>13
<1> HIDE DEF Good
<1>5. Len(outs) \in T
  <2> HIDE DEF T
  <2> QED BY <1>1, <1>3, <1>4, Climb
<1>6. Good(Len(outs))
  BY <1>5
<1> QED BY <1>2, <1>6 DEF Good


------------------------------------------------------------------------------
(* From one state to the next.                                              *)

\* A call that is owed something goes on being owed it.
LEMMA ServedFollows ==
    ASSUME NEW c \in Calls, NEW p, NEW q, NEW box, ServedInv(p, box, c),
           phase'[c] \in {"waiting", "yielded"} => phase[c] \in {"waiting", "yielded"},
           queues[IdOf[c]] = c => queues'[IdOf[c]] = c,
           handler' = "none" => handler = "none", proc' = "up" => proc = "up",
           queues[IdOf[c]] = c /\ proc' = "up" /\ HasState(p, c) => HasState(q, c)
    PROVE  ServedInv(q, box, c)'
BY DEF ServedInv, HasState, Ends, Raises

LEMMA DeliveryFollows ==
    ASSUME NEW q, q = processor', NEW boxes, boxes = mailbox', ChildrenKnown(q),
           \A c \in Calls : Kept(q, boxes[c], c)' /\ ServedInv(q, boxes[c], c)',
           errored' => handler' = "none"
    PROVE  DeliveryInv'
<1>1. ChildrenKnown(processor)'
  BY DEF ChildrenKnown
<1>2. ASSUME NEW c \in Calls
      PROVE  (/\ StateInv(processor, c) /\ BoxInv(processor, mailbox[c], c)
              /\ ServedInv(processor, mailbox[c], c) /\ OnceInv(processor, mailbox[c], c))'
  <2>1. PICK box : box = boxes[c]
    OBVIOUS
  <2>2. StateInv(q, c)' /\ BoxInv(q, box, c)' /\ ServedInv(q, box, c)' /\ OnceInv(q, box, c)'
    BY <2>1 DEF Kept
  <2>3. box = mailbox'[c]
    BY <2>1
  <2>4. StateInv(processor, c)'
    BY <2>2 DEF StateInv, HasState
  <2>5. BoxInv(processor, mailbox[c], c)'
    BY <2>2, <2>3 DEF BoxInv, HasState
  <2>6. ServedInv(processor, mailbox[c], c)'
    BY <2>2, <2>3 DEF ServedInv, HasState
  <2>7. OnceInv(processor, mailbox[c], c)'
    BY <2>2, <2>3 DEF OnceInv, Given, HasState
  <2> QED BY <2>4, <2>5, <2>6, <2>7
<1>3. MailInv(processor, mailbox)'
  BY <1>1, <1>2 DEF MailInv
<1> QED BY <1>3 DEF DeliveryInv

\* The parts of it that are used.
LEMMA DeliveryIs ==
    ASSUME DeliveryInv
    PROVE  /\ ChildrenKnown(processor)
           /\ \A c \in Calls : Kept(processor, mailbox[c], c) /\ ServedInv(processor, mailbox[c], c)
           /\ errored => handler = "none"
BY DEF DeliveryInv, MailInv, Kept

\* A step that leaves the queues and the processor.
LEMMA NothingMoves ==
    ASSUME DeliveryInv, MailTypes, UNCHANGED <<phase, queues, mailbox, delivered, processor, errored>>,
           \/ handler' = "none" => handler = "none"
           \/ NobodyWaits /\ ~errored,
           errored => handler' = "none", proc' = "up" => proc = "up"
    PROVE  DeliveryInv' /\ MailTypes'
<1>1. PICK p, boxes : p = processor /\ boxes = mailbox
  OBVIOUS
<1>2. /\ ChildrenKnown(p)
      /\ \A c \in Calls : Kept(p, boxes[c], c) /\ ServedInv(p, boxes[c], c)
  BY <1>1, DeliveryIs
<1>3. ASSUME NEW c \in Calls PROVE Kept(p, boxes[c], c)' /\ ServedInv(p, boxes[c], c)'
  <2>1. PICK box : box = boxes[c]
    OBVIOUS
  <2>2. Kept(p, box, c) /\ ServedInv(p, box, c)
    BY <1>2, <2>1
  <2>3. Kept(p, box, c)'
    <3>1. HasState(p, c) => queues[IdOf[c]] = c
      BY <2>2 DEF Kept, StateInv
    <3> QED BY <2>2, <3>1, KeptFollows
  <2>4. ServedInv(p, box, c)'
    <3>1. CASE handler' = "none" => handler = "none"
      BY <2>2, <3>1, ServedFollows
    <3>2. CASE NobodyWaits
      <4>1. queues[IdOf[c]] # c
        BY <3>2, CallsAssumption, NoCallIsNone DEF NobodyWaits, InFlight
      <4> QED BY <2>2, <4>1 DEF ServedInv
    <3> QED BY <3>1, <3>2
  <2> QED BY <2>1, <2>3, <2>4
<1>4. p = processor' /\ boxes = mailbox' /\ (errored' => handler' = "none")
  BY <1>1
<1>5. DeliveryInv'
  BY <1>2, <1>3, <1>4, DeliveryFollows
<1> QED BY <1>5 DEF MailTypes

\* What a step of the engine produced, each output out of the call that has its state.
LEMMA FanOutDelivers ==
    ASSUME FrontTypes, MailTypes, StatesInv, DeliveryInv, handler # "none", handler' # "none",
           NEW outs \in Seq(Output), NEW stops, FanOut(EndedBy(outs, stops)),
           \A n \in DOMAIN outs : processor.request_states[outs[n].eid] \in {outs[n].origin, NoCall},
           UNCHANGED <<phase, queues, delivered, errored>>, proc' = proc
    PROVE  DeliveryInv' /\ MailTypes'
<1>1. PICK p \in ProcessorType : p = processor
  BY DEF FrontTypes, AsyncTypeOK
<1>2. PICK ended \in Seq(Output) :
        /\ ended = EndedBy(outs, stops) /\ DOMAIN ended = DOMAIN outs
        /\ \A i \in DOMAIN outs : ended[i].eid = outs[i].eid /\ ended[i].origin = outs[i].origin
  BY EndedByIs
<1>3. PICK q : q = ProcessOutputs(p, ended)
  OBVIOUS
<1>4. processor' = q.p /\ mailbox' = PutAll(q.items)
  BY <1>1, <1>2, <1>3 DEF FanOut
<1>5. \A n \in DOMAIN ended : p.request_states[ended[n].eid] \in {ended[n].origin, NoCall}
  BY <1>1, <1>2
<1>6. \A c \in Calls : HasState(p, c) => phase[c] # "new"
  BY <1>1 DEF StatesInv, UnderWay, HasState
<1>7. ~errored /\ MailInv(p, mailbox) /\ mailbox \in [Calls -> Seq(Mail)]
  BY <1>1 DEF DeliveryInv, MailTypes
<1>8. PutAll(q.items) \in [Calls -> Seq(Mail)] /\ MailInv(q.p, PutAll(q.items))
  BY <1>1, <1>3, <1>5, <1>6, <1>7, AllMail
<1>9. PICK p2, boxes : p2 = q.p /\ boxes = PutAll(q.items)
  OBVIOUS
<1>10. /\ ChildrenKnown(p2)
       /\ \A c \in Calls : Kept(p2, boxes[c], c) /\ ServedInv(p2, boxes[c], c)
  BY <1>8, <1>9 DEF MailInv, Kept
<1>11. ASSUME NEW c \in Calls PROVE Kept(p2, boxes[c], c)' /\ ServedInv(p2, boxes[c], c)'
  <2>1. PICK box : box = boxes[c]
    OBVIOUS
  <2>2. Kept(p2, box, c) /\ ServedInv(p2, box, c)
    BY <1>10, <2>1
  <2>3. HasState(p2, c) => queues'[IdOf[c]] = c
    BY <2>2 DEF Kept, StateInv
  <2>4. Kept(p2, box, c)'
    BY <2>2, <2>3, KeptFollows
  <2>5. ServedInv(p2, box, c)'
    BY <2>2, ServedFollows
  <2> QED BY <2>1, <2>4, <2>5
<1>12. p2 = processor' /\ boxes = mailbox' /\ (errored' => handler' = "none")
  BY <1>4, <1>7, <1>9
<1>13. DeliveryInv'
  BY <1>10, <1>11, <1>12, DeliveryFollows
<1> QED BY <1>4, <1>8, <1>13 DEF MailTypes


\* The error reaches every queue that is registered, and so everyone who waits.
LEMMA BroadcastDelivers ==
    ASSUME QueuesInv, MailTypes, DeliveryInv, Broadcast, FrontTypes,
           UNCHANGED <<phase, queues, delivered, processor>>, handler' = "none", errored'
    PROVE  DeliveryInv' /\ MailTypes'
<1>1. PICK p, boxes : p = processor /\ boxes = mailbox'
  OBVIOUS
<1>2. /\ ChildrenKnown(p)
      /\ \A c \in Calls : Kept(p, mailbox[c], c) /\ ServedInv(p, mailbox[c], c)
  BY <1>1, DeliveryIs
<1>3. \A c \in Calls : mailbox[c] \in Seq(Mail) /\ IdOf[c] \in Ids
  BY CallsAssumption DEF MailTypes
<1>4. \A c \in Calls : boxes[c] = IF queues[IdOf[c]] = c THEN Append(mailbox[c], Failure) ELSE mailbox[c]
  <2> SUFFICES ASSUME NEW c \in Calls PROVE (\E i \in Ids : queues[i] = c) <=> queues[IdOf[c]] = c
    BY <1>1 DEF Broadcast
  <2>1. ASSUME NEW i \in Ids, queues[i] = c PROVE i = IdOf[c]
    BY <2>1, NoCallIsNone DEF QueuesInv, InFlight
  <2> QED BY <1>3, <2>1
<1>5. boxes \in [Calls -> Seq(Mail)]
  <2>1. ASSUME NEW c \in Calls PROVE boxes[c] \in Seq(Mail)
    <3>1. Failure \in Mail
      BY DEF Mail
    <3>2. Append(mailbox[c], Failure) \in Seq(Mail)
      BY <1>3, <3>1, AppendMail
    <3> QED BY <1>3, <1>4, <3>2
  <2> QED BY <1>1, <2>1 DEF Broadcast
<1>6. ASSUME NEW c \in Calls PROVE Kept(p, boxes[c], c)' /\ ServedInv(p, boxes[c], c)'
  <2> PICK box \in Seq(Mail) : box = mailbox[c]
    BY <1>3
  <2>1. Kept(p, box, c) /\ ServedInv(p, box, c)
    BY <1>2
  <2>2. Kept(p, box, c)'
    <3>1. HasState(p, c) => queues[IdOf[c]] = c
      BY <2>1 DEF Kept, StateInv
    <3> QED BY <2>1, <3>1, KeptFollows
  <2>3. CASE queues[IdOf[c]] = c
    <3>1. phase'[c] # "new"
      BY <1>3, <2>3, NoCallIsNone DEF QueuesInv, InFlight, UnderWay
    <3>2. PICK box2 : box2 = Append(box, Failure)
      OBVIOUS
    <3>3. Kept(p, box2, c)'
      BY <2>2, <3>1, <3>2, RaisedEnd, RaisingKeeps
    <3>4. \E i \in DOMAIN box2 : Ends(box2[i])
      <4>1. Failure \in Mail /\ Ends(Failure)
        BY RaisedEnd DEF Mail, Ends
      <4>2. PICK n \in Nat : DOMAIN box2 = 1 .. (n + 1) /\ box2[n + 1] = Failure
        BY <3>2, <4>1, AppendMail
      <4> QED BY <4>1, <4>2
    <3>5. ServedInv(p, box2, c)'
      BY <3>4 DEF ServedInv, Ends, Raises
    <3> QED BY <1>4, <2>3, <3>2, <3>3, <3>5
  <2>4. CASE queues[IdOf[c]] # c
    <3>1. ServedInv(p, box, c)'
      BY <2>1, <2>4 DEF ServedInv, Ends, Raises
    <3> QED BY <1>4, <2>2, <2>4, <3>1
  <2> QED BY <2>3, <2>4
<1>7. p = processor' /\ boxes = mailbox'
  BY <1>1
<1>8. DeliveryInv'
  BY <1>2, <1>6, <1>7, DeliveryFollows
<1> QED BY <1>5, <1>7, <1>8 DEF MailTypes

\* Each output of a step, whatever carries it, is of the call that has the state, if any has.
LEMMA HeldHaveOrigin ==
    ASSUME Agreement, transport # "mp", NEW ending, NEW outs \in Seq(HeldOutputs(ending))
    PROVE  \A n \in DOMAIN outs : processor.request_states[outs[n].eid] \in {outs[n].origin, NoCall}
<1> SUFFICES ASSUME NEW n \in DOMAIN outs
             PROVE  processor.request_states[outs[n].eid] = outs[n].origin
  OBVIOUS
<1>1. outs[n] \in HeldOutputs(ending)
  BY LenProperties, ElementOfSeq
<1>2. PICK e \in Held : outs[n] = [eid |-> e, origin |-> core[e], final |-> e \in ending]
  BY <1>1 DEF HeldOutputs
<1> QED BY <1>2, AgreementIs DEF Held

LEMMA FramesHaveOrigin ==
    ASSUME SocketsSeeNoReuse, FrontTypes, SocketInv, StatesInv, transport = "mp", frames # <<>>,
           NEW outs \in Seq(Output), outs = Head(frames)
    PROVE  \A n \in DOMAIN outs : processor.request_states[outs[n].eid] \in {outs[n].origin, NoCall}
<1> SUFFICES ASSUME NEW n \in DOMAIN outs, processor.request_states[outs[n].eid] # NoCall
             PROVE  processor.request_states[outs[n].eid] = outs[n].origin
  OBVIOUS
<1>1. outs \in Unread
  <2>1. frames \in Seq(Seq(Output))
    BY DEF FrontTypes, SocketTypes
  <2>2. 1 \in DOMAIN frames /\ outs = frames[1]
    BY <2>1, HeadTailProperties, EmptySeq, LenProperties
  <2> QED BY <2>2 DEF Unread, Range
<1>2. outs[n] \in Output
  BY LenProperties, ElementOfSeq
<1>3. PICK e \in EngineIds : e = outs[n].eid
  BY <1>2 DEF Output
<1>4. PICK d \in Calls : d = processor.request_states[e]
  BY <1>3 DEF FrontTypes, AsyncTypeOK, ProcessorType, MaybeCall
<1>5. UnderOwnId(e, outs[n].origin)
  BY <1>1, <1>3 DEF SocketInv, UnreadInv
<1>6. UnderWay(d) /\ e \in ChildIds(d)
  BY <1>4 DEF StatesInv
<1>7. (\A c \in Retries : phase[c] = "new") /\ d \notin Retries
  BY <1>6 DEF SocketInv, UnderWay
<1> QED BY <1>3, <1>4, <1>5, <1>6, <1>7, OneOwner


LEMMA HandlerDelivers ==
    ASSUME SocketsSeeNoReuse, FrontInv, SocketInv, DeliveryInv, MailTypes, HandlerStep
    PROVE  DeliveryInv' /\ MailTypes'
<1>1. FrontTypes /\ QueuesInv /\ StatesInv /\ Agreement /\ RouterInv /\ core \in [EngineIds -> MaybeCall]
  BY DEF FrontInv, CallsInv, Agreement, FrontTypes, AsyncTypeOK
<1>2. errored => handler = "none"
  BY DEF DeliveryInv
<1>3. CASE HandlerPolls \/ HandlerGivesUp
  <2>1. /\ UNCHANGED <<phase, queues, mailbox, delivered, processor, errored, proc>>
        /\ handler # "none" /\ handler' # "none"
    BY <1>3 DEF HandlerPolls, HandlerGivesUp, callVars, clientVars, socketVars
  <2> QED BY <1>2, <2>1, NothingMoves
<1>4. CASE HandlerReturns
  <2>1. /\ UNCHANGED <<phase, queues, mailbox, delivered, processor, errored, proc>>
        /\ handler # "none" /\ NobodyWaits
    BY <1>4 DEF HandlerReturns, callVars, clientVars, socketVars
  <2> QED BY <1>2, <2>1, NothingMoves
<1>5. CASE HandlerStepsInproc
  <2>1. PICK ran \in SUBSET Held : ran = {e \in Held : <<e, core[e]>> \in batch}
    OBVIOUS
  <2>2. PICK ending, stops : FanOut(EndedBy(Outputs(ran, ending), stops))
    BY <1>5, <2>1 DEF HandlerStepsInproc
  <2>3. PICK outs \in Seq(HeldOutputs(ending)) : outs = Outputs(ran, ending)
    BY <1>1, OutputsOfHeld
  <2>4. /\ UNCHANGED <<phase, queues, delivered, errored, proc>> /\ transport # "mp"
        /\ handler # "none" /\ handler' # "none"
    BY <1>5 DEF HandlerStepsInproc, socketVars
  <2>5. outs \in Seq(Output)
    BY <1>1, HeldOutputsTyped
  <2>6. \A n \in DOMAIN outs : processor.request_states[outs[n].eid] \in {outs[n].origin, NoCall}
    BY <1>1, <2>4, HeldHaveOrigin
  <2>7. FanOut(EndedBy(outs, stops))
    BY <2>2, <2>3
  <2> QED BY <1>1, <2>4, <2>5, <2>6, <2>7, FanOutDelivers
<1>6. CASE HandlerRounds
  <2>1. PICK ending \in Endings(Held) : \E stops \in SUBSET MayStop(Produced(ending)) :
          FanOut(EndedBy(Produced(ending), stops)) /\ Round(Ranks, ending, stops)
    BY <1>6 DEF HandlerRounds
  <2>2. PICK outs \in Seq(HeldOutputs(ending)) : outs = Produced(ending)
    BY <1>1, <1>6, RoundOutputs DEF HandlerRounds
  <2>3. PICK stops : FanOut(EndedBy(outs, stops)) /\ Round(Ranks, ending, stops)
    BY <2>1, <2>2
  <2>4. /\ UNCHANGED <<phase, queues, delivered, errored, proc>> /\ transport # "mp"
        /\ handler # "none" /\ handler' # "none"
    BY <1>6, <2>3 DEF HandlerRounds, Round, Replicated, socketVars
  <2>5. outs \in Seq(Output)
    BY <1>1, HeldOutputsTyped
  <2>6. \A n \in DOMAIN outs : processor.request_states[outs[n].eid] \in {outs[n].origin, NoCall}
    BY <1>1, <2>4, HeldHaveOrigin
  <2> QED BY <1>1, <2>3, <2>4, <2>5, <2>6, FanOutDelivers
<1>7. CASE HandlerTakesFrame
  <2>1. frames \in Seq(Seq(Output)) /\ frames # <<>>
    BY <1>1, <1>7 DEF HandlerTakesFrame, FrontTypes, SocketTypes
  <2>2. PICK outs \in Seq(Output) : outs = Head(frames)
    BY <2>1, HeadTailProperties
  <2>3. PICK stops : FanOut(EndedBy(outs, stops))
    BY <1>7, <2>2 DEF HandlerTakesFrame
  <2>4. /\ UNCHANGED <<phase, queues, delivered, errored, proc>> /\ transport = "mp"
        /\ handler # "none" /\ handler' # "none"
    BY <1>7 DEF HandlerTakesFrame
  <2>5. \A n \in DOMAIN outs : processor.request_states[outs[n].eid] \in {outs[n].origin, NoCall}
    BY <1>1, <2>1, <2>2, <2>4, FramesHaveOrigin
  <2> QED BY <1>1, <2>3, <2>4, <2>5, FanOutDelivers
<1>8. CASE HandlerDies \/ RoundDies
  <2>1. /\ Broadcast /\ UNCHANGED <<phase, queues, delivered, processor>>
        /\ handler' = "none" /\ errored'
    BY <1>8 DEF HandlerDies, RoundDies
  <2> QED BY <1>1, <2>1, BroadcastDelivers
<1> QED BY <1>3, <1>4, <1>5, <1>6, <1>7, <1>8 DEF HandlerStep

\* An exception for the call that is aborted, whose state goes with it.
LEMMA AbortCallDelivers ==
    ASSUME FrontInv, SocketInv, DeliveryInv, MailTypes, NEW id \in Ids, AbortCall(id)
    PROVE  DeliveryInv' /\ MailTypes'
<1>1. FrontTypes /\ QueuesInv /\ StatesInv /\ Agreement
  BY DEF FrontInv, CallsInv
<1>2. PICK p \in ProcessorType : p = processor
  BY <1>1 DEF FrontTypes, AsyncTypeOK
<1>3. PICK q : q = processor'
  OBVIOUS
<1>4. PICK es \in SUBSET EngineIds : es = Named(p, id)
  BY NamedHaveState
<1>5. q = AbortId(p, id)
  BY <1>2, <1>3 DEF AbortCall
<1>6. /\ ChildrenKnown(p)
      /\ \A c \in Calls : Kept(p, mailbox[c], c) /\ ServedInv(p, mailbox[c], c)
      /\ errored => handler = "none"
  BY <1>2, DeliveryIs
<1>7. UNCHANGED <<phase, delivered, handler, errored, proc>>
  BY DEF AbortCall, Abort, clientVars, socketVars
<1>8. ChildrenKnown(q) /\ q.output_aggregator = p.output_aggregator
  BY <1>5, <1>6, AbortIdChildren
<1>9. \A e \in EngineIds : q.request_states[e] = IF e \in es THEN NoCall ELSE p.request_states[e]
  BY <1>4, <1>5, AbortIdState
<1>10. ASSUME NEW c \in Calls, IdOf[c] # id
       PROVE  \A e \in EngineIds : q.request_states[e] = c <=> p.request_states[e] = c
  BY <1>4, <1>6, <1>9, <1>10, NamedUseTheId, NoCallIsNone
<1>11. ASSUME NEW c \in Calls, IdOf[c] = id PROVE ~HasState(q, c)
  <2> SUFFICES ASSUME NEW e \in EngineIds, q.request_states[e] = c PROVE FALSE
    BY DEF HasState
  <2>1. p.request_states[e] = c /\ e \notin es
    BY <1>9, NoCallIsNone
  <2>2. queues[id] = c
    BY <1>6, <1>11, <2>1 DEF Kept, StateInv, HasState
  <2>3. \A d \in Calls : HasState(p, d) /\ IdOf[d] = id => d = c
    BY <1>6, <2>2 DEF Kept, StateInv
  <2>4. e \in Named(p, id)
    BY <1>6, <1>11, <2>1, <2>3, NamedAreAll
  <2> QED BY <1>4, <2>1, <2>4
<1>12. ASSUME NEW c \in Calls, NEW box, box = mailbox[c],
              UNCHANGED queues \/ queues' = [queues EXCEPT ![id] = NoCall]
       PROVE  Kept(q, box, c)'
  <2>1. Kept(p, box, c)
    BY <1>6, <1>12
  <2>2. \A e \in EngineIds : q.request_states[e] = c => p.request_states[e] = c
    BY <1>9, NoCallIsNone
  <2>3. HasState(q, c) => \A e \in EngineIds : p.request_states[e] = c => q.request_states[e] = c
    BY <1>10, <1>11
  <2>4. HasState(q, c) => HasState(p, c) /\ IdOf[c] # id
    BY <1>11, <2>2 DEF HasState
  <2>5. queues \in [Ids -> MaybeCall] /\ IdOf[c] \in Ids
    BY <1>1, CallsAssumption DEF FrontTypes, AsyncTypeOK
  <2>6. queues'[IdOf[c]] = c => queues[IdOf[c]] = c
    BY <1>12, <2>5, NoCallIsNone
  <2>7. HasState(q, c) => queues'[IdOf[c]] = c
    BY <1>12, <2>1, <2>4, <2>5 DEF Kept, StateInv
  <2> QED BY <1>7, <1>8, <2>1, <2>2, <2>3, <2>6, <2>7, KeptFollows
<1>13. CASE es # {} /\ ~Alive
  <2>1. UNCHANGED <<queues, mailbox>>
    BY <1>2, <1>4, <1>13 DEF AbortCall
  <2>2. proc' # "up"
    BY <1>1, <1>7, <1>13, DeadClient DEF Alive
  <2>3. PICK boxes : boxes = mailbox
    OBVIOUS
  <2>4. ASSUME NEW c \in Calls PROVE Kept(q, boxes[c], c)' /\ ServedInv(q, boxes[c], c)'
    <3>1. PICK box : box = boxes[c]
      OBVIOUS
    <3>2. Kept(q, box, c)'
      BY <1>12, <2>1, <2>3, <3>1
    <3>3. ServedInv(p, box, c)
      BY <1>6, <2>3, <3>1
    <3>4. ServedInv(q, box, c)'
      BY <1>7, <2>1, <2>2, <3>3, ServedFollows
    <3> QED BY <3>1, <3>2, <3>4
  <2>5. boxes = mailbox' /\ (errored' => handler' = "none")
    BY <1>6, <1>7, <2>1, <2>3
  <2>6. DeliveryInv'
    BY <1>3, <1>8, <2>4, <2>5, DeliveryFollows
  <2> QED BY <1>7, <2>1, <2>6 DEF MailTypes
<1>14. CASE ~(es # {} /\ ~Alive)
  <2>1. /\ queues' = [queues EXCEPT ![id] = NoCall]
        /\ mailbox' = IF InFlight(id) THEN [mailbox EXCEPT ![queues[id]] = Append(@, Cancelled)]
                                      ELSE mailbox
    BY <1>2, <1>4, <1>14 DEF AbortCall
  <2>2. /\ mailbox \in [Calls -> Seq(Mail)] /\ queues \in [Ids -> MaybeCall] /\ Cancelled \in Mail
        /\ \A c \in Calls : IdOf[c] \in Ids
    BY <1>1, CallsAssumption DEF MailTypes, FrontTypes, AsyncTypeOK, Mail
  <2>3. InFlight(id) => IdOf[queues[id]] = id /\ UnderWay(queues[id]) /\ queues[id] \in Calls
    BY <1>1, <2>2 DEF QueuesInv, InFlight, MaybeCall
  <2>4. ASSUME NEW c \in Calls
        PROVE  mailbox'[c] = IF queues[id] = c THEN Append(mailbox[c], Cancelled) ELSE mailbox[c]
    BY <2>1, <2>2, <2>3, NoCallIsNone DEF InFlight
  <2>5. mailbox' \in [Calls -> Seq(Mail)]
    <3>1. \A c \in Calls : Append(mailbox[c], Cancelled) \in Seq(Mail)
      BY <2>2, AppendMail
    <3> QED BY <2>1, <2>2, <2>3, <3>1
  <2>6. PICK boxes : boxes = mailbox'
    OBVIOUS
  <2>7. ASSUME NEW c \in Calls PROVE Kept(q, boxes[c], c)' /\ ServedInv(q, boxes[c], c)'
    <3> PICK box \in Seq(Mail) : box = mailbox[c]
      BY <2>2
    <3>1. Kept(q, box, c)' /\ ServedInv(p, box, c)
      BY <1>6, <1>12, <2>1
    <3>2. CASE IdOf[c] # id
      <4>1. boxes[c] = box
        BY <2>3, <2>4, <2>6, <3>2, NoCallIsNone DEF InFlight
      <4>2. HasState(p, c) => HasState(q, c)
        BY <1>10, <3>2 DEF HasState
      <4>3. queues'[IdOf[c]] = queues[IdOf[c]]
        BY <2>1, <2>2, <3>2
      <4>4. ServedInv(q, box, c)'
        BY <1>7, <3>1, <4>2, <4>3, ServedFollows
      <4> QED BY <3>1, <4>1, <4>4
    <3>3. CASE queues[id] = c
      <4>1. PICK box2 : box2 = boxes[c] /\ box2 = Append(box, Cancelled)
        BY <2>4, <2>6, <3>3
      <4>2. phase'[c] # "new" /\ queues'[IdOf[c]] # c
        BY <1>7, <2>1, <2>2, <2>3, <3>3, NoCallIsNone DEF InFlight, UnderWay
      <4>3. Kept(q, box2, c)'
        BY <3>1, <4>1, <4>2, RaisedEnd, RaisingKeeps
      <4>4. \E i \in DOMAIN box2 : Ends(box2[i])
        <5>1. PICK n \in Nat : DOMAIN box2 = 1 .. (n + 1) /\ box2[n + 1] = Cancelled
          BY <2>2, <4>1, AppendMail
        <5> QED BY <5>1, RaisedEnd DEF Ends
      <4>5. ServedInv(q, box2, c)'
        BY <4>4 DEF ServedInv, Ends, Raises
      <4> QED BY <4>1, <4>3, <4>5
    <3>4. CASE IdOf[c] = id /\ queues[id] # c
      <4>1. boxes[c] = box
        BY <2>4, <2>6, <3>4
      <4>2. ServedInv(q, box, c)'
        BY <1>7, <3>1, <3>4 DEF ServedInv, Ends, Raises
      <4> QED BY <3>1, <4>1, <4>2
    <3> QED BY <3>2, <3>3, <3>4
  <2>8. errored' => handler' = "none"
    BY <1>6, <1>7
  <2>9. DeliveryInv'
    BY <1>3, <1>8, <2>6, <2>7, <2>8, DeliveryFollows
  <2> QED BY <1>7, <2>5, <2>9 DEF MailTypes
<1> QED BY <1>13, <1>14


\* An item is taken: what it ends has been given, once.
LEMMA ReceiveKeeps ==
    ASSUME NEW c \in Calls, NEW p, NEW box \in Seq(Mail), box # <<>>, ~Raises(Head(box)),
           Kept(p, box, c), phase[c] = "waiting",
           phase'[c] = IF Head(box).finished THEN "last" ELSE "yielded",
           delivered'[c] = [k \in Indices(c) |->
              delivered[c][k] + (IF k \in FinalIndices(Head(box).parts) THEN 1 ELSE 0)],
           UNCHANGED <<queues, errored>>
    PROVE  Kept(p, Tail(box), c)'
<1>1. PICK box2 : box2 = Tail(box)
  OBVIOUS
<1>2. PICK n \in Nat : /\ n > 0 /\ DOMAIN box = 1 .. n /\ DOMAIN box2 = 1 .. (n - 1)
                       /\ \A i \in 1 .. (n - 1) : box2[i] = box[i + 1]
                       /\ Head(box) = box[1]
  BY <1>1, TailMail
<1>3. BoxInv(p, box, c) /\ OnceInv(p, box, c) /\ StateInv(p, c)
  BY DEF Kept
<1>4. \A i \in DOMAIN box2 : i \in Nat /\ i + 1 \in DOMAIN box /\ i + 1 # 1 /\ box2[i] = box[i + 1]
  BY <1>2
<1>5. 1 \in DOMAIN box /\ ~Raises(box[1])
  BY <1>2
<1>6. StateInv(p, c)'
  BY <1>3 DEF StateInv
<1>7. BoxInv(p, box2, c)'
  <2>1. ASSUME NEW i \in DOMAIN box2, ~Raises(box2[i])
        PROVE  /\ \A s \in box2[i].parts : s.origin = c
               /\ \A j \in 1 .. (i - 1) : ~Ends(box2[j])
    <3>1. /\ \A s \in box[i + 1].parts : s.origin = c
          /\ \A j \in 1 .. i : ~Ends(box[j])
      <4>1. i + 1 - 1 = i
        BY <1>4
      <4> QED BY <1>3, <1>4, <2>1, <4>1 DEF BoxInv
    <3>2. \A j \in 1 .. (i - 1) : box2[j] = box[j + 1] /\ j + 1 \in 1 .. i
      BY <1>2
    <3> QED BY <1>4, <3>1, <3>2
  <2>2. ASSUME NEW i \in DOMAIN box2
        PROVE  /\ box2[i] = Cancelled => queues[IdOf[c]] # c
               /\ box2[i] = Failure => errored
               /\ ~Raises(box2[i]) /\ box2[i].finished => ~HasState(p, c)
    BY <1>3, <1>4 DEF BoxInv
  <2>3. phase'[c] = "last" => ~HasState(p, c)
    BY <1>2, <1>3, <1>5 DEF BoxInv
  <2> QED BY <2>1, <2>2, <2>3 DEF BoxInv, HasState, Ends, Raises
<1>8. OnceInv(p, box2, c)'
  <2> SUFFICES ASSUME NEW k \in Indices(c)
               PROVE  /\ delivered'[c][k] \in {0, 1}
                      /\ delivered'[c][k] = 1 => \A i \in DOMAIN box2 : ~Carries(box2[i], k)
                      /\ \A i, j \in DOMAIN box2 : Carries(box2[i], k) /\ Carries(box2[j], k) => i = j
                      /\ Given(box2, c, k)' => p.request_states[ChildId(c, k)] # c
                      /\ phase'[c] = "last" => delivered'[c][k] = 1
                      /\ \A i \in DOMAIN box2 : ~Raises(box2[i]) /\ box2[i].finished => Given(box2, c, k)'
                      /\ HasState(p, c) =>
                           \/ p.request_states[ChildId(c, k)] = c
                           \/ IF Gathers(c) THEN \E s \in p.output_aggregator[c] : s.index = k /\ s.final
                                            ELSE Given(box2, c, k)'
                      /\ HasState(p, c) /\ Gathers(c) => ~Given(box2, c, k)'
    BY DEF OnceInv, HasState, Raises, Carries
  <2>1. /\ delivered[c][k] \in {0, 1}
        /\ delivered[c][k] = 1 => \A i \in DOMAIN box : ~Carries(box[i], k)
        /\ \A i, j \in DOMAIN box : Carries(box[i], k) /\ Carries(box[j], k) => i = j
        /\ Given(box, c, k) => p.request_states[ChildId(c, k)] # c
        /\ \A i \in DOMAIN box : ~Raises(box[i]) /\ box[i].finished => Given(box, c, k)
        /\ HasState(p, c) =>
             \/ p.request_states[ChildId(c, k)] = c
             \/ IF Gathers(c) THEN \E s \in p.output_aggregator[c] : s.index = k /\ s.final
                              ELSE Given(box, c, k)
        /\ HasState(p, c) /\ Gathers(c) => ~Given(box, c, k)
    BY <1>3 DEF OnceInv
  <2>2. Carries(box[1], k) <=> k \in FinalIndices(Head(box).parts)
    BY <1>2, <1>5 DEF Carries
  <2>3. Carries(box[1], k) => delivered[c][k] = 0 /\ delivered'[c][k] = 1
    BY <1>5, <2>1, <2>2
  <2>4. ~Carries(box[1], k) => delivered'[c][k] = delivered[c][k]
    BY <2>1, <2>2
  <2>5. delivered'[c][k] = 1 => \A i \in DOMAIN box2 : ~Carries(box2[i], k)
    BY <1>4, <1>5, <2>1, <2>4
  <2>6. \A i, j \in DOMAIN box2 : Carries(box2[i], k) /\ Carries(box2[j], k) => i = j
    <3> SUFFICES ASSUME NEW i \in DOMAIN box2, NEW j \in DOMAIN box2, Carries(box2[i], k), Carries(box2[j], k)
                 PROVE  i = j
      OBVIOUS
    <3>1. i + 1 = j + 1
      BY <1>4, <2>1
    <3> QED BY <1>4, <3>1
  <2>7. Given(box2, c, k)' <=> Given(box, c, k)
    <3>1. ASSUME NEW i \in DOMAIN box, Carries(box[i], k), i # 1
          PROVE  \E j \in DOMAIN box2 : Carries(box2[j], k)
      <4>1. i - 1 \in DOMAIN box2 /\ box2[i - 1] = box[i]
        <5>1. i - 1 \in 1 .. (n - 1) /\ i - 1 + 1 = i
          BY <1>2, <3>1
        <5> QED BY <1>2, <5>1
      <4> QED BY <3>1, <4>1
    <3>2. Given(box2, c, k)' <=> delivered'[c][k] = 1 \/ \E i \in DOMAIN box2 : Carries(box2[i], k)
      BY DEF Given, Carries, Raises
    <3>3. Given(box, c, k) <=> delivered[c][k] = 1 \/ \E i \in DOMAIN box : Carries(box[i], k)
      BY DEF Given
    <3> QED BY <1>4, <1>5, <2>3, <2>4, <3>1, <3>2, <3>3
  <2>8. ASSUME phase'[c] = "last" PROVE delivered'[c][k] = 1
    <3>1. Head(box).finished
      BY <2>8
    <3>2. Given(box, c, k)
      BY <1>2, <1>5, <2>1, <3>1
    <3>3. ASSUME NEW i \in DOMAIN box, Carries(box[i], k) PROVE i = 1
      <4>1. ~Raises(box[i])
        BY <3>3 DEF Carries
      <4>2. \A j \in 1 .. (i - 1) : ~Ends(box[j])
        BY <1>3, <4>1 DEF BoxInv
      <4>3. Ends(box[1])
        BY <1>2, <3>1 DEF Ends
      <4> QED BY <1>2, <4>2, <4>3
    <3> QED BY <2>3, <2>4, <3>2, <3>3 DEF Given
  <2>9. \A i \in DOMAIN box2 : ~Raises(box2[i]) /\ box2[i].finished => Given(box2, c, k)'
    BY <1>4, <2>1, <2>7
  <2> QED BY <2>1, <2>3, <2>4, <2>5, <2>6, <2>7, <2>8, <2>9
<1> QED BY <1>1, <1>6, <1>7, <1>8 DEF Kept

\* The others' queues are not this call's.
LEMMA OthersHaveTheirs ==
    ASSUME ReuseIsOrderly, QueuesInv, NEW c \in Calls, UnderWay(c), NEW d \in Calls, d # c,
           queues[IdOf[d]] = d
    PROVE  IdOf[d] # IdOf[c]
BY DEF ReuseIsOrderly, QueuesInv

\* A step of one call: the others keep what they have.
Untouched(p, q, boxes, d) ==
    /\ \A e \in EngineIds : q.request_states[e] = d <=> p.request_states[e] = d
    /\ boxes[d] = mailbox[d] /\ phase'[d] = phase[d] /\ delivered'[d] = delivered[d]
    /\ queues'[IdOf[d]] = d <=> queues[IdOf[d]] = d

LEMMA OnlyOneMoves ==
    ASSUME DeliveryInv, NEW p, p = processor, NEW q, q = processor', ChildrenKnown(q),
           q.output_aggregator = p.output_aggregator,
           NEW boxes, boxes = mailbox', NEW c \in Calls,
           \A d \in Calls : d # c => Untouched(p, q, boxes, d),
           handler' = "none" => handler = "none", errored' = errored, errored => handler' = "none",
           proc' = proc, Kept(q, boxes[c], c)', ServedInv(q, boxes[c], c)'
    PROVE  DeliveryInv'
<1>1. \A d \in Calls : Kept(p, mailbox[d], d) /\ ServedInv(p, mailbox[d], d)
  BY DeliveryIs
<1>2. ASSUME NEW d \in Calls, d # c PROVE Kept(q, boxes[d], d)' /\ ServedInv(q, boxes[d], d)'
  <2> USE DEF Untouched
  <2>1. PICK box : box = mailbox[d] /\ box = boxes[d]
    BY <1>2
  <2>2. Kept(p, box, d) /\ ServedInv(p, box, d)
    BY <1>1, <2>1
  <2>3. HasState(q, d) <=> HasState(p, d)
    BY <1>2 DEF HasState
  <2>4. HasState(q, d) => queues'[IdOf[d]] = d
    BY <1>2, <2>2, <2>3 DEF Kept, StateInv
  <2>5. Kept(q, box, d)'
    BY <1>2, <2>2, <2>4, KeptFollows
  <2>6. ServedInv(q, box, d)'
    BY <1>2, <2>2, <2>3, ServedFollows
  <2> QED BY <2>1, <2>5, <2>6
<1>3. \A d \in Calls : Kept(q, boxes[d], d)' /\ ServedInv(q, boxes[d], d)'
  BY <1>2
<1> QED BY <1>3, DeliveryFollows

\* A call ends, whether with an exception or not.
LEMMA LeavingDelivers ==
    ASSUME ReuseIsOrderly, FrontInv, MailTypes, DeliveryInv, NEW c \in Calls, UnderWay(c),
           phase' = [phase EXCEPT ![c] = "done"], Finally(c), UNCHANGED <<delivered, handler, errored>>,
           NEW box \in Seq(Mail), mailbox' = [mailbox EXCEPT ![c] = box], Kept(processor, box, c)
    PROVE  DeliveryInv' /\ MailTypes'
<1>1. FrontTypes /\ QueuesInv /\ StatesInv
  BY DEF FrontInv, CallsInv
<1>2. PICK p \in ProcessorType : p = processor
  BY <1>1 DEF FrontTypes, AsyncTypeOK
<1>3. PICK q : q = processor'
  OBVIOUS
<1>4. PICK boxes : boxes = mailbox'
  OBVIOUS
<1>5. PICK es \in SUBSET EngineIds : es = ChildIds(c)
  BY IdsAreFinite
<1>6. q = AbortChildren(p, es)
  BY <1>2, <1>3, <1>5 DEF Finally
<1>7. /\ ChildrenKnown(p)
      /\ \A d \in Calls : Kept(p, mailbox[d], d) /\ ServedInv(p, mailbox[d], d)
      /\ errored => handler = "none"
  BY <1>2, DeliveryIs
<1>8. ChildrenKnown(q)
  BY <1>6, <1>7, AbortedChildren
<1>9. q.output_aggregator = p.output_aggregator
  BY <1>6 DEF AbortChildren, ProcessorType
<1>10. \A e \in EngineIds : q.request_states[e] = IF e \in es THEN NoCall ELSE p.request_states[e]
  BY <1>6, AbortedState
<1>11. queues' = [queues EXCEPT ![IdOf[c]] = NoCall] /\ proc' = proc
  BY DEF Finally, Abort, clientVars, socketVars
<1>12. /\ queues \in [Ids -> MaybeCall] /\ mailbox \in [Calls -> Seq(Mail)]
       /\ \A d \in Calls : IdOf[d] \in Ids
       /\ phase \in [Calls -> {"new", "waiting", "yielded", "last", "done"}]
  BY <1>1, CallsAssumption DEF FrontTypes, AsyncTypeOK, MailTypes
<1>13. Kept(q, boxes[c], c)' /\ ServedInv(q, boxes[c], c)'
  <2>1. box = boxes[c] /\ Kept(p, box, c)
    BY <1>2, <1>4, <1>12
  <2>2. ~HasState(q, c)
    BY <1>5, <1>7, <1>10, NoCallIsNone DEF HasState, ChildrenKnown
  <2>3. \A e \in EngineIds : q.request_states[e] = c => p.request_states[e] = c
    BY <1>10, NoCallIsNone
  <2>4. phase'[c] = "done" /\ queues'[IdOf[c]] # c
    BY <1>11, <1>12, NoCallIsNone
  <2>5. Kept(q, box, c)'
    BY <1>9, <2>1, <2>2, <2>3, <2>4, KeptFollows
  <2>6. ServedInv(q, box, c)'
    BY <2>4 DEF ServedInv
  <2> QED BY <2>1, <2>5, <2>6
<1>14. ASSUME NEW d \in Calls, d # c PROVE Untouched(p, q, boxes, d)
  <2>1. queues[IdOf[d]] = d => IdOf[d] # IdOf[c]
    BY <1>1, <1>14, OthersHaveTheirs
  <2>2. ASSUME NEW e \in EngineIds PROVE q.request_states[e] = d <=> p.request_states[e] = d
    <3>1. ASSUME p.request_states[e] = d PROVE e \notin es
      <4>1. e \in ChildIds(d) /\ queues[IdOf[d]] = d
        BY <1>7, <3>1 DEF ChildrenKnown, HasState, Kept, StateInv
      <4> QED BY <1>5, <2>1, <4>1, ChildIs
    <3> QED BY <1>10, <3>1, NoCallIsNone
  <2>3. queues'[IdOf[d]] = d <=> queues[IdOf[d]] = d
    BY <1>11, <1>12, <2>1, NoCallIsNone
  <2> QED BY <1>4, <1>12, <1>14, <2>2, <2>3 DEF Untouched
<1>15. DeliveryInv'
  BY <1>2, <1>3, <1>4, <1>7, <1>8, <1>9, <1>11, <1>13, <1>14, OnlyOneMoves
<1> QED BY <1>12, <1>15 DEF MailTypes


\* A call begins: its id is nobody's, and its queue is empty.
LEMMA ArrivingDelivers ==
    ASSUME ReuseIsOrderly, FrontInv, MailTypes, DeliveryInv, NEW c \in Calls, Generate(c)
    PROVE  DeliveryInv' /\ MailTypes'
<1>1. FrontTypes /\ CallsInv /\ QueuesInv /\ StatesInv
  BY DEF FrontInv, CallsInv
<1>2. PICK p \in ProcessorType : p = processor
  BY <1>1 DEF FrontTypes, AsyncTypeOK
<1>3. PICK q : q = AddRequests(p, c, ChildIds(c), ChildIds(c)) /\ q = processor'
  BY <1>2 DEF Generate
<1>4. PICK boxes : boxes = mailbox' /\ boxes = mailbox
  BY DEF Generate
<1>5. phase[c] = "new" /\ ~InFlight(IdOf[c]) /\ ~errored
  BY DEF Generate
<1>6. /\ \A d \in Calls : UnderWay(d) => IdOf[d] # IdOf[c]
      /\ Fresh(p, c)
  BY <1>1, <1>2, <1>5, FreeIdIsFresh
<1>7. /\ ChildrenKnown(p)
      /\ \A d \in Calls : Kept(p, mailbox[d], d) /\ ServedInv(p, mailbox[d], d)
  BY <1>2, DeliveryIs
<1>8. ChildrenKnown(q)
  BY <1>3, <1>6, <1>7, AddedChildren
<1>9. q.output_aggregator = p.output_aggregator
  BY <1>3, <1>6, <1>7, AddedChildren
<1>10. \A e \in EngineIds : q.request_states[e] = IF e \in ChildIds(c) THEN c ELSE p.request_states[e]
  <2>1. ChildIds(c) \in SUBSET ChildIds(c)
    OBVIOUS
  <2>2. q = AddRequests(p, c, ChildIds(c), ChildIds(c))
    BY <1>3
  <2> QED BY <2>1, <2>2, AddedState
<1>11. /\ phase' = [phase EXCEPT ![c] = "waiting"] /\ queues' = [queues EXCEPT ![IdOf[c]] = c]
       /\ handler' # "none" /\ UNCHANGED <<delivered, errored, proc>>
  BY DEF Generate, Submit
<1>12. /\ queues \in [Ids -> MaybeCall] /\ \A d \in Calls : IdOf[d] \in Ids
       /\ phase \in [Calls -> {"new", "waiting", "yielded", "last", "done"}]
  BY <1>1, CallsAssumption DEF FrontTypes, AsyncTypeOK
<1>13. ASSUME NEW k \in Indices(c) PROVE ChildId(c, k) \in EngineIds /\ q.request_states[ChildId(c, k)] = c
  <2>1. ChildId(c, k) \in ChildIds(c) /\ ChildIds(c) \subseteq EngineIds
    BY IdsAreFinite DEF ChildIds
  <2> QED BY <1>10, <2>1
<1>14. HasState(q, c)
  <2>1. 0 \in Indices(c) \/ 1 \in Indices(c)
    BY CallsAssumption DEF Indices
  <2> QED BY <1>13, <2>1 DEF HasState
<1>15. Kept(q, boxes[c], c)' /\ ServedInv(q, boxes[c], c)'
  <2>1. PICK box : box = boxes[c]
    OBVIOUS
  <2>2. Kept(p, box, c)
    BY <1>4, <1>7, <2>1
  <2>3. box = <<>> /\ \A k \in Indices(c) : delivered[c][k] = 0
    BY <1>5, <2>2 DEF Kept, BoxInv, OnceInv
  <2>4. phase'[c] = "waiting" /\ queues'[IdOf[c]] = c
    BY <1>11, <1>12
  <2>5. DOMAIN box = {}
    BY <2>3
  <2>6. StateInv(q, c)'
    BY <1>9, <2>2, <2>4 DEF Kept, StateInv
  <2>7. BoxInv(q, box, c)'
    BY <2>4, <2>5 DEF BoxInv
  <2>8. \A k \in Indices(c) : delivered'[c][k] = 0 /\ ~Given(box, c, k)'
    BY <1>11, <2>3, <2>5 DEF Given
  <2>9. OnceInv(q, box, c)'
    BY <1>13, <2>4, <2>5, <2>8 DEF OnceInv
  <2>10. ServedInv(q, box, c)'
    BY <1>11, <1>14, <2>4 DEF ServedInv, HasState
  <2> QED BY <2>1, <2>6, <2>7, <2>9, <2>10 DEF Kept
<1>16. ASSUME NEW d \in Calls, d # c PROVE Untouched(p, q, boxes, d)
  <2>1. ASSUME NEW e \in EngineIds PROVE q.request_states[e] = d <=> p.request_states[e] = d
    <3>1. ASSUME p.request_states[e] = d, e \in ChildIds(c) PROVE FALSE
      <4>1. UnderWay(d) /\ e \in ChildIds(d)
        BY <1>1, <1>2, <3>1 DEF StatesInv
      <4> QED BY <1>6, <3>1, <4>1, ChildIs
    <3> QED BY <1>10, <1>16, <3>1
  <2>2. queues'[IdOf[d]] = d <=> queues[IdOf[d]] = d
    <3>1. CASE IdOf[d] = IdOf[c]
      BY <1>5, <1>11, <1>12, <1>16, <3>1, NoCallIsNone DEF InFlight
    <3>2. CASE IdOf[d] # IdOf[c]
      BY <1>11, <1>12, <3>2
    <3> QED BY <3>1, <3>2
  <2> QED BY <1>4, <1>11, <1>12, <1>16, <2>1, <2>2 DEF Untouched
<1>17. DeliveryInv'
  BY <1>2, <1>3, <1>4, <1>5, <1>8, <1>9, <1>11, <1>15, <1>16, OnlyOneMoves
<1> QED BY <1>4, <1>11, <1>17 DEF MailTypes

\* A call that leaves every state as it is, whatever becomes of it.
LEMMA StatesStay ==
    ASSUME MailTypes, DeliveryInv, NEW c \in Calls, NEW p, p = processor, NEW q, q = processor',
           ChildrenKnown(q), q.output_aggregator = p.output_aggregator,
           \A e \in EngineIds : q.request_states[e] = p.request_states[e],
           NEW new, new # "new", new # "last", phase' = [phase EXCEPT ![c] = new],
           phase \in [Calls -> {"new", "waiting", "yielded", "last", "done"}],
           new \in {"waiting", "yielded"} => phase[c] \in {"waiting", "yielded"},
           UNCHANGED <<queues, mailbox, delivered, handler, errored>>, proc' = proc
    PROVE  DeliveryInv' /\ MailTypes'
<1>1. PICK boxes : boxes = mailbox' /\ boxes = mailbox
  OBVIOUS
<1>2. /\ \A d \in Calls : Kept(p, mailbox[d], d) /\ ServedInv(p, mailbox[d], d)
      /\ errored => handler = "none"
  BY DeliveryIs
<1>3. Kept(q, boxes[c], c)' /\ ServedInv(q, boxes[c], c)'
  <2>1. PICK box : box = boxes[c]
    OBVIOUS
  <2>2. Kept(p, box, c) /\ ServedInv(p, box, c)
    BY <1>1, <1>2, <2>1
  <2>3. HasState(q, c) <=> HasState(p, c)
    BY DEF HasState
  <2>4. HasState(q, c) => queues'[IdOf[c]] = c
    BY <2>2, <2>3 DEF Kept, StateInv
  <2>5. phase'[c] = new
    OBVIOUS
  <2>6. Kept(q, box, c)'
    BY <2>2, <2>4, <2>5, KeptFollows
  <2>7. ServedInv(q, box, c)'
    BY <2>2, <2>3, <2>5, ServedFollows
  <2> QED BY <2>1, <2>6, <2>7
<1>4. ASSUME NEW d \in Calls, d # c PROVE Untouched(p, q, boxes, d)
  BY <1>1, <1>4 DEF Untouched
<1>5. DeliveryInv'
  BY <1>1, <1>2, <1>3, <1>4, OnlyOneMoves
<1> QED BY <1>5 DEF MailTypes


LEMMA ReceiveDelivers ==
    ASSUME FrontInv, MailTypes, DeliveryInv, NEW c \in Calls, Receive(c)
    PROVE  DeliveryInv' /\ MailTypes'
<1>1. PICK p, q, boxes : p = processor /\ q = processor' /\ boxes = mailbox' /\ q = p
  BY DEF Receive
<1>2. /\ ChildrenKnown(p)
      /\ \A d \in Calls : Kept(p, mailbox[d], d) /\ ServedInv(p, mailbox[d], d)
      /\ errored => handler = "none"
  BY <1>1, DeliveryIs
<1>3. /\ mailbox \in [Calls -> Seq(Mail)] /\ delivered = [d \in Calls |-> delivered[d]]
      /\ phase \in [Calls -> {"new", "waiting", "yielded", "last", "done"}]
  BY DEF MailTypes, FrontInv, FrontTypes, AsyncTypeOK
<1> PICK box \in Seq(Mail) : box = mailbox[c]
  BY <1>3
<1>4. /\ phase[c] = "waiting" /\ box # <<>> /\ ~Raises(Head(box))
      /\ phase' = [phase EXCEPT ![c] = IF Head(box).finished THEN "last" ELSE "yielded"]
      /\ delivered' = [delivered EXCEPT ![c] = [k \in Indices(c) |->
             delivered[c][k] + (IF k \in FinalIndices(Head(box).parts) THEN 1 ELSE 0)]]
      /\ mailbox' = [mailbox EXCEPT ![c] = Tail(box)]
      /\ UNCHANGED <<queues, handler, errored, proc>>
  BY DEF Receive, Raises, clientVars, socketVars
<1>5. PICK box2 : box2 = Tail(box) /\ box2 = boxes[c]
  BY <1>1, <1>3, <1>4
<1>6. Kept(p, box2, c)'
  <2>1. /\ phase'[c] = IF Head(box).finished THEN "last" ELSE "yielded"
        /\ delivered'[c] = [k \in Indices(c) |->
             delivered[c][k] + (IF k \in FinalIndices(Head(box).parts) THEN 1 ELSE 0)]
    BY <1>3, <1>4
  <2>2. Kept(p, box, c)
    BY <1>2
  <2>3. Kept(p, Tail(box), c)'
    BY <1>4, <2>1, <2>2, ReceiveKeeps
  <2> QED BY <1>5, <2>3
<1>7. ServedInv(p, box2, c)'
  <2> SUFFICES ASSUME phase'[c] \in {"waiting", "yielded"}, \A i \in DOMAIN box2 : ~Ends(box2[i])
               PROVE  /\ queues'[IdOf[c]] = c
                      /\ handler' # "none"
                      /\ proc' = "up" => HasState(p, c)
    BY DEF ServedInv, HasState, Ends, Raises
  <2>1. ~Ends(Head(box))
    BY <1>3, <1>4 DEF Ends
  <2>2. \A i \in DOMAIN box : ~Ends(box[i])
    <3>1. PICK n \in Nat : /\ n > 0 /\ DOMAIN box = 1 .. n /\ DOMAIN box2 = 1 .. (n - 1)
                           /\ \A i \in 1 .. (n - 1) : box2[i] = box[i + 1]
                           /\ Head(box) = box[1]
      BY <1>4, <1>5, TailMail
    <3>2. ASSUME NEW i \in 1 .. n, i # 1 PROVE ~Ends(box[i])
      <4>1. i - 1 \in 1 .. (n - 1) /\ i - 1 + 1 = i
        BY <3>1, <3>2
      <4> QED BY <3>1, <4>1
    <3> QED BY <2>1, <3>1, <3>2
  <2>3. ServedInv(p, box, c)
    BY <1>2
  <2> QED BY <1>4, <2>2, <2>3 DEF ServedInv
<1>8. ASSUME NEW d \in Calls, d # c PROVE Untouched(p, q, boxes, d)
  BY <1>1, <1>3, <1>4, <1>8 DEF Untouched
<1>9. Kept(q, boxes[c], c)' /\ ServedInv(q, boxes[c], c)'
  <2>1. Kept(q, box2, c)' /\ ServedInv(q, box2, c)'
    BY <1>1, <1>6, <1>7
  <2> QED BY <1>5, <2>1
<1>10. DeliveryInv'
  BY <1>1, <1>2, <1>4, <1>8, <1>9, OnlyOneMoves
<1>11. Tail(box) \in Seq(Mail)
  BY <1>4, TailMail
<1> QED BY <1>3, <1>4, <1>10, <1>11 DEF MailTypes

LEMMA CallStepDelivers ==
    ASSUME ReuseIsOrderly, FrontInv, MailTypes, DeliveryInv, NEW c \in Calls, CallStep(c)
    PROVE  DeliveryInv' /\ MailTypes'
<1>1. FrontTypes /\ CallsInv
  BY DEF FrontInv
<1>2. PICK p \in ProcessorType : p = processor
  BY <1>1 DEF FrontTypes, AsyncTypeOK
<1>3. ChildrenKnown(p) /\ \A d \in Calls : Kept(p, mailbox[d], d)
  BY <1>2, DeliveryIs
<1>4. phase \in [Calls -> {"new", "waiting", "yielded", "last", "done"}] /\ mailbox \in [Calls -> Seq(Mail)]
  BY <1>1 DEF FrontTypes, AsyncTypeOK, MailTypes
<1>5. CASE Generate(c)
  BY <1>5, ArrivingDelivers
<1>6. CASE GenerateRefused(c) \/ Resume(c)
  <2>1. /\ UNCHANGED <<queues, mailbox, delivered, processor, handler, errored>> /\ proc' = proc
    BY <1>6 DEF GenerateRefused, Resume, clientVars, socketVars
  <2>2. PICK new : /\ new # "new" /\ new # "last" /\ phase' = [phase EXCEPT ![c] = new]
                   /\ new \in {"waiting", "yielded"} => phase[c] \in {"waiting", "yielded"}
    BY <1>6 DEF GenerateRefused, Resume
  <2>3. PICK q : q = processor' /\ q = p
    BY <1>2, <2>1
  <2> QED BY <1>2, <1>3, <1>4, <2>1, <2>2, <2>3, StatesStay
<1>7. CASE GenerateFails(c)
  <2>1. PICK k \in Indices(c) :
          LET added == {ChildId(c, j) : j \in {i \in Indices(c) : i < k}}
          IN  processor' = AbortChildren(
                 AddRequests(processor, c, added \cup {ChildId(c, k)}, added), added)
    BY <1>7 DEF GenerateFails
  <2>2. PICK added \in SUBSET ChildIds(c), made \in SUBSET ChildIds(c) :
          processor' = AbortChildren(AddRequests(processor, c, made, added), added)
    <3>1. {ChildId(c, j) : j \in {i \in Indices(c) : i < k}} \in SUBSET ChildIds(c)
      BY DEF ChildIds
    <3>2. {ChildId(c, j) : j \in {i \in Indices(c) : i < k}} \cup {ChildId(c, k)} \in SUBSET ChildIds(c)
      BY DEF ChildIds
    <3> QED BY <2>1, <3>1, <3>2
  <2>3. Fresh(p, c)
    BY <1>1, <1>2, <1>7, FreeIdIsFresh DEF GenerateFails
  <2>4. PICK q : q = processor' /\ q = AbortChildren(AddRequests(p, c, made, added), added)
    BY <1>2, <2>2
  <2>5. /\ ChildrenKnown(q) /\ q.output_aggregator = p.output_aggregator
        /\ \A e \in EngineIds : q.request_states[e] = p.request_states[e]
    BY <1>3, <2>3, <2>4, FailedChildren
  <2>6. /\ phase' = [phase EXCEPT ![c] = "done"]
        /\ UNCHANGED <<queues, mailbox, delivered, handler, errored>> /\ proc' = proc
    BY <1>7 DEF GenerateFails, Submit
  <2> QED BY <1>2, <1>4, <2>4, <2>5, <2>6, StatesStay
<1>8. CASE Receive(c)
  BY <1>8, ReceiveDelivers
<1>9. CASE ReceiveError(c)
  <2> PICK box \in Seq(Mail) : box = mailbox[c]
    BY <1>4
  <2>1. /\ UnderWay(c) /\ phase' = [phase EXCEPT ![c] = "done"] /\ Finally(c)
        /\ UNCHANGED <<delivered, handler, errored>>
        /\ box # <<>> /\ Raises(Head(box)) /\ mailbox' = [mailbox EXCEPT ![c] = Tail(box)]
    BY <1>9 DEF ReceiveError, UnderWay, Raises
  <2>2. PICK box2 \in Seq(Mail) : box2 = Tail(box)
    BY <2>1, TailMail
  <2>3. Kept(p, box, c)
    BY <1>3
  <2>4. Kept(processor, box2, c)
    BY <1>2, <2>1, <2>2, <2>3, TakingKeeps
  <2> QED BY <2>1, <2>2, <2>4, LeavingDelivers
<1>10. CASE Close(c)
  <2> PICK box \in Seq(Mail) : box = mailbox[c]
    BY <1>4
  <2>1. /\ UnderWay(c) /\ phase' = [phase EXCEPT ![c] = "done"] /\ Finally(c)
        /\ UNCHANGED <<delivered, handler, errored>> /\ mailbox' = [mailbox EXCEPT ![c] = box]
    BY <1>4, <1>10 DEF Close, UnderWay
  <2>2. Kept(processor, box, c)
    BY <1>2, <1>3
  <2> QED BY <2>1, <2>2, LeavingDelivers
<1> QED BY <1>5, <1>6, <1>7, <1>8, <1>9, <1>10 DEF CallStep

LEMMA DeliveryInit == AsyncInit => DeliveryInv /\ MailTypes
<1> SUFFICES ASSUME AsyncInit PROVE DeliveryInv /\ MailTypes
  OBVIOUS
<1> USE DEF AsyncInit
<1>1. ~errored
  OBVIOUS
<1>2. /\ \A e \in EngineIds : processor.request_states[e] = NoCall
      /\ \A i \in Ids : processor.parent_requests[i] = NoCall
      /\ \A c \in Calls : processor.output_aggregator[c] = {}
  BY DEF EmptyProcessor
<1>3. \A c \in Calls : ~HasState(processor, c)
  BY <1>2, NoCallIsNone DEF HasState
<1>4. ChildrenKnown(processor)
  BY <1>2, NoCallIsNone DEF ChildrenKnown
<1>5. ASSUME NEW c \in Calls
      PROVE  /\ StateInv(processor, c) /\ BoxInv(processor, mailbox[c], c)
             /\ ServedInv(processor, mailbox[c], c) /\ OnceInv(processor, mailbox[c], c)
  <2>1. mailbox[c] = <<>> /\ phase[c] = "new" /\ DOMAIN mailbox[c] = {}
    OBVIOUS
  <2>2. \A k \in Indices(c) : delivered[c][k] = 0 /\ ~Given(mailbox[c], c, k)
    BY <2>1 DEF Given
  <2>3. StateInv(processor, c)
    BY <1>2, <1>3 DEF StateInv
  <2>4. BoxInv(processor, mailbox[c], c)
    BY <2>1 DEF BoxInv
  <2>5. ServedInv(processor, mailbox[c], c)
    BY <2>1 DEF ServedInv
  <2>6. OnceInv(processor, mailbox[c], c)
    BY <1>3, <2>1, <2>2 DEF OnceInv
  <2> QED BY <2>3, <2>4, <2>5, <2>6
<1>6. <<>> \in Seq(Mail)
  BY EmptySeq
<1> QED BY <1>1, <1>4, <1>5, <1>6 DEF DeliveryInv, MailInv, MailTypes

LEMMA DeliveryStep ==
    ASSUME ReuseIsOrderly, SocketsSeeNoReuse, FrontInv, SocketInv, MailTypes, DeliveryInv,
           [AsyncNext]_avars
    PROVE  DeliveryInv' /\ MailTypes'
<1>1. CASE \E c \in Calls : CallStep(c)
  BY <1>1, CallStepDelivers
<1>2. CASE \E i \in Ids : AbortCall(i)
  BY <1>2, AbortCallDelivers
<1>3. CASE HandlerStep
  BY <1>3, HandlerDelivers
<1>4. CASE Outside(ProcessStep) \/ UNCHANGED avars
  <2>1. UNCHANGED <<phase, queues, mailbox, delivered, processor, handler, errored>>
    BY <1>4 DEF Outside, avars, callVars
  <2>2. proc' = "up" => proc = "up"
    BY <1>4 DEF Outside, ProcessStep, CoreReceives, CoreSteps, CoreCrashes, CoreExits,
                ReaderTakes, ReaderPuts, avars, clientVars, socketVars
  <2>3. errored => handler' = "none"
    BY <2>1 DEF DeliveryInv
  <2> QED BY <2>1, <2>2, <2>3, NothingMoves
<1> QED BY <1>1, <1>2, <1>3, <1>4 DEF AsyncNext


\* Together with the books of the router and the parents, and with what is on the sockets.
LEMMA FrontEndInvariant ==
    ReuseIsOrderly /\ SocketsSeeNoReuse /\ AsyncSpec =>
        [](FrontInv /\ SocketInv /\ DeliveryInv /\ MailTypes)
<1>1. ASSUME ReuseIsOrderly, SocketsSeeNoReuse
      PROVE  AsyncSpec => [](FrontInv /\ SocketInv /\ DeliveryInv /\ MailTypes)
  <2>1. FrontInv /\ [AsyncNext]_avars => FrontInv'
    BY <1>1, FrontStep
  <2>2. FrontInv /\ SocketInv /\ [AsyncNext]_avars => SocketInv'
    BY <1>1, SocketStep
  <2>3. FrontInv /\ SocketInv /\ MailTypes /\ DeliveryInv /\ [AsyncNext]_avars
           => DeliveryInv' /\ MailTypes'
    BY <1>1, DeliveryStep
  <2> QED BY <2>1, <2>2, <2>3, FrontInit, SocketInit, DeliveryInit, PTL DEF AsyncSpec
<1> QED BY <1>1

LEMMA BoxesHoldTheirOwn ==
    ASSUME MailTypes, DeliveryInv
    PROVE  OwnOutputsOnly
<1> SUFFICES ASSUME NEW c \in Calls, NEW i \in DOMAIN mailbox[c],
                    mailbox[c][i] \notin {Failure, Cancelled}
             PROVE  /\ \A s \in mailbox[c][i].parts : s.origin = c
                    /\ \A j \in 1 .. (i - 1) :
                          mailbox[c][j] \notin {Failure, Cancelled} /\ ~mailbox[c][j].finished
  BY DEF OwnOutputsOnly
<1>1. BoxInv(processor, mailbox[c], c)
  BY DEF DeliveryInv, MailInv
<1>2. ~Raises(mailbox[c][i])
  BY DEF Raises
<1>3. /\ \A s \in mailbox[c][i].parts : s.origin = c
      /\ \A j \in 1 .. (i - 1) : ~Ends(mailbox[c][j])
  BY <1>1, <1>2 DEF BoxInv
<1> QED BY <1>3 DEF Ends, Raises

\* A call gets what its own engine requests produced and nothing else, and nothing after
\* its finished item but an exception (the queues output_processor.py:210-247 and
\* async_llm.py:129-134 fill): one item after the other keeps the invariant, so no order
\* of outputs, aborts and fan-outs can break it.
THEOREM NobodyGetsAnothersOutputs ==
    ReuseIsOrderly /\ SocketsSeeNoReuse /\ AsyncSpec => []OwnOutputsOnly
<1>1. MailTypes /\ DeliveryInv => OwnOutputsOnly
  BY BoxesHoldTheirOwn
<1> QED BY <1>1, FrontEndInvariant, PTL

\* A consumer that has its finished item was given every one of its n completions, each
\* once, whether they stream or are gathered for the last of them (output_processor.py:257).
THEOREM FinishedMeansComplete ==
    ReuseIsOrderly /\ SocketsSeeNoReuse /\ AsyncSpec => []FinishedIsComplete
<1>1. DeliveryInv => FinishedIsComplete
  <2> SUFFICES ASSUME DeliveryInv, NEW c \in Calls, NEW k \in Indices(c)
               PROVE  IF phase[c] = "last" THEN delivered[c][k] = 1 ELSE delivered[c][k] <= 1
    BY DEF FinishedIsComplete
  <2>1. OnceInv(processor, mailbox[c], c)
    BY DEF DeliveryInv, MailInv
  <2>2. delivered[c][k] \in {0, 1} /\ (phase[c] = "last" => delivered[c][k] = 1)
    BY <2>1 DEF OnceInv
  <2> QED BY <2>2
<1> QED BY <1>1, FrontEndInvariant, PTL

\* A call that waits with nothing in its queue has that queue registered, an output task
\* to fill it and, as long as the engine lives, state some output will reach
\* (async_llm.py:166): no finish, abort, reuse of an id or death of the engine makes the
\* front end forget a call that still waits.
THEOREM NobodyWaitsForNothing ==
    ReuseIsOrderly /\ SocketsSeeNoReuse /\ AsyncSpec => []WaitersAreServed
<1>1. DeliveryInv => WaitersAreServed
  <2> SUFFICES ASSUME DeliveryInv, NEW c \in Calls, phase[c] = "waiting", mailbox[c] = <<>>
               PROVE  /\ queues[IdOf[c]] = c
                      /\ handler # "none"
                      /\ proc = "up" => HasState(processor, c)
    BY DEF WaitersAreServed, HasState
  <2>1. ServedInv(processor, mailbox[c], c) /\ DOMAIN mailbox[c] = {}
    BY DEF DeliveryInv, MailInv
  <2> QED BY <2>1 DEF ServedInv
<1> QED BY <1>1, FrontEndInvariant, PTL

==============================================================================
