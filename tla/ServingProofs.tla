---------------------------- MODULE ServingProofs -----------------------------
(***************************************************************************)
(* Proofs about the endpoints, for every set of calls, every mix of what    *)
(* they ask for and every size: what a call leaves in the engine, the       *)
(* frames of a stream, and the text and tokens of a body.                   *)
(***************************************************************************)
EXTENDS Serving, SequenceTheorems, WellFoundedInduction, TLAPS

------------------------------------------------------------------------------
(* Sequences and frames.                                                    *)

\* What holds of 0 and passes from a number to the next holds of all.
LEMMA Climbing ==
    ASSUME NEW n \in Nat, NEW T, 0 \in T,
           \A k \in 0 .. n : k < n /\ k \in T => k + 1 \in T
    PROVE  n \in T
<1> SUFFICES ASSUME n \notin T PROVE FALSE
  OBVIOUS
<1> DEFINE Missed == {k \in 0 .. n : k \notin T}
<1>1. Missed \subseteq Nat /\ Missed # {}
  OBVIOUS
<1>2. PICK R : IsWellFoundedOn(R, Nat) /\ \A a, b \in Nat : a < b => <<a, b>> \in R
  <2>1. IsWellFoundedOn(OpToRel(<, Nat), Nat)
    BY NatLessThanWellFounded
  <2>2. \A a, b \in Nat : a < b => <<a, b>> \in OpToRel(<, Nat)
    BY DEF OpToRel
  <2> QED BY <2>1, <2>2
<1>3. PICK m \in Missed : \A k \in Missed : ~(<<k, m>> \in R)
  <2>1. IsWellFoundedOn(R, Nat)
    BY <1>2
  <2> HIDE DEF Missed
  <2> QED BY <1>1, <2>1, WFMin
<1>4. m # 0 /\ m - 1 \in 0 .. n /\ m - 1 < n /\ m \in Nat /\ m - 1 \in Nat
  BY <1>3
<1>5. m - 1 \in T
  <2>1. <<m - 1, m>> \in R
    BY <1>2, <1>4
  <2> QED BY <1>3, <1>4, <2>1
<1> QED BY <1>3, <1>4, <1>5

\* One more frame at the end of a stream.
Numbered(frames, f) == Append(frames, <<f[1], Len(frames), f[2]>>)
Kinds == FrameTypes \X Seq(Nat)

LEMMA OneFrame ==
    ASSUME NEW frames \in Seq(Frames), NEW f \in Kinds
    PROVE  /\ Numbered(frames, f) \in Seq(Frames)
           /\ Len(Numbered(frames, f)) = Len(frames) + 1
           /\ \A k \in 1 .. Len(frames) : Numbered(frames, f)[k] = frames[k]
           /\ Numbered(frames, f)[Len(frames) + 1] = <<f[1], Len(frames), f[2]>>
           /\ TypesIn(Numbered(frames, f)) = TypesIn(frames) \cup {f[1]}
           /\ Numbered(frames, f) # <<>> /\ Last(Numbered(frames, f))[1] = f[1]
<1> DEFINE more == Numbered(frames, f)
           new == <<f[1], Len(frames), f[2]>>
<1>1. new \in Frames
  <2>1. Len(frames) \in Nat /\ f[1] \in FrameTypes /\ f[2] \in Seq(Nat)
    BY LenProperties DEF Kinds
  <2> QED BY <2>1 DEF Frames
<1>2. /\ more \in Seq(Frames) /\ Len(more) = Len(frames) + 1
      /\ \A k \in 1 .. Len(frames) : more[k] = frames[k]
      /\ more[Len(frames) + 1] = new
  <2> HIDE DEF new
  <2>1. more = Append(frames, new)
    BY DEF Numbered, new
  <2> HIDE DEF more
  <2> QED BY <1>1, <2>1
<1>3. Len(frames) \in Nat /\ DOMAIN frames = 1 .. Len(frames) /\ DOMAIN more = 1 .. Len(frames) + 1
  BY <1>2, LenProperties
<1>4. new[1] = f[1]
  OBVIOUS
<1>5. TypesIn(more) = TypesIn(frames) \cup {f[1]}
  <2> HIDE DEF more, new
  <2> QED BY <1>2, <1>3, <1>4 DEF TypesIn
<1>6. more # <<>> /\ Last(more)[1] = f[1]
  <2> HIDE DEF more, new
  <2> QED BY <1>2, <1>3, <1>4, EmptySeq DEF Last
<1> QED BY <1>2, <1>5, <1>6

\* What may follow a stream that has not ended: a delta inside an item and a part that
\* are open, an item that is the first, or any other frame.
LEMMA FrameInOrder ==
    ASSUME NEW frames \in Seq(Frames), NEW ends, InOrder(frames, ends),
           TypesIn(frames) \cap ends = {}, NEW f \in Kinds,
           f[1] = "output_item.added" => f[1] \notin TypesIn(frames),
           f[1] = "output_text.delta" =>
             /\ {"output_item.added", "content_part.added"} \subseteq TypesIn(frames)
             /\ "output_text.done" \notin TypesIn(frames)
    PROVE  InOrder(Numbered(frames, f), ends)
<1> DEFINE more == Numbered(frames, f)
<1>1. PICK n \in Nat : n = Len(frames) /\ DOMAIN frames = 1 .. n
  BY LenProperties
<1>2. /\ Len(more) = n + 1 /\ \A k \in 1 .. n : more[k] = frames[k]
      /\ more[n + 1][1] = f[1] /\ more[n + 1][2] = n
  BY <1>1, OneFrame
<1>3. \A k \in 1 .. n : frames[k][1] \notin ends /\ frames[k][1] \in TypesIn(frames)
  BY <1>1 DEF TypesIn
<1>4. \A t \in TypesIn(frames) : \E j \in 1 .. n : frames[j][1] = t
  BY <1>1 DEF TypesIn
<1> HIDE DEF more
<1>5. \A k \in 1 .. n + 1 : k \in 1 .. n \/ k = n + 1
  BY <1>1
<1>6. \A k \in 1 .. n : k \in 1 .. n + 1 /\ \A j \in 1 .. k : j \in 1 .. n
  BY <1>1
<1>7. \A k \in 1 .. n + 1 : more[k][2] = k - 1
  BY <1>1, <1>2, <1>5 DEF InOrder
<1>8. \A k \in 1 .. n + 1 : more[k][1] \in ends => k = n + 1
  BY <1>1, <1>2, <1>3, <1>5
<1>9. ASSUME NEW k \in 1 .. n + 1, more[k][1] = "output_text.delta"
      PROVE  /\ \E j \in 1 .. k : more[j][1] = "output_item.added"
             /\ \E j \in 1 .. k : more[j][1] = "content_part.added"
             /\ ~\E j \in 1 .. k : more[j][1] = "output_text.done"
  <2>1. CASE k \in 1 .. n
    <3>1. frames[k][1] = "output_text.delta"
      BY <1>2, <1>9, <2>1
    <3>2. /\ \E j \in 1 .. k : frames[j][1] = "output_item.added"
          /\ \E j \in 1 .. k : frames[j][1] = "content_part.added"
          /\ ~\E j \in 1 .. k : frames[j][1] = "output_text.done"
      BY <1>1, <2>1, <3>1 DEF InOrder
    <3> QED BY <1>2, <1>6, <2>1, <3>2
  <2>2. CASE k = n + 1
    <3>1. /\ {"output_item.added", "content_part.added"} \subseteq TypesIn(frames)
          /\ "output_text.done" \notin TypesIn(frames) /\ f[1] = "output_text.delta"
      BY <1>2, <1>9, <2>2
    <3>2. \A j \in 1 .. k : j \in 1 .. n \/ j = n + 1
      BY <1>1, <2>2
    <3>3. ~\E j \in 1 .. k : more[j][1] = "output_text.done"
      BY <1>2, <1>3, <3>1, <3>2
    <3>4. \A j \in 1 .. n : j \in 1 .. k /\ more[j][1] = frames[j][1]
      BY <1>1, <1>2, <2>2
    <3>5. \A t \in TypesIn(frames) : \E j \in 1 .. k : more[j][1] = t
      BY <1>4, <3>4
    <3> QED BY <3>1, <3>3, <3>5
  <2> QED BY <1>5, <2>1, <2>2
<1>10. ASSUME NEW j \in 1 .. n + 1, NEW k \in 1 .. n + 1,
              more[j][1] = "output_item.added", more[k][1] = "output_item.added"
       PROVE  j = k
  <2>1. CASE f[1] = "output_item.added"
    BY <1>2, <1>3, <1>5, <1>10, <2>1
  <2>2. CASE f[1] # "output_item.added"
    <3>1. j \in 1 .. n /\ k \in 1 .. n
      BY <1>2, <1>5, <1>10, <2>2
    <3> QED BY <1>1, <1>2, <1>10, <3>1 DEF InOrder
  <2> QED BY <2>1, <2>2
<1>11. InOrder(more, ends)
  BY <1>2, <1>7, <1>8, <1>9, <1>10 DEF InOrder
<1> QED BY <1>11 DEF more

\* The pieces of a stream are added up from the first to the last.
LEMMA PiecesOneByOne ==
    ASSUME NEW frames \in Seq(Frames)
    PROVE  \E upto :
              /\ upto[0] = <<>>
              /\ \A k \in 1 .. Len(frames) : upto[k] = upto[k - 1] \o frames[k][3]
              /\ Pieces(frames) = upto[Len(frames)]
<1> DEFINE Run(f, m) == f = [k \in 0 .. m |-> IF k = 0 THEN <<>> ELSE f[k - 1] \o frames[k][3]]
           T == {m \in Nat : \E f : Run(f, m)}
<1>1. PICK n \in Nat : n = Len(frames)
  BY LenProperties
<1>2. 0 \in T
  <2>1. Run([k \in 0 .. 0 |-> <<>>], 0)
    OBVIOUS
  <2> HIDE DEF Run
  <2> QED BY <2>1
<1>3. ASSUME NEW m \in 0 .. n, m < n, m \in T PROVE m + 1 \in T
  <2>1. PICK f : Run(f, m)
    BY <1>3
  <2> DEFINE g == [k \in 0 .. (m + 1) |-> IF k <= m THEN f[k] ELSE f[m] \o frames[m + 1][3]]
  <2>2. Run(g, m + 1)
    BY <2>1
  <2> HIDE DEF Run, g
  <2> QED BY <2>2
<1> HIDE DEF Run
<1>4. n \in T
  <2> HIDE DEF T
  <2> QED BY <1>2, <1>3, Climbing
<1> DEFINE h == CHOOSE f : Run(f, n)
<1>5. Run(h, n)
  BY <1>4
<1>6. Pieces(frames) = h[n]
  BY <1>1 DEF Pieces, Run
<1> HIDE DEF h
<1>7. h[0] = <<>>
  BY <1>5 DEF Run
<1>8. ASSUME NEW k \in 1 .. n PROVE h[k] = h[k - 1] \o frames[k][3]
  <2>1. k \in 0 .. n /\ k # 0
    BY <1>8
  <2> QED BY <1>5, <2>1 DEF Run
<1> QED BY <1>1, <1>6, <1>7, <1>8

LEMMA NoPieces == Pieces(<<>>) = <<>>
<1>1. <<>> \in Seq(Frames) /\ Len(<<>>) = 0
  BY EmptySeq
<1>2. PICK upto : upto[0] = <<>> /\ Pieces(<<>>) = upto[0]
  <2> DEFINE none == <<>>
  <2>1. none \in Seq(Frames) /\ Len(none) = 0
    BY <1>1
  <2> HIDE DEF none
  <2>2. \E upto : upto[0] = <<>> /\ Pieces(none) = upto[0]
    BY <2>1, PiecesOneByOne
  <2> QED BY <2>2 DEF none
<1> QED BY <1>2

\* A frame adds its own piece, and nothing else.
LEMMA PieceAdded ==
    ASSUME NEW frames \in Seq(Frames), NEW f \in Kinds
    PROVE  Pieces(Numbered(frames, f)) = Pieces(frames) \o f[2]
<1> DEFINE more == Numbered(frames, f)
<1>1. PICK n \in Nat : n = Len(frames)
  BY LenProperties
<1>2. /\ more \in Seq(Frames) /\ Len(more) = n + 1 /\ \A k \in 1 .. n : more[k] = frames[k]
      /\ more[n + 1][3] = f[2]
  BY <1>1, OneFrame
<1> HIDE DEF more
<1>3. PICK a : /\ a[0] = <<>> /\ \A k \in 1 .. n : a[k] = a[k - 1] \o frames[k][3]
               /\ Pieces(frames) = a[n]
  BY <1>1, PiecesOneByOne
<1>4. PICK b : /\ b[0] = <<>> /\ \A k \in 1 .. n + 1 : b[k] = b[k - 1] \o more[k][3]
               /\ Pieces(more) = b[n + 1]
  BY <1>2, PiecesOneByOne
<1> DEFINE T == {k \in 0 .. n : a[k] = b[k]}
<1>5. 0 \in T
  BY <1>3, <1>4
<1>6. ASSUME NEW k \in 0 .. n, k < n, k \in T PROVE k + 1 \in T
  <2>1. PICK j \in 1 .. n : j = k + 1 /\ j - 1 = k
    BY <1>6
  <2>2. a[j] = a[j - 1] \o frames[j][3]
    BY <1>3
  <2>3. j \in 1 .. n + 1
    OBVIOUS
  <2>4. b[j] = b[j - 1] \o more[j][3]
    BY <1>4, <2>3
  <2>5. a[j - 1] = b[j - 1] /\ more[j] = frames[j]
    BY <1>2, <1>6, <2>1
  <2>6. a[j] = b[j]
    BY <2>2, <2>4, <2>5
  <2> QED BY <2>1, <2>6
<1>7. a[n] = b[n]
  <2>1. n \in T
    <3> HIDE DEF T
    <3> QED BY <1>5, <1>6, Climbing
  <2> QED BY <2>1
<1>8. PICK m \in 1 .. n + 1 : m = n + 1 /\ m - 1 = n
  OBVIOUS
<1>9. b[m] = b[m - 1] \o more[m][3]
  BY <1>4
<1>10. Pieces(more) = Pieces(frames) \o f[2]
  <2>1. b[m - 1] = Pieces(frames) /\ more[m][3] = f[2] /\ Pieces(more) = b[m]
    BY <1>2, <1>3, <1>4, <1>7, <1>8
  <2> QED BY <1>9, <2>1
<1> QED BY <1>10 DEF more

\* Several frames, as stamp() numbers them, are added one by one.
Adds(frames, fs) ==
    frames \o [k \in DOMAIN fs |-> <<fs[k][1], Len(frames) + k - 1, fs[k][2]>>]

LEMMA AddedFrames ==
    ASSUME NEW frames \in Seq(Frames), NEW fs \in Seq(Kinds)
    PROVE  /\ Adds(frames, fs) \in Seq(Frames)
           /\ Len(Adds(frames, fs)) = Len(frames) + Len(fs)
           /\ \A k \in 1 .. Len(frames) : Adds(frames, fs)[k] = frames[k]
           /\ \A k \in 1 .. Len(fs) :
                Adds(frames, fs)[Len(frames) + k] = <<fs[k][1], Len(frames) + k - 1, fs[k][2]>>
<1> DEFINE stamped == [k \in DOMAIN fs |-> <<fs[k][1], Len(frames) + k - 1, fs[k][2]>>]
<1>1. PICK n \in Nat, m \in Nat : n = Len(frames) /\ m = Len(fs) /\ DOMAIN fs = 1 .. m
  BY LenProperties
<1>2. ASSUME NEW k \in 1 .. m PROVE <<fs[k][1], n + k - 1, fs[k][2]>> \in Frames
  <2>1. fs[k] \in Kinds
    BY <1>1, ElementOfSeq
  <2>2. fs[k][1] \in FrameTypes /\ fs[k][2] \in Seq(Nat) /\ n + k - 1 \in Nat
    BY <2>1 DEF Kinds
  <2> QED BY <2>2 DEF Frames
<1>3. stamped \in Seq(Frames) /\ Len(stamped) = m
  <2>1. stamped \in [1 .. m -> Frames]
    BY <1>1, <1>2
  <2> HIDE DEF stamped
  <2> QED BY <2>1
<1>4. \A k \in 1 .. m : stamped[k] = <<fs[k][1], n + k - 1, fs[k][2]>>
  BY <1>1
<1>5. Adds(frames, fs) = frames \o stamped
  BY DEF Adds
<1> HIDE DEF stamped
<1>6. /\ Adds(frames, fs) \in Seq(Frames) /\ Len(Adds(frames, fs)) = n + m
      /\ \A i \in 1 .. n + m : Adds(frames, fs)[i] = IF i <= n THEN frames[i] ELSE stamped[i - n]
  <2>1. PICK st \in Seq(Frames) : st = stamped
    BY <1>3
  <2>2. /\ frames \o st \in Seq(Frames) /\ Len(frames \o st) = Len(frames) + Len(st)
        /\ \A i \in 1 .. Len(frames) + Len(st) :
             (frames \o st)[i] = IF i <= Len(frames) THEN frames[i] ELSE st[i - Len(frames)]
    BY ConcatProperties
  <2>3. Len(st) = m /\ Adds(frames, fs) = frames \o st
    BY <1>3, <1>5, <2>1
  <2> QED BY <1>1, <2>1, <2>2, <2>3
<1>7. ASSUME NEW k \in 1 .. m
      PROVE  Adds(frames, fs)[n + k] = <<fs[k][1], n + k - 1, fs[k][2]>>
  <2>1. PICK i \in 1 .. n + m : i = n + k /\ ~(i <= n) /\ i - n = k
    BY <1>1
  <2> QED BY <1>4, <1>6, <2>1
<1>8. \A k \in 1 .. n : k \in 1 .. n + m /\ k <= n
  BY <1>1
<1> QED BY <1>1, <1>6, <1>7, <1>8

LEMMA AddNone ==
    ASSUME NEW frames \in Seq(Frames)
    PROVE  Adds(frames, <<>>) = frames
<1>1. PICK none \in Seq(Kinds) : none = <<>> /\ Len(none) = 0
  BY EmptySeq
<1>2. PICK n \in Nat : n = Len(frames)
  BY LenProperties
<1>3. PICK more : more = Adds(frames, none)
  OBVIOUS
<1>4. /\ more \in Seq(Frames) /\ Len(more) = n + 0
      /\ \A k \in 1 .. n : more[k] = frames[k]
  <2>1. /\ Adds(frames, none) \in Seq(Frames)
        /\ Len(Adds(frames, none)) = Len(frames) + Len(none)
        /\ \A k \in 1 .. Len(frames) : Adds(frames, none)[k] = frames[k]
    BY AddedFrames
  <2> QED BY <1>1, <1>2, <1>3, <2>1
<1>5. more = frames
  BY <1>2, <1>4, SeqEqual
<1> QED BY <1>1, <1>3, <1>5

LEMMA AddOneMore ==
    ASSUME NEW frames \in Seq(Frames), NEW fs \in Seq(Kinds), NEW f \in Kinds
    PROVE  Adds(frames, Append(fs, f)) = Numbered(Adds(frames, fs), f)
<1>1. PICK n \in Nat, m \in Nat : n = Len(frames) /\ m = Len(fs)
  BY LenProperties
<1>2. PICK gs \in Seq(Kinds) : gs = Append(fs, f)
  <2>1. Append(fs, f) \in Seq(Kinds)
    OBVIOUS
  <2> QED BY <2>1
<1>3. Len(gs) = m + 1 /\ \A k \in 1 .. m : gs[k] = fs[k]
  BY <1>1, <1>2
<1>4. gs[m + 1] = f
  BY <1>1, <1>2
<1>5. PICK a : a = Adds(frames, gs)
  OBVIOUS
<1>6. PICK b : b = Adds(frames, fs)
  OBVIOUS
<1>7. PICK d : d = Numbered(b, f)
  OBVIOUS
<1>8. /\ a \in Seq(Frames) /\ Len(a) = n + (m + 1)
      /\ \A k \in 1 .. n : a[k] = frames[k]
      /\ \A k \in 1 .. m + 1 : a[n + k] = <<gs[k][1], n + k - 1, gs[k][2]>>
  <2>1. /\ Adds(frames, gs) \in Seq(Frames)
        /\ Len(Adds(frames, gs)) = Len(frames) + Len(gs)
        /\ \A k \in 1 .. Len(frames) : Adds(frames, gs)[k] = frames[k]
        /\ \A k \in 1 .. Len(gs) :
             Adds(frames, gs)[Len(frames) + k] = <<gs[k][1], Len(frames) + k - 1, gs[k][2]>>
    BY AddedFrames
  <2> QED BY <1>1, <1>3, <1>5, <2>1
<1>9. /\ b \in Seq(Frames) /\ Len(b) = n + m
      /\ \A k \in 1 .. n : b[k] = frames[k]
      /\ \A k \in 1 .. m : b[n + k] = <<fs[k][1], n + k - 1, fs[k][2]>>
  BY <1>1, <1>6, AddedFrames
<1>10. /\ d \in Seq(Frames) /\ Len(d) = n + m + 1
       /\ \A k \in 1 .. n + m : d[k] = b[k]
       /\ d[n + m + 1] = <<f[1], n + m, f[2]>>
  <2>1. /\ Numbered(b, f) \in Seq(Frames)
        /\ Len(Numbered(b, f)) = Len(b) + 1
        /\ \A k \in 1 .. Len(b) : Numbered(b, f)[k] = b[k]
        /\ Numbered(b, f)[Len(b) + 1] = <<f[1], Len(b), f[2]>>
    <3>1. b \in Seq(Frames)
      BY <1>9
    <3> QED BY <3>1, OneFrame
  <2>2. /\ d \in Seq(Frames) /\ Len(d) = Len(b) + 1
        /\ \A k \in 1 .. Len(b) : d[k] = b[k]
        /\ d[Len(b) + 1] = <<f[1], Len(b), f[2]>>
    BY <1>7, <2>1, Zenon
  <2> QED BY <1>9, <2>2
<1>11. ASSUME NEW i \in 1 .. n + m + 1 PROVE a[i] = d[i]
  <2>1. CASE i \in 1 .. n
    BY <1>8, <1>9, <1>10, <2>1
  <2>2. CASE i \in n + 1 .. n + m
    <3>1. PICK k \in 1 .. m : i = n + k
      <4>1. i - n \in 1 .. m /\ i = n + (i - n)
        BY <2>2
      <4> QED BY <4>1
    <3>2. k \in 1 .. m + 1 /\ i \in 1 .. n + m
      BY <3>1
    <3>3. a[n + k] = <<fs[k][1], n + k - 1, fs[k][2]>>
      BY <1>3, <1>8, <3>2
    <3>4. b[n + k] = <<fs[k][1], n + k - 1, fs[k][2]>>
      BY <1>9
    <3> QED BY <1>10, <3>1, <3>2, <3>3, <3>4
  <2>3. CASE i = n + m + 1
    <3>1. PICK k \in 1 .. m + 1 : k = m + 1 /\ n + k - 1 = n + m /\ i = n + k
      BY <2>3
    <3>2. a[n + k] = <<gs[k][1], n + k - 1, gs[k][2]>>
      BY <1>8
    <3>3. gs[k] = f
      BY <1>4, <3>1
    <3>4. a[i] = <<f[1], n + m, f[2]>>
      BY <3>1, <3>2, <3>3
    <3>5. d[i] = <<f[1], n + m, f[2]>>
      BY <1>10, <2>3
    <3> QED BY <3>4, <3>5
  <2> QED BY <2>1, <2>2, <2>3
<1>12. Len(a) = n + m + 1
  BY <1>8
<1>13. a = d
  <2>1. Len(a) = Len(d) /\ \A i \in 1 .. Len(a) : a[i] = d[i]
    BY <1>10, <1>11, <1>12
  <2> QED BY <1>8, <1>10, <2>1, SeqEqual
<1> QED BY <1>2, <1>5, <1>6, <1>7, <1>13

LEMMA StampedAdds == \A c, fs : Stamped(c, fs) = Adds(events[c], fs)
BY DEF Stamped, Adds

OpeningTypes == {"response.created", "response.in_progress", "role"}
ItemTypes == {"output_item.added", "content_part.added"}
DoneTypes == {"output_text.done", "content_part.done", "output_item.done"}

LEMMA TypesAre ==
    /\ "role" \in FrameTypes /\ "chunk" \in FrameTypes
    /\ "usage" \in FrameTypes /\ "error" \in FrameTypes
    /\ "[DONE]" \in FrameTypes /\ "response.created" \in FrameTypes
    /\ "response.in_progress" \in FrameTypes /\ "output_item.added" \in FrameTypes
    /\ "content_part.added" \in FrameTypes /\ "output_text.delta" \in FrameTypes
    /\ "output_text.done" \in FrameTypes /\ "content_part.done" \in FrameTypes
    /\ "output_item.done" \in FrameTypes /\ "response.completed" \in FrameTypes
BY DEF FrameTypes, OldTypes

LEMMA FrameKind == \A t \in FrameTypes : Frame(t) \in Kinds /\ Frame(t)[1] = t /\ Frame(t)[2] = <<>>
<1>1. <<>> \in Seq(Nat)
  BY EmptySeq
<1> QED BY <1>1 DEF Frame, Kinds

\* A stream that has not ended, with its types and its text.
Going(frames, ends, types, text) ==
    /\ frames \in Seq(Frames) /\ InOrder(frames, ends)
    /\ TypesIn(frames) = types /\ types \cap ends = {}
    /\ Pieces(frames) = text /\ text \in Seq(Nat)

\* A stream that has ended, if only its last frame is an end.
Ended(frames, ends, types, text) ==
    /\ frames \in Seq(Frames) /\ InOrder(frames, ends)
    /\ TypesIn(frames) = types /\ Pieces(frames) = text
    /\ frames # <<>> /\ Last(frames)[1] \in ends

LEMMA NothingSent == \A ends : Going(<<>>, ends, {}, <<>>)
<1> SUFFICES ASSUME NEW ends PROVE Going(<<>>, ends, {}, <<>>)
  OBVIOUS
<1>1. PICK none \in Seq(Frames) : none = <<>> /\ Len(none) = 0 /\ DOMAIN none = 1 .. 0
  BY EmptySeq, LenProperties
<1>2. InOrder(none, ends)
  BY <1>1 DEF InOrder
<1>3. TypesIn(none) = {}
  BY <1>1 DEF TypesIn
<1>4. <<>> \in Seq(Nat)
  BY EmptySeq
<1> QED BY <1>1, <1>2, <1>3, <1>4, NoPieces DEF Going

\* The next frame of a stream, whatever it is.
LEMMA NextFrame ==
    ASSUME NEW frames, NEW ends, NEW types, NEW text, Going(frames, ends, types, text),
           NEW f \in Kinds,
           f[1] = "output_item.added" => f[1] \notin types,
           f[1] = "output_text.delta" =>
             /\ "output_item.added" \in types /\ "content_part.added" \in types
             /\ "output_text.done" \notin types
    PROVE  /\ f[1] \notin ends => Going(Numbered(frames, f), ends, types \cup {f[1]}, text \o f[2])
           /\ f[1] \in ends => Ended(Numbered(frames, f), ends, types \cup {f[1]}, text \o f[2])
<1>1. /\ frames \in Seq(Frames) /\ InOrder(frames, ends) /\ TypesIn(frames) = types
      /\ TypesIn(frames) \cap ends = {} /\ Pieces(frames) = text /\ text \in Seq(Nat)
  BY DEF Going
<1>2. InOrder(Numbered(frames, f), ends)
  BY <1>1, FrameInOrder
<1>3. /\ Numbered(frames, f) \in Seq(Frames)
      /\ TypesIn(Numbered(frames, f)) = types \cup {f[1]}
      /\ Numbered(frames, f) # <<>> /\ Last(Numbered(frames, f))[1] = f[1]
  BY <1>1, OneFrame
<1>4. Pieces(Numbered(frames, f)) = text \o f[2]
  BY <1>1, PieceAdded
<1>5. text \o f[2] \in Seq(Nat)
  BY <1>1, ConcatProperties DEF Kinds
<1>6. f[1] \notin ends => (types \cup {f[1]}) \cap ends = {}
  BY <1>1
<1> QED BY <1>2, <1>3, <1>4, <1>5, <1>6 DEF Going, Ended

\* A frame without a piece leaves the text.
LEMMA NextPlain ==
    ASSUME NEW frames, NEW ends, NEW types, NEW text, Going(frames, ends, types, text),
           NEW t \in FrameTypes, t # "output_text.delta", t = "output_item.added" => t \notin types
    PROVE  /\ t \notin ends => Going(Numbered(frames, Frame(t)), ends, types \cup {t}, text)
           /\ t \in ends => Ended(Numbered(frames, Frame(t)), ends, types \cup {t}, text)
<1>1. PICK f \in Kinds : f = Frame(t) /\ f[1] = t /\ f[2] = <<>>
  BY FrameKind
<1>2. text \o f[2] = text
  BY <1>1, ConcatEmptySeq DEF Going
<1>3. /\ f[1] \notin ends => Going(Numbered(frames, f), ends, types \cup {f[1]}, text \o f[2])
      /\ f[1] \in ends => Ended(Numbered(frames, f), ends, types \cup {f[1]}, text \o f[2])
  BY <1>1, NextFrame
<1> QED BY <1>1, <1>2, <1>3

LEMMA AddsTwice ==
    ASSUME NEW frames \in Seq(Frames), NEW s \in Seq(Kinds), NEW t \in Seq(Kinds)
    PROVE  s \o t \in Seq(Kinds) /\ Adds(frames, s \o t) = Adds(Adds(frames, s), t)
<1>1. PICK n \in Nat, m \in Nat, p \in Nat : n = Len(frames) /\ m = Len(s) /\ p = Len(t)
  BY LenProperties
<1>2. /\ s \o t \in Seq(Kinds) /\ Len(s \o t) = m + p
      /\ \A k \in 1 .. m + p : (s \o t)[k] = IF k <= m THEN s[k] ELSE t[k - m]
  <2>1. /\ s \o t \in Seq(Kinds) /\ Len(s \o t) = Len(s) + Len(t)
        /\ \A k \in 1 .. Len(s) + Len(t) : (s \o t)[k] = IF k <= Len(s) THEN s[k] ELSE t[k - Len(s)]
    BY ConcatProperties
  <2> QED BY <1>1, <2>1
<1>3. PICK u \in Seq(Kinds) : u = s \o t
  BY <1>2
<1>4. PICK a : a = Adds(frames, u)
  OBVIOUS
<1>5. PICK b : b = Adds(frames, s)
  OBVIOUS
<1>6. PICK d : d = Adds(b, t)
  OBVIOUS
<1>7. /\ a \in Seq(Frames) /\ Len(a) = n + (m + p)
      /\ \A k \in 1 .. n : a[k] = frames[k]
      /\ \A k \in 1 .. m + p : a[n + k] = <<u[k][1], n + k - 1, u[k][2]>>
  <2>1. /\ Adds(frames, u) \in Seq(Frames)
        /\ Len(Adds(frames, u)) = Len(frames) + Len(u)
        /\ \A k \in 1 .. Len(frames) : Adds(frames, u)[k] = frames[k]
        /\ \A k \in 1 .. Len(u) :
             Adds(frames, u)[Len(frames) + k] = <<u[k][1], Len(frames) + k - 1, u[k][2]>>
    BY AddedFrames
  <2> QED BY <1>1, <1>2, <1>3, <1>4, <2>1
<1>8. /\ b \in Seq(Frames) /\ Len(b) = n + m
      /\ \A k \in 1 .. n : b[k] = frames[k]
      /\ \A k \in 1 .. m : b[n + k] = <<s[k][1], n + k - 1, s[k][2]>>
  <2>1. /\ Adds(frames, s) \in Seq(Frames)
        /\ Len(Adds(frames, s)) = Len(frames) + Len(s)
        /\ \A k \in 1 .. Len(frames) : Adds(frames, s)[k] = frames[k]
        /\ \A k \in 1 .. Len(s) :
             Adds(frames, s)[Len(frames) + k] = <<s[k][1], Len(frames) + k - 1, s[k][2]>>
    BY AddedFrames
  <2> QED BY <1>1, <1>5, <2>1
<1>9. /\ d \in Seq(Frames) /\ Len(d) = n + m + p
      /\ \A k \in 1 .. n + m : d[k] = b[k]
      /\ \A k \in 1 .. p : d[n + m + k] = <<t[k][1], n + m + k - 1, t[k][2]>>
  <2>1. /\ Adds(b, t) \in Seq(Frames)
        /\ Len(Adds(b, t)) = Len(b) + Len(t)
        /\ \A k \in 1 .. Len(b) : Adds(b, t)[k] = b[k]
        /\ \A k \in 1 .. Len(t) :
             Adds(b, t)[Len(b) + k] = <<t[k][1], Len(b) + k - 1, t[k][2]>>
    BY <1>8, AddedFrames
  <2> QED BY <1>1, <1>6, <1>8, <2>1
<1>10. ASSUME NEW i \in 1 .. n + m + p PROVE a[i] = d[i]
  <2>1. CASE i \in 1 .. n
    <3>1. i \in 1 .. n + m
      BY <2>1
    <3> QED BY <1>7, <1>8, <1>9, <2>1, <3>1
  <2>2. CASE i \in n + 1 .. n + m
    <3>1. PICK k \in 1 .. m : i = n + k
      <4>1. i - n \in 1 .. m /\ i = n + (i - n)
        BY <2>2
      <4> QED BY <4>1
    <3>2. k \in 1 .. m + p /\ k <= m /\ i \in 1 .. n + m
      BY <3>1
    <3>3. a[n + k] = <<u[k][1], n + k - 1, u[k][2]>> /\ u[k] = s[k]
      BY <1>2, <1>3, <1>7, <3>2
    <3>4. b[n + k] = <<s[k][1], n + k - 1, s[k][2]>>
      BY <1>8
    <3>5. a[i] = b[i]
      BY <3>1, <3>3, <3>4
    <3> QED BY <1>9, <3>2, <3>5
  <2>3. CASE i \in n + m + 1 .. n + m + p
    <3>1. PICK k \in 1 .. p : i = n + m + k
      <4>1. i - n - m \in 1 .. p /\ i = n + m + (i - n - m)
        BY <2>3
      <4> QED BY <4>1
    <3>2. PICK j \in 1 .. m + p : j = m + k /\ ~(j <= m) /\ j - m = k
      BY <3>1
    <3>3. a[n + j] = <<u[j][1], n + j - 1, u[j][2]>> /\ u[j] = t[k]
      BY <1>2, <1>3, <1>7, <3>2
    <3>4. d[n + m + k] = <<t[k][1], n + m + k - 1, t[k][2]>>
      BY <1>9
    <3>5. n + j = i /\ n + m + k = i /\ n + j - 1 = i - 1 /\ n + m + k - 1 = i - 1
      BY <3>1, <3>2
    <3>6. a[i] = <<t[k][1], i - 1, t[k][2]>>
      BY <3>3, <3>5
    <3>7. d[i] = <<t[k][1], i - 1, t[k][2]>>
      BY <3>4, <3>5
    <3> QED BY <3>6, <3>7
  <2>4. i \in 1 .. n \/ i \in n + 1 .. n + m \/ i \in n + m + 1 .. n + m + p
    OBVIOUS
  <2> QED BY <2>1, <2>2, <2>3, <2>4
<1>11. a = d
  <2>1. Len(a) = Len(d) /\ \A i \in 1 .. Len(a) : a[i] = d[i]
    BY <1>7, <1>9, <1>10
  <2> QED BY <1>7, <1>9, <2>1, SeqEqual
<1> QED BY <1>2, <1>3, <1>4, <1>5, <1>6, <1>11

LEMMA AddsOne ==
    ASSUME NEW frames \in Seq(Frames), NEW f \in Kinds
    PROVE  <<f>> \in Seq(Kinds) /\ Adds(frames, <<f>>) = Numbered(frames, f)
<1>1. PICK none \in Seq(Kinds) : none = <<>>
  BY EmptySeq
<1>2. Append(none, f) = <<f>>
  BY <1>1
<1>3. Adds(frames, Append(none, f)) = Numbered(Adds(frames, none), f)
  BY AddOneMore
<1>4. Adds(frames, none) = frames
  BY <1>1, AddNone
<1>5. <<f>> \in Seq(Kinds)
  OBVIOUS
<1> QED BY <1>2, <1>3, <1>4, <1>5

LEMMA ShortSequences ==
    \A f, g, h : Append(<<f>>, g) = <<f, g>> /\ Append(<<f, g>>, h) = <<f, g, h>>
<1> SUFFICES ASSUME NEW f, NEW g, NEW h
             PROVE  Append(<<f>>, g) = <<f, g>> /\ Append(<<f, g>>, h) = <<f, g, h>>
  OBVIOUS
<1> DEFINE S == {f, g, h}
<1>1. PICK one \in Seq(S) : one = <<f>> /\ Len(one) = 1 /\ one[1] = f
  <2>1. <<f>> \in Seq(S) /\ Len(<<f>>) = 1
    OBVIOUS
  <2> QED BY <2>1
<1>2. PICK two \in Seq(S) : two = <<f, g>> /\ Len(two) = 2 /\ two[1] = f /\ two[2] = g
  <2>1. <<f, g>> \in Seq(S) /\ Len(<<f, g>>) = 2
    OBVIOUS
  <2> QED BY <2>1
<1>3. PICK three \in Seq(S) :
        three = <<f, g, h>> /\ Len(three) = 3 /\ three[1] = f /\ three[2] = g /\ three[3] = h
  <2>1. <<f, g, h>> \in Seq(S) /\ Len(<<f, g, h>>) = 3
    OBVIOUS
  <2> QED BY <2>1
<1>4. g \in S /\ h \in S
  OBVIOUS
<1> HIDE DEF S
<1>5. PICK a \in Seq(S) : a = Append(one, g) /\ Len(a) = 2 /\ a[1] = f /\ a[2] = g
  <2>1. Append(one, g) \in Seq(S) /\ Len(Append(one, g)) = 2
    BY <1>1, <1>4
  <2>2. Append(one, g)[1] = f /\ Append(one, g)[2] = g
    BY <1>1, <1>4
  <2> QED BY <2>1, <2>2
<1>6. PICK b \in Seq(S) :
        b = Append(two, h) /\ Len(b) = 3 /\ b[1] = f /\ b[2] = g /\ b[3] = h
  <2>1. Append(two, h) \in Seq(S) /\ Len(Append(two, h)) = 3
    BY <1>2, <1>4
  <2>2. Append(two, h)[1] = f /\ Append(two, h)[2] = g /\ Append(two, h)[3] = h
    BY <1>2, <1>4
  <2> QED BY <2>1, <2>2
<1>7. a = two
  <2>1. \A i \in 1 .. Len(a) : a[i] = two[i]
    BY <1>2, <1>5
  <2> QED BY <1>2, <1>5, <2>1, SeqEqual
<1>8. b = three
  <2>1. \A i \in 1 .. Len(b) : b[i] = three[i]
    BY <1>3, <1>6
  <2> QED BY <1>3, <1>6, <2>1, SeqEqual
<1>9. Append(<<f>>, g) = <<f, g>>
  BY <1>1, <1>2, <1>5, <1>7, Zenon
<1>10. Append(<<f, g>>, h) = <<f, g, h>>
  BY <1>2, <1>3, <1>6, <1>8, Zenon
<1> QED BY <1>9, <1>10, Zenon

LEMMA AddsTwo ==
    ASSUME NEW frames \in Seq(Frames), NEW f \in Kinds, NEW g \in Kinds
    PROVE  /\ <<f, g>> \in Seq(Kinds)
           /\ Adds(frames, <<f, g>>) = Numbered(Numbered(frames, f), g)
<1>1. PICK one \in Seq(Kinds) : one = <<f>>
  BY AddsOne
<1>2. PICK two \in Seq(Kinds) : two = Append(one, g) /\ two = <<f, g>>
  <2>1. Append(one, g) \in Seq(Kinds)
    OBVIOUS
  <2>2. Append(one, g) = <<f, g>>
    BY <1>1, ShortSequences, Zenon
  <2> QED BY <2>1, <2>2
<1>3. Adds(frames, one) = Numbered(frames, f)
  BY <1>1, AddsOne
<1>4. Adds(frames, Append(one, g)) = Numbered(Adds(frames, one), g)
  BY AddOneMore
<1> QED BY <1>2, <1>3, <1>4

LEMMA AddsThree ==
    \A frames \in Seq(Frames) : \A f \in Kinds : \A g \in Kinds : \A h \in Kinds :
        /\ <<f, g, h>> \in Seq(Kinds)
        /\ Adds(frames, <<f, g, h>>) = Numbered(Numbered(Numbered(frames, f), g), h)
<1> SUFFICES ASSUME NEW frames \in Seq(Frames), NEW f \in Kinds, NEW g \in Kinds, NEW h \in Kinds
             PROVE  /\ <<f, g, h>> \in Seq(Kinds)
                    /\ Adds(frames, <<f, g, h>>) = Numbered(Numbered(Numbered(frames, f), g), h)
  BY Zenon
<1>1. PICK two \in Seq(Kinds) : two = <<f, g>> /\ Adds(frames, two) = Numbered(Numbered(frames, f), g)
  BY AddsTwo
<1>2. Append(two, h) \in Seq(Kinds) /\ Adds(frames, Append(two, h)) = Numbered(Adds(frames, two), h)
  BY AddOneMore
<1>3. Append(two, h) = <<f, g, h>>
  BY <1>1, ShortSequences, Zenon
<1> QED BY <1>1, <1>2, <1>3

------------------------------------------------------------------------------
(* What the handlers send.                                                  *)

LEMMA OpeningGoes ==
    ASSUME NEW c
    PROVE  /\ Opening(c) \in Seq(Kinds)
           /\ \E types \in SUBSET OpeningTypes :
                /\ Going(Adds(<<>>, Opening(c)), EndTypes(c), types, <<>>)
                /\ Endpoint(c) # "responses" => types \subseteq {"role"}
<1>1. PICK none \in Seq(Frames) : none = <<>>
  BY EmptySeq
<1>2. Going(none, EndTypes(c), {}, <<>>)
  BY <1>1, NothingSent
<1>3. CASE Endpoint(c) = "responses"
  <2> DEFINE a == Frame("response.created") b == Frame("response.in_progress")
  <2>1. a \in Kinds /\ b \in Kinds
    BY FrameKind, TypesAre
  <2>2. Opening(c) = <<a, b>> /\ EndTypes(c) = {"response.completed", "error"}
    BY <1>3 DEF Opening, EndTypes
  <2>3. Going(Numbered(none, a), EndTypes(c), {} \cup {"response.created"}, <<>>)
    BY <1>2, <2>2, NextPlain, TypesAre
  <2>4. Going(Numbered(Numbered(none, a), b), EndTypes(c),
              {} \cup {"response.created"} \cup {"response.in_progress"}, <<>>)
    BY <2>2, <2>3, NextPlain, TypesAre
  <2> HIDE DEF a, b
  <2>5. <<a, b>> \in Seq(Kinds) /\ Adds(none, <<a, b>>) = Numbered(Numbered(none, a), b)
    BY <2>1, AddsTwo
  <2> DEFINE types == {} \cup {"response.created"} \cup {"response.in_progress"}
  <2>6. types \in SUBSET OpeningTypes
    BY DEF OpeningTypes
  <2>7. Going(Adds(<<>>, Opening(c)), EndTypes(c), types, <<>>)
    BY <1>1, <2>2, <2>4, <2>5
  <2> HIDE DEF types
  <2> QED BY <1>3, <2>2, <2>5, <2>6, <2>7
<1>4. CASE Endpoint(c) = "chat"
  <2> DEFINE a == Frame("role")
  <2>1. a \in Kinds
    BY FrameKind, TypesAre
  <2>2. Opening(c) = <<a>> /\ EndTypes(c) = {"[DONE]"}
    BY <1>4 DEF Opening, EndTypes
  <2>3. Going(Numbered(none, a), EndTypes(c), {} \cup {"role"}, <<>>)
    BY <1>2, <2>2, NextPlain, TypesAre
  <2> HIDE DEF a
  <2>4. <<a>> \in Seq(Kinds) /\ Adds(none, <<a>>) = Numbered(none, a)
    BY <2>1, AddsOne
  <2> DEFINE types == {} \cup {"role"}
  <2>5. types \in SUBSET OpeningTypes /\ types \subseteq {"role"}
    BY DEF OpeningTypes
  <2>6. Going(Adds(<<>>, Opening(c)), EndTypes(c), types, <<>>)
    BY <1>1, <2>2, <2>3, <2>4
  <2> HIDE DEF types
  <2> QED BY <2>2, <2>4, <2>5, <2>6
<1>5. CASE Endpoint(c) # "responses" /\ Endpoint(c) # "chat"
  <2>1. Opening(c) = <<>>
    BY <1>5 DEF Opening
  <2>2. <<>> \in Seq(Kinds)
    BY EmptySeq
  <2>3. Adds(none, <<>>) = none
    BY AddNone
  <2> QED BY <1>1, <1>2, <2>1, <2>2, <2>3
<1> QED BY <1>3, <1>4, <1>5

\* Whatever has been sent, an error frame ends it.
LEMMA BrokenEnds ==
    ASSUME NEW c, NEW frames, NEW types, NEW text, Going(frames, EndTypes(c), types, text)
    PROVE  /\ Broken(c) \in Seq(Kinds)
           /\ \E more \in SUBSET {"error", "[DONE]"} :
                Ended(Adds(frames, Broken(c)), EndTypes(c), types \cup more, text)
<1> DEFINE a == Frame("error") b == Frame("[DONE]")
<1>1. a \in Kinds /\ b \in Kinds /\ frames \in Seq(Frames)
  BY FrameKind, TypesAre DEF Going
<1>2. CASE Endpoint(c) = "responses"
  <2>1. Broken(c) = <<a>> /\ "error" \in EndTypes(c)
    BY <1>2 DEF Broken, Closing, EndTypes
  <2>2. Ended(Numbered(frames, a), EndTypes(c), types \cup {"error"}, text)
    BY <2>1, NextPlain, TypesAre
  <2> HIDE DEF a, b
  <2>3. <<a>> \in Seq(Kinds) /\ Adds(frames, <<a>>) = Numbered(frames, a)
    BY <1>1, AddsOne
  <2> QED BY <2>1, <2>2, <2>3
<1>3. CASE Endpoint(c) # "responses"
  <2>1. Broken(c) = <<a>> \o <<b>> /\ EndTypes(c) = {"[DONE]"}
    BY <1>3 DEF Broken, Closing, EndTypes
  <2>2. Going(Numbered(frames, a), EndTypes(c), types \cup {"error"}, text)
    BY <2>1, NextPlain, TypesAre
  <2>3. Ended(Numbered(Numbered(frames, a), b), EndTypes(c), types \cup {"error"} \cup {"[DONE]"}, text)
    BY <2>1, <2>2, NextPlain, TypesAre
  <2> HIDE DEF a, b
  <2>4. /\ <<a>> \in Seq(Kinds) /\ Adds(frames, <<a>>) = Numbered(frames, a)
        /\ Numbered(frames, a) \in Seq(Frames)
    BY <1>1, <2>2, AddsOne DEF Going
  <2>5. <<b>> \in Seq(Kinds) /\ Adds(Numbered(frames, a), <<b>>) = Numbered(Numbered(frames, a), b)
    BY <1>1, <2>4, AddsOne
  <2>6. /\ <<a>> \o <<b>> \in Seq(Kinds)
        /\ Adds(frames, <<a>> \o <<b>>) = Adds(Adds(frames, <<a>>), <<b>>)
    BY <1>1, <2>4, <2>5, AddsTwice
  <2>7. types \cup {"error"} \cup {"[DONE]"} = types \cup {"error", "[DONE]"}
    OBVIOUS
  <2>8. Ended(Adds(frames, Broken(c)), EndTypes(c), types \cup {"error", "[DONE]"}, text)
    BY <2>1, <2>3, <2>4, <2>5, <2>6, <2>7
  <2> QED BY <2>1, <2>6, <2>8
<1> QED BY <1>2, <1>3

\* The older endpoints close a stream with the usage and the sentinel.
LEMMA UsageEnds ==
    ASSUME NEW c, Endpoint(c) # "responses", NEW frames, NEW types, NEW text,
           Going(frames, EndTypes(c), types, text)
    PROVE  /\ Closing(c, <<Frame("usage")>>) \in Seq(Kinds)
           /\ Ended(Adds(frames, Closing(c, <<Frame("usage")>>)), EndTypes(c),
                    types \cup {"usage", "[DONE]"}, text)
<1> DEFINE a == Frame("usage") b == Frame("[DONE]")
<1>1. a \in Kinds /\ b \in Kinds /\ frames \in Seq(Frames)
  BY FrameKind, TypesAre DEF Going
<1>2. Closing(c, <<a>>) = <<a>> \o <<b>> /\ EndTypes(c) = {"[DONE]"}
  BY DEF Closing, EndTypes
<1>3. Going(Numbered(frames, a), EndTypes(c), types \cup {"usage"}, text)
  BY <1>2, NextPlain, TypesAre
<1>4. Ended(Numbered(Numbered(frames, a), b), EndTypes(c), types \cup {"usage"} \cup {"[DONE]"}, text)
  BY <1>2, <1>3, NextPlain, TypesAre
<1>5. types \cup {"usage"} \cup {"[DONE]"} = types \cup {"usage", "[DONE]"}
  OBVIOUS
<1> SUFFICES /\ Closing(c, <<a>>) \in Seq(Kinds)
             /\ Ended(Adds(frames, Closing(c, <<a>>)), EndTypes(c), types \cup {"usage", "[DONE]"}, text)
  OBVIOUS
<1> HIDE DEF a, b
<1>6. /\ <<a>> \in Seq(Kinds) /\ Adds(frames, <<a>>) = Numbered(frames, a)
      /\ Numbered(frames, a) \in Seq(Frames)
  BY <1>1, <1>3, AddsOne DEF Going
<1>7. <<b>> \in Seq(Kinds) /\ Adds(Numbered(frames, a), <<b>>) = Numbered(Numbered(frames, a), b)
  BY <1>1, <1>6, AddsOne
<1>8. /\ <<a>> \o <<b>> \in Seq(Kinds)
      /\ Adds(frames, <<a>> \o <<b>>) = Adds(Adds(frames, <<a>>), <<b>>)
  BY <1>1, <1>6, <1>7, AddsTwice
<1> QED BY <1>2, <1>4, <1>5, <1>6, <1>7, <1>8

\* What was opened is closed.
LEMMA DoneGoes ==
    ASSUME NEW c, Endpoint(c) = "responses", NEW frames, NEW types, NEW text,
           Going(frames, EndTypes(c), types, text),
           NEW done, done = <<Frame("output_text.done"), Frame("content_part.done"),
                              Frame("output_item.done")>>
    PROVE  /\ done \in Seq(Kinds)
           /\ Going(Adds(frames, done), EndTypes(c), types \cup DoneTypes, text)
<1> DEFINE a == Frame("output_text.done") b == Frame("content_part.done")
           d == Frame("output_item.done")
<1>1. a \in Kinds /\ b \in Kinds /\ d \in Kinds /\ frames \in Seq(Frames)
  BY FrameKind, TypesAre DEF Going
<1>2. EndTypes(c) = {"response.completed", "error"}
  BY DEF EndTypes
<1>3. Going(Numbered(frames, a), EndTypes(c), types \cup {"output_text.done"}, text)
  BY <1>2, NextPlain, TypesAre
<1>4. Going(Numbered(Numbered(frames, a), b), EndTypes(c),
            types \cup {"output_text.done"} \cup {"content_part.done"}, text)
  BY <1>2, <1>3, NextPlain, TypesAre
<1>5. Going(Numbered(Numbered(Numbered(frames, a), b), d), EndTypes(c),
            types \cup {"output_text.done"} \cup {"content_part.done"} \cup {"output_item.done"}, text)
  BY <1>2, <1>4, NextPlain, TypesAre
<1>6. types \cup {"output_text.done"} \cup {"content_part.done"} \cup {"output_item.done"}
      = types \cup DoneTypes
  BY DEF DoneTypes
<1>7. done = <<a, b, d>>
  OBVIOUS
<1> HIDE DEF a, b, d
<1>8. /\ <<a, b, d>> \in Seq(Kinds)
      /\ Adds(frames, <<a, b, d>>) = Numbered(Numbered(Numbered(frames, a), b), d)
  <2>1. a \in Kinds /\ b \in Kinds /\ d \in Kinds /\ frames \in Seq(Frames)
    BY <1>1
  <2> QED BY <2>1, AddsThree, Zenon
<1>9. Going(Adds(frames, <<a, b, d>>), EndTypes(c), types \cup DoneTypes, text)
  BY <1>5, <1>6, <1>8, Zenon
<1> QED BY <1>7, <1>8, <1>9, Zenon

\* What a handler has added up is what it has read: an output without text adds nothing
\* to a response but leaves its text whole.
LEMMA ToldIs ==
    ASSUME NEW c, NEW output \in Outputs, told[c] \in Outputs
    PROVE  /\ ToldMore(c, output) \in Outputs
           /\ ToldMore(c, output).text = told[c].text \o output.text
           /\ Endpoint(c) # "responses" => ToldMore(c, output).tokens = told[c].tokens + output.tokens
<1>1. /\ told[c].text \in Seq(Nat) /\ told[c].tokens \in Nat
      /\ output.text \in Seq(Nat) /\ output.tokens \in Nat
  BY DEF Outputs
<1>2. CASE Endpoint(c) = "responses" /\ output.text = <<>>
  <2>1. told[c].text \o output.text = told[c].text
    BY <1>1, <1>2, ConcatEmptySeq
  <2> QED BY <1>2, <2>1 DEF ToldMore
<1>3. CASE ~(Endpoint(c) = "responses" /\ output.text = <<>>)
  <2> DEFINE new == [text |-> told[c].text \o output.text, tokens |-> told[c].tokens + output.tokens]
  <2>1. ToldMore(c, output) = new
    BY <1>3 DEF ToldMore
  <2>2. told[c].text \o output.text \in Seq(Nat) /\ told[c].tokens + output.tokens \in Nat
    BY <1>1, ConcatProperties
  <2>3. new \in Outputs
    BY <2>2 DEF Outputs
  <2>4. /\ new.text = told[c].text \o output.text
        /\ new.tokens = told[c].tokens + output.tokens
    OBVIOUS
  <2> HIDE DEF new
  <2> QED BY <2>1, <2>3, <2>4
<1> QED BY <1>2, <1>3

DeltaTypes == {"chunk", "output_text.delta"} \cup ItemTypes

\* The frames of one output carry its text, inside an item that the first text opens.
LEMMA DeltaGoes ==
    ASSUME NEW c, NEW frames, NEW types, NEW output \in Outputs, told[c] \in Outputs,
           Going(frames, EndTypes(c), types, told[c].text),
           Endpoint(c) = "responses" =>
             /\ "output_text.done" \notin types
             /\ \A t \in ItemTypes : t \in types <=> told[c].text # <<>>
    PROVE  /\ Delta(c, output) \in Seq(Kinds)
           /\ \E more \in SUBSET DeltaTypes :
                /\ Going(Adds(frames, Delta(c, output)), EndTypes(c), types \cup more,
                         ToldMore(c, output).text)
                /\ Endpoint(c) # "responses" => more = {"chunk"}
                /\ Endpoint(c) = "responses" =>
                     \A t \in ItemTypes : t \in types \cup more <=> ToldMore(c, output).text # <<>>
<1> DEFINE text == told[c].text
           new == ToldMore(c, output).text
<1>1. /\ text \in Seq(Nat) /\ output.text \in Seq(Nat)
      /\ new = text \o output.text
  BY ToldIs DEF Outputs
<1>2. frames \in Seq(Frames)
  BY DEF Going
<1>3. CASE Endpoint(c) # "responses"
  <2> DEFINE f == <<"chunk", output.text>>
  <2>1. f \in Kinds /\ f[1] = "chunk" /\ f[2] = output.text
    BY <1>1, TypesAre DEF Kinds
  <2>2. Delta(c, output) = <<f>> /\ EndTypes(c) = {"[DONE]"}
    BY <1>3 DEF Delta, EndTypes
  <2> HIDE DEF f
  <2>3. Going(Numbered(frames, f), EndTypes(c), types \cup {"chunk"}, text \o output.text)
    BY <2>1, <2>2, NextFrame
  <2>4. <<f>> \in Seq(Kinds) /\ Adds(frames, <<f>>) = Numbered(frames, f)
    BY <1>2, <2>1, AddsOne
  <2>5. {"chunk"} \in SUBSET DeltaTypes
    BY DEF DeltaTypes
  <2> QED BY <1>1, <1>3, <2>2, <2>3, <2>4, <2>5
<1>4. CASE Endpoint(c) = "responses" /\ output.text = <<>>
  <2>1. Delta(c, output) = <<>> /\ new = text
    BY <1>4 DEF Delta, ToldMore
  <2>2. <<>> \in Seq(Kinds) /\ Adds(frames, <<>>) = frames
    BY <1>2, EmptySeq, AddNone
  <2>3. {} \in SUBSET DeltaTypes /\ types \cup {} = types
    OBVIOUS
  <2> HIDE DEF new
  <2>4. Going(Adds(frames, Delta(c, output)), EndTypes(c), types \cup {}, new)
    BY <2>1, <2>2, <2>3
  <2> QED BY <1>4, <2>1, <2>2, <2>3, <2>4 DEF new
<1>5. CASE Endpoint(c) = "responses" /\ output.text # <<>>
  <2> DEFINE f == <<"output_text.delta", output.text>>
             a == Frame("output_item.added") b == Frame("content_part.added")
             opens == IF told[c].text = <<>> THEN <<a, b>> ELSE <<>>
             opened == IF told[c].text = <<>> THEN types \cup {"output_item.added"} \cup {"content_part.added"}
                       ELSE types
  <2>1. f \in Kinds /\ f[1] = "output_text.delta" /\ f[2] = output.text
    BY <1>1, TypesAre DEF Kinds
  <2>2. Delta(c, output) = opens \o <<f>> /\ EndTypes(c) = {"response.completed", "error"}
    BY <1>5 DEF Delta, EndTypes
  <2>3. a \in Kinds /\ b \in Kinds
    BY FrameKind, TypesAre
  <2> HIDE DEF f
  <2>4. /\ opens \in Seq(Kinds) /\ Going(Adds(frames, opens), EndTypes(c), opened, text)
        /\ ItemTypes \subseteq opened /\ "output_text.done" \notin opened
        /\ opened = types \cup ItemTypes
    <3>1. CASE told[c].text = <<>>
      <4>1. "output_item.added" \notin types
        BY <1>5, <3>1 DEF ItemTypes
      <4>2. Going(Numbered(frames, a), EndTypes(c), types \cup {"output_item.added"}, text)
        BY <2>2, <4>1, NextPlain, TypesAre
      <4>3. Going(Numbered(Numbered(frames, a), b), EndTypes(c),
                  types \cup {"output_item.added"} \cup {"content_part.added"}, text)
        BY <2>2, <4>2, NextPlain, TypesAre
      <4>4. ItemTypes \subseteq opened /\ "output_text.done" \notin opened /\ opened = types \cup ItemTypes
        BY <1>5, <3>1 DEF ItemTypes
      <4> HIDE DEF a, b
      <4>5. <<a, b>> \in Seq(Kinds) /\ Adds(frames, <<a, b>>) = Numbered(Numbered(frames, a), b)
        BY <1>2, <2>3, AddsTwo
      <4> QED BY <3>1, <4>3, <4>4, <4>5
    <3>2. CASE told[c].text # <<>>
      <4>1. <<>> \in Seq(Kinds) /\ Adds(frames, <<>>) = frames
        BY <1>2, EmptySeq, AddNone
      <4>2. ItemTypes \subseteq types /\ opened = types \cup ItemTypes
        BY <1>5, <3>2
      <4>3. opened = types /\ opens = <<>>
        BY <3>2
      <4> HIDE DEF opened, opens
      <4> QED BY <1>5, <4>1, <4>2, <4>3
    <3> QED BY <3>1, <3>2
  <2> HIDE DEF opens, opened
  <2>5. PICK sent : sent = Adds(frames, opens) /\ sent \in Seq(Frames)
    BY <2>4 DEF Going
  <2>6. Going(Numbered(sent, f), EndTypes(c), opened \cup {"output_text.delta"}, text \o output.text)
    <3>1. /\ "output_item.added" \in opened /\ "content_part.added" \in opened
          /\ "output_text.done" \notin opened
      BY <2>4 DEF ItemTypes
    <3>2. Going(sent, EndTypes(c), opened, text)
      BY <2>4, <2>5
    <3>3. f[1] # "output_item.added" /\ f[1] \notin EndTypes(c)
      BY <2>1, <2>2
    <3> HIDE DEF text
    <3> QED BY <2>1, <3>1, <3>2, <3>3, NextFrame
  <2>7. <<f>> \in Seq(Kinds) /\ Adds(sent, <<f>>) = Numbered(sent, f)
    BY <2>1, <2>5, AddsOne
  <2>8. opens \o <<f>> \in Seq(Kinds) /\ Adds(frames, opens \o <<f>>) = Adds(sent, <<f>>)
    BY <1>2, <2>4, <2>5, <2>7, AddsTwice
  <2> DEFINE more == ItemTypes \cup {"output_text.delta"}
  <2>9. opened \cup {"output_text.delta"} = types \cup more /\ more \in SUBSET DeltaTypes
    BY <2>4 DEF DeltaTypes
  <2>10. Going(Adds(frames, Delta(c, output)), EndTypes(c), types \cup more, new)
    BY <1>1, <2>2, <2>6, <2>7, <2>8, <2>9
  <2>11. new # <<>>
    BY <1>1, <1>5, ConcatEqualIffEmpty
  <2>12. \A t \in ItemTypes : t \in types \cup more
    OBVIOUS
  <2> HIDE DEF more
  <2> QED BY <1>5, <2>2, <2>8, <2>9, <2>10, <2>11, <2>12
<1> QED BY <1>3, <1>4, <1>5

------------------------------------------------------------------------------
(* Who is in flight.                                                        *)

LEMMA Wished ==
    ASSUME ServingTypeOK, NEW c \in Calls
    PROVE  /\ Endpoint(c) \in EndpointNames /\ Samples(c) \in 1 .. 2 /\ Documents(c) \in 1 .. 2
           /\ c \in Streams => Endpoint(c) # "embedding"
           /\ Endpoint(c) # "embedding" => GensOf(c) = {<<c, 1>>}
           /\ GensOf(c) \subseteq Gens /\ <<c, 1>> \in GensOf(c) /\ <<c, 1>> \in Gens
<1>1. wish \in Workloads /\ wish[c] \in Wishes
  BY ServingAssumption DEF ServingTypeOK
<1>2. /\ wish[c].endpoint \in EndpointNames /\ wish[c].width \in 1 .. 2
      /\ wish[c].endpoint = "embedding" => ~wish[c].stream
  BY <1>1, ServingAssumption DEF Wishes
<1>3. Documents(c) \in 1 .. 2 /\ Samples(c) \in 1 .. 2
  BY <1>2 DEF Documents, Samples, Endpoint
<1>4. GensOf(c) \subseteq Gens /\ <<c, 1>> \in GensOf(c) /\ <<c, 1>> \in Gens
  BY <1>3 DEF GensOf, Gens
<1>5. Endpoint(c) # "embedding" => GensOf(c) = {<<c, 1>>}
  BY DEF GensOf, Documents
<1> QED BY <1>2, <1>3, <1>4, <1>5 DEF Endpoint, Streams

LEMMA GensAre ==
    ASSUME NEW g \in Gens
    PROVE  g[1] \in Calls /\ g = <<g[1], g[2]>> /\ g[2] \in 1 .. 2 /\ g # NoGen
<1>1. PICK c \in Calls, n \in 1 .. 2 : g = <<c, n>>
  BY DEF Gens
<1>2. <<c, n>> # <<>>
  <2>1. Len(<<c, n>>) = 2 /\ Len(<<>>) = 0
    OBVIOUS
  <2> QED BY <2>1
<1> QED BY <1>1, <1>2 DEF NoGen

\* Nobody comes into flight.
Shrinks ==
    /\ \A i \in FlightIds : queues'[i] \in {queues[i], NoGen}
    /\ live' \subseteq live

LEMMA RestStays ==
    ASSUME Shrinks, NEW g \in Gens
    PROVE  /\ AtRest(g) => AtRest(g)'
           /\ Registered(g)' => Registered(g)
BY GensAre DEF Shrinks, AtRest, Registered

LEMMA ReleasedRest ==
    ASSUME FlightInv, ServingTypeOK, NEW gs \in SUBSET Gens, Released(gs)
    PROVE  /\ Shrinks /\ \A g \in gs : AtRest(g)'
           /\ queues' \in [FlightIds -> Gens \cup {NoGen}] /\ live' \subseteq Gens
<1>1. /\ queues' = [i \in FlightIds |-> IF i \in {GenId(g) : g \in gs} THEN NoGen ELSE queues[i]]
      /\ live' = live \ Holders({GenId(g) : g \in gs})
  BY DEF Released
<1>2. queues' \in [FlightIds -> Gens \cup {NoGen}] /\ live' \subseteq Gens
  BY <1>1 DEF ServingTypeOK
<1>3. Shrinks
  BY <1>1 DEF Shrinks
<1>4. ASSUME NEW g \in gs PROVE AtRest(g)'
  <2>1. g \notin live'
    BY <1>1 DEF Holders
  <2>2. ASSUME NEW i \in FlightIds, queues'[i] = g PROVE FALSE
    <3>1. queues[i] = g /\ g # NoGen
      BY <1>3, <2>2, GensAre DEF Shrinks
    <3>2. i = GenId(g)
      BY <3>1 DEF FlightInv
    <3> QED BY <1>1, <2>2, <3>1, <3>2
  <2> QED BY <2>1, <2>2 DEF AtRest, Registered
<1> QED BY <1>2, <1>3, <1>4

\* What a step that brings nobody into flight has to see to.
LEMMA FlightKept ==
    ASSUME ServingTypeOK, FlightInv, NothingLeftBehind, wish' = wish, Shrinks,
           \A d \in Calls : rid'[d] = rid[d] \/ pc[d] = "new",
           \A g \in Gens : pc'[g[1]] \in {"new", "open", "closing"} =>
               pc[g[1]] \in {"new", "open", "closing"} \/ AtRest(g)',
           \A g \in Gens : pc'[g[1]] \in {"new", "open"} =>
               pc[g[1]] \in {"new", "open"} /\ left'[g] = left[g],
           \A g \in Gens : Endpoint(g[1]) = "embedding" /\ Registered(g) /\ Registered(g)' =>
               (left'[g] = left[g] /\ inbox'[g] = inbox[g]) \/ inbox'[g] # <<>> \/ left'[g] # 0,
           \A g \in Gens : pc'[g[1]] = "done" /\ orphan'[g] = "no" =>
               (pc[g[1]] = "done" /\ orphan[g] = "no") \/ AtRest(g)'
    PROVE  FlightInv' /\ NothingLeftBehind'
<1>1. \A g \in Gens : AtRest(g) => AtRest(g)'
  BY RestStays
<1>2. \A g \in Gens : Registered(g)' => Registered(g)
  BY RestStays
<1>3. \A c : Endpoint(c)' = Endpoint(c) /\ GensOf(c)' = GensOf(c) /\ Samples(c)' = Samples(c)
  BY DEF Endpoint, GensOf, Documents, Samples
<1>5. \A i \in FlightIds : queues'[i] # NoGen => i = GenId(queues[i])'
  <2> SUFFICES ASSUME NEW i \in FlightIds, queues'[i] # NoGen PROVE i = GenId(queues[i])'
    OBVIOUS
  <2>1. PICK g \in Gens : g = queues[i] /\ g = queues'[i]
    BY DEF Shrinks, ServingTypeOK
  <2>2. i = GenId(g) /\ Registered(g) /\ g[1] \in Calls
    BY <2>1, GensAre DEF FlightInv, Registered
  <2>3. rid'[g[1]] = rid[g[1]]
    BY <2>2, <2>1 DEF FlightInv, AtRest
  <2>4. GenId(g)' = GenId(g)
    BY <1>3, <2>3 DEF GenId
  <2>5. GenId(queues[i])' = GenId(g)'
    BY <2>1 DEF GenId, Endpoint
  <2> QED BY <2>2, <2>4, <2>5
<1>6. \A g \in Gens : g \in GensOf(g[1])' \/ AtRest(g)'
  BY <1>1, <1>3 DEF FlightInv
<1>7. \A g \in Gens : pc'[g[1]] \in {"new", "open", "closing"} => AtRest(g)'
  BY <1>1 DEF FlightInv
<1>8. \A g \in Gens : pc'[g[1]] \in {"new", "open"} => left'[g] = Samples(g[1])'
  BY <1>3 DEF FlightInv
<1>9. \A g \in Gens : Endpoint(g[1])' = "embedding" /\ Registered(g)' /\ left'[g] = 0 => inbox'[g] # <<>>
  BY <1>2, <1>3 DEF FlightInv
<1>10. \A g \in Gens : pc'[g[1]] = "done" /\ orphan'[g] = "no" => g \notin live' /\ ~Registered(g)'
  <2>1. \A g \in Gens : pc[g[1]] = "done" /\ orphan[g] = "no" => AtRest(g)
    BY DEF NothingLeftBehind, AtRest
  <2>2. \A g \in Gens : pc'[g[1]] = "done" /\ orphan'[g] = "no" => AtRest(g)'
    BY <1>1, <2>1
  <2> QED BY <2>2 DEF AtRest
<1> QED BY <1>5, <1>6, <1>7, <1>8, <1>9, <1>10 DEF FlightInv, NothingLeftBehind

\* The engine is left alone, and the call has nothing in it.
LEMMA QuietFlight ==
    ASSUME ServingTypeOK, FlightInv, NothingLeftBehind, wish' = wish, NEW c \in Calls,
           UNCHANGED engineVars,
           \A g \in Gens : g[1] = c => AtRest(g),
           NEW x \in {"open", "done"}, pc' = [pc EXCEPT ![c] = x],
           x = "open" => pc[c] \in {"new", "open"},
           \A d \in Calls : rid'[d] = rid[d] \/ pc[d] = "new"
    PROVE  FlightInv' /\ NothingLeftBehind'
<1>1. Shrinks
  BY DEF Shrinks, engineVars
<1>2. \A g \in Gens : g[1] \in Calls
  BY GensAre
<1>3. \A d \in Calls : pc'[d] = IF d = c THEN x ELSE pc[d]
  BY DEF ServingTypeOK
<1>4. \A g \in Gens : AtRest(g)' = AtRest(g)
  BY DEF AtRest, Registered, engineVars
<1>5. left' = left /\ inbox' = inbox /\ orphan' = orphan
  BY DEF engineVars
<1>6. \A g \in Gens : pc'[g[1]] \in {"new", "open", "closing"} =>
        pc[g[1]] \in {"new", "open", "closing"} \/ AtRest(g)'
  BY <1>2, <1>3
<1>7. \A g \in Gens : pc'[g[1]] \in {"new", "open"} => pc[g[1]] \in {"new", "open"} /\ left'[g] = left[g]
  BY <1>2, <1>3, <1>5
<1>8. \A g \in Gens : pc'[g[1]] = "done" /\ orphan'[g] = "no" =>
        (pc[g[1]] = "done" /\ orphan[g] = "no") \/ AtRest(g)'
  BY <1>2, <1>3, <1>4, <1>5
<1> QED BY <1>1, <1>5, <1>6, <1>7, <1>8, FlightKept

LEMMA AtRestBefore ==
    ASSUME ServingTypeOK, FlightInv, NEW c \in Calls
    PROVE  /\ pc[c] \in {"new", "open", "closing"} => \A g \in Gens : g[1] = c => AtRest(g)
           /\ (\A g \in GensOf(c) : AtRest(g)) => \A g \in Gens : g[1] = c => AtRest(g)
BY DEF FlightInv

LEMMA AdmissionFlight ==
    ASSUME ServingTypeOK, FlightInv, NothingLeftBehind, wish' = wish, NEW c \in Calls,
           Refuse(c) \/ Create(c) \/ CreateResponse(c) \/ LastEvent(c)
    PROVE  FlightInv' /\ NothingLeftBehind'
<1>1. pc[c] \in {"new", "closing"}
  BY DEF Refuse, Create, CreateResponse, LastEvent
<1>2. \A g \in Gens : g[1] = c => AtRest(g)
  BY <1>1, AtRestBefore
<1>3. /\ UNCHANGED engineVars
      /\ \/ pc' = [pc EXCEPT ![c] = "open"] /\ pc[c] = "new"
         \/ pc' = [pc EXCEPT ![c] = "done"]
      /\ \A d \in Calls : rid'[d] = rid[d] \/ pc[d] = "new"
  <2>1. CASE Refuse(c)
    BY <2>1 DEF Refuse, Reject
  <2>2. CASE Create(c)
    BY <2>2 DEF Create, ServingTypeOK
  <2>3. CASE CreateResponse(c)
    BY <2>3 DEF CreateResponse, Reject, ServingTypeOK
  <2>4. CASE LastEvent(c)
    BY <2>4 DEF LastEvent
  <2> QED BY <2>1, <2>2, <2>3, <2>4
<1>4. CASE pc' = [pc EXCEPT ![c] = "open"] /\ pc[c] = "new"
  BY <1>2, <1>3, <1>4, QuietFlight
<1>5. CASE pc' = [pc EXCEPT ![c] = "done"]
  BY <1>2, <1>3, <1>5, QuietFlight
<1> QED BY <1>3, <1>4, <1>5

\* A generator enters: its id is free, and it is the first of its call.
LEMMA StartFlight ==
    ASSUME ServingTypeOK, FlightInv, NothingLeftBehind, wish' = wish, NEW c \in Calls, Start(c)
    PROVE  FlightInv' /\ NothingLeftBehind'
<1>1. pc[c] = "open" /\ Endpoint(c) # "embedding" /\ rid' = rid
  BY DEF Start
<1>2. \A g \in Gens : g[1] = c => AtRest(g)
  BY <1>1, AtRestBefore
<1>3. CASE pc' = [pc EXCEPT ![c] = "done"] /\ UNCHANGED engineVars
  BY <1>1, <1>2, <1>3, QuietFlight
<1>4. CASE pc' = [pc EXCEPT ![c] = "running"] /\ Enter(<<c, 1>>)
  <2>1. PICK g \in Gens : g = <<c, 1>> /\ g \in GensOf(c) /\ g[1] = c
    BY Wished
  <2>2. /\ queues' = [queues EXCEPT ![GenId(g)] = g] /\ live' = live \cup {g}
        /\ left' = left /\ inbox' = inbox /\ orphan' = orphan
    BY <1>4, <2>1 DEF Enter
  <2>3. \A d : Endpoint(d)' = Endpoint(d) /\ GensOf(d)' = GensOf(d) /\ Samples(d)' = Samples(d)
    BY DEF Endpoint, GensOf, Documents, Samples
  <2>4. \A h : GenId(h)' = GenId(h)
    BY <1>1, <2>3 DEF GenId
  <2>5. ASSUME NEW h \in Gens, h # g PROVE Registered(h)' => Registered(h)
    BY <2>2, <2>5 DEF Registered, ServingTypeOK
  <2>6. ASSUME NEW h \in Gens, h # g, AtRest(h) PROVE AtRest(h)'
    BY <2>2, <2>5, <2>6 DEF AtRest
  <2>7. \A d \in Calls : pc'[d] = IF d = c THEN "running" ELSE pc[d]
    BY <1>4 DEF ServingTypeOK
  <2>8. \A h \in Gens : h[1] \in Calls
    BY GensAre
  <2>9. \A i \in FlightIds : queues'[i] # NoGen => i = GenId(queues[i])'
    <3> SUFFICES ASSUME NEW i \in FlightIds, queues'[i] # NoGen PROVE i = GenId(queues[i])'
      OBVIOUS
    <3>1. PICK h : h = queues'[i]
      OBVIOUS
    <3>2. GenId(queues[i])' = GenId(h)'
      BY <3>1 DEF GenId, Endpoint
    <3>3. i = GenId(h)
      <4>1. CASE i = GenId(g)
        BY <2>2, <3>1, <4>1 DEF ServingTypeOK
      <4>2. CASE i # GenId(g)
        BY <2>2, <3>1, <4>2 DEF ServingTypeOK, FlightInv
      <4> QED BY <4>1, <4>2
    <3> QED BY <2>4, <3>2, <3>3
  <2>10. \A h \in Gens : h \in GensOf(h[1])' \/ AtRest(h)'
    BY <2>1, <2>3, <2>6 DEF FlightInv
  <2>11. \A h \in Gens : pc'[h[1]] \in {"new", "open", "closing"} => AtRest(h)'
    BY <2>1, <2>6, <2>7, <2>8 DEF FlightInv
  <2>12. \A h \in Gens : pc'[h[1]] \in {"new", "open"} => left'[h] = Samples(h[1])'
    BY <2>2, <2>3, <2>7, <2>8 DEF FlightInv
  <2>13. \A h \in Gens : Endpoint(h[1])' = "embedding" /\ Registered(h)' /\ left'[h] = 0 => inbox'[h] # <<>>
    BY <1>1, <2>1, <2>2, <2>3, <2>5 DEF FlightInv
  <2>14. \A h \in Gens : pc'[h[1]] = "done" /\ orphan'[h] = "no" => h \notin live' /\ ~Registered(h)'
    <3>1. \A h \in Gens : pc'[h[1]] = "done" /\ orphan'[h] = "no" => AtRest(h)'
      BY <2>1, <2>2, <2>6, <2>7, <2>8 DEF NothingLeftBehind, AtRest
    <3> QED BY <3>1 DEF AtRest
  <2> QED BY <2>9, <2>10, <2>11, <2>12, <2>13, <2>14 DEF FlightInv, NothingLeftBehind
<1> QED BY <1>3, <1>4 DEF Start

LEMMA StartDocumentsFlight ==
    ASSUME ServingTypeOK, FlightInv, NothingLeftBehind, wish' = wish, NEW c \in Calls,
           StartDocuments(c)
    PROVE  FlightInv' /\ NothingLeftBehind'
<1>1. PICK bad \in SUBSET GensOf(c), good \in SUBSET GensOf(c) :
        /\ good = GensOf(c) \ bad /\ pc[c] = "open" /\ Endpoint(c) = "embedding"
        /\ pc' = [pc EXCEPT ![c] = "running"]
        /\ inbox' = [g \in Gens |-> IF g \in bad THEN <<Failure>> ELSE inbox[g]]
        /\ queues' = [i \in FlightIds |->
                        IF \E g \in good : GenId(g) = i THEN CHOOSE g \in good : GenId(g) = i
                        ELSE queues[i]]
        /\ live' = live \cup good
        /\ rid' = rid /\ left' = left /\ orphan' = orphan
  <2>1. PICK bad \in SUBSET GensOf(c) :
          /\ pc[c] = "open" /\ Endpoint(c) = "embedding"
          /\ pc' = [pc EXCEPT ![c] = "running"]
          /\ inbox' = [g \in Gens |-> IF g \in bad THEN <<Failure>> ELSE inbox[g]]
          /\ queues' = [i \in FlightIds |->
                          IF \E g \in GensOf(c) \ bad : GenId(g) = i
                          THEN CHOOSE g \in GensOf(c) \ bad : GenId(g) = i
                          ELSE queues[i]]
          /\ live' = live \cup (GensOf(c) \ bad)
          /\ rid' = rid /\ left' = left /\ orphan' = orphan
    BY Zenon DEF StartDocuments, engineVars
  <2>2. PICK good \in SUBSET GensOf(c) : good = GensOf(c) \ bad
    OBVIOUS
  <2> QED BY <2>1, <2>2
<1>2. \A g \in Gens : g[1] = c => AtRest(g) /\ left[g] # 0
  <2>1. Samples(c) = 1
    BY <1>1 DEF Samples
  <2> QED BY <1>1, <2>1, AtRestBefore DEF FlightInv
<1>3. \A g \in GensOf(c) : g \in Gens /\ g[1] = c
  BY Wished DEF GensOf
<1>4. \A d : Endpoint(d)' = Endpoint(d) /\ GensOf(d)' = GensOf(d) /\ Samples(d)' = Samples(d)
  BY DEF Endpoint, GensOf, Documents, Samples
<1>5. \A h : GenId(h)' = GenId(h)
  BY <1>1, <1>4 DEF GenId
<1>6. ASSUME NEW i \in FlightIds
      PROVE  \/ queues'[i] = queues[i]
             \/ queues'[i] \in good /\ i = GenId(queues'[i])
  BY <1>1
<1>7. \A h \in Gens : h \notin good /\ Registered(h)' => Registered(h)
  BY <1>6 DEF Registered
<1>8. \A h \in Gens : h \notin good /\ AtRest(h) => AtRest(h)'
  BY <1>1, <1>7 DEF AtRest
<1>9. \A d \in Calls : pc'[d] = IF d = c THEN "running" ELSE pc[d]
  BY <1>1 DEF ServingTypeOK
<1>10. \A h \in Gens : h[1] \in Calls
  BY GensAre
<1>11. \A i \in FlightIds : queues'[i] # NoGen => i = GenId(queues[i])'
  <2> SUFFICES ASSUME NEW i \in FlightIds, queues'[i] # NoGen PROVE i = GenId(queues[i])'
    OBVIOUS
  <2>1. PICK h : h = queues'[i]
    OBVIOUS
  <2>2. GenId(queues[i])' = GenId(h)'
    BY <2>1 DEF GenId, Endpoint
  <2>3. i = GenId(h)
    BY <1>6, <2>1 DEF FlightInv
  <2> QED BY <1>5, <2>2, <2>3
<1>12. \A h \in Gens : h \in GensOf(h[1])' \/ AtRest(h)'
  BY <1>3, <1>4, <1>8 DEF FlightInv
<1>13. \A h \in Gens : pc'[h[1]] \in {"new", "open", "closing"} => AtRest(h)'
  BY <1>3, <1>8, <1>9, <1>10 DEF FlightInv
<1>14. \A h \in Gens : pc'[h[1]] \in {"new", "open"} => left'[h] = Samples(h[1])'
  BY <1>1, <1>4, <1>9, <1>10 DEF FlightInv
<1>15. ASSUME NEW h \in Gens, Endpoint(h[1])' = "embedding", Registered(h)', left'[h] = 0
       PROVE  inbox'[h] # <<>>
  <2>1. h[1] # c /\ h \notin good /\ h \notin bad
    BY <1>1, <1>2, <1>3, <1>15
  <2>2. inbox[h] # <<>> /\ inbox'[h] = inbox[h]
    BY <1>1, <1>4, <1>7, <1>15, <2>1 DEF FlightInv
  <2> QED BY <2>2
<1>16. \A h \in Gens : pc'[h[1]] = "done" /\ orphan'[h] = "no" => h \notin live' /\ ~Registered(h)'
  <2>1. \A h \in Gens : pc'[h[1]] = "done" /\ orphan'[h] = "no" => AtRest(h)'
    BY <1>1, <1>3, <1>8, <1>9, <1>10 DEF NothingLeftBehind, AtRest
  <2> QED BY <2>1 DEF AtRest
<1> QED BY <1>11, <1>12, <1>13, <1>14, <1>15, <1>16 DEF FlightInv, NothingLeftBehind

\* The handler of a text call reads an item, is cancelled or ends.
LEMMA ReadingFlight ==
    ASSUME ServingTypeOK, FlightInv, NothingLeftBehind, wish' = wish, NEW c \in Calls,
           Endpoint(c) # "embedding", pc[c] = "running", rid' = rid, left' = left,
           \A g \in Gens : g # <<c, 1>> => inbox'[g] = inbox[g] /\ orphan'[g] = orphan[g],
           \A d \in Calls : d # c => pc'[d] = pc[d],
           \/ pc'[c] = "running" /\ UNCHANGED <<queues, live>>
           \/ pc'[c] \in {"closing", "done"} /\ Released({<<c, 1>>})
           \/ pc'[c] = "done" /\ orphan'[<<c, 1>>] # "no" /\ UNCHANGED <<queues, live>>
    PROVE  FlightInv' /\ NothingLeftBehind'
<1>1. PICK g \in Gens : g = <<c, 1>> /\ g[1] = c /\ GensOf(c) = {g}
  BY Wished
<1>2. Shrinks /\ (pc'[c] = "closing" => AtRest(g)') /\ (pc'[c] = "done" /\ orphan'[g] = "no" => AtRest(g)')
  <2>1. CASE UNCHANGED <<queues, live>>
    <3>1. Shrinks
      BY <2>1 DEF Shrinks
    <3>2. CASE Released({g})
      BY <1>1, <3>2, ReleasedRest
    <3> QED BY <1>1, <3>1, <3>2
  <2>2. CASE Released({g})
    BY <1>1, <2>2, ReleasedRest
  <2> QED BY <1>1, <2>1, <2>2
<1>3. \A h \in Gens : h[1] = c /\ h # g => AtRest(h)'
  BY <1>1, <1>2, RestStays DEF FlightInv
<1>4. \A h \in Gens : h[1] \in Calls
  BY GensAre
<1>5. pc'[c] \in {"running", "closing", "done"}
  OBVIOUS
<1>6. \A h \in Gens : pc'[h[1]] \in {"new", "open", "closing"} =>
        pc[h[1]] \in {"new", "open", "closing"} \/ AtRest(h)'
  BY <1>1, <1>2, <1>3, <1>4, <1>5
<1>7. \A h \in Gens : pc'[h[1]] \in {"new", "open"} => pc[h[1]] \in {"new", "open"} /\ left'[h] = left[h]
  BY <1>4, <1>5
<1>8. \A h \in Gens : Endpoint(h[1]) = "embedding" => left'[h] = left[h] /\ inbox'[h] = inbox[h]
  BY <1>1
<1>9. \A h \in Gens : pc'[h[1]] = "done" /\ orphan'[h] = "no" =>
        (pc[h[1]] = "done" /\ orphan[h] = "no") \/ AtRest(h)'
  BY <1>1, <1>2, <1>3, <1>4
<1> QED BY <1>2, <1>6, <1>7, <1>8, <1>9, FlightKept

LEMMA HandlerFlight ==
    ASSUME ServingTypeOK, FlightInv, NothingLeftBehind, wish' = wish, NEW c \in Calls,
           StreamOutput(c) \/ BodyOutput(c) \/ ReadFailure(c) \/ CancelStream(c) \/ NoticeGone(c)
    PROVE  FlightInv' /\ NothingLeftBehind'
<1>1. Endpoint(c) # "embedding"
  <2>1. CASE CancelStream(c)
    BY <2>1, Wished DEF CancelStream
  <2> QED BY <2>1 DEF StreamOutput, BodyOutput, ReadFailure, NoticeGone, Reads, HasItem
<1>2. /\ rid' = rid /\ left' = left
      /\ inbox' = inbox \/ Taken(c)
      /\ orphan' = orphan \/ orphan' = [orphan EXCEPT ![<<c, 1>>] = "fresh"]
      /\ pc' = pc \/ pc' = [pc EXCEPT ![c] = "closing"] \/ pc' = [pc EXCEPT ![c] = "done"]
  BY DEF StreamOutput, BodyOutput, ReadFailure, CancelStream, NoticeGone, Ends
<1>3. \A g \in Gens : g # <<c, 1>> => inbox'[g] = inbox[g] /\ orphan'[g] = orphan[g]
  BY <1>2 DEF Taken, ServingTypeOK
<1>4. \A d \in Calls : d # c => pc'[d] = pc[d]
  BY <1>2 DEF ServingTypeOK
<1>5. CASE pc[c] = "running"
  <2>1. \/ pc' = pc /\ UNCHANGED <<queues, live>>
        \/ /\ pc' = [pc EXCEPT ![c] = "closing"] \/ pc' = [pc EXCEPT ![c] = "done"]
           /\ Released({<<c, 1>>})
        \/ /\ pc' = [pc EXCEPT ![c] = "done"] /\ UNCHANGED <<queues, live>>
           /\ orphan' = [orphan EXCEPT ![<<c, 1>>] = "fresh"]
    BY <1>5 DEF StreamOutput, BodyOutput, ReadFailure, CancelStream, NoticeGone, Ends
  <2>2. <<c, 1>> \in Gens
    BY Wished
  <2>3. \/ pc'[c] = "running" /\ UNCHANGED <<queues, live>>
        \/ pc'[c] \in {"closing", "done"} /\ Released({<<c, 1>>})
        \/ pc'[c] = "done" /\ orphan'[<<c, 1>>] # "no" /\ UNCHANGED <<queues, live>>
    BY <1>5, <2>1, <2>2 DEF ServingTypeOK
  <2> QED BY <1>1, <1>2, <1>3, <1>4, <1>5, <2>3, ReadingFlight
<1>6. CASE pc[c] # "running"
  <2>1. CancelStream(c)
    BY <1>6 DEF StreamOutput, BodyOutput, ReadFailure, NoticeGone, Reads, HasItem
  <2>2. /\ pc[c] \in {"open", "closing"} /\ UNCHANGED engineVars
        /\ pc' = [pc EXCEPT ![c] = "done"]
    BY <1>6, <2>1 DEF CancelStream, Ends, engineVars
  <2>3. \A g \in Gens : g[1] = c => AtRest(g)
    BY <2>2, AtRestBefore
  <2> QED BY <1>2, <2>2, <2>3, QuietFlight
<1> QED BY <1>5, <1>6

LEMMA DocumentsFlight ==
    ASSUME ServingTypeOK, FlightInv, NothingLeftBehind, wish' = wish, NEW c \in Calls,
           FailDocuments(c) \/ AllDocuments(c)
    PROVE  FlightInv' /\ NothingLeftBehind'
<1>1. CASE AllDocuments(c)
  <2>1. /\ UNCHANGED engineVars /\ rid' = rid /\ pc' = [pc EXCEPT ![c] = "done"]
        /\ Endpoint(c) = "embedding"
        /\ \A g \in GensOf(c) : left[g] = 0 /\ g \notin live /\ inbox[g] = <<>>
    BY <1>1 DEF AllDocuments, Finished
  <2>2. \A g \in GensOf(c) : g \in Gens /\ g[1] = c
    BY Wished DEF GensOf
  <2>3. \A g \in GensOf(c) : AtRest(g)
    BY <2>1, <2>2 DEF FlightInv, AtRest
  <2>4. \A g \in Gens : g[1] = c => AtRest(g)
    BY <2>3, AtRestBefore
  <2> QED BY <2>1, <2>4, QuietFlight
<1>2. CASE FailDocuments(c)
  <2>1. /\ Released(GensOf(c)) /\ rid' = rid /\ pc' = [pc EXCEPT ![c] = "done"]
        /\ inbox' = [g \in Gens |-> IF g[1] = c THEN <<>> ELSE inbox[g]]
        /\ left' = left /\ orphan' = orphan
    BY <1>2 DEF FailDocuments
  <2>2. Shrinks /\ \A g \in GensOf(c) : AtRest(g)'
    BY <2>1, Wished, ReleasedRest
  <2>3. \A g \in Gens : g[1] = c => AtRest(g)'
    BY <2>2, RestStays DEF FlightInv
  <2>4. \A h \in Gens : h[1] \in Calls
    BY GensAre
  <2>5. \A d \in Calls : pc'[d] = IF d = c THEN "done" ELSE pc[d]
    BY <2>1 DEF ServingTypeOK
  <2>6. \A g \in Gens : Endpoint(g[1]) = "embedding" /\ Registered(g) /\ Registered(g)' =>
          (left'[g] = left[g] /\ inbox'[g] = inbox[g]) \/ inbox'[g] # <<>> \/ left'[g] # 0
    BY <2>1, <2>3 DEF AtRest
  <2>7. \A g \in Gens : pc'[g[1]] \in {"new", "open", "closing"} => pc[g[1]] \in {"new", "open", "closing"}
    BY <2>4, <2>5
  <2>8. \A g \in Gens : pc'[g[1]] \in {"new", "open"} => pc[g[1]] \in {"new", "open"} /\ left'[g] = left[g]
    BY <2>1, <2>4, <2>5
  <2>9. \A g \in Gens : pc'[g[1]] = "done" /\ orphan'[g] = "no" =>
          (pc[g[1]] = "done" /\ orphan[g] = "no") \/ AtRest(g)'
    BY <2>1, <2>3, <2>4, <2>5
  <2> QED BY <2>1, <2>2, <2>6, <2>7, <2>8, <2>9, FlightKept
<1> QED BY <1>1, <1>2

\* What one step of the engine makes.
LEMMA StepMakes ==
    ASSUME ServingTypeOK, NEW g \in Gens, EngineStep(g)
    PROVE  \E total, piece \in Outputs, item \in Items :
             /\ made' = [made EXCEPT ![g] = total]
             /\ total.text = made[g].text \o piece.text
             /\ total.tokens = made[g].tokens + piece.tokens
             /\ \/ inbox' = inbox /\ g[1] \notin Streams /\ Samples(g[1]) > 1
                \/ inbox' = [inbox EXCEPT ![g] = <<item>>]
             /\ item # Failure /\ item.output = IF g[1] \in Streams THEN piece ELSE total
             /\ live' \subseteq live /\ left' \in [Gens -> Int]
<1> DEFINE n == made[g].tokens + 1
           Total(r) == [text |-> IF r THEN Append(made[g].text, n) ELSE made[g].text, tokens |-> n]
           Piece(r) == [text |-> IF r THEN <<n>> ELSE <<>>, tokens |-> 1]
           Final(e) == left[g] - (IF e THEN 1 ELSE 0) = 0
           Made(r, e, s) == [output |-> IF g[1] \in Streams THEN Piece(r) ELSE Total(r),
                             final |-> Final(e), reason |-> s]
<1>1. PICK r \in BOOLEAN, e \in BOOLEAN, s \in {"stop", "length"} :
        /\ made' = [made EXCEPT ![g] = Total(r)]
        /\ left' = [left EXCEPT ![g] = @ - (IF e THEN 1 ELSE 0)]
        /\ live' = IF Final(e) THEN live \ {g} ELSE live
        /\ inbox' = IF g[1] \notin Streams /\ Samples(g[1]) > 1 /\ ~Final(e) THEN inbox
                    ELSE [inbox EXCEPT ![g] = <<Made(r, e, s)>>]
  BY ZenonT(60) DEF EngineStep
<1>2. made[g] \in Outputs /\ made[g].text \in Seq(Nat) /\ made[g].tokens \in Nat
  BY DEF ServingTypeOK, Outputs
<1>3. PICK t \in Seq(Nat), m \in Nat : t = made[g].text /\ m = made[g].tokens /\ n = m + 1
  BY <1>2
<1>4. /\ Total(r) \in Outputs /\ Piece(r) \in Outputs
      /\ Total(r).text = t \o Piece(r).text /\ Total(r).tokens = m + Piece(r).tokens
  <2>1. CASE r
    <3>1. Append(t, m + 1) \in Seq(Nat) /\ <<m + 1>> \in Seq(Nat)
      OBVIOUS
    <3>2. PICK k \in Nat : k = m + 1
      OBVIOUS
    <3>3. Append(t, k) = t \o <<k>>
      BY AppendIsConcat
    <3>4. /\ Total(r) = [text |-> Append(t, k), tokens |-> k]
          /\ Piece(r) = [text |-> <<k>>, tokens |-> 1]
      BY <1>3, <2>1, <3>2
    <3> QED BY <3>1, <3>2, <3>3, <3>4 DEF Outputs
  <2>2. CASE ~r
    <3>1. <<>> \in Seq(Nat) /\ t \o <<>> = t
      BY EmptySeq, ConcatEmptySeq
    <3> QED BY <1>3, <2>2, <3>1 DEF Outputs
  <2> QED BY <2>1, <2>2
<1>5. Made(r, e, s) \in Items /\ Made(r, e, s) # Failure
  <2>1. Final(e) \in BOOLEAN
    OBVIOUS
  <2>2. (IF g[1] \in Streams THEN Piece(r) ELSE Total(r)) \in Outputs
    BY <1>4
  <2> HIDE DEF Final, Piece, Total
  <2>3. Made(r, e, s) \in Items
    BY <2>1, <2>2 DEF Items
  <2>4. Made(r, e, s).reason = s /\ Failure.reason = "EngineDeadError" /\ s # "EngineDeadError"
    BY DEF Failure
  <2> HIDE DEF Made, Failure
  <2> QED BY <2>3, <2>4
<1>6. Made(r, e, s).output = IF g[1] \in Streams THEN Piece(r) ELSE Total(r)
  OBVIOUS
<1>7. live' \subseteq live /\ left' \in [Gens -> Int]
  <2> HIDE DEF Final
  <2> QED BY <1>1 DEF ServingTypeOK
<1>8. \/ inbox' = inbox /\ g[1] \notin Streams /\ Samples(g[1]) > 1
      \/ inbox' = [inbox EXCEPT ![g] = <<Made(r, e, s)>>]
  BY <1>1
<1>9. made' = [made EXCEPT ![g] = Total(r)]
  BY <1>1
<1> HIDE DEF Total, Piece, Final, Made
<1>10. Total(r).text = made[g].text \o Piece(r).text /\ Total(r).tokens = made[g].tokens + Piece(r).tokens
  BY <1>3, <1>4
<1> QED BY <1>4, <1>5, <1>6, <1>7, <1>8, <1>9, <1>10

\* The client leaves, a document is done, an orphan is closed, or the engine moves.
LEMMA EngineFlight ==
    ASSUME ServingTypeOK, FlightInv, NothingLeftBehind, wish' = wish,
           \/ \E c \in Calls : Leave(c)
           \/ \E g \in Gens : EngineStep(g) \/ QuietStep(g) \/ DocumentDone(g) \/ CloseOrphan(g)
           \/ \E id \in CallIds : CancelResponse(id)
           \/ EngineDies
    PROVE  FlightInv' /\ NothingLeftBehind'
<1>1. rid' = rid /\ pc' = pc
  BY DEF Leave, EngineStep, QuietStep, DocumentDone, CloseOrphan, CancelResponse, EngineDies, handlerVars
<1>2. \A g \in Gens : g[1] \in Calls
  BY GensAre
<1>3. CASE \E c \in Calls : Leave(c)
  <2>1. UNCHANGED engineVars
    BY <1>3 DEF Leave
  <2>2. Shrinks /\ left' = left /\ inbox' = inbox /\ orphan' = orphan
    BY <2>1 DEF Shrinks, engineVars
  <2> QED BY <1>1, <2>1, <2>2, FlightKept
<1>4. CASE \E g \in Gens : EngineStep(g) \/ QuietStep(g)
  <2>1. PICK g \in Gens : EngineStep(g) \/ QuietStep(g)
    BY <1>4
  <2>2. /\ g \in live /\ queues' = queues
        /\ \A h \in Gens : h # g => left'[h] = left[h] /\ inbox'[h] = inbox[h]
        /\ live' \subseteq live
        /\ orphan' = [orphan EXCEPT ![g] = IF @ = "fresh" THEN "due" ELSE @]
        /\ Endpoint(g[1]) = "embedding" => inbox'[g] # <<>> \/ UNCHANGED <<left, inbox>>
    <3>1. CASE EngineStep(g)
      <4>1. \E total, piece \in Outputs, item \in Items :
              /\ made' = [made EXCEPT ![g] = total]
              /\ total.text = made[g].text \o piece.text
              /\ total.tokens = made[g].tokens + piece.tokens
              /\ \/ inbox' = inbox /\ g[1] \notin Streams /\ Samples(g[1]) > 1
                 \/ inbox' = [inbox EXCEPT ![g] = <<item>>]
              /\ item # Failure /\ item.output = IF g[1] \in Streams THEN piece ELSE total
              /\ live' \subseteq live /\ left' \in [Gens -> Int]
        BY <3>1, StepMakes
      <4>2. /\ live' \subseteq live
            /\ \/ inbox' = inbox /\ Samples(g[1]) > 1
               \/ \E x : inbox' = [inbox EXCEPT ![g] = <<x>>]
        BY <4>1
      <4>3. Endpoint(g[1]) = "embedding" => ~(Samples(g[1]) > 1)
        BY DEF Samples
      <4>4. \A x : <<x>> # <<>>
        OBVIOUS
      <4>5. \E x : left' = [left EXCEPT ![g] = x]
        BY <3>1, Zenon DEF EngineStep
      <4>6. g \in live /\ queues' = queues /\ orphan' = [orphan EXCEPT ![g] = IF @ = "fresh" THEN "due" ELSE @]
        BY <3>1 DEF EngineStep, Stepped, Counted
      <4>7. \A h \in Gens : h # g => left'[h] = left[h] /\ inbox'[h] = inbox[h]
        BY <4>2, <4>5 DEF ServingTypeOK
      <4>8. Endpoint(g[1]) = "embedding" => inbox'[g] # <<>>
        <5>1. CASE Endpoint(g[1]) = "embedding"
          <6>1. PICK x : inbox' = [inbox EXCEPT ![g] = <<x>>]
            BY <4>2, <4>3, <5>1
          <6>2. inbox'[g] = <<x>>
            BY <6>1 DEF ServingTypeOK
          <6> QED BY <4>4, <6>2
        <5> QED BY <5>1
      <4> QED BY <4>2, <4>6, <4>7, <4>8
    <3>2. CASE QuietStep(g)
      BY <3>2 DEF QuietStep, Stepped, Counted
    <3> QED BY <2>1, <3>1, <3>2
  <2>3. Shrinks
    BY <2>2 DEF Shrinks
  <2>4. pc[g[1]] \notin {"new", "open", "closing"}
    BY <2>2 DEF FlightInv, AtRest
  <2>5. \A h \in Gens : pc'[h[1]] \in {"new", "open"} => pc[h[1]] \in {"new", "open"} /\ left'[h] = left[h]
    BY <1>1, <2>2, <2>4
  <2>6. \A h \in Gens : pc'[h[1]] = "done" /\ orphan'[h] = "no" => pc[h[1]] = "done" /\ orphan[h] = "no"
    BY <1>1, <2>2 DEF ServingTypeOK
  <2>7. \A h \in Gens : Endpoint(h[1]) = "embedding" /\ Registered(h) /\ Registered(h)' =>
          (left'[h] = left[h] /\ inbox'[h] = inbox[h]) \/ inbox'[h] # <<>> \/ left'[h] # 0
    BY <2>2
  <2> QED BY <1>1, <2>2, <2>3, <2>5, <2>6, <2>7, FlightKept
<1>5. CASE \E g \in Gens : DocumentDone(g) \/ CloseOrphan(g)
  <2>1. PICK g \in Gens : DocumentDone(g) \/ CloseOrphan(g)
    BY <1>5
  <2>2. /\ Released({g}) /\ left' = left
        /\ \A h \in Gens : h # g => inbox'[h] = inbox[h] /\ orphan'[h] = orphan[h]
    BY <2>1 DEF DocumentDone, CloseOrphan, ServingTypeOK
  <2>3. Shrinks /\ AtRest(g)'
    BY <2>2, ReleasedRest
  <2>4. \A h \in Gens : Endpoint(h[1]) = "embedding" /\ Registered(h) /\ Registered(h)' =>
          left'[h] = left[h] /\ inbox'[h] = inbox[h]
    BY <2>2, <2>3 DEF AtRest
  <2>5. \A h \in Gens : pc'[h[1]] = "done" /\ orphan'[h] = "no" =>
          (pc[h[1]] = "done" /\ orphan[h] = "no") \/ AtRest(h)'
    BY <1>1, <2>2, <2>3
  <2> QED BY <1>1, <2>2, <2>3, <2>4, <2>5, FlightKept
<1>6. CASE EngineDies
  <2>1. /\ live' = {} /\ queues' = queues /\ left' = left /\ orphan' = orphan
        /\ inbox' = [g \in Gens |-> IF Registered(g) THEN Append(inbox[g], Failure) ELSE inbox[g]]
    BY <1>6 DEF EngineDies
  <2>2. Shrinks
    BY <2>1 DEF Shrinks
  <2>3. \A h \in Gens : Registered(h) => inbox'[h] # <<>>
    <3> SUFFICES ASSUME NEW h \in Gens, Registered(h) PROVE inbox'[h] # <<>>
      OBVIOUS
    <3>1. PICK q \in Seq(Items) : q = inbox[h]
      BY DEF ServingTypeOK
    <3>2. inbox'[h] = Append(q, Failure)
      BY <2>1, <3>1
    <3> HIDE DEF Failure
    <3>3. Append(q, Failure) # <<>>
      OBVIOUS
    <3> QED BY <3>2, <3>3
  <2> QED BY <1>1, <2>1, <2>2, <2>3, FlightKept
<1>7. CASE \E id \in CallIds : CancelResponse(id)
  <2>1. /\ left' = left /\ inbox' = inbox /\ orphan' = orphan
        /\ live' \subseteq live /\ \A i \in FlightIds : queues'[i] \in {queues[i], NoGen}
    BY <1>7 DEF CancelResponse, ServingTypeOK
  <2>2. Shrinks
    BY <2>1 DEF Shrinks
  <2> QED BY <1>1, <2>1, <2>2, FlightKept
<1> QED BY <1>3, <1>4, <1>5, <1>6, <1>7

LEMMA FlightPreserved ==
    ASSUME ServingTypeOK, FlightInv, NothingLeftBehind, [ServingNext]_svars
    PROVE  FlightInv' /\ NothingLeftBehind'
<1>1. CASE UNCHANGED svars
  BY <1>1 DEF svars, handlerVars, storeVars, engineVars, FlightInv, NothingLeftBehind, AtRest,
              Registered, Endpoint, GensOf, Documents, Samples, GenId
<1>2. CASE ServingStep /\ wish' = wish
  BY <1>2, AdmissionFlight, StartFlight, StartDocumentsFlight, HandlerFlight, DocumentsFlight,
     EngineFlight DEF ServingStep
<1> QED BY <1>1, <1>2 DEF ServingNext

------------------------------------------------------------------------------
(* What a stream has sent.                                                  *)

\* What FramesInv, EventsInOrder and WholeInv say of one stream: of which endpoint and
\* where its handler is, whether the call has an id, the frames, the text and tokens
\* told, and whether the client has left.
StreamRule(ends, endpoint, at, named, frames, have, left_it) ==
    LET types == TypesIn(frames) IN
    /\ at = "new" => ~named
    /\ at \in {"new", "open"} => frames = <<>> /\ have = Nothing
    /\ at # "done" => types \cap ends = {}
    /\ endpoint # "responses" => types \subseteq OldTypes
    /\ at \in {"running", "closing"} /\ endpoint = "responses" =>
         /\ "output_item.added" \in types <=> have.text # <<>>
         /\ "content_part.added" \in types <=> have.text # <<>>
    /\ at = "running" => "output_text.done" \notin types /\ "output_item.done" \notin types
    /\ at = "closing" =>
         endpoint = "responses" /\ ("output_item.done" \in types <=> have.text # <<>>)
    /\ InOrder(frames, ends)
    /\ "response.completed" \in types =>
         ("output_item.added" \in types <=> "output_item.done" \in types)
    /\ at = "done" /\ named /\ ~left_it => frames # <<>> /\ Last(frames)[1] \in ends
    /\ Pieces(frames) = have.text

StreamsRuled == \A c \in Streams :
    StreamRule(EndTypes(c), Endpoint(c), pc[c], rid[c] # NoId, events[c], told[c], c \in gone)

LEMMA StreamsRuledIs ==
    /\ FramesInv /\ EventsInOrder /\ WholeInv => StreamsRuled
    /\ StreamsRuled => FramesInv /\ EventsInOrder /\ \A c \in Streams : Pieces(events[c]) = told[c].text
<1>1. FramesInv /\ EventsInOrder /\ WholeInv => StreamsRuled
  BY DEF FramesInv, EventsInOrder, WholeInv, StreamsRuled, StreamRule
<1>2. StreamsRuled => FramesInv
  BY DEF FramesInv, StreamsRuled, StreamRule
<1>3. StreamsRuled => EventsInOrder
  BY DEF EventsInOrder, StreamsRuled, StreamRule
<1>4. StreamsRuled => \A c \in Streams : Pieces(events[c]) = told[c].text
  BY DEF StreamsRuled, StreamRule
<1> QED BY <1>1, <1>2, <1>3, <1>4

\* A stream that goes on.
LEMMA GoingRuled ==
    ASSUME NEW endpoint, NEW ends, NEW frames, NEW types, NEW have, NEW left_it, NEW named,
           Going(frames, ends, types, have.text), NEW at \in {"running", "closing"},
           endpoint = "responses" => "response.completed" \in ends,
           endpoint # "responses" => types \subseteq OldTypes /\ at = "running",
           endpoint = "responses" => \A t \in ItemTypes : t \in types <=> have.text # <<>>,
           at = "running" => "output_text.done" \notin types /\ "output_item.done" \notin types,
           at = "closing" => ("output_item.done" \in types <=> have.text # <<>>)
    PROVE  StreamRule(ends, endpoint, at, named, frames, have, left_it)
<1>1. TypesIn(frames) = types /\ types \cap ends = {} /\ InOrder(frames, ends) /\ Pieces(frames) = have.text
  BY DEF Going
<1>2. "response.completed" \notin types
  BY <1>1 DEF OldTypes
<1> QED BY <1>1, <1>2 DEF StreamRule, ItemTypes

\* A stream that has sent its end.
LEMMA EndedRuled ==
    ASSUME NEW endpoint, NEW ends, NEW frames, NEW types, NEW have, NEW left_it, NEW named,
           Ended(frames, ends, types, have.text),
           endpoint # "responses" => types \subseteq OldTypes,
           "response.completed" \in types =>
             ("output_item.added" \in types <=> "output_item.done" \in types)
    PROVE  StreamRule(ends, endpoint, "done", named, frames, have, left_it)
BY DEF Ended, StreamRule

\* A client that leaves, and a handler that ends for it, send nothing.
LEMMA SilentRuled ==
    ASSUME NEW endpoint, NEW ends, NEW at, NEW named, NEW frames, NEW have, NEW left_it,
           StreamRule(ends, endpoint, at, named, frames, have, left_it)
    PROVE  /\ StreamRule(ends, endpoint, at, named, frames, have, TRUE)
           /\ StreamRule(ends, endpoint, "done", named, frames, have, TRUE)
BY DEF StreamRule

\* What the rule says of a stream that has not ended.
LEMMA RuledGoing ==
    ASSUME NEW endpoint, NEW ends, NEW at, NEW named, NEW frames \in Seq(Frames),
           NEW have \in Outputs, NEW left_it, at # "done",
           StreamRule(ends, endpoint, at, named, frames, have, left_it)
    PROVE  Going(frames, ends, TypesIn(frames), have.text)
<1>1. have.text \in Seq(Nat)
  BY DEF Outputs
<1> QED BY <1>1 DEF StreamRule, Going

\* Only one call's stream moves.
LEMMA OneStream ==
    ASSUME ServingTypeOK, StreamsRuled, wish' = wish, NEW c \in Calls,
           \A d \in Calls : d # c => /\ pc'[d] = pc[d] /\ rid'[d] = rid[d] /\ events'[d] = events[d]
                                     /\ told'[d] = told[d] /\ (d \in gone' <=> d \in gone),
           c \in Streams => StreamRule(EndTypes(c), Endpoint(c), pc'[c], rid'[c] # NoId,
                                       events'[c], told'[c], c \in gone')
    PROVE  StreamsRuled'
<1>1. Streams' = Streams /\ \A d : Endpoint(d)' = Endpoint(d) /\ EndTypes(d)' = EndTypes(d)
  BY DEF Streams, Endpoint, EndTypes
<1>2. ASSUME NEW d \in Streams
      PROVE  StreamRule(EndTypes(d), Endpoint(d), pc'[d], rid'[d] # NoId, events'[d], told'[d], d \in gone')
  <2>1. d \in Calls
    BY DEF Streams
  <2>2. CASE d = c
    BY <2>2
  <2>3. CASE d # c
    <3>1. (rid'[d] # NoId) = (rid[d] # NoId) /\ (d \in gone') = (d \in gone)
      BY <2>1, <2>3
    <3>2. StreamRule(EndTypes(d), Endpoint(d), pc[d], rid[d] # NoId, events[d], told[d], d \in gone)
      BY DEF StreamsRuled
    <3> QED BY <2>1, <2>3, <3>1, <3>2
  <2> QED BY <2>2, <2>3
<1> QED BY <1>1, <1>2 DEF StreamsRuled

LEMMA SentTyped ==
    ASSUME ServingTypeOK, NEW c \in Calls, NEW fs \in Seq(Kinds), Sent(c, fs)
    PROVE  /\ events' \in [Calls -> Seq(Frames)] /\ events'[c] = Adds(events[c], fs)
           /\ \A d \in Calls : d # c => events'[d] = events[d]
<1>1. events[c] \in Seq(Frames)
  BY DEF ServingTypeOK
<1>2. Adds(events[c], fs) \in Seq(Frames)
  BY <1>1, AddedFrames
<1>3. events' = [events EXCEPT ![c] = Adds(events[c], fs)]
  BY StampedAdds DEF Sent
<1> QED BY <1>2, <1>3 DEF ServingTypeOK

LEMMA AdmissionStreams ==
    ASSUME ServingTypeOK, StreamsRuled, wish' = wish, NEW c \in Calls,
           Refuse(c) \/ Create(c) \/ CreateResponse(c)
    PROVE  StreamsRuled' /\ events' = events /\ told' = told
<1>1. /\ pc[c] = "new" /\ events' = events /\ told' = told /\ gone' = gone
      /\ \/ pc' = [pc EXCEPT ![c] = "done"] /\ rid' = rid
         \/ pc' = [pc EXCEPT ![c] = "open"] /\ \E i : rid' = [rid EXCEPT ![c] = i]
  <2>1. CASE Refuse(c)
    BY <2>1 DEF Refuse, Reject
  <2>2. CASE Create(c)
    BY <2>2 DEF Create
  <2>3. CASE CreateResponse(c)
    BY <2>3 DEF CreateResponse, Reject
  <2> QED BY <2>1, <2>2, <2>3
<1>2. ASSUME c \in Streams
      PROVE  StreamRule(EndTypes(c), Endpoint(c), pc'[c], rid'[c] # NoId, events'[c], told'[c], c \in gone')
  <2>1. StreamRule(EndTypes(c), Endpoint(c), "new", rid[c] # NoId, events[c], told[c], c \in gone)
    BY <1>1, <1>2 DEF StreamsRuled
  <2>2. CASE pc' = [pc EXCEPT ![c] = "done"] /\ rid' = rid
    <3>1. pc'[c] = "done"
      BY <2>2 DEF ServingTypeOK
    <3> QED BY <1>1, <2>1, <2>2, <3>1 DEF StreamRule
  <2>3. CASE pc' = [pc EXCEPT ![c] = "open"]
    <3>1. pc'[c] = "open"
      BY <2>3 DEF ServingTypeOK
    <3> QED BY <1>1, <2>1, <3>1 DEF StreamRule
  <2> QED BY <1>1, <2>2, <2>3
<1>3. \A d \in Calls : d # c => pc'[d] = pc[d] /\ rid'[d] = rid[d]
  BY <1>1 DEF ServingTypeOK
<1> QED BY <1>1, <1>2, <1>3, OneStream

LEMMA StartStreams ==
    ASSUME ServingTypeOK, StreamsRuled, wish' = wish, NEW c \in Calls, Start(c)
    PROVE  StreamsRuled' /\ events' \in [Calls -> Seq(Frames)] /\ told' = told
<1>1. /\ pc[c] = "open" /\ told' = told /\ gone' = gone /\ rid' = rid
      /\ \/ pc' = [pc EXCEPT ![c] = "done"]
         \/ pc' = [pc EXCEPT ![c] = "running"]
  BY DEF Start
<1>2. \A d \in Calls : d # c => pc'[d] = pc[d]
  BY <1>1 DEF ServingTypeOK
<1>3. CASE c \notin Streams
  <2>1. events' = events
    BY <1>3 DEF Start
  <2> QED BY <1>1, <1>2, <1>3, <2>1, OneStream DEF ServingTypeOK
<1>4. CASE c \in Streams
  <2>1. StreamRule(EndTypes(c), Endpoint(c), "open", rid[c] # NoId, events[c], told[c], c \in gone)
    BY <1>1, <1>4 DEF StreamsRuled
  <2>2. events[c] = <<>> /\ told[c] = Nothing /\ Nothing.text = <<>>
    BY <2>1 DEF StreamRule, Nothing
  <2>3. PICK types \in SUBSET OpeningTypes :
          /\ Going(Adds(<<>>, Opening(c)), EndTypes(c), types, <<>>)
          /\ Endpoint(c) # "responses" => types \subseteq {"role"}
    BY OpeningGoes
  <2>4. Opening(c) \in Seq(Kinds)
    BY OpeningGoes
  <2>5. types \cap (ItemTypes \cup DoneTypes) = {}
    BY DEF OpeningTypes, ItemTypes, DoneTypes
  <2>6. Endpoint(c) = "responses" => "response.completed" \in EndTypes(c)
    BY DEF EndTypes
  <2>7. Endpoint(c) # "responses" => types \subseteq OldTypes
    BY <2>3 DEF OldTypes
  <2>8. CASE pc' = [pc EXCEPT ![c] = "running"] /\ Sent(c, Opening(c))
    <3>1. pc'[c] = "running"
      BY <2>8 DEF ServingTypeOK
    <3>2. /\ events' \in [Calls -> Seq(Frames)] /\ events'[c] = Adds(<<>>, Opening(c))
          /\ \A d \in Calls : d # c => events'[d] = events[d]
      BY <2>2, <2>4, <2>8, SentTyped
    <3>3. Going(events'[c], EndTypes(c), types, told[c].text)
      BY <2>2, <2>3, <3>2
    <3>4. told[c].text = <<>>
      BY <2>2
    <3>5. /\ "output_text.done" \notin types /\ "output_item.done" \notin types
          /\ \A t \in ItemTypes : t \notin types
      BY <2>5 DEF DoneTypes
    <3>6. StreamRule(EndTypes(c), Endpoint(c), "running", rid[c] # NoId, events'[c], told[c], c \in gone)
      BY <2>6, <2>7, <3>3, <3>4, <3>5, GoingRuled
    <3> QED BY <1>1, <1>2, <3>1, <3>2, <3>6, OneStream
  <2>9. CASE pc' = [pc EXCEPT ![c] = "done"] /\ Sent(c, Opening(c) \o Broken(c))
    <3>1. pc'[c] = "done"
      BY <2>9 DEF ServingTypeOK
    <3>2. PICK sent : sent = Adds(<<>>, Opening(c)) /\ sent \in Seq(Frames)
      BY <2>3 DEF Going
    <3>3. PICK more \in SUBSET {"error", "[DONE]"} :
            Ended(Adds(sent, Broken(c)), EndTypes(c), types \cup more, <<>>)
      BY <2>3, <3>2, BrokenEnds
    <3>4. Broken(c) \in Seq(Kinds)
      BY <2>3, BrokenEnds
    <3>5. <<>> \in Seq(Frames)
      BY EmptySeq
    <3>6. /\ Opening(c) \o Broken(c) \in Seq(Kinds)
          /\ Adds(<<>>, Opening(c) \o Broken(c)) = Adds(sent, Broken(c))
      BY <2>4, <3>2, <3>4, <3>5, AddsTwice
    <3>7. /\ events' \in [Calls -> Seq(Frames)] /\ events'[c] = Adds(sent, Broken(c))
          /\ \A d \in Calls : d # c => events'[d] = events[d]
      BY <2>2, <2>9, <3>6, SentTyped
    <3>8. Ended(events'[c], EndTypes(c), types \cup more, told[c].text)
      BY <2>2, <3>3, <3>7
    <3>9. /\ Endpoint(c) # "responses" => types \cup more \subseteq OldTypes
          /\ "response.completed" \notin types \cup more
      BY <2>7 DEF OldTypes, OpeningTypes
    <3>10. StreamRule(EndTypes(c), Endpoint(c), "done", rid[c] # NoId, events'[c], told[c], c \in gone)
      BY <3>8, <3>9, EndedRuled
    <3> QED BY <1>1, <1>2, <3>1, <3>7, <3>10, OneStream
  <2> QED BY <1>4, <2>8, <2>9 DEF Start
<1> QED BY <1>3, <1>4

LEMMA ItemIs ==
    ASSUME ServingTypeOK, NEW c \in Calls, HasItem(c)
    PROVE  Item(c) \in Items /\ Item(c).output \in Outputs /\ Item(c).final \in BOOLEAN
<1>1. <<c, 1>> \in Gens
  BY Wished
<1>2. PICK q \in Seq(Items) : q = inbox[<<c, 1>>] /\ q # <<>>
  BY <1>1 DEF ServingTypeOK, HasItem
<1>3. q[1] \in Items
  <2>1. Len(q) \in Nat \ {0} /\ 1 \in 1 .. Len(q)
    BY <1>2, EmptySeq
  <2> QED BY <2>1, ElementOfSeq
<1> QED BY <1>2, <1>3 DEF Item, Items

LEMMA OutputStreams ==
    ASSUME ServingTypeOK, StreamsRuled, wish' = wish, NEW c \in Calls, StreamOutput(c)
    PROVE  /\ StreamsRuled' /\ events' \in [Calls -> Seq(Frames)]
           /\ told' = [told EXCEPT ![c] = ToldMore(c, Item(c).output)]
           /\ ToldMore(c, Item(c).output) \in Outputs
<1> DEFINE E == events[c]
           types == TypesIn(events[c])
           ends == EndTypes(c)
           more_told == ToldMore(c, Item(c).output)
<1>1. /\ c \in Streams /\ HasItem(c) /\ pc[c] = "running" /\ rid' = rid /\ gone' = gone
      /\ told' = [told EXCEPT ![c] = more_told]
  BY DEF StreamOutput, Reads, HasItem
<1>2. Item(c).output \in Outputs /\ told[c] \in Outputs /\ E \in Seq(Frames)
  BY <1>1, ItemIs DEF ServingTypeOK
<1>3. more_told \in Outputs /\ told'[c] = more_told /\ \A d \in Calls : d # c => told'[d] = told[d]
  BY <1>1, <1>2, ToldIs DEF ServingTypeOK
<1>4. StreamRule(ends, Endpoint(c), "running", rid[c] # NoId, E, told[c], c \in gone)
  BY <1>1 DEF StreamsRuled
<1>5. Going(E, ends, types, told[c].text)
  BY <1>2, <1>4, RuledGoing
<1>6. /\ Endpoint(c) # "responses" => types \subseteq OldTypes
      /\ Endpoint(c) = "responses" => \A t \in ItemTypes : t \in types <=> told[c].text # <<>>
      /\ "output_text.done" \notin types /\ "output_item.done" \notin types
  BY <1>4 DEF StreamRule, ItemTypes
<1> HIDE DEF more_told
<1>7. PICK more \in SUBSET DeltaTypes :
        /\ Going(Adds(E, Delta(c, Item(c).output)), ends, types \cup more, more_told.text)
        /\ Endpoint(c) # "responses" => more = {"chunk"}
        /\ Endpoint(c) = "responses" => \A t \in ItemTypes : t \in types \cup more <=> more_told.text # <<>>
  BY <1>2, <1>5, <1>6, DeltaGoes DEF more_told
<1>8. Delta(c, Item(c).output) \in Seq(Kinds)
  BY <1>2, <1>5, <1>6, DeltaGoes
<1> HIDE DEF types, E
<1>9. PICK sent \in Seq(Frames) : sent = Adds(E, Delta(c, Item(c).output))
  BY <1>7 DEF Going
<1>10. /\ "output_text.done" \notin types \cup more /\ "output_item.done" \notin types \cup more
       /\ Endpoint(c) # "responses" => types \cup more \subseteq OldTypes
       /\ Endpoint(c) = "responses" => "response.completed" \in ends
  BY <1>6, <1>7 DEF DeltaTypes, ItemTypes, OldTypes, EndTypes
<1>11. CASE ~Item(c).final
  <2>1. pc' = pc /\ Sent(c, Delta(c, Item(c).output))
    BY <1>11 DEF StreamOutput
  <2>2. /\ events' \in [Calls -> Seq(Frames)] /\ events'[c] = sent
        /\ \A d \in Calls : d # c => events'[d] = events[d]
    BY <1>8, <1>9, <2>1, SentTyped DEF E
  <2>3. Going(events'[c], ends, types \cup more, more_told.text)
    BY <1>7, <1>9, <2>2
  <2>4. StreamRule(ends, Endpoint(c), "running", rid[c] # NoId, events'[c], more_told, c \in gone)
    BY <1>7, <1>10, <2>3, GoingRuled
  <2> QED BY <1>1, <1>3, <2>1, <2>2, <2>4, OneStream DEF more_told
<1>12. CASE Item(c).final /\ Endpoint(c) = "responses"
  <2> DEFINE three == <<Frame("output_text.done"), Frame("content_part.done"), Frame("output_item.done")>>
             closes == IF more_told.text = <<>> THEN <<>> ELSE three
             all == IF more_told.text = <<>> THEN types \cup more ELSE types \cup more \cup DoneTypes
  <2>1. pc' = [pc EXCEPT ![c] = "closing"] /\ Sent(c, Delta(c, Item(c).output) \o closes)
    BY <1>12 DEF StreamOutput, more_told
  <2>2. pc'[c] = "closing" /\ \A d \in Calls : d # c => pc'[d] = pc[d]
    BY <2>1 DEF ServingTypeOK
  <2>3. closes \in Seq(Kinds) /\ Going(Adds(sent, closes), ends, all, more_told.text)
    <3>1. Going(sent, ends, types \cup more, more_told.text)
      BY <1>7, <1>9
    <3>2. CASE more_told.text = <<>>
      <4>1. closes = <<>> /\ all = types \cup more
        BY <3>2
      <4>2. <<>> \in Seq(Kinds) /\ Adds(sent, <<>>) = sent
        BY EmptySeq, AddNone
      <4> HIDE DEF closes, all
      <4> QED BY <3>1, <4>1, <4>2
    <3>3. CASE more_told.text # <<>>
      <4>1. closes = three /\ all = types \cup more \cup DoneTypes
        BY <3>3
      <4>2. three \in Seq(Kinds) /\ Going(Adds(sent, three), ends, types \cup more \cup DoneTypes, more_told.text)
        BY <1>12, <3>1, DoneGoes
      <4> HIDE DEF closes, all, three
      <4> QED BY <4>1, <4>2
    <3> QED BY <3>2, <3>3
  <2>4. /\ \A t \in ItemTypes : t \in all <=> more_told.text # <<>>
        /\ "output_item.done" \in all <=> more_told.text # <<>>
    <3>1. \A t \in ItemTypes : t \notin DoneTypes
      BY DEF ItemTypes, DoneTypes
    <3> QED BY <1>7, <1>10, <1>12, <3>1 DEF DoneTypes
  <2> HIDE DEF closes, all
  <2>5. /\ Delta(c, Item(c).output) \o closes \in Seq(Kinds)
        /\ Adds(E, Delta(c, Item(c).output) \o closes) = Adds(sent, closes)
    BY <1>2, <1>8, <1>9, <2>3, AddsTwice
  <2>6. /\ events' \in [Calls -> Seq(Frames)] /\ events'[c] = Adds(sent, closes)
        /\ \A d \in Calls : d # c => events'[d] = events[d]
    BY <2>1, <2>5, SentTyped DEF E
  <2>7. Going(events'[c], ends, all, more_told.text)
    BY <2>3, <2>6
  <2>8. StreamRule(ends, Endpoint(c), "closing", rid[c] # NoId, events'[c], more_told, c \in gone)
    BY <1>10, <1>12, <2>4, <2>7, GoingRuled
  <2> QED BY <1>1, <1>3, <2>2, <2>6, <2>8, OneStream DEF more_told
<1>13. CASE Item(c).final /\ Endpoint(c) # "responses"
  <2> DEFINE last == Closing(c, <<Frame("usage")>>)
  <2>1. pc' = [pc EXCEPT ![c] = "done"] /\ Sent(c, Delta(c, Item(c).output) \o last)
    BY <1>13 DEF StreamOutput
  <2>2. pc'[c] = "done" /\ \A d \in Calls : d # c => pc'[d] = pc[d]
    BY <2>1 DEF ServingTypeOK
  <2>3. /\ last \in Seq(Kinds)
        /\ Ended(Adds(sent, last), ends, types \cup more \cup {"usage", "[DONE]"}, more_told.text)
    BY <1>7, <1>9, <1>13, UsageEnds
  <2> HIDE DEF last
  <2>4. /\ Delta(c, Item(c).output) \o last \in Seq(Kinds)
        /\ Adds(E, Delta(c, Item(c).output) \o last) = Adds(sent, last)
    BY <1>2, <1>8, <1>9, <2>3, AddsTwice
  <2>5. /\ events' \in [Calls -> Seq(Frames)] /\ events'[c] = Adds(sent, last)
        /\ \A d \in Calls : d # c => events'[d] = events[d]
    BY <2>1, <2>4, SentTyped DEF E
  <2>6. Ended(events'[c], ends, types \cup more \cup {"usage", "[DONE]"}, more_told.text)
    BY <2>3, <2>5
  <2>7. /\ types \cup more \cup {"usage", "[DONE]"} \subseteq OldTypes
        /\ "response.completed" \notin types \cup more \cup {"usage", "[DONE]"}
    BY <1>10, <1>13 DEF OldTypes
  <2>8. StreamRule(ends, Endpoint(c), "done", rid[c] # NoId, events'[c], more_told, c \in gone)
    BY <1>13, <2>6, <2>7, EndedRuled
  <2> QED BY <1>1, <1>3, <2>2, <2>5, <2>8, OneStream DEF more_told
<1> QED BY <1>1, <1>3, <1>11, <1>12, <1>13 DEF more_told

LEMMA LastEventStreams ==
    ASSUME ServingTypeOK, StreamsRuled, wish' = wish, NEW c \in Calls, LastEvent(c)
    PROVE  StreamsRuled' /\ events' \in [Calls -> Seq(Frames)] /\ told' = told
<1> DEFINE f == Frame("response.completed")
           types == TypesIn(events[c])
<1>1. /\ pc[c] = "closing" /\ told' = told /\ gone' = gone /\ rid' = rid /\ Sent(c, <<f>>)
      /\ pc' = [pc EXCEPT ![c] = "done"]
  BY DEF LastEvent
<1>2. pc'[c] = "done" /\ \A d \in Calls : d # c => pc'[d] = pc[d]
  BY <1>1 DEF ServingTypeOK
<1>3. f \in Kinds
  BY FrameKind, TypesAre
<1>4. events[c] \in Seq(Frames) /\ told[c] \in Outputs
  BY DEF ServingTypeOK
<1>5. <<f>> \in Seq(Kinds) /\ Adds(events[c], <<f>>) = Numbered(events[c], f)
  BY <1>3, <1>4, AddsOne
<1>6. /\ events' \in [Calls -> Seq(Frames)] /\ events'[c] = Numbered(events[c], f)
      /\ \A d \in Calls : d # c => events'[d] = events[d]
  BY <1>1, <1>5, SentTyped
<1>7. ASSUME c \in Streams
      PROVE  StreamRule(EndTypes(c), Endpoint(c), "done", rid[c] # NoId, events'[c], told[c], c \in gone)
  <2>1. StreamRule(EndTypes(c), Endpoint(c), "closing", rid[c] # NoId, events[c], told[c], c \in gone)
    BY <1>1, <1>7 DEF StreamsRuled
  <2>2. Going(events[c], EndTypes(c), types, told[c].text)
    BY <1>4, <2>1, RuledGoing
  <2>3. /\ Endpoint(c) = "responses" /\ "response.completed" \in EndTypes(c)
        /\ "output_item.added" \in types <=> "output_item.done" \in types
    BY <2>1 DEF StreamRule, EndTypes
  <2> HIDE DEF types
  <2>4. Ended(Numbered(events[c], f), EndTypes(c), types \cup {"response.completed"}, told[c].text)
    BY <2>2, <2>3, NextPlain, TypesAre
  <2>5. Ended(events'[c], EndTypes(c), types \cup {"response.completed"}, told[c].text)
    BY <1>6, <2>4
  <2>6. /\ "output_item.added" \in types \cup {"response.completed"}
           <=> "output_item.done" \in types \cup {"response.completed"}
    BY <2>3
  <2> QED BY <2>3, <2>5, <2>6, EndedRuled
<1> QED BY <1>1, <1>2, <1>6, <1>7, OneStream

LEMMA FailureStreams ==
    ASSUME ServingTypeOK, StreamsRuled, wish' = wish, NEW c \in Calls, ReadFailure(c)
    PROVE  StreamsRuled' /\ events' \in [Calls -> Seq(Frames)] /\ told' = told
<1> DEFINE types == TypesIn(events[c])
<1>1. /\ pc[c] = "running" /\ told' = told /\ gone' = gone /\ rid' = rid
      /\ pc' = [pc EXCEPT ![c] = "done"]
  BY DEF ReadFailure, HasItem
<1>2. pc'[c] = "done" /\ \A d \in Calls : d # c => pc'[d] = pc[d]
  BY <1>1 DEF ServingTypeOK
<1>3. events[c] \in Seq(Frames) /\ told[c] \in Outputs /\ events \in [Calls -> Seq(Frames)]
  BY DEF ServingTypeOK
<1>4. CASE c \in Streams /\ c \notin gone
  <2>1. Sent(c, Broken(c))
    BY <1>4 DEF ReadFailure
  <2>2. StreamRule(EndTypes(c), Endpoint(c), "running", rid[c] # NoId, events[c], told[c], c \in gone)
    BY <1>1, <1>4 DEF StreamsRuled
  <2>3. Going(events[c], EndTypes(c), types, told[c].text)
    BY <1>3, <2>2, RuledGoing
  <2>4. /\ Endpoint(c) # "responses" => types \subseteq OldTypes
        /\ "response.completed" \notin types
    BY <2>2 DEF StreamRule, OldTypes, EndTypes
  <2> HIDE DEF types
  <2>5. PICK more \in SUBSET {"error", "[DONE]"} :
          Ended(Adds(events[c], Broken(c)), EndTypes(c), types \cup more, told[c].text)
    BY <2>3, BrokenEnds
  <2>6. Broken(c) \in Seq(Kinds)
    BY <2>3, BrokenEnds
  <2>7. /\ events' \in [Calls -> Seq(Frames)] /\ events'[c] = Adds(events[c], Broken(c))
        /\ \A d \in Calls : d # c => events'[d] = events[d]
    BY <2>1, <2>6, SentTyped
  <2>8. Ended(events'[c], EndTypes(c), types \cup more, told[c].text)
    BY <2>5, <2>7
  <2>9. /\ Endpoint(c) # "responses" => types \cup more \subseteq OldTypes
        /\ "response.completed" \notin types \cup more
    BY <2>4 DEF OldTypes
  <2>10. StreamRule(EndTypes(c), Endpoint(c), "done", rid[c] # NoId, events'[c], told[c], c \in gone)
    BY <2>8, <2>9, EndedRuled
  <2> QED BY <1>1, <1>2, <2>7, <2>10, OneStream
<1>5. CASE c \notin Streams \/ c \in gone
  <2>1. events' = events
    BY <1>5 DEF ReadFailure
  <2>2. c \in Streams => StreamRule(EndTypes(c), Endpoint(c), "done", rid[c] # NoId, events[c], told[c], c \in gone)
    BY <1>5 DEF StreamsRuled, StreamRule
  <2> QED BY <1>1, <1>2, <1>3, <2>1, <2>2, OneStream
<1> QED BY <1>4, <1>5

\* Bodies and documents send nothing; nor does a handler whose client has left.
LEMMA SilentStreams ==
    ASSUME ServingTypeOK, StreamsRuled, wish' = wish, NEW c \in Calls, FlightInv,
           \/ BodyOutput(c) \/ StartDocuments(c) \/ FailDocuments(c) \/ AllDocuments(c)
           \/ Leave(c) \/ CancelStream(c) \/ NoticeGone(c)
    PROVE  /\ StreamsRuled' /\ events' = events
           /\ told' = told \/ (told' = [told EXCEPT ![c] = Item(c).output] /\ HasItem(c))
<1>1. /\ events' = events /\ rid' = rid
      /\ told' = told \/ (told' = [told EXCEPT ![c] = Item(c).output] /\ HasItem(c))
      /\ pc' = pc \/ (\E x : pc' = [pc EXCEPT ![c] = x])
      /\ gone' = gone \/ gone' = gone \cup {c}
  <2>1. CASE BodyOutput(c)
    BY <2>1 DEF BodyOutput, Reads
  <2>2. CASE StartDocuments(c) \/ FailDocuments(c) \/ AllDocuments(c)
    BY <2>2 DEF StartDocuments, FailDocuments, AllDocuments
  <2>3. CASE Leave(c)
    BY <2>3 DEF Leave, handlerVars
  <2>4. CASE CancelStream(c) \/ NoticeGone(c)
    BY <2>4 DEF CancelStream, NoticeGone, Ends
  <2> QED BY <2>1, <2>2, <2>3, <2>4
<1>2. \A d \in Calls : d # c => pc'[d] = pc[d] /\ told'[d] = told[d] /\ (d \in gone' <=> d \in gone)
  BY <1>1 DEF ServingTypeOK
<1>3. ASSUME c \in Streams
      PROVE  StreamRule(EndTypes(c), Endpoint(c), pc'[c], rid[c] # NoId, events[c], told'[c], c \in gone')
  <2>1. Endpoint(c) # "embedding"
    BY <1>3, Wished
  <2>2. Leave(c) \/ CancelStream(c) \/ NoticeGone(c)
    BY <1>3, <2>1 DEF BodyOutput, StartDocuments, FailDocuments, AllDocuments
  <2>3. c \in gone' /\ told' = told /\ (pc'[c] = pc[c] \/ pc'[c] = "done")
    BY <2>2 DEF Leave, CancelStream, NoticeGone, Ends, handlerVars, ServingTypeOK
  <2>4. StreamRule(EndTypes(c), Endpoint(c), pc[c], rid[c] # NoId, events[c], told[c], c \in gone)
    BY <1>3 DEF StreamsRuled
  <2>5. /\ StreamRule(EndTypes(c), Endpoint(c), pc[c], rid[c] # NoId, events[c], told[c], TRUE)
        /\ StreamRule(EndTypes(c), Endpoint(c), "done", rid[c] # NoId, events[c], told[c], TRUE)
    BY <2>4, SilentRuled
  <2>6. (c \in gone') = TRUE
    BY <2>3
  <2> QED BY <2>3, <2>5, <2>6
<1> QED BY <1>1, <1>2, <1>3, OneStream

LEMMA StreamsUnmoved ==
    ASSUME StreamsRuled, wish' = wish, UNCHANGED handlerVars, gone' = gone
    PROVE  StreamsRuled'
<1>1. Streams' = Streams /\ \A d : Endpoint(d)' = Endpoint(d) /\ EndTypes(d)' = EndTypes(d)
  BY DEF Streams, Endpoint, EndTypes
<1> QED BY <1>1 DEF StreamsRuled, handlerVars

------------------------------------------------------------------------------
(* What a call has been told, and what was made for it.                     *)

FailuresLast(q) == \A k \in 2 .. Len(q) : q[k] = Failure

LEMMA Whole == WholeInv <=>
    /\ \A c \in Streams : Pieces(events[c]) = told[c].text
    /\ \A g \in Gens : FailuresLast(inbox[g])
    /\ \A c \in Calls : Endpoint(c) # "embedding" => CallWhole(c)
    /\ \A id \in CallIds : StoredWhole(id)
BY DEF WholeInv, FailuresLast

\* A call that nobody touches.
LEMMA CallUnmoved ==
    ASSUME wish' = wish, NEW d \in Calls, CallWhole(d), pc'[d] = pc[d], told'[d] = told[d],
           body'[d] = body[d], made'[<<d, 1>>] = made[<<d, 1>>], inbox'[<<d, 1>>] = inbox[<<d, 1>>],
           <<d, 1>> \in live' => <<d, 1>> \in live
    PROVE  CallWhole(d)'
BY DEF CallWhole, Waiting, Streams, Endpoint

\* A call that has failed, or has no answer yet, when it is over.
LEMMA CallOver ==
    ASSUME wish' = wish, NEW c \in Calls, pc'[c] = "done",
           body'[c] # NoBody => body'[c].status \notin Terminal
    PROVE  CallWhole(c)'
BY DEF CallWhole

LEMMA FailedIs ==
    ASSUME NEW c
    PROVE  Failed(c).status \notin Terminal
BY DEF Failed, Body, Terminal

\* The item that is read leaves only failures behind it.
LEMMA TailFails ==
    ASSUME NEW q \in Seq(Items), q # <<>>, FailuresLast(q)
    PROVE  /\ Tail(q) \in Seq(Items) /\ FailuresLast(Tail(q))
           /\ Tail(q) = <<>> \/ Tail(q)[1] = Failure
<1>1. PICK n \in Nat : n = Len(q) /\ n > 0
  BY EmptySeq
<1>2. /\ Tail(q) \in Seq(Items) /\ Len(Tail(q)) = n - 1
      /\ \A i \in 1 .. n - 1 : Tail(q)[i] = q[i + 1]
  BY <1>1, HeadTailProperties
<1>3. ASSUME NEW i \in 1 .. n - 1 PROVE Tail(q)[i] = Failure
  <2>1. i + 1 \in 2 .. n
    BY <1>1
  <2> QED BY <1>1, <1>2, <2>1 DEF FailuresLast
<1>4. Tail(q) = <<>> \/ 1 \in 1 .. n - 1
  BY <1>1, <1>2, EmptySeq
<1>5. \A i \in 2 .. Len(Tail(q)) : i \in 1 .. n - 1
  BY <1>1, <1>2
<1> QED BY <1>2, <1>3, <1>4, <1>5 DEF FailuresLast

LEMMA FailureAdded ==
    ASSUME NEW q \in Seq(Items), FailuresLast(q)
    PROVE  /\ Append(q, Failure) \in Seq(Items) /\ FailuresLast(Append(q, Failure))
           /\ Append(q, Failure) # <<>>
           /\ Append(q, Failure)[1] = IF q = <<>> THEN Failure ELSE q[1]
<1>1. Failure \in Items /\ Nothing \in Outputs
  <2>1. <<>> \in Seq(Nat)
    BY EmptySeq
  <2>2. Nothing \in Outputs
    BY <2>1 DEF Nothing, Outputs
  <2> QED BY <2>2 DEF Failure, Items
<1> DEFINE more == Append(q, Failure)
<1>2. PICK n \in Nat : n = Len(q)
  BY LenProperties
<1>3. more \in Seq(Items) /\ Len(more) = n + 1 /\ more[n + 1] = Failure /\ \A i \in 1 .. n : more[i] = q[i]
  <2> HIDE DEF Failure
  <2> QED BY <1>1, <1>2
<1> HIDE DEF more
<1>4. FailuresLast(more)
  <2> SUFFICES ASSUME NEW k \in 2 .. n + 1 PROVE more[k] = Failure
    BY <1>3 DEF FailuresLast
  <2>1. k = n + 1 \/ (k \in 1 .. n /\ k \in 2 .. n)
    OBVIOUS
  <2> QED BY <1>2, <1>3, <2>1 DEF FailuresLast
<1>5. more # <<>>
  BY <1>3, EmptySeq
<1>6. more[1] = IF q = <<>> THEN Failure ELSE q[1]
  <2>1. CASE q = <<>>
    BY <1>2, <1>3, <2>1, EmptySeq
  <2>2. CASE q # <<>>
    <3>1. 1 \in 1 .. n
      BY <1>2, <2>2, EmptySeq
    <3> QED BY <1>3, <2>2, <3>1
  <2> QED BY <2>1, <2>2
<1> QED BY <1>3, <1>4, <1>5, <1>6 DEF more

MadeWhole ==
    /\ \A g \in Gens : FailuresLast(inbox[g])
    /\ \A c \in Calls : Endpoint(c) # "embedding" => CallWhole(c)
    /\ \A id \in CallIds : StoredWhole(id)

\* A step of one call.
LEMMA OneCall ==
    ASSUME MadeWhole, wish' = wish, NEW c \in Calls,
           \A d \in Calls : d # c => pc'[d] = pc[d] /\ told'[d] = told[d] /\ body'[d] = body[d],
           \A g \in Gens : g[1] # c => /\ made'[g] = made[g] /\ inbox'[g] = inbox[g]
                                       /\ (g \in live' => g \in live),
           \A g \in Gens : g[1] = c => FailuresLast(inbox[g])',
           Endpoint(c) # "embedding" => CallWhole(c)',
           \A id \in CallIds : StoredWhole(id)'
    PROVE  MadeWhole'
<1>1. \A d : Endpoint(d)' = Endpoint(d)
  BY DEF Endpoint
<1>2. ASSUME NEW d \in Calls, Endpoint(d) # "embedding" PROVE CallWhole(d)'
  <2>1. CASE d = c
    BY <1>2, <2>1
  <2>2. CASE d # c
    <3>1. <<d, 1>> \in Gens /\ <<d, 1>>[1] = d
      BY DEF Gens
    <3>2. CallWhole(d)
      BY <1>2 DEF MadeWhole
    <3>3. /\ made'[<<d, 1>>] = made[<<d, 1>>] /\ inbox'[<<d, 1>>] = inbox[<<d, 1>>]
          /\ (<<d, 1>> \in live' => <<d, 1>> \in live)
      BY <2>2, <3>1
    <3> QED BY <2>2, <3>2, <3>3, CallUnmoved
  <2> QED BY <2>1, <2>2
<1>3. ASSUME NEW g \in Gens PROVE FailuresLast(inbox[g])'
  <2>1. CASE g[1] # c
    BY <2>1 DEF MadeWhole, FailuresLast
  <2> QED BY <2>1
<1> QED BY <1>1, <1>2, <1>3 DEF MadeWhole

\* A stored answer is the body of a call that is over, which nothing changes.
LEMMA StoreKept ==
    ASSUME MadeWhole, response_store' = response_store, NEW c \in Calls,
           \A d \in Calls : d # c => pc'[d] = pc[d] /\ body'[d] = body[d],
           \/ pc[c] \notin {"closing", "done"}
           \/ pc'[c] \in {"closing", "done"} /\ (body[c] # NoBody => body'[c] = body[c])
    PROVE  \A id \in CallIds : StoredWhole(id)'
BY DEF MadeWhole, StoredWhole

LEMMA StoreWritten ==
    ASSUME MadeWhole, NEW c \in Calls, NEW id0, NEW result,
           response_store' = [response_store EXCEPT ![id0] = result],
           DOMAIN response_store = CallIds,
           \A d \in Calls : d # c => pc'[d] = pc[d] /\ body'[d] = body[d],
           pc[c] \notin {"closing", "done"}, pc'[c] \in {"closing", "done"},
           body'[c] = result, result.call = c, result.status \in Terminal
    PROVE  \A id \in CallIds : StoredWhole(id)'
BY DEF MadeWhole, StoredWhole

\* Admission, the first pull, the last event and what a client that leaves brings about:
\* the call has no answer, or keeps the one it has.
LEMMA QuietWhole ==
    ASSUME ServingTypeOK, MadeWhole, FlightInv, wish' = wish, NEW c \in Calls,
           \/ Refuse(c) \/ Create(c) \/ CreateResponse(c) \/ Start(c) \/ LastEvent(c)
           \/ Leave(c) \/ AllDocuments(c)
    PROVE  MadeWhole'
<1>1. /\ response_store' = response_store /\ made' = made /\ inbox' = inbox
      /\ told' = told
      /\ pc' = pc \/ (\E x : pc' = [pc EXCEPT ![c] = x])
      /\ body' = body \/ (\E x : body' = [body EXCEPT ![c] = x])
      /\ live' = live \/ live' = live \cup {<<c, 1>>}
  <2>1. CASE Refuse(c) \/ Create(c) \/ CreateResponse(c)
    BY <2>1 DEF Refuse, Create, CreateResponse, Reject, engineVars
  <2>2. CASE Start(c)
    BY <2>2 DEF Start, Enter, engineVars, storeVars
  <2>3. CASE LastEvent(c) \/ Leave(c) \/ AllDocuments(c)
    BY <2>3 DEF LastEvent, Leave, AllDocuments, engineVars, storeVars, handlerVars
  <2> QED BY <2>1, <2>2, <2>3
<1>2. \A d \in Calls : d # c => pc'[d] = pc[d] /\ told'[d] = told[d] /\ body'[d] = body[d]
  BY <1>1 DEF ServingTypeOK
<1>3. \A g \in Gens : g[1] # c => made'[g] = made[g] /\ inbox'[g] = inbox[g] /\ (g \in live' => g \in live)
  BY <1>1
<1>4. \A g \in Gens : FailuresLast(inbox[g])'
  BY <1>1 DEF MadeWhole, FailuresLast
<1>5. \A d : Endpoint(d)' = Endpoint(d)
  BY DEF Endpoint
<1>6. CASE Refuse(c) \/ Create(c) \/ CreateResponse(c) \/ Start(c)
  <2>1. pc[c] \in {"new", "open"}
    BY <1>6 DEF Refuse, Create, CreateResponse, Start
  <2>2. \A id \in CallIds : StoredWhole(id)'
    BY <1>1, <1>2, <2>1, StoreKept
  <2>3. ASSUME Endpoint(c) # "embedding" PROVE CallWhole(c)'
    <3>1. /\ made[<<c, 1>>] = Nothing /\ inbox[<<c, 1>>] = <<>> /\ told[c] = Nothing
          /\ ~(body[c] # NoBody /\ body[c].status \in Terminal)
      BY <2>1, <2>3 DEF MadeWhole, CallWhole
    <3>2. \/ pc' = [pc EXCEPT ![c] = "done"] /\ body' = [body EXCEPT ![c] = Failed(c)]
          \/ pc' = [pc EXCEPT ![c] = "open"] /\ body' = body
          \/ pc' = [pc EXCEPT ![c] = "running"] /\ body' = body
      BY <1>6 DEF Refuse, Create, CreateResponse, Reject, Start
    <3>3. CASE pc' = [pc EXCEPT ![c] = "done"] /\ body' = [body EXCEPT ![c] = Failed(c)]
      <4>1. pc'[c] = "done" /\ body'[c] = Failed(c)
        BY <3>3 DEF ServingTypeOK
      <4> QED BY <4>1, FailedIs, CallOver
    <3>4. CASE pc' = [pc EXCEPT ![c] = "open"] /\ body' = body
      <4>1. pc'[c] = "open"
        BY <3>4 DEF ServingTypeOK
      <4> QED BY <1>1, <3>1, <3>4, <4>1 DEF CallWhole
    <3>5. CASE pc' = [pc EXCEPT ![c] = "running"] /\ body' = body
      <4>1. pc'[c] = "running"
        BY <3>5 DEF ServingTypeOK
      <4>2. Waiting(c)' = Nothing
        BY <1>1, <3>1 DEF Waiting
      <4>3. Nothing.text = Nothing.text \o Nothing.text /\ Nothing.tokens = Nothing.tokens + Nothing.tokens
        <5>1. <<>> \in Seq(Nat)
          BY EmptySeq
        <5>2. <<>> \o <<>> = <<>>
          BY <5>1, ConcatEmptySeq
        <5> QED BY <5>2 DEF Nothing
      <4> HIDE DEF Nothing
      <4> QED BY <1>1, <3>1, <3>5, <4>1, <4>2, <4>3 DEF CallWhole
    <3> QED BY <3>2, <3>3, <3>4, <3>5
  <2> QED BY <1>2, <1>3, <1>4, <2>2, <2>3, OneCall
<1>7. CASE LastEvent(c) \/ Leave(c)
  <2>1. /\ body' = body /\ live' = live
        /\ pc' = pc \/ (pc[c] = "closing" /\ pc' = [pc EXCEPT ![c] = "done"])
    BY <1>7 DEF LastEvent, Leave, handlerVars, engineVars
  <2>2. pc'[c] = pc[c] \/ (pc[c] = "closing" /\ pc'[c] = "done")
    BY <2>1 DEF ServingTypeOK
  <2>3. \A id \in CallIds : StoredWhole(id)'
    BY <1>1, <1>2, <2>1, <2>2, StoreKept
  <2>4. Endpoint(c) # "embedding" => CallWhole(c)'
    BY <1>1, <2>1, <2>2 DEF MadeWhole, CallWhole, Waiting, Streams, Endpoint
  <2> QED BY <1>2, <1>3, <1>4, <2>3, <2>4, OneCall
<1>8. CASE AllDocuments(c)
  <2>1. Endpoint(c) = "embedding" /\ pc[c] = "running"
    BY <1>8 DEF AllDocuments
  <2>2. \A id \in CallIds : StoredWhole(id)'
    BY <1>1, <1>2, <2>1, StoreKept
  <2> QED BY <1>2, <1>3, <1>4, <2>1, <2>2, OneCall
<1> QED BY <1>6, <1>7, <1>8

LEMMA OutputWhole ==
    ASSUME ServingTypeOK, MadeWhole, FlightInv, wish' = wish, NEW c \in Calls,
           StreamOutput(c) \/ BodyOutput(c)
    PROVE  MadeWhole'
<1> DEFINE out == Item(c).output
           total == made[<<c, 1>>]
           have == IF c \in Streams THEN ToldMore(c, out) ELSE out
<1>1. /\ HasItem(c) /\ pc[c] = "running" /\ Endpoint(c) # "embedding" /\ Item(c) # Failure
      /\ Taken(c) /\ made' = made /\ <<c, 1>> \in Gens
  BY Wished DEF StreamOutput, BodyOutput, Reads, HasItem
<1>2. /\ told' = [told EXCEPT ![c] = have]
      /\ \/ ~Item(c).final /\ UNCHANGED <<pc, body, response_store, queues, live>>
         \/ /\ Item(c).final /\ Released({<<c, 1>>})
            /\ \E x \in {"closing", "done"} : pc' = [pc EXCEPT ![c] = x]
            /\ \E st \in {"completed", "incomplete"} :
                 /\ body' = [body EXCEPT ![c] = Body(c, st, have)]
                 /\ \/ response_store' = response_store
                    \/ response_store' = [response_store EXCEPT ![rid[c]] = Body(c, st, have)]
  <2>1. \A t : Status(t) \in {"completed", "incomplete"}
    BY DEF Status
  <2>2. CASE StreamOutput(c)
    BY <2>1, <2>2 DEF StreamOutput
  <2>3. CASE BodyOutput(c)
    <3>1. c \notin Streams
      BY <2>3 DEF BodyOutput
    <3>2. (IF Endpoint(c) = "responses" THEN Status(Item(c).reason) ELSE "completed") \in {"completed", "incomplete"}
      BY <2>1
    <3>3. have = out
      BY <3>1
    <3> HIDE DEF have
    <3> QED BY <2>3, <3>2, <3>3 DEF BodyOutput
  <2> QED BY <2>2, <2>3
<1>3. PICK q \in Seq(Items) : q = inbox[<<c, 1>>] /\ q # <<>> /\ q[1] = Item(c) /\ FailuresLast(q)
  BY <1>1 DEF ServingTypeOK, HasItem, Item, MadeWhole
<1>4. /\ inbox' = [inbox EXCEPT ![<<c, 1>>] = Tail(q)]
      /\ inbox'[<<c, 1>>] = Tail(q) /\ \A g \in Gens : g[1] # c => inbox'[g] = inbox[g]
  BY <1>1, <1>3 DEF Taken, ServingTypeOK
<1>5. FailuresLast(Tail(q)) /\ (Tail(q) = <<>> \/ Tail(q)[1] = Failure)
  BY <1>3, TailFails
<1>6. Waiting(c)' = Nothing /\ Waiting(c) = out
  BY <1>1, <1>3, <1>4, <1>5 DEF Waiting
<1>7. out \in Outputs /\ told[c] \in Outputs /\ total \in Outputs
  BY <1>1, ItemIs DEF ServingTypeOK
<1>8. CallWhole(c)
  BY <1>1 DEF MadeWhole
<1>9. /\ have.text = total.text
      /\ (Endpoint(c) = "responses" /\ c \in Streams) \/ have.tokens = total.tokens
  <2>1. CASE c \in Streams
    <3>1. /\ have.text = told[c].text \o out.text
          /\ Endpoint(c) # "responses" => have.tokens = told[c].tokens + out.tokens
      BY <1>7, <2>1, ToldIs
    <3> QED BY <1>1, <1>6, <1>8, <2>1, <3>1 DEF CallWhole
  <2>2. CASE c \notin Streams
    <3>1. have = total
      BY <1>1, <1>3, <1>6, <1>8, <2>2 DEF CallWhole
    <3> QED BY <3>1
  <2> QED BY <2>1, <2>2
<1>10. ~(body[c] # NoBody /\ body[c].status \in Terminal)
  BY <1>1, <1>8 DEF CallWhole
<1> HIDE DEF have
<1>11. told'[c] = have /\ \A d \in Calls : d # c => told'[d] = told[d]
  BY <1>2 DEF ServingTypeOK
<1>12. \A g \in Gens : FailuresLast(inbox[g])'
  <2> SUFFICES ASSUME NEW g \in Gens PROVE FailuresLast(inbox[g])'
    OBVIOUS
  <2>1. CASE g = <<c, 1>>
    BY <1>4, <1>5, <2>1 DEF FailuresLast
  <2>2. CASE g # <<c, 1>>
    <3>1. inbox'[g] = inbox[g]
      BY <1>4, <2>2 DEF ServingTypeOK
    <3> QED BY <3>1 DEF MadeWhole, FailuresLast
  <2> QED BY <2>1, <2>2
<1>13. total.text \o Nothing.text = total.text /\ total.tokens + Nothing.tokens = total.tokens
  <2>1. total.text \in Seq(Nat) /\ total.tokens \in Nat
    BY <1>7 DEF Outputs
  <2> HIDE DEF total
  <2> QED BY <2>1, ConcatEmptySeq DEF Nothing
<1>14. Endpoint(c)' = Endpoint(c) /\ Streams' = Streams
  BY DEF Endpoint, Streams
<1>15. CASE ~Item(c).final
  <2>1. pc' = pc /\ body' = body /\ response_store' = response_store /\ live' = live
    BY <1>2, <1>15
  <2>2. CallWhole(c)'
    <3>1. pc'[c] = "running" /\ made'[<<c, 1>>] = total /\ inbox'[<<c, 1>>] = Tail(q)
      BY <1>1, <1>4, <2>1
    <3>2. c \in Streams =>
            /\ total.text = told'[c].text \o Waiting(c)'.text
            /\ Endpoint(c) = "responses" \/ total.tokens = told'[c].tokens + Waiting(c)'.tokens
      BY <1>6, <1>9, <1>11, <1>13
    <3> HIDE DEF total
    <3> QED BY <1>5, <1>10, <1>14, <2>1, <3>1, <3>2 DEF CallWhole
  <2>3. \A id \in CallIds : StoredWhole(id)'
    BY <1>1, <2>1, StoreKept
  <2> QED BY <1>1, <1>4, <1>11, <1>12, <2>1, <2>2, <2>3, OneCall
<1>16. CASE Item(c).final
  <2>1. PICK x \in {"closing", "done"}, st \in {"completed", "incomplete"} :
          /\ Released({<<c, 1>>}) /\ pc' = [pc EXCEPT ![c] = x]
          /\ body' = [body EXCEPT ![c] = Body(c, st, have)]
          /\ \/ response_store' = response_store
             \/ response_store' = [response_store EXCEPT ![rid[c]] = Body(c, st, have)]
    BY <1>2, <1>16
  <2>2. /\ pc'[c] = x /\ body'[c] = Body(c, st, have)
        /\ \A d \in Calls : d # c => pc'[d] = pc[d] /\ body'[d] = body[d]
    BY <2>1 DEF ServingTypeOK
  <2>3. <<c, 1>> \notin live' /\ live' \subseteq live
    <3>1. {<<c, 1>>} \in SUBSET Gens
      BY <1>1
    <3> QED BY <2>1, <3>1, ReleasedRest DEF AtRest, Shrinks
  <2>4. /\ Body(c, st, have).call = c /\ Body(c, st, have).status = st
        /\ Body(c, st, have).text = have.text /\ Body(c, st, have).tokens = have.tokens
        /\ st \in Terminal
    BY DEF Body, Terminal
  <2>5. CallWhole(c)'
    <3>1. made'[<<c, 1>>] = total
      BY <1>1
    <3> HIDE DEF total
    <3> QED BY <1>9, <1>11, <1>14, <2>2, <2>3, <2>4, <3>1 DEF CallWhole
  <2>6. \A id \in CallIds : StoredWhole(id)'
    <3>1. DOMAIN response_store = CallIds
      BY DEF ServingTypeOK
    <3>2. CASE response_store' = response_store
      BY <1>1, <2>2, <3>2, StoreKept
    <3>3. CASE response_store' = [response_store EXCEPT ![rid[c]] = Body(c, st, have)]
      <4>1. PICK result, id0 :
              /\ result = Body(c, st, have) /\ id0 = rid[c]
              /\ response_store' = [response_store EXCEPT ![id0] = result]
        BY <3>3
      <4>2. body'[c] = result /\ result.call = c /\ result.status \in Terminal
        BY <2>2, <2>4, <4>1
      <4>3. pc[c] \notin {"closing", "done"} /\ pc'[c] \in {"closing", "done"}
        BY <1>1, <2>2
      <4> QED BY <2>2, <3>1, <4>1, <4>2, <4>3, StoreWritten
    <3> QED BY <2>1, <3>2, <3>3
  <2>7. \A g \in Gens : g[1] # c => made'[g] = made[g] /\ inbox'[g] = inbox[g] /\ (g \in live' => g \in live)
    BY <1>1, <1>4, <2>3
  <2> QED BY <1>11, <1>12, <2>2, <2>5, <2>6, <2>7, OneCall
<1> QED BY <1>15, <1>16

\* A failure that is read, a client that is noticed gone, and an embedding that fails.
LEMMA EndsWhole ==
    ASSUME ServingTypeOK, MadeWhole, FlightInv, wish' = wish, NEW c \in Calls,
           ReadFailure(c) \/ CancelStream(c) \/ NoticeGone(c) \/ FailDocuments(c)
    PROVE  MadeWhole'
<1>1. /\ response_store' = response_store /\ made' = made /\ told' = told
      /\ pc' = [pc EXCEPT ![c] = "done"] /\ c \in Calls
      /\ \/ body' = [body EXCEPT ![c] = Failed(c)] /\ pc[c] = "running"
         \/ body' = [body EXCEPT ![c] = Failed(c)] /\ body[c] = NoBody
         \/ body' = body /\ body[c] # NoBody
  <2>1. CASE ReadFailure(c)
    BY <2>1 DEF ReadFailure, HasItem, storeVars
  <2>2. CASE CancelStream(c)
    BY <2>2 DEF CancelStream, Ends, storeVars
  <2>3. CASE NoticeGone(c)
    BY <2>3 DEF NoticeGone, Ends, storeVars
  <2>4. CASE FailDocuments(c)
    BY <2>4 DEF FailDocuments, storeVars
  <2> QED BY <2>1, <2>2, <2>3, <2>4
<1>2. live' \subseteq live
  <2>1. {<<c, 1>>} \in SUBSET Gens /\ GensOf(c) \in SUBSET Gens
    BY Wished
  <2>2. \/ Released({<<c, 1>>}) \/ Released(GensOf(c)) \/ live' = live
    BY DEF ReadFailure, CancelStream, NoticeGone, FailDocuments
  <2> QED BY <2>1, <2>2, ReleasedRest DEF Shrinks
<1>3. /\ \A g \in Gens : g[1] # c => inbox'[g] = inbox[g]
      /\ \A g \in Gens : FailuresLast(inbox[g])'
  <2>1. CASE CancelStream(c)
    <3>1. inbox' = inbox
      BY <2>1 DEF CancelStream
    <3> QED BY <3>1 DEF MadeWhole, FailuresLast
  <2>2. CASE ReadFailure(c) \/ NoticeGone(c)
    <3>1. Taken(c) /\ inbox[<<c, 1>>] # <<>>
      BY <2>2 DEF ReadFailure, NoticeGone, Reads, HasItem
    <3>2. <<c, 1>> \in Gens
      BY Wished
    <3>3. PICK q \in Seq(Items) : q = inbox[<<c, 1>>] /\ q # <<>> /\ FailuresLast(q)
      BY <3>1, <3>2 DEF ServingTypeOK, MadeWhole
    <3>4. FailuresLast(Tail(q))
      BY <3>3, TailFails
    <3>5. \A g \in Gens : inbox'[g] = IF g = <<c, 1>> THEN Tail(q) ELSE inbox[g]
      BY <3>1, <3>3 DEF Taken, ServingTypeOK
    <3>6. ASSUME NEW g \in Gens PROVE FailuresLast(inbox[g])'
      <4>1. CASE g = <<c, 1>>
        BY <3>4, <3>5, <4>1 DEF FailuresLast
      <4>2. CASE g # <<c, 1>>
        BY <3>5, <4>2 DEF FailuresLast, MadeWhole
      <4> QED BY <4>1, <4>2
    <3> QED BY <3>5, <3>6
  <2>3. CASE FailDocuments(c)
    <3>1. \A g \in Gens : inbox'[g] = IF g[1] = c THEN <<>> ELSE inbox[g]
      BY <2>3 DEF FailDocuments
    <3>2. Len(<<>>) = 0
      BY EmptySeq
    <3>3. ASSUME NEW g \in Gens PROVE FailuresLast(inbox[g])'
      <4>1. CASE g[1] = c
        <5>1. inbox'[g] = <<>>
          BY <3>1, <4>1
        <5>2. Len(inbox'[g]) = 0
          BY <3>2, <5>1
        <5> QED BY <5>2 DEF FailuresLast
      <4>2. CASE g[1] # c
        BY <3>1, <4>2 DEF FailuresLast, MadeWhole
      <4> QED BY <4>1, <4>2
    <3> QED BY <3>1, <3>3
  <2> QED BY <2>1, <2>2, <2>3
<1>4. /\ pc'[c] = "done" /\ \A d \in Calls : d # c => pc'[d] = pc[d] /\ told'[d] = told[d] /\ body'[d] = body[d]
      /\ \/ body'[c] = Failed(c) /\ (pc[c] = "running" \/ body[c] = NoBody)
         \/ body'[c] = body[c] /\ body[c] # NoBody
  BY <1>1 DEF ServingTypeOK
<1>5. \A id \in CallIds : StoredWhole(id)'
  <2>1. \/ pc[c] \notin {"closing", "done"}
        \/ pc'[c] \in {"closing", "done"} /\ (body[c] # NoBody => body'[c] = body[c])
    BY <1>4
  <2> QED BY <1>1, <1>4, <2>1, StoreKept
<1>6. ASSUME Endpoint(c) # "embedding" PROVE CallWhole(c)'
  <2>1. CallWhole(c)
    BY <1>6 DEF MadeWhole
  <2>2. CASE body'[c] = Failed(c)
    BY <1>4, <2>2, CallOver, FailedIs
  <2>3. CASE body'[c] = body[c] /\ body[c] # NoBody
    <3>1. CASE body[c].status \notin Terminal
      BY <1>4, <2>3, <3>1, CallOver
    <3>2. CASE body[c].status \in Terminal
      <4>1. made'[<<c, 1>>] = made[<<c, 1>>] /\ told'[c] = told[c] /\ <<c, 1>> \notin live'
        BY <1>1, <1>2, <2>1, <2>3, <3>2 DEF CallWhole
      <4> QED BY <1>4, <2>1, <2>3, <3>2, <4>1 DEF CallWhole, Streams, Endpoint
    <3> QED BY <3>1, <3>2
  <2> QED BY <1>4, <2>2, <2>3
<1>7. \A g \in Gens : g[1] # c => made'[g] = made[g] /\ inbox'[g] = inbox[g] /\ (g \in live' => g \in live)
  BY <1>1, <1>2, <1>3
<1> QED BY <1>3, <1>4, <1>5, <1>6, <1>7, OneCall

LEMMA EngineWhole ==
    ASSUME ServingTypeOK, MadeWhole, FlightInv, NothingLeftBehind, wish' = wish,
           NEW g \in Gens, EngineStep(g)
    PROVE  MadeWhole'
<1> DEFINE c == g[1]
<1>1. /\ g \in live /\ inbox[g] = <<>> /\ c \in Calls
      /\ pc' = pc /\ told' = told /\ body' = body /\ response_store' = response_store
  BY GensAre DEF EngineStep, Stepped, handlerVars, storeVars
<1>2. PICK total, piece \in Outputs, item \in Items :
        /\ made' = [made EXCEPT ![g] = total]
        /\ total.text = made[g].text \o piece.text
        /\ total.tokens = made[g].tokens + piece.tokens
        /\ \/ inbox' = inbox /\ c \notin Streams
           \/ inbox' = [inbox EXCEPT ![g] = <<item>>]
        /\ item # Failure /\ item.output = IF c \in Streams THEN piece ELSE total
        /\ live' \subseteq live
  <2>1. \E total, piece \in Outputs, item \in Items :
          /\ made' = [made EXCEPT ![g] = total]
          /\ total.text = made[g].text \o piece.text
          /\ total.tokens = made[g].tokens + piece.tokens
          /\ \/ inbox' = inbox /\ g[1] \notin Streams /\ Samples(g[1]) > 1
             \/ inbox' = [inbox EXCEPT ![g] = <<item>>]
          /\ item # Failure /\ item.output = IF g[1] \in Streams THEN piece ELSE total
          /\ live' \subseteq live /\ left' \in [Gens -> Int]
    BY StepMakes
  <2> QED BY <2>1
<1>3. pc[c] \in {"running", "done"}
  <2>1. ~AtRest(g)
    BY <1>1 DEF AtRest
  <2> QED BY <1>1, <2>1 DEF FlightInv, ServingTypeOK
<1>4. /\ made'[g] = total
      /\ \A h \in Gens : h # g => made'[h] = made[h] /\ inbox'[h] = inbox[h]
      /\ (inbox'[g] = <<>> /\ c \notin Streams) \/ inbox'[g] = <<item>>
  BY <1>1, <1>2 DEF ServingTypeOK
<1>5. \A h \in Gens : FailuresLast(inbox[h])'
  <2> SUFFICES ASSUME NEW h \in Gens PROVE FailuresLast(inbox[h])'
    OBVIOUS
  <2>1. CASE inbox'[h] = inbox[h]
    BY <2>1 DEF FailuresLast, MadeWhole
  <2>2. CASE inbox'[h] # inbox[h]
    <3>1. inbox'[h] = <<item>>
      BY <1>1, <1>4, <2>2
    <3>2. Len(<<item>>) = 1
      OBVIOUS
    <3>3. Len(inbox'[h]) = 1
      BY <3>1, <3>2
    <3> QED BY <3>3 DEF FailuresLast
  <2> QED BY <2>1, <2>2
<1>6. \A id \in CallIds : StoredWhole(id)'
  BY <1>1 DEF MadeWhole, StoredWhole
<1>7. ASSUME Endpoint(c) # "embedding" PROVE CallWhole(c)'
  <2>1. g = <<c, 1>>
    <3>1. g \in GensOf(c)
      BY <1>1 DEF FlightInv, AtRest
    <3> QED BY <1>1, <1>7, <3>1, Wished
  <2>2. CallWhole(c)
    BY <1>1, <1>7 DEF MadeWhole
  <2>3. ~(body[c] # NoBody /\ body[c].status \in Terminal)
    BY <1>1, <2>1, <2>2 DEF CallWhole
  <2>4. Endpoint(c)' = Endpoint(c) /\ Streams' = Streams
    BY DEF Endpoint, Streams
  <2>5. inbox'[g] = <<item>> => Waiting(c)' = item.output /\ inbox'[g] # <<>>
    <3>1. <<item>>[1] = item /\ <<item>> # <<>>
      OBVIOUS
    <3> QED BY <1>2, <2>1, <3>1 DEF Waiting, Failure, Nothing
  <2>6. told[c] \in Outputs /\ made[g] \in Outputs
    BY <1>1 DEF ServingTypeOK
  <2>7. pc[c] = "running" /\ c \in Streams =>
          /\ total.text = told[c].text \o piece.text
          /\ Endpoint(c) = "responses" \/ total.tokens = told[c].tokens + piece.tokens
    <3> SUFFICES ASSUME pc[c] = "running", c \in Streams
                 PROVE  /\ total.text = told[c].text \o piece.text
                        /\ Endpoint(c) = "responses" \/ total.tokens = told[c].tokens + piece.tokens
      OBVIOUS
    <3>1. Waiting(c) = Nothing
      BY <1>1, <2>1 DEF Waiting
    <3>2. /\ made[g].text = told[c].text \o Nothing.text
          /\ Endpoint(c) = "responses" \/ made[g].tokens = told[c].tokens + Nothing.tokens
      BY <2>1, <2>2, <3>1 DEF CallWhole
    <3>3. told[c].text \o Nothing.text = told[c].text /\ told[c].tokens + Nothing.tokens = told[c].tokens
      <4>1. told[c].text \in Seq(Nat) /\ told[c].tokens \in Nat
        BY <2>6 DEF Outputs
      <4>2. \A t \in Seq(Nat) : t \o Nothing.text = t
        BY ConcatEmptySeq DEF Nothing
      <4>3. \A m \in Nat : m + Nothing.tokens = m
        BY DEF Nothing
      <4> QED BY <4>1, <4>2, <4>3
    <3> QED BY <1>2, <3>2, <3>3
  <2> HIDE DEF c
  <2>8. made'[<<c, 1>>] = total /\ inbox'[<<c, 1>>] = inbox'[g] /\ <<c, 1>> = g
    BY <1>4, <2>1
  <2>9. CASE pc[c] = "done"
    BY <1>1, <2>3, <2>4, <2>9 DEF CallWhole
  <2>10. CASE pc[c] = "running"
    <3>1. /\ pc'[c] = "running" /\ told'[c] = told[c] /\ body'[c] = body[c]
      BY <1>1, <2>10
    <3>2. CASE c \in Streams
      <4>1. inbox'[<<c, 1>>] = <<item>> /\ Waiting(c)' = piece
        BY <1>2, <1>4, <2>5, <2>8, <3>2
      <4> QED BY <2>3, <2>4, <2>7, <2>8, <2>10, <3>1, <3>2, <4>1 DEF CallWhole
    <3>3. CASE c \notin Streams
      <4>1. inbox'[<<c, 1>>] = <<>> \/ Waiting(c)' = total
        BY <1>2, <1>4, <2>5, <2>8, <3>3
      <4> QED BY <2>3, <2>4, <2>8, <3>1, <3>3, <4>1 DEF CallWhole
    <3> QED BY <3>2, <3>3
  <2> QED BY <1>3, <2>9, <2>10
<1>8. \A h \in Gens : h[1] # c => /\ made'[h] = made[h] /\ inbox'[h] = inbox[h]
                                  /\ (h \in live' => h \in live)
  BY <1>2, <1>4
<1> HIDE DEF c
<1> QED BY <1>1, <1>5, <1>6, <1>7, <1>8, OneCall

\* Steps that touch the engine's tables and queues only.
LEMMA TablesWhole ==
    ASSUME ServingTypeOK, MadeWhole, FlightInv, wish' = wish,
           UNCHANGED handlerVars, response_store' = response_store, made' = made, live' \subseteq live,
           \A g \in Gens : FailuresLast(inbox[g])',
           \A c \in Calls : Endpoint(c) # "embedding" =>
               \/ inbox'[<<c, 1>>] = inbox[<<c, 1>>]
               \/ /\ pc[c] \notin {"new", "open"}
                  /\ inbox[<<c, 1>>] # <<>> /\ inbox'[<<c, 1>>] # <<>>
                  /\ inbox'[<<c, 1>>][1] = inbox[<<c, 1>>][1]
               \/ /\ pc[c] \notin {"new", "open"}
                  /\ inbox[<<c, 1>>] = <<>> /\ inbox'[<<c, 1>>] # <<>>
                  /\ inbox'[<<c, 1>>][1] = Failure
    PROVE  MadeWhole'
<1>1. \A c : Endpoint(c)' = Endpoint(c)
  BY DEF Endpoint
<1>2. /\ pc' = pc /\ told' = told /\ body' = body /\ Streams' = Streams
  BY DEF handlerVars, Streams
<1>3. ASSUME NEW c \in Calls, Endpoint(c) # "embedding" PROVE CallWhole(c)'
  <2>1. CallWhole(c)
    BY <1>3 DEF MadeWhole
  <2>2. Waiting(c)' = Waiting(c)
    BY <1>3 DEF Waiting
  <2>3. \/ inbox'[<<c, 1>>] = inbox[<<c, 1>>]
        \/ /\ pc[c] \notin {"new", "open"} /\ inbox[<<c, 1>>] # <<>> /\ inbox'[<<c, 1>>] # <<>>
           /\ inbox'[<<c, 1>>][1] = inbox[<<c, 1>>][1]
        \/ /\ pc[c] \notin {"new", "open"} /\ inbox'[<<c, 1>>] # <<>>
           /\ inbox'[<<c, 1>>][1] = Failure
    BY <1>3
  <2>4. made' = made /\ (<<c, 1>> \in live' => <<c, 1>> \in live)
    OBVIOUS
  <2> QED BY <1>1, <1>2, <2>1, <2>2, <2>3, <2>4 DEF CallWhole
<1>4. \A id \in CallIds : StoredWhole(id)'
  BY <1>2 DEF MadeWhole, StoredWhole
<1> QED BY <1>1, <1>3, <1>4 DEF MadeWhole

LEMMA EngineTables ==
    ASSUME ServingTypeOK, MadeWhole, FlightInv, NothingLeftBehind, wish' = wish,
           \/ EngineDies \/ \E g \in Gens : QuietStep(g) \/ DocumentDone(g) \/ CloseOrphan(g)
           \/ \E id \in CallIds : CancelResponse(id)
    PROVE  MadeWhole'
<1>1. CASE EngineDies
  <2>1. /\ UNCHANGED handlerVars /\ response_store' = response_store /\ made' = made /\ live' \subseteq live
        /\ \A g \in Gens : inbox'[g] = IF Registered(g) THEN Append(inbox[g], Failure) ELSE inbox[g]
    BY <1>1 DEF EngineDies, storeVars
  <2>2. ASSUME NEW g \in Gens
        PROVE  /\ FailuresLast(inbox[g])'
               /\ \/ inbox'[g] = inbox[g]
                  \/ /\ Registered(g) /\ inbox'[g] # <<>>
                     /\ inbox'[g][1] = IF inbox[g] = <<>> THEN Failure ELSE inbox[g][1]
    <3>1. PICK q \in Seq(Items) : q = inbox[g] /\ FailuresLast(q)
      BY DEF ServingTypeOK, MadeWhole
    <3>2. /\ FailuresLast(Append(q, Failure)) /\ Append(q, Failure) # <<>>
          /\ Append(q, Failure)[1] = IF q = <<>> THEN Failure ELSE q[1]
      BY <3>1, FailureAdded
    <3>3. CASE Registered(g)
      <4>1. inbox'[g] = Append(q, Failure)
        BY <2>1, <3>1, <3>3
      <4> QED BY <3>1, <3>2, <3>3, <4>1 DEF FailuresLast
    <3>4. CASE ~Registered(g)
      BY <2>1, <3>1, <3>4 DEF FailuresLast
    <3> QED BY <3>3, <3>4
  <2>3. ASSUME NEW c \in Calls, Endpoint(c) # "embedding"
        PROVE  \/ inbox'[<<c, 1>>] = inbox[<<c, 1>>]
               \/ /\ pc[c] \notin {"new", "open"} /\ inbox[<<c, 1>>] # <<>> /\ inbox'[<<c, 1>>] # <<>>
                  /\ inbox'[<<c, 1>>][1] = inbox[<<c, 1>>][1]
               \/ /\ pc[c] \notin {"new", "open"} /\ inbox[<<c, 1>>] = <<>> /\ inbox'[<<c, 1>>] # <<>>
                  /\ inbox'[<<c, 1>>][1] = Failure
    <3>1. <<c, 1>> \in Gens /\ <<c, 1>>[1] = c
      BY Wished
    <3>2. pc[c] \in {"new", "open"} => ~Registered(<<c, 1>>)
      BY <3>1 DEF FlightInv, AtRest
    <3> QED BY <2>2, <3>1, <3>2
  <2> QED BY <2>1, <2>2, <2>3, TablesWhole
<1>2. ASSUME NEW g \in Gens, DocumentDone(g) PROVE MadeWhole'
  <2>1. /\ UNCHANGED handlerVars /\ response_store' = response_store /\ made' = made
        /\ Endpoint(g[1]) = "embedding" /\ Released({g})
        /\ inbox[g] # <<>> /\ inbox' = [inbox EXCEPT ![g] = Tail(inbox[g])]
    BY <1>2 DEF DocumentDone, storeVars
  <2>2. live' \subseteq live
    BY <2>1, ReleasedRest DEF Shrinks
  <2>3. PICK q \in Seq(Items) : q = inbox[g] /\ q # <<>> /\ FailuresLast(q)
    BY <2>1 DEF ServingTypeOK, MadeWhole
  <2>4. FailuresLast(Tail(q)) /\ inbox'[g] = Tail(q)
    BY <2>1, <2>3, TailFails DEF ServingTypeOK
  <2>5. ASSUME NEW h \in Gens PROVE FailuresLast(inbox[h])'
    <3>1. CASE h = g
      BY <2>4, <3>1 DEF FailuresLast
    <3>2. CASE h # g
      <4>1. inbox'[h] = inbox[h]
        BY <2>1, <3>2 DEF ServingTypeOK
      <4> QED BY <4>1 DEF FailuresLast, MadeWhole
    <3> QED BY <3>1, <3>2
  <2>6. ASSUME NEW c \in Calls, Endpoint(c) # "embedding" PROVE inbox'[<<c, 1>>] = inbox[<<c, 1>>]
    <3>1. <<c, 1>> # g /\ <<c, 1>> \in Gens
      BY <2>1, <2>6, Wished
    <3> QED BY <2>1, <3>1 DEF ServingTypeOK
  <2> QED BY <2>1, <2>2, <2>5, <2>6, TablesWhole
<1>3. ASSUME NEW g \in Gens, CloseOrphan(g) PROVE MadeWhole'
  <2>1. /\ UNCHANGED handlerVars /\ response_store' = response_store /\ made' = made
        /\ Released({g}) /\ inbox' = inbox
    BY <1>3 DEF CloseOrphan, storeVars
  <2>2. live' \subseteq live
    BY <2>1, ReleasedRest DEF Shrinks
  <2>3. \A h \in Gens : FailuresLast(inbox[h])'
    BY <2>1 DEF FailuresLast, MadeWhole
  <2> QED BY <2>1, <2>2, <2>3, TablesWhole
<1>4. ASSUME NEW id \in CallIds, CancelResponse(id) PROVE MadeWhole'
  <2>1. response_store' = response_store /\ live' = live
    <3>1. response_store[id] # NoBody /\ response_store[id].status \in Terminal
      BY <1>4 DEF CancelResponse, MadeWhole, StoredWhole
    <3> QED BY <1>4, <3>1 DEF CancelResponse
  <2>2. UNCHANGED handlerVars /\ made' = made /\ inbox' = inbox
    BY <1>4 DEF CancelResponse
  <2>3. \A h \in Gens : FailuresLast(inbox[h])'
    BY <2>2 DEF FailuresLast, MadeWhole
  <2> QED BY <2>1, <2>2, <2>3, TablesWhole
<1>5. ASSUME NEW g \in Gens, QuietStep(g) PROVE MadeWhole'
  <2>1. /\ UNCHANGED handlerVars /\ response_store' = response_store /\ made' = made
        /\ live' = live /\ inbox' = inbox
    BY <1>5 DEF QuietStep, storeVars
  <2>2. \A h \in Gens : FailuresLast(inbox[h])'
    BY <2>1 DEF FailuresLast, MadeWhole
  <2> QED BY <2>1, <2>2, TablesWhole
<1> QED BY <1>1, <1>2, <1>3, <1>4, <1>5

LEMMA StartDocumentsWhole ==
    ASSUME ServingTypeOK, MadeWhole, FlightInv, wish' = wish, NEW c \in Calls, StartDocuments(c)
    PROVE  MadeWhole'
<1>1. PICK bad \in SUBSET GensOf(c) :
        /\ Endpoint(c) = "embedding" /\ pc[c] = "open"
        /\ pc' = [pc EXCEPT ![c] = "running"]
        /\ inbox' = [g \in Gens |-> IF g \in bad THEN <<Failure>> ELSE inbox[g]]
        /\ live' = live \cup (GensOf(c) \ bad)
        /\ told' = told /\ body' = body /\ made' = made /\ response_store' = response_store
  BY DEF StartDocuments, storeVars
<1>2. \A g \in GensOf(c) : g[1] = c
  BY DEF GensOf
<1>3. \A d \in Calls : d # c => pc'[d] = pc[d] /\ told'[d] = told[d] /\ body'[d] = body[d]
  BY <1>1 DEF ServingTypeOK
<1>4. \A g \in Gens : g[1] # c => made'[g] = made[g] /\ inbox'[g] = inbox[g] /\ (g \in live' => g \in live)
  BY <1>1, <1>2
<1>5. ASSUME NEW g \in Gens PROVE FailuresLast(inbox[g])'
  <2>1. CASE g \in bad
    <3>1. Len(<<Failure>>) = 1 /\ inbox'[g] = <<Failure>>
      BY <1>1, <2>1
    <3>2. Len(inbox'[g]) = 1
      BY <3>1
    <3> QED BY <3>2 DEF FailuresLast
  <2>2. CASE g \notin bad
    BY <1>1, <2>2 DEF FailuresLast, MadeWhole
  <2> QED BY <2>1, <2>2
<1>6. \A id \in CallIds : StoredWhole(id)'
  <2>1. pc[c] \notin {"closing", "done"}
    BY <1>1
  <2> QED BY <1>1, <1>3, <2>1, StoreKept
<1> QED BY <1>1, <1>3, <1>4, <1>5, <1>6, OneCall

LEMMA WholePreserved ==
    ASSUME ServingTypeOK, MadeWhole, FlightInv, NothingLeftBehind, [ServingNext]_svars
    PROVE  MadeWhole'
<1>1. CASE UNCHANGED svars
  <2>1. wish' = wish /\ UNCHANGED handlerVars /\ response_store' = response_store
        /\ made' = made /\ inbox' = inbox /\ live' = live
    BY <1>1 DEF svars, storeVars, engineVars
  <2>2. \A g \in Gens : FailuresLast(inbox[g])'
    BY <2>1 DEF MadeWhole, FailuresLast
  <2> QED BY <2>1, <2>2, TablesWhole
<1>2. CASE ServingStep /\ wish' = wish
  BY <1>2, QuietWhole, OutputWhole, EndsWhole, EngineWhole, EngineTables, StartDocumentsWhole
     DEF ServingStep
<1> QED BY <1>1, <1>2 DEF ServingNext

\* What every step does to the streams.
LEMMA StreamsPreserved ==
    ASSUME ServingTypeOK, FlightInv, StreamsRuled, [ServingNext]_svars
    PROVE  /\ StreamsRuled' /\ events' \in [Calls -> Seq(Frames)] /\ told' \in [Calls -> Outputs]
<1>1. events \in [Calls -> Seq(Frames)] /\ told \in [Calls -> Outputs]
  BY DEF ServingTypeOK
<1>2. wish' = wish
  BY DEF ServingNext, svars
<1>3. CASE UNCHANGED handlerVars /\ gone' = gone
  <2>1. events' = events /\ told' = told
    BY <1>3 DEF handlerVars
  <2> QED BY <1>1, <1>2, <1>3, <2>1, StreamsUnmoved
<1>4. ASSUME NEW c \in Calls, Refuse(c) \/ Create(c) \/ CreateResponse(c) \/ Start(c)
                              \/ LastEvent(c) \/ ReadFailure(c)
      PROVE  StreamsRuled' /\ events' \in [Calls -> Seq(Frames)] /\ told' = told
  BY <1>1, <1>2, <1>4, AdmissionStreams, StartStreams, LastEventStreams, FailureStreams
<1>5. ASSUME NEW c \in Calls, StreamOutput(c)
      PROVE  StreamsRuled' /\ events' \in [Calls -> Seq(Frames)] /\ told' \in [Calls -> Outputs]
  <2>1. /\ StreamsRuled' /\ events' \in [Calls -> Seq(Frames)]
        /\ told' = [told EXCEPT ![c] = ToldMore(c, Item(c).output)]
        /\ ToldMore(c, Item(c).output) \in Outputs
    BY <1>2, <1>5, OutputStreams
  <2> QED BY <1>1, <2>1
<1>6. ASSUME NEW c \in Calls,
             \/ BodyOutput(c) \/ StartDocuments(c) \/ FailDocuments(c) \/ AllDocuments(c)
             \/ Leave(c) \/ CancelStream(c) \/ NoticeGone(c)
      PROVE  StreamsRuled' /\ events' \in [Calls -> Seq(Frames)] /\ told' \in [Calls -> Outputs]
  <2>1. /\ StreamsRuled' /\ events' = events
        /\ told' = told \/ (told' = [told EXCEPT ![c] = Item(c).output] /\ HasItem(c))
    BY <1>2, <1>6, SilentStreams
  <2>2. HasItem(c) => Item(c).output \in Outputs
    BY ItemIs
  <2> QED BY <1>1, <2>1, <2>2
<1>7. ASSUME NEW g \in Gens, EngineStep(g) \/ QuietStep(g) \/ DocumentDone(g) \/ CloseOrphan(g)
      PROVE  UNCHANGED handlerVars /\ gone' = gone
  BY <1>7 DEF EngineStep, QuietStep, DocumentDone, CloseOrphan
<1>8. (\E id \in CallIds : CancelResponse(id)) \/ EngineDies => UNCHANGED handlerVars /\ gone' = gone
  BY DEF CancelResponse, EngineDies
<1>9. UNCHANGED svars => UNCHANGED handlerVars /\ gone' = gone
  BY DEF svars
<1> QED BY <1>1, <1>3, <1>4, <1>5, <1>6, <1>7, <1>8, <1>9 DEF ServingNext, ServingStep

\* The types of the tables of the engine and of the queues.
EngineTypes ==
    /\ queues \in [FlightIds -> Gens \cup {NoGen}] /\ live \subseteq Gens
    /\ made \in [Gens -> Outputs] /\ left \in [Gens -> Int] /\ inbox \in [Gens -> Seq(Items)]
    /\ orphan \in [Gens -> {"no", "fresh", "due"}]

LEMMA ReleasedTypes ==
    ASSUME ServingTypeOK, FlightInv, MadeWhole, NEW g \in Gens, inbox[g] # <<>>,
           inbox' = [inbox EXCEPT ![g] = Tail(@)]
    PROVE  inbox' \in [Gens -> Seq(Items)]
<1>1. PICK q \in Seq(Items) : q = inbox[g] /\ q # <<>> /\ FailuresLast(q)
  BY DEF ServingTypeOK, MadeWhole
<1>2. Tail(q) \in Seq(Items)
  BY <1>1, TailFails
<1> QED BY <1>1, <1>2 DEF ServingTypeOK

LEMMA CallTypes ==
    ASSUME ServingTypeOK, FlightInv, MadeWhole, wish' = wish, NEW c \in Calls,
           \/ Refuse(c) \/ Create(c) \/ CreateResponse(c) \/ Start(c)
           \/ StreamOutput(c) \/ LastEvent(c) \/ BodyOutput(c) \/ ReadFailure(c)
           \/ StartDocuments(c) \/ FailDocuments(c) \/ AllDocuments(c)
           \/ Leave(c) \/ CancelStream(c) \/ NoticeGone(c)
    PROVE  EngineTypes'
<1>1. EngineTypes
  BY DEF ServingTypeOK, EngineTypes
<1>2. <<c, 1>> \in Gens /\ GensOf(c) \in SUBSET Gens /\ {<<c, 1>>} \in SUBSET Gens
  BY Wished
<1>3. ASSUME NEW gs \in SUBSET Gens, Released(gs)
      PROVE  queues' \in [FlightIds -> Gens \cup {NoGen}] /\ live' \subseteq Gens
  BY <1>3, ReleasedRest
<1>4. UNCHANGED engineVars => EngineTypes'
  BY <1>1 DEF engineVars, EngineTypes
<1>5. CASE Refuse(c) \/ Create(c) \/ CreateResponse(c) \/ LastEvent(c) \/ AllDocuments(c) \/ Leave(c)
  BY <1>4, <1>5 DEF Refuse, Create, CreateResponse, Reject, LastEvent, AllDocuments, Leave
<1>6. CASE Start(c)
  <2>1. UNCHANGED engineVars \/ Enter(<<c, 1>>)
    BY <1>6 DEF Start
  <2>2. Enter(<<c, 1>>) => EngineTypes'
    BY <1>1, <1>2 DEF Enter, EngineTypes
  <2> QED BY <1>4, <2>1, <2>2
<1>7. CASE StreamOutput(c) \/ BodyOutput(c) \/ ReadFailure(c) \/ NoticeGone(c)
  <2>1. /\ Taken(c) /\ inbox[<<c, 1>>] # <<>> /\ made' = made /\ left' = left
        /\ Released({<<c, 1>>}) \/ (queues' = queues /\ live' = live)
        /\ orphan' = orphan \/ orphan' = [orphan EXCEPT ![<<c, 1>>] = "fresh"]
    BY <1>7 DEF StreamOutput, BodyOutput, ReadFailure, NoticeGone, Ends, Reads, HasItem
  <2>2. inbox' \in [Gens -> Seq(Items)]
    BY <1>2, <2>1, ReleasedTypes DEF Taken
  <2>3. queues' \in [FlightIds -> Gens \cup {NoGen}] /\ live' \subseteq Gens
    BY <1>1, <1>2, <1>3, <2>1 DEF EngineTypes
  <2> QED BY <1>1, <2>1, <2>2, <2>3 DEF EngineTypes
<1>8. CASE CancelStream(c)
  <2>1. /\ made' = made /\ left' = left /\ inbox' = inbox /\ orphan' = orphan
        /\ Released({<<c, 1>>}) \/ (queues' = queues /\ live' = live)
    BY <1>8 DEF CancelStream
  <2>2. queues' \in [FlightIds -> Gens \cup {NoGen}] /\ live' \subseteq Gens
    BY <1>1, <1>2, <1>3, <2>1 DEF EngineTypes
  <2> QED BY <1>1, <2>1, <2>2 DEF EngineTypes
<1>9. CASE FailDocuments(c)
  <2>1. /\ made' = made /\ left' = left /\ orphan' = orphan /\ Released(GensOf(c))
        /\ inbox' = [g \in Gens |-> IF g[1] = c THEN <<>> ELSE inbox[g]]
    BY <1>9 DEF FailDocuments
  <2>2. queues' \in [FlightIds -> Gens \cup {NoGen}] /\ live' \subseteq Gens
    BY <1>2, <1>3, <2>1
  <2>3. <<>> \in Seq(Items)
    BY EmptySeq
  <2>4. inbox' \in [Gens -> Seq(Items)]
    BY <1>1, <2>1, <2>3 DEF EngineTypes
  <2> QED BY <1>1, <2>1, <2>2, <2>4 DEF EngineTypes
<1>10. CASE StartDocuments(c)
  <2>1. PICK bad \in SUBSET GensOf(c) :
          /\ made' = made /\ left' = left /\ orphan' = orphan
          /\ inbox' = [g \in Gens |-> IF g \in bad THEN <<Failure>> ELSE inbox[g]]
          /\ queues' = [i \in FlightIds |->
                        IF \E g \in GensOf(c) \ bad : GenId(g) = i
                        THEN CHOOSE g \in GensOf(c) \ bad : GenId(g) = i
                        ELSE queues[i]]
          /\ live' = live \cup (GensOf(c) \ bad)
    BY <1>10 DEF StartDocuments
  <2>2. queues' \in [FlightIds -> Gens \cup {NoGen}] /\ live' \subseteq Gens
    BY <1>1, <1>2, <2>1 DEF EngineTypes
  <2>3. <<Failure>> \in Seq(Items)
    <3>1. Failure \in Items
      <4>1. <<>> \in Seq(Nat)
        BY EmptySeq
      <4>2. Nothing \in Outputs
        BY <4>1 DEF Nothing, Outputs
      <4> QED BY <4>2 DEF Failure, Items
    <3> HIDE DEF Failure
    <3> QED BY <3>1
  <2>4. inbox' \in [Gens -> Seq(Items)]
    BY <1>1, <2>1, <2>3 DEF EngineTypes
  <2> QED BY <1>1, <2>1, <2>2, <2>4 DEF EngineTypes
<1> QED BY <1>5, <1>6, <1>7, <1>8, <1>9, <1>10

LEMMA EngineKeepsTypes ==
    ASSUME ServingTypeOK, FlightInv, MadeWhole, wish' = wish,
           \/ \E g \in Gens : EngineStep(g) \/ QuietStep(g) \/ DocumentDone(g) \/ CloseOrphan(g)
           \/ \E id \in CallIds : CancelResponse(id)
           \/ EngineDies
    PROVE  EngineTypes'
<1>1. EngineTypes
  BY DEF ServingTypeOK, EngineTypes
<1>2. ASSUME NEW g \in Gens, Released({g})
      PROVE  queues' \in [FlightIds -> Gens \cup {NoGen}] /\ live' \subseteq Gens
  BY <1>2, ReleasedRest
<1>3. ASSUME NEW g \in Gens, EngineStep(g) PROVE EngineTypes'
  <2>1. PICK total \in Outputs, item \in Items :
          /\ made' = [made EXCEPT ![g] = total]
          /\ inbox' = inbox \/ inbox' = [inbox EXCEPT ![g] = <<item>>]
          /\ live' \subseteq live /\ left' \in [Gens -> Int]
    BY <1>3, StepMakes
  <2>2. <<item>> \in Seq(Items)
    OBVIOUS
  <2>3. made' \in [Gens -> Outputs] /\ inbox' \in [Gens -> Seq(Items)]
    BY <1>1, <2>1, <2>2 DEF EngineTypes
  <2>4. orphan' \in [Gens -> {"no", "fresh", "due"}] /\ queues' = queues
    BY <1>1, <1>3 DEF EngineStep, Counted, EngineTypes
  <2> QED BY <1>1, <2>1, <2>3, <2>4 DEF EngineTypes
<1>4. ASSUME NEW g \in Gens, DocumentDone(g) PROVE EngineTypes'
  <2>1. /\ inbox[g] # <<>> /\ inbox' = [inbox EXCEPT ![g] = Tail(@)] /\ Released({g})
        /\ made' = made /\ left' = left /\ orphan' = orphan
    BY <1>4 DEF DocumentDone
  <2>2. inbox' \in [Gens -> Seq(Items)]
    BY <2>1, ReleasedTypes
  <2> QED BY <1>1, <1>2, <2>1, <2>2 DEF EngineTypes
<1>5. ASSUME NEW g \in Gens, CloseOrphan(g) PROVE EngineTypes'
  <2>1. /\ Released({g}) /\ made' = made /\ left' = left /\ inbox' = inbox
        /\ orphan' = [orphan EXCEPT ![g] = "no"]
    BY <1>5 DEF CloseOrphan
  <2> QED BY <1>1, <1>2, <2>1 DEF EngineTypes
<1>6. ASSUME NEW id \in CallIds, CancelResponse(id) PROVE EngineTypes'
  <2>1. /\ queues' = queues \/ queues' = [queues EXCEPT ![id] = NoGen]
        /\ live' \subseteq live
        /\ made' = made /\ left' = left /\ inbox' = inbox /\ orphan' = orphan
    BY <1>6 DEF CancelResponse
  <2> QED BY <1>1, <2>1 DEF EngineTypes
<1>7. CASE EngineDies
  <2>1. /\ live' = {} /\ queues' = queues /\ made' = made /\ left' = left /\ orphan' = orphan
        /\ inbox' = [g \in Gens |-> IF Registered(g) THEN Append(inbox[g], Failure) ELSE inbox[g]]
    BY <1>7 DEF EngineDies
  <2>2. \A g \in Gens : Append(inbox[g], Failure) \in Seq(Items)
    <3> SUFFICES ASSUME NEW g \in Gens PROVE Append(inbox[g], Failure) \in Seq(Items)
      OBVIOUS
    <3>1. inbox[g] \in Seq(Items) /\ FailuresLast(inbox[g])
      BY <1>1 DEF EngineTypes, MadeWhole
    <3> QED BY <3>1, FailureAdded
  <2>3. inbox' \in [Gens -> Seq(Items)]
    <3> HIDE DEF Failure
    <3> QED BY <1>1, <2>1, <2>2 DEF EngineTypes
  <2> QED BY <1>1, <2>1, <2>3 DEF EngineTypes
<1>8. ASSUME NEW g \in Gens, QuietStep(g) PROVE EngineTypes'
  BY <1>1, <1>8 DEF QuietStep, Counted, EngineTypes
<1> QED BY <1>3, <1>4, <1>5, <1>6, <1>7, <1>8

\* The rest of the types: where a call is, what it ended with, who has left.
CallsTyped ==
    /\ pc \in [Calls -> {"new", "open", "running", "closing", "done"}]
    /\ DOMAIN rid = Calls /\ DOMAIN body = Calls /\ DOMAIN response_store = CallIds
    /\ gone \subseteq Calls /\ lag \in [Gens -> Nat]

LEMMA CallsStayTyped ==
    ASSUME ServingTypeOK, [ServingNext]_svars
    PROVE  CallsTyped'
<1>1. CallsTyped
  BY DEF ServingTypeOK, CallsTyped
<1>2. ASSUME NEW c \in Calls, Refuse(c) \/ Create(c) \/ CreateResponse(c) PROVE CallsTyped'
  <2>1. CASE Refuse(c) \/ Create(c)
    BY <1>1, <2>1 DEF Refuse, Create, Reject, CallsTyped
  <2>2. CASE CreateResponse(c)
    <3>1. /\ \E x \in {"open", "done"} : pc' = [pc EXCEPT ![c] = x]
          /\ rid' = rid \/ \E i : rid' = [rid EXCEPT ![c] = i]
          /\ body' = body \/ body' = [body EXCEPT ![c] = Failed(c)]
          /\ response_store' = response_store /\ gone' = gone /\ lag' = lag
      BY <2>2 DEF CreateResponse, Reject
    <3> QED BY <1>1, <3>1 DEF CallsTyped
  <2> QED BY <1>2, <2>1, <2>2
<1>3. ASSUME NEW c \in Calls, Start(c) \/ LastEvent(c) \/ ReadFailure(c) PROVE CallsTyped'
  <2>1. /\ \E x \in {"running", "done"} : pc' = [pc EXCEPT ![c] = x]
        /\ rid' = rid /\ response_store' = response_store /\ gone' = gone /\ lag' = lag
        /\ body' = body \/ body' = [body EXCEPT ![c] = Failed(c)]
    BY <1>3 DEF Start, LastEvent, ReadFailure, storeVars
  <2> QED BY <1>1, <2>1 DEF CallsTyped
<1>4. ASSUME NEW c \in Calls, StreamOutput(c) \/ BodyOutput(c) PROVE CallsTyped'
  <2>1. /\ pc' = pc \/ \E x \in {"closing", "done"} : pc' = [pc EXCEPT ![c] = x]
        /\ rid' = rid /\ gone' = gone /\ lag' = lag
        /\ response_store' = response_store \/ \E i, x : response_store' = [response_store EXCEPT ![i] = x]
        /\ body' = body \/ \E x : body' = [body EXCEPT ![c] = x]
    BY <1>4 DEF StreamOutput, BodyOutput
  <2> QED BY <1>1, <2>1 DEF CallsTyped
<1>5. ASSUME NEW c \in Calls,
             \/ StartDocuments(c) \/ FailDocuments(c) \/ AllDocuments(c)
             \/ Leave(c) \/ CancelStream(c) \/ NoticeGone(c)
      PROVE  CallsTyped'
  <2>1. /\ pc' = pc \/ \E x \in {"running", "done"} : pc' = [pc EXCEPT ![c] = x]
        /\ rid' = rid /\ response_store' = response_store /\ lag' = lag
        /\ gone' = gone \/ gone' = gone \cup {c}
        /\ body' = body \/ \E x : body' = [body EXCEPT ![c] = x]
    BY <1>5 DEF StartDocuments, FailDocuments, AllDocuments, Leave, CancelStream, NoticeGone, Ends,
                storeVars, handlerVars
  <2> QED BY <1>1, <2>1 DEF CallsTyped
<1>6. ASSUME UNCHANGED handlerVars, gone' = gone, lag' \in [Gens -> Nat],
             response_store' = response_store \/ \E i, x : response_store' = [response_store EXCEPT ![i] = x]
      PROVE  CallsTyped'
  BY <1>1, <1>6 DEF handlerVars, CallsTyped
<1>7. ASSUME NEW g \in Gens, EngineStep(g) \/ QuietStep(g) \/ DocumentDone(g) \/ CloseOrphan(g)
      PROVE  CallsTyped'
  <2>1. /\ UNCHANGED handlerVars /\ gone' = gone /\ response_store' = response_store
        /\ lag' = lag \/ lag' = [lag EXCEPT ![g] = IF g[1] \in gone /\ @ < MaxLag THEN @ + 1 ELSE @]
    BY <1>7 DEF EngineStep, QuietStep, Counted, DocumentDone, CloseOrphan, storeVars
  <2>2. lag' \in [Gens -> Nat]
    BY <1>1, <2>1, GensAre DEF CallsTyped
  <2> QED BY <1>6, <2>1, <2>2
<1>8. (\E id \in CallIds : CancelResponse(id)) => CallsTyped'
  <2> SUFFICES ASSUME NEW id \in CallIds, CancelResponse(id) PROVE CallsTyped'
    OBVIOUS
  <2>1. /\ UNCHANGED handlerVars /\ gone' = gone /\ lag' = lag
        /\ response_store' = response_store
             \/ response_store' = [response_store EXCEPT ![id].status = "cancelled"]
    BY DEF CancelResponse
  <2>2. DOMAIN response_store' = CallIds
    BY <1>1, <2>1 DEF CallsTyped
  <2> QED BY <1>1, <2>1, <2>2 DEF handlerVars, CallsTyped
<1>9. EngineDies => CallsTyped'
  BY <1>1, <1>6 DEF EngineDies, storeVars, CallsTyped
<1>10. UNCHANGED svars => CallsTyped'
  BY <1>1, <1>6 DEF svars, storeVars, CallsTyped
<1> QED BY <1>2, <1>3, <1>4, <1>5, <1>7, <1>8, <1>9, <1>10 DEF ServingNext, ServingStep

LEMMA TypesPreserved ==
    ASSUME ServingTypeOK, FlightInv, MadeWhole, StreamsRuled, [ServingNext]_svars
    PROVE  ServingTypeOK'
<1>1. wish' = wish
  BY DEF ServingNext, svars
<1>2. EngineTypes'
  <2>1. UNCHANGED svars => EngineTypes'
    BY DEF svars, engineVars, EngineTypes, ServingTypeOK
  <2> QED BY <1>1, <2>1, CallTypes, EngineKeepsTypes DEF ServingNext, ServingStep
<1>3. events' \in [Calls -> Seq(Frames)] /\ told' \in [Calls -> Outputs]
  BY StreamsPreserved
<1>4. CallsTyped'
  BY CallsStayTyped
<1> QED BY <1>1, <1>2, <1>3, <1>4 DEF ServingTypeOK, EngineTypes, CallsTyped

------------------------------------------------------------------------------
(* The invariant and the theorems.                                          *)

Holds == ServingTypeOK /\ FlightInv /\ NothingLeftBehind /\ StreamsRuled /\ MadeWhole

LEMMA HoldsAtFirst == ASSUME ServingInit PROVE Holds
<1>1. <<>> \in Seq(Nat) /\ <<>> \in Seq(Frames) /\ <<>> \in Seq(Items) /\ Len(<<>>) = 0
  BY EmptySeq
<1>2. Nothing \in Outputs /\ Nothing.text = <<>>
  BY <1>1 DEF Nothing, Outputs
<1>3. /\ \A i \in FlightIds : queues[i] = NoGen
      /\ \A g \in Gens : g # NoGen /\ g[1] \in Calls
  BY GensAre DEF ServingInit
<1>4. \A c \in Calls : Samples(c) \in Int
  <2> SUFFICES ASSUME NEW c \in Calls PROVE Samples(c) \in Int
    OBVIOUS
  <2>1. wish[c] \in Wishes
    BY ServingAssumption DEF ServingInit
  <2> QED BY <2>1 DEF Samples, Wishes
<1>5. ServingTypeOK
  <2>1. /\ wish \in Workloads
        /\ pc \in [Calls -> {"new", "open", "running", "closing", "done"}]
        /\ DOMAIN rid = Calls /\ DOMAIN body = Calls /\ DOMAIN response_store = CallIds
        /\ queues \in [FlightIds -> Gens \cup {NoGen}] /\ live \subseteq Gens
        /\ orphan \in [Gens -> {"no", "fresh", "due"}] /\ gone \subseteq Calls
        /\ lag \in [Gens -> Nat]
    BY DEF ServingInit
  <2>2. events \in [Calls -> Seq(Frames)] /\ inbox \in [Gens -> Seq(Items)]
    BY <1>1 DEF ServingInit
  <2>3. told \in [Calls -> Outputs] /\ made \in [Gens -> Outputs]
    BY <1>2 DEF ServingInit
  <2>4. left \in [Gens -> Int]
    BY <1>3, <1>4 DEF ServingInit
  <2> QED BY <2>1, <2>2, <2>3, <2>4 DEF ServingTypeOK
<1>6. \A g \in Gens : AtRest(g) /\ pc[g[1]] = "new" /\ left[g] = Samples(g[1]) /\ ~Registered(g)
  BY <1>3 DEF ServingInit, AtRest, Registered
<1>7. FlightInv /\ NothingLeftBehind
  BY <1>3, <1>6 DEF FlightInv, NothingLeftBehind, ServingInit
<1>8. StreamsRuled
  <2> SUFFICES ASSUME NEW c \in Streams
               PROVE  StreamRule(EndTypes(c), Endpoint(c), pc[c], rid[c] # NoId, events[c], told[c], c \in gone)
    BY DEF StreamsRuled
  <2>1. /\ c \in Calls /\ pc[c] = "new" /\ rid[c] = NoId /\ events[c] = <<>> /\ told[c] = Nothing
    BY DEF ServingInit, Streams
  <2>2. InOrder(<<>>, EndTypes(c)) /\ TypesIn(<<>>) = {} /\ Pieces(<<>>) = <<>>
    BY NothingSent DEF Going
  <2>3. InOrder(events[c], EndTypes(c)) /\ TypesIn(events[c]) = {} /\ Pieces(events[c]) = told[c].text
    BY <1>2, <2>1, <2>2
  <2> QED BY <2>1, <2>3 DEF StreamRule
<1>9. MadeWhole
  <2>1. \A g \in Gens : FailuresLast(inbox[g])
    <3> SUFFICES ASSUME NEW g \in Gens PROVE FailuresLast(inbox[g])
      OBVIOUS
    <3>1. Len(inbox[g]) = 0
      BY <1>1 DEF ServingInit
    <3> QED BY <3>1 DEF FailuresLast
  <2>2. ASSUME NEW c \in Calls PROVE CallWhole(c)
    <3>1. <<c, 1>> \in Gens
      BY DEF Gens
    <3> QED BY <3>1 DEF CallWhole, ServingInit
  <2>3. \A id \in CallIds : StoredWhole(id)
    BY DEF ServingInit, StoredWhole
  <2> QED BY <2>1, <2>2, <2>3 DEF MadeWhole
<1> QED BY <1>5, <1>7, <1>8, <1>9 DEF Holds

LEMMA HoldsOn == ASSUME Holds, [ServingNext]_svars PROVE Holds'
<1>1. ServingTypeOK /\ FlightInv /\ NothingLeftBehind /\ StreamsRuled /\ MadeWhole
  BY DEF Holds
<1>2. FlightInv' /\ NothingLeftBehind'
  BY <1>1, FlightPreserved
<1>3. StreamsRuled' /\ ServingTypeOK'
  BY <1>1, StreamsPreserved, TypesPreserved
<1>4. MadeWhole'
  BY <1>1, WholePreserved
<1> QED BY <1>2, <1>3, <1>4 DEF Holds

\* The invariant of the endpoints: where every generator is, what every stream has sent
\* and what every call has been told of what was made for it.
THEOREM ServingInvariant == ServingSpec => []ServingInv
<1>1. ServingInit => Holds
  BY HoldsAtFirst
<1>2. Holds /\ [ServingNext]_svars => Holds'
  BY HoldsOn
<1>3. Holds => ServingInv
  <2>1. StreamsRuled => FramesInv /\ EventsInOrder /\ \A c \in Streams : Pieces(events[c]) = told[c].text
    BY StreamsRuledIs
  <2> QED BY <2>1, Whole DEF Holds, ServingInv, MadeWhole
<1> QED BY <1>1, <1>2, <1>3, PTL DEF ServingSpec

\* The generators of generate() and encode(): a call that has been answered leaves no
\* queue under its id and no request that runs, whatever ended it.
THEOREM AnsweredCallsLeaveNothing == ServingSpec => []NothingLeftBehind
<1>1. ServingInv => NothingLeftBehind
  BY DEF ServingInv
<1> QED BY <1>1, ServingInvariant, PTL

\* stream_responses, _stream and convert_stream_to_sse_events: what a stream sends is what
\* its clients parse, whichever of the completion, a failure or a disconnect ends it.
THEOREM StreamsAreInOrder == ServingSpec => []EventsInOrder
<1>1. ServingInv => EventsInOrder
  BY DEF ServingInv
<1> QED BY <1>1, ServingInvariant, PTL

\* The adding up of _complete, _stream and stream_responses: a body, a stream and a stored
\* answer hold the text of every token that was made, and the older endpoints bill them.
THEOREM AnswersAreWhole == ServingSpec => []BodiesAreWhole
<1>1. ServingInv => BodiesAreWhole
  <2> SUFFICES ASSUME ServingInv PROVE BodiesAreWhole
    OBVIOUS
  <2>1. /\ \A c \in Streams : Pieces(events[c]) = told[c].text
        /\ \A c \in Calls : Endpoint(c) # "embedding" => CallWhole(c)
        /\ \A id \in CallIds : StoredWhole(id)
    BY DEF ServingInv, WholeInv
  <2>2. \A c \in Calls :
          body[c] # NoBody /\ body[c].status \in Terminal /\ Endpoint(c) # "embedding" =>
            /\ body[c].text = made[<<c, 1>>].text
            /\ c \in Streams => Pieces(events[c]) = made[<<c, 1>>].text
            /\ (Endpoint(c) = "responses" /\ c \in Streams) \/ body[c].tokens = made[<<c, 1>>].tokens
    BY <2>1 DEF CallWhole
  <2>3. \A id \in CallIds : response_store[id] # NoBody =>
          response_store[id] = body[response_store[id].call]
    BY <2>1 DEF StoredWhole
  <2> QED BY <2>2, <2>3 DEF BodiesAreWhole
<1> QED BY <1>1, ServingInvariant, PTL

==============================================================================
