--------------------------- MODULE FirmRingProofs ---------------------------
(***************************************************************************)
(* Facts about the ring of the write buffer, for every number of frames:   *)
(* distances, the first n of some frames, how the frames of a queue of     *)
(* writes lie behind one another, and what they hold.                      *)
(***************************************************************************)
EXTENDS FrameRing, SequenceTheorems, FiniteSetTheorems, WellFoundedInduction, TLAPS

USE ZenonT(2), SMTT(30), ZenonT(30)

-----------------------------------------------------------------------------
(***************************************************************************)
(* Distances.                                                              *)
(***************************************************************************)
LEMMA Modulo ==
  ASSUME NEW n \in Nat \ {0}, NEW x \in Int
  PROVE  /\ x \in 0 .. n - 1 => x % n = x
         /\ x \in n .. 2 * n - 1 => x % n = x - n
         /\ x \in -n .. -1 => x % n = x + n
  OBVIOUS

LEMMA WDistValue ==
  ASSUME NEW p \in WFrame, NEW f \in WFrame
  PROVE  WDist(p, f) = IF p <= f THEN f - p ELSE f - p + WRITE_BUFFER_FRAME_NB
<1> DEFINE n == WRITE_BUFFER_FRAME_NB
<1>1. n \in Nat \ {0} /\ p \in 0 .. n - 1 /\ f \in 0 .. n - 1
  BY RingAssumption DEF WFrame
<1>2. WDist(p, f) = (f - p) % n
  BY DEF WDist
<1> HIDE DEF n
<1>3. f - p \in Int /\ (f - p \in 0 .. n - 1 \/ f - p \in -n .. -1)
  BY <1>1
<1>4. (f - p \in 0 .. n - 1 => (f - p) % n = f - p) /\ (f - p \in -n .. -1 => (f - p) % n = f - p + n)
  BY <1>1, <1>3, Modulo, Zenon
<1> QED BY <1>1, <1>2, <1>3, <1>4 DEF n

LEMMA WAfterValue ==
  ASSUME NEW f \in WFrame, NEW k \in 0 .. WRITE_BUFFER_FRAME_NB
  PROVE  WAfter(f, k) = IF f + k < WRITE_BUFFER_FRAME_NB THEN f + k
                                                         ELSE f + k - WRITE_BUFFER_FRAME_NB
<1> DEFINE n == WRITE_BUFFER_FRAME_NB
<1>1. n \in Nat \ {0} /\ f \in 0 .. n - 1 /\ k \in 0 .. n
  BY RingAssumption DEF WFrame
<1>2. WAfter(f, k) = (f + k) % n
  BY DEF WAfter
<1> HIDE DEF n
<1>3. f + k \in Int /\ (f + k \in 0 .. n - 1 \/ f + k \in n .. 2 * n - 1)
  BY <1>1
<1>4. \A x \in Int : (x \in 0 .. n - 1 => x % n = x) /\ (x \in n .. 2 * n - 1 => x % n = x - n)
  BY <1>1, Modulo, Zenon
<1> QED BY <1>1, <1>2, <1>3, <1>4 DEF n

\* The distances from a frame tell the frames apart.
LEMMA WDistFacts ==
  ASSUME NEW p \in WFrame, NEW f \in WFrame
  PROVE  /\ WDist(p, f) \in 0 .. WRITE_BUFFER_FRAME_NB - 1
         /\ WDist(p, p) = 0
         /\ WAfter(p, WDist(p, f)) = f
         /\ \A g \in WFrame : WDist(p, f) = WDist(p, g) => f = g
<1>1. WRITE_BUFFER_FRAME_NB \in Nat \ {0} /\ p \in 0 .. WRITE_BUFFER_FRAME_NB - 1 /\ f \in 0 .. WRITE_BUFFER_FRAME_NB - 1
  BY RingAssumption DEF WFrame
<1>2. WDist(p, f) \in 0 .. WRITE_BUFFER_FRAME_NB - 1 /\ WDist(p, p) = 0
  BY <1>1, WDistValue
<1>3. WAfter(p, WDist(p, f)) = f
  BY <1>1, <1>2, WDistValue, WAfterValue
<1>4. ASSUME NEW g \in WFrame, WDist(p, f) = WDist(p, g)
      PROVE  f = g
  BY <1>1, <1>4, WDistValue DEF WFrame
<1> QED BY <1>2, <1>3, <1>4

LEMMA WAfterFacts ==
  ASSUME NEW p \in WFrame, NEW k \in 0 .. WRITE_BUFFER_FRAME_NB
  PROVE  /\ WAfter(p, k) \in WFrame
         /\ WDist(p, WAfter(p, k)) = IF k = WRITE_BUFFER_FRAME_NB THEN 0 ELSE k
         /\ k \in {0, WRITE_BUFFER_FRAME_NB} => WAfter(p, k) = p
<1>1. WRITE_BUFFER_FRAME_NB \in Nat \ {0} /\ p \in 0 .. WRITE_BUFFER_FRAME_NB - 1
  BY RingAssumption DEF WFrame
<1>2. WAfter(p, k) \in WFrame
  BY <1>1, WAfterValue DEF WFrame
<1> QED BY <1>1, <1>2, WAfterValue, WDistValue

\* The distance from another frame.
LEMMA WDistFrom ==
  ASSUME NEW p \in WFrame, NEW q \in WFrame, NEW f \in WFrame
  PROVE  WDist(q, f) = IF WDist(p, q) <= WDist(p, f) THEN WDist(p, f) - WDist(p, q)
                       ELSE WDist(p, f) - WDist(p, q) + WRITE_BUFFER_FRAME_NB
<1>1. WRITE_BUFFER_FRAME_NB \in Nat \ {0} /\ p \in 0 .. WRITE_BUFFER_FRAME_NB - 1
      /\ q \in 0 .. WRITE_BUFFER_FRAME_NB - 1 /\ f \in 0 .. WRITE_BUFFER_FRAME_NB - 1
  BY RingAssumption DEF WFrame
<1> QED BY <1>1, WDistValue
-----------------------------------------------------------------------------
(***************************************************************************)
(* The n-th of some frames, and the first n.                               *)
(***************************************************************************)
LEMMA FramesFinite ==
  ASSUME NEW S \in SUBSET WFrame
  PROVE  IsFiniteSet(S) /\ Cardinality(S) \in Nat
<1>1. IsFiniteSet(WFrame)
  BY FS_Interval, RingAssumption DEF WFrame
<1> QED BY <1>1, FS_Subset, FS_CardinalityType

LEMMA RankFacts ==
  ASSUME NEW p \in WFrame, NEW frames \in SUBSET WFrame, NEW f \in frames, NEW g \in frames
  PROVE  /\ Rank(p, f, frames) \in Nat
         /\ WDist(p, f) < WDist(p, g) => Rank(p, f, frames) < Rank(p, g, frames)
         /\ Rank(p, f, frames) = Rank(p, g, frames) => f = g
<1>1. \A x, y \in frames : WDist(p, x) < WDist(p, y) => Rank(p, x, frames) < Rank(p, y, frames)
  <2> SUFFICES ASSUME NEW x \in frames, NEW y \in frames, WDist(p, x) < WDist(p, y)
               PROVE  Rank(p, x, frames) < Rank(p, y, frames)
    OBVIOUS
  <2> DEFINE X == frames \cap Between(p, x)
             Y == frames \cap Between(p, y)
  <2>1. IsFiniteSet(X) /\ IsFiniteSet(Y) /\ Cardinality(X) \in Nat /\ Cardinality(Y) \in Nat
    BY FramesFinite
  <2>2. \A z \in WFrame : WDist(p, z) \in Int
    BY WDistFacts
  <2>3. x \notin X /\ X \cup {x} \subseteq Y
    BY <2>2 DEF Between
  <2>4. Cardinality(X \cup {x}) = Cardinality(X) + 1 /\ IsFiniteSet(X \cup {x})
    BY <2>1, <2>3, FS_AddElement, Zenon
  <2>5. Cardinality(X \cup {x}) <= Cardinality(Y)
    BY <2>1, <2>3, FS_Subset
  <2> QED BY <2>1, <2>4, <2>5 DEF Rank
<1>2. \A x \in frames : Rank(p, x, frames) \in Nat
  BY FramesFinite DEF Rank
<1>3. WDist(p, f) \in Int /\ WDist(p, g) \in Int /\ (WDist(p, f) = WDist(p, g) => f = g)
  BY WDistFacts
<1> QED BY <1>1, <1>2, <1>3

LEMMA NthIs ==
  ASSUME NEW p \in WFrame, NEW frames \in SUBSET WFrame, NEW f \in frames
  PROVE  Nth(p, Rank(p, f, frames), frames) = f
<1>1. \A g \in frames : Rank(p, g, frames) = Rank(p, f, frames) => g = f
  BY RankFacts
<1> QED BY <1>1 DEF Nth

\* A set of frames that is met before all others is the first so many.
LEMMA FirstSegment ==
  ASSUME NEW p \in WFrame, NEW frames \in SUBSET WFrame, NEW S \in SUBSET frames,
         \A g \in S, f \in frames \ S : WDist(p, g) < WDist(p, f)
  PROVE  FirstN(p, Cardinality(S), frames) = S
<1>1. \A z \in WFrame : WDist(p, z) \in Int
  BY WDistFacts
<1>2. IsFiniteSet(S) /\ Cardinality(S) \in Nat
  BY FramesFinite
<1>3. ASSUME NEW f \in S
      PROVE  Rank(p, f, frames) < Cardinality(S)
  <2> DEFINE X == frames \cap Between(p, f)
  <2>1. X \subseteq S \ {f}
    BY <1>1, <1>3 DEF Between
  <2>2. IsFiniteSet(S \ {f}) /\ Cardinality(S \ {f}) = Cardinality(S) - 1
    BY <1>2, <1>3, FS_RemoveElement
  <2>3. Cardinality(X) \in Nat /\ Cardinality(X) <= Cardinality(S \ {f})
    BY <2>1, <2>2, FS_Subset, FramesFinite
  <2> QED BY <1>2, <2>2, <2>3 DEF Rank
<1>4. ASSUME NEW f \in frames \ S
      PROVE  ~(Rank(p, f, frames) < Cardinality(S))
  <2> DEFINE X == frames \cap Between(p, f)
  <2>1. S \subseteq X
    BY <1>4 DEF Between
  <2>2. IsFiniteSet(X) /\ Cardinality(X) \in Nat
    BY FramesFinite
  <2>3. Cardinality(S) <= Cardinality(X)
    BY <2>1, <2>2, FS_Subset
  <2> QED BY <1>2, <2>2, <2>3 DEF Rank
<1> QED BY <1>3, <1>4 DEF FirstN

LEMMA FirstBefore ==
  ASSUME NEW p \in WFrame, NEW frames \in SUBSET WFrame, NEW n \in Nat,
         NEW g \in FirstN(p, n, frames), NEW f \in frames \ FirstN(p, n, frames)
  PROVE  WDist(p, g) < WDist(p, f)
<1>1. g \in frames /\ Rank(p, g, frames) < n /\ f \in frames /\ ~(Rank(p, f, frames) < n)
  BY DEF FirstN
<1>2. /\ Rank(p, f, frames) \in Nat /\ Rank(p, g, frames) \in Nat
      /\ WDist(p, f) < WDist(p, g) => Rank(p, f, frames) < Rank(p, g, frames)
  BY <1>1, RankFacts
<1>3. WDist(p, f) \in Int /\ WDist(p, g) \in Int /\ (WDist(p, f) = WDist(p, g) => f = g)
  BY <1>1, WDistFacts
<1> QED BY <1>1, <1>2, <1>3

\* There are that many.
LEMMA FirstCount ==
  ASSUME NEW p \in WFrame, NEW frames \in SUBSET WFrame, NEW n \in 0 .. Cardinality(frames)
  PROVE  Cardinality(FirstN(p, n, frames)) = n
<1> DEFINE c == Cardinality(frames)
           First(m) == FirstN(p, m, frames)
           Wrong == {m \in 0 .. c : Cardinality(First(m)) # m}
<1>1. c \in Nat /\ \A m : First(m) \in SUBSET frames /\ First(m) \in SUBSET WFrame
  BY FramesFinite DEF FirstN
<1> SUFFICES ASSUME Wrong # {} PROVE FALSE
  BY <1>1
<1>2. PICK m \in Wrong : \A k \in Wrong : ~(k < m)
  <2>1. Wrong \subseteq Nat
    BY <1>1
  <2>2. \E m \in Wrong : \A k \in Wrong : <<k, m>> \notin OpToRel(<, Nat)
    BY <2>1, NatLessThanWellFounded, WFMin, Zenon
  <2> QED BY <2>1, <2>2, Zenon DEF OpToRel
<1>3. \A f \in frames : Rank(p, f, frames) \in Nat
  BY RankFacts
<1>4. m # 0
  <2>1. First(0) = {}
    BY <1>3 DEF FirstN
  <2>2. Cardinality(First(0)) = 0
    BY <2>1, FS_EmptySet
  <2> QED BY <2>2
<1>5. m - 1 \in Nat /\ m - 1 < c /\ Cardinality(First(m - 1)) = m - 1
  <2>1. m \in 0 .. c /\ m - 1 \in 0 .. c /\ m - 1 < m
    BY <1>1, <1>4
  <2> QED BY <2>1, <1>1, <1>2
<1>6. PICK f \in frames \ First(m - 1) : \A g \in frames \ First(m - 1) : ~(WDist(p, g) < WDist(p, f))
  <2> DEFINE T == frames \ First(m - 1)
             D == {WDist(p, g) : g \in T}
  <2>1. T # {}
    BY <1>1, <1>5
  <2>2. \A g \in T : WDist(p, g) \in Nat
    <3>1. \A g \in WFrame : WDist(p, g) \in 0 .. WRITE_BUFFER_FRAME_NB - 1
      BY WDistFacts
    <3>2. WRITE_BUFFER_FRAME_NB \in Nat
      BY RingAssumption
    <3> QED BY <3>1, <3>2
  <2>3. D \subseteq Nat /\ D # {}
    BY <2>1, <2>2, Zenon
  <2>4. \E d \in D : \A e \in D : <<e, d>> \notin OpToRel(<, Nat)
    BY <2>3, NatLessThanWellFounded, WFMin, Zenon
  <2>5. PICK d \in D : \A e \in D : ~(e < d)
    BY <2>3, <2>4, Zenon DEF OpToRel
  <2>6. PICK f \in T : d = WDist(p, f)
    OBVIOUS
  <2>7. \A g \in T : WDist(p, g) \in D
    OBVIOUS
  <2> QED BY <2>5, <2>6, <2>7
<1>7. f \in frames /\ f \notin First(m - 1)
  OBVIOUS
<1> DEFINE S == First(m - 1) \cup {f}
<1>8. S \in SUBSET frames /\ Cardinality(S) = m
  <2>1. IsFiniteSet(First(m - 1))
    BY <1>1, FramesFinite
  <2>2. Cardinality(S) = Cardinality(First(m - 1)) + 1
    BY <2>1, <1>7, FS_AddElement
  <2> QED BY <2>2, <1>1, <1>5, <1>7
<1>9. ASSUME NEW g \in S, NEW h \in frames \ S
      PROVE  WDist(p, g) < WDist(p, h)
  <2>1. h \in frames \ First(m - 1) /\ h # f
    BY <1>9
  <2>2. CASE g = f
    <3>1. WDist(p, f) \in Int /\ WDist(p, h) \in Int /\ (WDist(p, f) = WDist(p, h) => f = h)
      BY <1>7, <2>1, WDistFacts
    <3> QED BY <3>1, <2>1, <2>2, <1>6
  <2>3. CASE g \in First(m - 1)
    BY <2>1, <2>3, <1>5, FirstBefore
  <2> QED BY <2>2, <2>3, <1>9
<1>10. First(m) = S
  <2> HIDE DEF S, First
  <2>1. FirstN(p, Cardinality(S), frames) = S
    BY <1>8, <1>9, FirstSegment
  <2> QED BY <2>1, <1>8 DEF First
<1> QED BY <1>8, <1>10, Zenon

LEMMA NthExists ==
  ASSUME NEW p \in WFrame, NEW frames \in SUBSET WFrame, NEW n \in Nat, n < Cardinality(frames)
  PROVE  \E f \in frames : Rank(p, f, frames) = n /\ Nth(p, n, frames) = f
<1>1. Cardinality(frames) \in Nat
  BY FramesFinite
<1>2. Cardinality(FirstN(p, n, frames)) = n /\ Cardinality(FirstN(p, n + 1, frames)) = n + 1
  BY <1>1, FirstCount
<1>3. FirstN(p, n, frames) \in SUBSET WFrame /\ IsFiniteSet(FirstN(p, n, frames))
  BY FramesFinite DEF FirstN
<1>4. ~(FirstN(p, n + 1, frames) \subseteq FirstN(p, n, frames))
  <2> SUFFICES ASSUME FirstN(p, n + 1, frames) \subseteq FirstN(p, n, frames) PROVE FALSE
    OBVIOUS
  <2>1. Cardinality(FirstN(p, n + 1, frames)) <= Cardinality(FirstN(p, n, frames))
    BY <1>3, FS_Subset
  <2> QED BY <2>1, <1>2
<1>5. PICK f \in FirstN(p, n + 1, frames) : f \notin FirstN(p, n, frames)
  BY <1>4
<1>6. f \in frames /\ Rank(p, f, frames) < n + 1 /\ ~(Rank(p, f, frames) < n)
  BY <1>5 DEF FirstN
<1>7. Rank(p, f, frames) = n
  BY <1>6, RankFacts
<1> QED BY <1>6, <1>7, NthIs
-----------------------------------------------------------------------------
(***************************************************************************)
(* The frames of a queue of writes.  Counted from p, the valid frames V    *)
(* lie within the first used frames, and those of the i-th event from its  *)
(* buf up to the buf of the next valid write.                              *)
(***************************************************************************)
Part(p, V, q, i) ==
  {f \in V : /\ WDist(p, q[i].buf) <= WDist(p, f)
             /\ \A j \in Writes(q) : i < j => WDist(p, f) < WDist(p, q[j].buf)}

Tiled(p, used, V, q) ==
  /\ p \in WFrame /\ used \in 0 .. WRITE_BUFFER_FRAME_NB /\ V \in SUBSET WFrame
  /\ \A i \in Writes(q) : q[i].buf \in WFrame /\ WDist(p, q[i].buf) < used
  /\ \A i, j \in Writes(q) : i < j => WDist(p, q[i].buf) < WDist(p, q[j].buf)
  /\ \A f \in V : WDist(p, f) < used /\ \E i \in Writes(q) : f \in Part(p, V, q, i)
  /\ \A i \in Writes(q) : Cardinality(Part(p, V, q, i)) = q[i].length

\* Parts that are the same in another queue or ring.
SameParts(p, V, q, s, W, r, I) ==
  \A i \in I : i \in Writes(q) /\ i \in Writes(r) /\ Part(s, W, r, i) = Part(p, V, q, i)
MovedParts(p, V, q, r, d) == \A i \in Writes(q) : Part(p, V, r, i + d) = Part(p, V, q, i)

LEMMA WritesInt ==
  ASSUME NEW q \in Seq(Entries), NEW i \in Writes(q)
  PROVE  i \in 1 .. Len(q) /\ i \in Int /\ Len(q) \in Nat
  BY LenProperties DEF Writes

\* Events that are no valid writes come and go before the writes.
Shift(q, r, d) ==
  /\ q \in Seq(Entries) /\ r \in Seq(Entries) /\ d \in Int
  /\ \A i \in Writes(q) : i + d \in Writes(r) /\ r[i + d].buf = q[i].buf
                           /\ r[i + d].length = q[i].length
  /\ \A j \in Writes(r) : j - d \in Writes(q)

LEMMA Shifted ==
  ASSUME NEW p, NEW used, NEW V, NEW q, NEW r, NEW d, Tiled(p, used, V, q), Shift(q, r, d)
  PROVE  Tiled(p, used, V, r) /\ MovedParts(p, V, q, r, d)
<1> USE DEF Shift, MovedParts
<1>1. \A i \in Writes(q) : i \in Int
  BY WritesInt
<1>2. \A j \in Writes(r) : j \in Int
  BY WritesInt
<1>3. \A j \in Writes(r) : j - d \in Writes(q) /\ r[j].buf = q[j - d].buf /\ r[j].length = q[j - d].length
  <2> SUFFICES ASSUME NEW j \in Writes(r)
               PROVE  j - d \in Writes(q) /\ r[j].buf = q[j - d].buf /\ r[j].length = q[j - d].length
    OBVIOUS
  <2>1. j - d \in Writes(q) /\ (j - d) + d = j
    BY <1>2
  <2>2. r[(j - d) + d].buf = q[j - d].buf /\ r[(j - d) + d].length = q[j - d].length
    BY <2>1
  <2> QED BY <2>1, <2>2
<1>4. ASSUME NEW i \in Writes(q)
      PROVE  Part(p, V, r, i + d) = Part(p, V, q, i)
  <2>1. ASSUME NEW f \in V
        PROVE  (\A j \in Writes(r) : i + d < j => WDist(p, f) < WDist(p, r[j].buf))
                 <=> (\A j \in Writes(q) : i < j => WDist(p, f) < WDist(p, q[j].buf))
    <3>1. ASSUME \A j \in Writes(r) : i + d < j => WDist(p, f) < WDist(p, r[j].buf),
                 NEW j \in Writes(q), i < j
          PROVE  WDist(p, f) < WDist(p, q[j].buf)
      <4>1. j + d \in Writes(r) /\ i + d < j + d /\ r[j + d].buf = q[j].buf
        BY <3>1, <1>1
      <4> QED BY <3>1, <4>1
    <3>2. ASSUME \A j \in Writes(q) : i < j => WDist(p, f) < WDist(p, q[j].buf),
                 NEW j \in Writes(r), i + d < j
          PROVE  WDist(p, f) < WDist(p, r[j].buf)
      <4>1. j - d \in Writes(q) /\ i < j - d /\ r[j].buf = q[j - d].buf
        BY <3>2, <1>1, <1>2, <1>3
      <4> QED BY <3>2, <4>1
    <3> QED BY <3>1, <3>2
  <2>2. r[i + d].buf = q[i].buf
    OBVIOUS
  <2> QED BY <2>1, <2>2, Zenon DEF Part
<1>5. ASSUME NEW j \in Writes(r)
      PROVE  /\ j - d \in Writes(q) /\ r[j].buf = q[j - d].buf /\ r[j].length = q[j - d].length
             /\ Part(p, V, r, j) = Part(p, V, q, j - d)
  <2>1. j - d \in Writes(q) /\ (j - d) + d = j
    BY <1>2
  <2>2. Part(p, V, r, (j - d) + d) = Part(p, V, q, j - d)
    BY <2>1, <1>4
  <2> QED BY <2>1, <2>2, <1>3
<1>6. ASSUME NEW j \in Writes(r), NEW k \in Writes(r), j < k
      PROVE  WDist(p, r[j].buf) < WDist(p, r[k].buf)
  <2>1. j - d < k - d
    BY <1>2, <1>6
  <2> QED BY <2>1, <1>3 DEF Tiled
<1>7. ASSUME NEW f \in V
      PROVE  \E j \in Writes(r) : f \in Part(p, V, r, j)
  <2>1. PICK i \in Writes(q) : f \in Part(p, V, q, i)
    BY DEF Tiled
  <2>2. i + d \in Writes(r) /\ f \in Part(p, V, r, i + d)
    BY <2>1, <1>4
  <2> QED BY <2>2
<1>8. Tiled(p, used, V, r)
  <2>1. \A j \in Writes(r) : r[j].buf \in WFrame /\ WDist(p, r[j].buf) < used
    BY <1>3 DEF Tiled
  <2>2. \A j \in Writes(r) : Cardinality(Part(p, V, r, j)) = r[j].length
    BY <1>5 DEF Tiled
  <2> QED BY <2>1, <2>2, <1>6, <1>7, Zenon DEF Tiled
<1> QED BY <1>4, <1>8

\* A frame belongs to one event.
LEMMA OneOwner ==
  ASSUME NEW p, NEW used, NEW V, NEW q \in Seq(Entries), Tiled(p, used, V, q),
         NEW i \in Writes(q), NEW j \in Writes(q), NEW f \in Part(p, V, q, i), f \in Part(p, V, q, j)
  PROVE  i = j
<1>1. i \in Int /\ j \in Int
  BY WritesInt
<1>2. f \in WFrame /\ p \in WFrame /\ q[i].buf \in WFrame /\ q[j].buf \in WFrame
  BY DEF Tiled, Part
<1>3. WDist(p, f) \in Int /\ WDist(p, q[i].buf) \in Int /\ WDist(p, q[j].buf) \in Int
  BY <1>2, WDistFacts
<1>4. WDist(p, q[i].buf) <= WDist(p, f) /\ WDist(p, q[j].buf) <= WDist(p, f)
  BY DEF Part
<1>5. (i < j => WDist(p, f) < WDist(p, q[j].buf)) /\ (j < i => WDist(p, f) < WDist(p, q[i].buf))
  BY DEF Part
<1> QED BY <1>1, <1>3, <1>4, <1>5

\* Events are not valid any more, and neither are their frames.
Release(q, r, O) ==
  /\ q \in Seq(Entries) /\ r \in Seq(Entries) /\ O \in SUBSET Writes(q) /\ Writes(r) = Writes(q) \ O
  /\ \A i \in Writes(r) : r[i].buf = q[i].buf /\ r[i].length = q[i].length

Without(p, V, q, O, W) ==
  W \in SUBSET V /\ \A f \in V : f \in W <=> \A i \in O : f \notin Part(p, V, q, i)

LEMMA Released ==
  ASSUME NEW p, NEW used, NEW V, NEW q, NEW r, NEW O, NEW W,
         Tiled(p, used, V, q), Release(q, r, O), Without(p, V, q, O, W)
  PROVE  Tiled(p, used, W, r) /\ SameParts(p, V, q, p, W, r, Writes(r))
<1> USE DEF Release, Without, SameParts
<1>1. ASSUME NEW f \in W
      PROVE  \E k \in Writes(r) : f \in Part(p, V, q, k)
  <2>1. PICK k \in Writes(q) : f \in Part(p, V, q, k)
    BY <1>1 DEF Tiled
  <2>2. k \notin O
    BY <2>1, <1>1
  <2> QED BY <2>1, <2>2
<1>2. ASSUME NEW i \in Writes(r), NEW f \in Part(p, V, q, i)
      PROVE  f \in Part(p, W, r, i)
  <2>1. f \in V /\ i \in Writes(q)
    BY <1>2 DEF Part
  <2>2. ASSUME NEW k \in O, f \in Part(p, V, q, k)
        PROVE  FALSE
    <3>1. k = i
      BY <2>1, <2>2, <1>2, OneOwner
    <3> QED BY <3>1
  <2>3. f \in W
    BY <2>1, <2>2
  <2>4. \A j \in Writes(r) : i < j => WDist(p, f) < WDist(p, r[j].buf)
    BY <1>2 DEF Part
  <2> QED BY <2>3, <2>4, <1>2 DEF Part
<1>3. ASSUME NEW i \in Writes(r), NEW f \in Part(p, W, r, i)
      PROVE  f \in Part(p, V, q, i)
  <2>1. f \in W
    BY <1>3 DEF Part
  <2>2. PICK k \in Writes(r) : f \in Part(p, V, q, k)
    BY <2>1, <1>1
  <2>3. f \in Part(p, W, r, k)
    BY <2>2, <1>2
  <2>4. i \in Int /\ k \in Int
    BY WritesInt
  <2>5. f \in WFrame /\ p \in WFrame /\ r[i].buf \in WFrame /\ r[k].buf \in WFrame
    BY <2>1 DEF Tiled
  <2>6. WDist(p, f) \in Int /\ WDist(p, r[i].buf) \in Int /\ WDist(p, r[k].buf) \in Int
    BY <2>5, WDistFacts
  <2>7. /\ WDist(p, r[i].buf) <= WDist(p, f) /\ WDist(p, r[k].buf) <= WDist(p, f)
        /\ i < k => WDist(p, f) < WDist(p, r[k].buf)
        /\ k < i => WDist(p, f) < WDist(p, r[i].buf)
    BY <1>3, <2>3 DEF Part
  <2>8. i = k
    BY <2>4, <2>6, <2>7
  <2> QED BY <2>2, <2>8
<1>4. \A i \in Writes(r) : Part(p, W, r, i) = Part(p, V, q, i)
  <2> TAKE i \in Writes(r)
  <2>1. Part(p, W, r, i) \subseteq Part(p, V, q, i)
    BY <1>3
  <2>2. Part(p, V, q, i) \subseteq Part(p, W, r, i)
    BY <1>2
  <2> QED BY <2>1, <2>2, Zenon
<1>5. ASSUME NEW f \in W
      PROVE  WDist(p, f) < used /\ \E k \in Writes(r) : f \in Part(p, W, r, k)
  <2>1. PICK k \in Writes(r) : f \in Part(p, V, q, k)
    BY <1>1, <1>5
  <2>2. f \in Part(p, W, r, k)
    BY <2>1, <1>2
  <2>3. WDist(p, f) < used
    BY <1>5 DEF Tiled
  <2> QED BY <2>2, <2>3
<1>6. Tiled(p, used, W, r)
  <2>1. W \in SUBSET WFrame
    BY DEF Tiled
  <2>2. \A i \in Writes(r) : Cardinality(Part(p, W, r, i)) = r[i].length
    BY <1>4 DEF Tiled
  <2>3. \A i, j \in Writes(r) : i < j => WDist(p, r[i].buf) < WDist(p, r[j].buf)
    BY DEF Tiled
  <2>4. \A i \in Writes(r) : r[i].buf \in WFrame /\ WDist(p, r[i].buf) < used
    BY DEF Tiled
  <2> QED BY <2>1, <2>2, <2>3, <2>4, <1>5 DEF Tiled
<1> QED BY <1>4, <1>6

\* The frames behind the used ones.
Fresh(p, used, n) == {f \in WFrame : used <= WDist(p, f) /\ WDist(p, f) < used + n}

LEMMA AfterAfter ==
  ASSUME NEW p \in WFrame, NEW a \in Nat, NEW b \in Nat, a + b <= WRITE_BUFFER_FRAME_NB
  PROVE  WAfter(WAfter(p, a), b) = WAfter(p, a + b)
<1>1. WRITE_BUFFER_FRAME_NB \in Nat \ {0} /\ p \in 0 .. WRITE_BUFFER_FRAME_NB - 1
  BY RingAssumption DEF WFrame
<1>2. a \in 0 .. WRITE_BUFFER_FRAME_NB /\ b \in 0 .. WRITE_BUFFER_FRAME_NB /\ a + b \in 0 .. WRITE_BUFFER_FRAME_NB
  BY <1>1
<1>3. WAfter(p, a) \in WFrame
  BY <1>2, WAfterFacts
<1> QED BY <1>1, <1>2, <1>3, WAfterValue

LEMMA FreshCount ==
  ASSUME NEW p \in WFrame, NEW used \in Nat, NEW n \in Nat, used + n <= WRITE_BUFFER_FRAME_NB
  PROVE  /\ IsFiniteSet(Fresh(p, used, n)) /\ Cardinality(Fresh(p, used, n)) = n
         /\ Fresh(p, used, n) = {WAfter(WAfter(p, used), i) : i \in 0 .. n - 1}
         /\ \A i \in 0 .. n - 1 : WDist(p, WAfter(WAfter(p, used), i)) = used + i
<1> DEFINE S == Fresh(p, used, n)
           F == [i \in 1 .. n |-> WAfter(p, used + (i - 1))]
<1>1. WRITE_BUFFER_FRAME_NB \in Nat \ {0}
  BY RingAssumption
<1>2. ASSUME NEW i \in 0 .. n - 1
      PROVE  /\ WAfter(p, used + i) \in S /\ WDist(p, WAfter(p, used + i)) = used + i
             /\ WAfter(WAfter(p, used), i) = WAfter(p, used + i)
  <2>1. used + i \in 0 .. WRITE_BUFFER_FRAME_NB /\ used + i # WRITE_BUFFER_FRAME_NB
        /\ i \in Nat /\ used + i <= WRITE_BUFFER_FRAME_NB
    BY <1>1
  <2>2. WAfter(p, used + i) \in WFrame /\ WDist(p, WAfter(p, used + i)) = used + i
    BY <2>1, WAfterFacts
  <2>3. WAfter(WAfter(p, used), i) = WAfter(p, used + i)
    BY <2>1, AfterAfter
  <2> QED BY <2>1, <2>2, <2>3 DEF Fresh
<1>3. ASSUME NEW f \in S
      PROVE  /\ WDist(p, f) - used \in 0 .. n - 1 /\ f = WAfter(p, used + (WDist(p, f) - used))
             /\ f = WAfter(WAfter(p, used), WDist(p, f) - used)
  <2>1. f \in WFrame /\ used <= WDist(p, f) /\ WDist(p, f) < used + n
    BY DEF Fresh
  <2>2. WDist(p, f) \in Int /\ WAfter(p, WDist(p, f)) = f
    BY <2>1, WDistFacts
  <2>3. used + (WDist(p, f) - used) = WDist(p, f) /\ WDist(p, f) - used \in 0 .. n - 1
    BY <2>1, <2>2
  <2> QED BY <2>2, <2>3, <1>2
<1>4. S = {WAfter(WAfter(p, used), i) : i \in 0 .. n - 1}
  BY <1>2, <1>3
<1>5. F \in Bijection(1 .. n, S)
  <2>1. \A i \in 1 .. n : i - 1 \in 0 .. n - 1
    OBVIOUS
  <2>2. F \in [1 .. n -> S]
    BY <2>1, <1>2
  <2>3. ASSUME NEW i \in 1 .. n, NEW j \in 1 .. n, F[i] = F[j]
        PROVE  i = j
    <3>1. used + (i - 1) = used + (j - 1)
      BY <2>1, <2>3, <1>2
    <3> QED BY <3>1
  <2>4. ASSUME NEW f \in S
        PROVE  \E i \in 1 .. n : F[i] = f
    <3> DEFINE d == WDist(p, f) - used
    <3>1. d \in 0 .. n - 1 /\ f = WAfter(p, used + d)
      BY <1>3
    <3> HIDE DEF d
    <3>2. d + 1 \in 1 .. n /\ (d + 1) - 1 = d
      BY <3>1
    <3>3. F[d + 1] = WAfter(p, used + ((d + 1) - 1))
      BY <3>2
    <3>4. F[d + 1] = f
      BY <3>1, <3>2, <3>3
    <3> QED BY <3>2, <3>4
  <2> HIDE DEF F
  <2>5. F \in Injection(1 .. n, S)
    BY <2>2, <2>3, Zenon DEF Injection, IsInjective
  <2>6. F \in Surjection(1 .. n, S)
    BY <2>2, <2>4, Zenon DEF Surjection
  <2> QED BY <2>5, <2>6 DEF Bijection
<1>6. ExistsBijection(1 .. n, S)
  BY <1>5, Zenon DEF ExistsBijection
<1>7. IsFiniteSet(1 .. n) /\ Cardinality(1 .. n) = n
  BY FS_Interval
<1> HIDE DEF S, F
<1>8. IsFiniteSet(S) /\ Cardinality(S) = n
  BY <1>6, <1>7, FS_Bijection
<1>9. \A i \in 0 .. n - 1 : WDist(p, WAfter(WAfter(p, used), i)) = used + i
  BY <1>2
<1> QED BY <1>4, <1>8, <1>9 DEF S

\* A new event takes the next frames.
Add(p, used, V, q, e, r, New, X, more, last) ==
  /\ q \in Seq(Entries) /\ e \in Entries /\ r = Append(q, e)
  /\ Tiled(p, used, V, q) /\ used + e.length <= WRITE_BUFFER_FRAME_NB
  /\ e.io_type = "WRITE" /\ e.valid /\ e.buf = WAfter(p, used)
  /\ New = Fresh(p, used, e.length) /\ X = V \cup New /\ more = used + e.length /\ last = Len(q) + 1

LEMMA Added ==
  ASSUME NEW p, NEW used, NEW V, NEW q, NEW e, NEW r, NEW New, NEW X, NEW more, NEW last,
         Add(p, used, V, q, e, r, New, X, more, last)
  PROVE  /\ Tiled(p, more, X, r) /\ last \in Writes(r) /\ Part(p, X, r, last) = New
         /\ SameParts(p, V, q, p, X, r, Writes(q))
<1> USE DEF Add, SameParts
<1> DEFINE n == e.length
           t == Len(q) + 1
<1>1. /\ WRITE_BUFFER_FRAME_NB \in Nat \ {0} /\ p \in WFrame /\ used \in Nat
      /\ n \in Nat \ {0} /\ V \in SUBSET WFrame /\ t \in Nat /\ Len(q) \in Nat
  BY RingAssumption, LenProperties DEF Tiled, Entries
<1>2. /\ r \in Seq(Entries) /\ Len(r) = t /\ r[t] = e /\ \A i \in 1 .. Len(q) : r[i] = q[i]
  BY AppendProperties, LenProperties
<1>3. Writes(r) = Writes(q) \cup {t}
  <2>1. \A i : i \in 1 .. t <=> i \in 1 .. Len(q) \/ i = t
    BY <1>1
  <2> QED BY <2>1, <1>2 DEF Writes
<1>4. \A i \in Writes(q) : i \in 1 .. Len(q) /\ i < t /\ r[i] = q[i]
  BY <1>1, <1>2, WritesInt
<1>5. \A f \in WFrame : WDist(p, f) \in 0 .. WRITE_BUFFER_FRAME_NB - 1
  BY <1>1, WDistFacts
<1>6. e.buf \in WFrame /\ WDist(p, e.buf) = used
  <2>1. used \in 0 .. WRITE_BUFFER_FRAME_NB /\ used # WRITE_BUFFER_FRAME_NB
    BY <1>1
  <2> QED BY <2>1, <1>1, WAfterFacts
<1>7. \A f \in New : f \in WFrame /\ used <= WDist(p, f) /\ WDist(p, f) < used + n
  BY DEF Fresh
<1>8. \A f \in V : WDist(p, f) < used
  BY DEF Tiled
<1>9. \A i \in Writes(q) : q[i].buf \in WFrame /\ WDist(p, q[i].buf) < used
  BY DEF Tiled
<1> HIDE DEF n, t
<1>10. Part(p, X, r, t) = New
  <2>1. \A j \in Writes(r) : ~(t < j)
    BY <1>1, <1>3, <1>4, WritesInt
  <2>2. \A f \in V : ~(WDist(p, r[t].buf) <= WDist(p, f))
    BY <1>1, <1>2, <1>5, <1>6, <1>8
  <2>3. \A f \in New : WDist(p, r[t].buf) <= WDist(p, f)
    BY <1>2, <1>6, <1>7
  <2> QED BY <2>1, <2>2, <2>3, Zenon DEF Part
<1>11. ASSUME NEW i \in Writes(q)
       PROVE  Part(p, X, r, i) = Part(p, V, q, i)
  <2>1. i < t /\ t \in Writes(r) /\ r[t].buf = e.buf /\ r[i].buf = q[i].buf
    BY <1>2, <1>3, <1>4
  <2>2. \A f \in New : ~(WDist(p, f) < WDist(p, r[t].buf))
    BY <2>1, <1>1, <1>5, <1>6, <1>7
  <2>3. \A f \in V : WDist(p, f) < WDist(p, r[t].buf)
    BY <2>1, <1>6, <1>8
  <2>4. ASSUME NEW f \in X
        PROVE  f \in Part(p, X, r, i) <=> f \in Part(p, V, q, i)
    <3>1. CASE f \in New
      <4>1. f \notin V
        BY <3>1, <2>2, <2>3, Zenon
      <4> QED BY <4>1, <3>1, <2>1, <2>2, Zenon DEF Part
    <3>2. CASE f \in V
      <4>1. (\A j \in Writes(r) : i < j => WDist(p, f) < WDist(p, r[j].buf))
              <=> (\A j \in Writes(q) : i < j => WDist(p, f) < WDist(p, q[j].buf))
        BY <3>2, <2>3, <1>3, <1>4, Zenon
      <4> QED BY <4>1, <3>2, <2>1, Zenon DEF Part
    <3> QED BY <3>1, <3>2
  <2> QED BY <2>4, Zenon DEF Part
<1>12. Tiled(p, used + n, X, r)
  <2>1. used + n \in 0 .. WRITE_BUFFER_FRAME_NB /\ X \in SUBSET WFrame
    BY <1>1, <1>7 DEF n
  <2>2. \A i \in Writes(r) : r[i].buf \in WFrame /\ WDist(p, r[i].buf) < used + n
    <3>1. r[t].buf \in WFrame /\ WDist(p, r[t].buf) < used + n
      BY <1>1, <1>2, <1>6
    <3>2. ASSUME NEW i \in Writes(q)
          PROVE  r[i].buf \in WFrame /\ WDist(p, r[i].buf) < used + n
      BY <1>1, <1>4, <1>5, <1>9
    <3> QED BY <3>1, <3>2, <1>3, Zenon
  <2>3. ASSUME NEW i \in Writes(r), NEW j \in Writes(r), i < j
        PROVE  WDist(p, r[i].buf) < WDist(p, r[j].buf)
    <3>1. CASE j = t
      <4>1. i \in Writes(q)
        BY <2>3, <3>1, <1>1, <1>3
      <4> QED BY <4>1, <3>1, <1>2, <1>4, <1>6, <1>9
    <3>2. CASE j \in Writes(q)
      <4>1. j < t /\ j \in Int
        BY <3>2, <1>4, WritesInt
      <4>2. i \in Writes(q)
        BY <4>1, <2>3, <1>1, <1>3
      <4> QED BY <4>2, <3>2, <2>3, <1>4 DEF Tiled
    <3> QED BY <3>1, <3>2, <1>3, Zenon
  <2>4. ASSUME NEW f \in X
        PROVE  WDist(p, f) < used + n /\ \E i \in Writes(r) : f \in Part(p, X, r, i)
    <3>1. CASE f \in New
      BY <3>1, <1>3, <1>7, <1>10
    <3>2. CASE f \in V
      <4>1. PICK i \in Writes(q) : f \in Part(p, V, q, i)
        BY <3>2 DEF Tiled
      <4>2. f \in Part(p, X, r, i) /\ i \in Writes(r)
        BY <4>1, <1>3, <1>11, Zenon
      <4>3. WDist(p, f) < used + n
        BY <3>2, <1>1, <1>5, <1>8
      <4> QED BY <4>2, <4>3
    <3> QED BY <3>1, <3>2, Zenon
  <2>5. \A i \in Writes(r) : Cardinality(Part(p, X, r, i)) = r[i].length
    <3>1. Cardinality(New) = n
      BY <1>1, FreshCount DEF n
    <3>2. Cardinality(Part(p, X, r, t)) = r[t].length
      BY <3>1, <1>2, <1>10 DEF n
    <3>3. ASSUME NEW i \in Writes(q)
          PROVE  Cardinality(Part(p, X, r, i)) = r[i].length
      BY <1>4, <1>11, Zenon DEF Tiled
    <3> QED BY <3>2, <3>3, <1>3, Zenon
  <2> QED BY <1>1, <2>1, <2>2, <2>3, <2>4, <2>5, Zenon DEF Tiled
<1> QED BY <1>3, <1>10, <1>11, <1>12, Zenon DEF n, t

\* The last event takes the next frames and gives its own last ones away.
\* The last event of q gets n more, and it keeps some of the frames it has.
Extension(q, r, t, n, Kept) ==
  /\ q \in Seq(Entries) /\ r \in Seq(Entries) /\ t \in Writes(q) /\ t = Len(q) /\ n \in Nat \ {0}
  /\ Writes(r) = Writes(q) /\ \A i \in Writes(q) : r[i].buf = q[i].buf
  /\ \A i \in Writes(q) : i # t => r[i].length = q[i].length
  /\ r[t].length = Cardinality(Kept) + n

Extend(p, used, V, q, t, n, Kept, New, X, more, all) ==
  /\ Tiled(p, used, V, q) /\ used + n <= WRITE_BUFFER_FRAME_NB
  /\ Kept \in SUBSET Part(p, V, q, t) /\ New = Fresh(p, used, n)
  /\ X = (V \ (Part(p, V, q, t) \ Kept)) \cup New /\ more = used + n /\ all = Kept \cup New

LEMMA Extended ==
  ASSUME NEW p, NEW used, NEW V, NEW q, NEW r, NEW t, NEW n, NEW Kept, NEW New, NEW X,
         NEW more, NEW all, Extension(q, r, t, n, Kept), Extend(p, used, V, q, t, n, Kept, New, X, more, all)
  PROVE  /\ Tiled(p, more, X, r) /\ Part(p, X, r, t) = all
         /\ SameParts(p, V, q, p, X, r, Writes(q) \ {t})
<1> USE DEF Extension, Extend, SameParts
<1> DEFINE P == Part(p, V, q, t)
<1>1. /\ WRITE_BUFFER_FRAME_NB \in Nat \ {0} /\ p \in WFrame /\ used \in Nat
      /\ V \in SUBSET WFrame
  BY RingAssumption DEF Tiled
<1>2. \A i \in Writes(q) : i \in Int /\ i <= t
  BY WritesInt
<1>3. \A f \in WFrame : WDist(p, f) \in 0 .. WRITE_BUFFER_FRAME_NB - 1
  BY <1>1, WDistFacts
<1>4. \A f \in New : f \in WFrame /\ used <= WDist(p, f) /\ WDist(p, f) < used + n
  BY DEF Fresh
<1>5. \A f \in V : f \in WFrame /\ WDist(p, f) < used
  BY DEF Tiled
<1>6. \A i \in Writes(q) : q[i].buf \in WFrame /\ WDist(p, q[i].buf) < used
  BY DEF Tiled
<1>7. \A f \in New : f \notin V
  BY <1>1, <1>3, <1>4, <1>5
<1>8. Part(p, X, r, t) = Kept \cup New
  <2>1. \A j \in Writes(r) : ~(t < j)
    BY <1>2
  <2>2. ASSUME NEW f \in X
        PROVE  WDist(p, q[t].buf) <= WDist(p, f) <=> f \in Kept \cup New
    <3>1. CASE f \in New
      <4>1. WDist(p, q[t].buf) \in Int /\ WDist(p, f) \in Int
        BY <3>1, <1>3, <1>4, <1>6
      <4>2. WDist(p, q[t].buf) < used /\ used <= WDist(p, f)
        BY <3>1, <1>4, <1>6
      <4> QED BY <4>1, <4>2, <3>1, <1>1
    <3>2. CASE f \in Kept
      BY <3>2 DEF Part
    <3>3. CASE f \in V /\ f \notin P
      <4>1. f \notin Kept /\ f \notin New
        BY <3>3, <1>7
      <4>2. ~(WDist(p, q[t].buf) <= WDist(p, f))
        BY <3>3, <1>2 DEF Part
      <4> QED BY <4>1, <4>2
    <3> QED BY <3>1, <3>2, <3>3, <2>2
  <2>3. Kept \cup New \subseteq X
    BY DEF Part
  <2> QED BY <2>1, <2>2, <2>3 DEF Part
<1>9. ASSUME NEW i \in Writes(q), i # t
      PROVE  Part(p, X, r, i) = Part(p, V, q, i)
  <2>1. i < t /\ r[t].buf = q[t].buf /\ r[i].buf = q[i].buf
    BY <1>2, <1>9
  <2>2. \A f \in New : ~(WDist(p, f) < WDist(p, q[t].buf))
    BY <1>1, <1>3, <1>4, <1>6
  <2>3. ASSUME NEW f \in Part(p, X, r, i)
        PROVE  f \in Part(p, V, q, i)
    <3>1. f \in X /\ WDist(p, f) < WDist(p, q[t].buf)
      BY <2>1, <2>3 DEF Part
    <3>2. f \in V
      BY <3>1, <2>2
    <3> QED BY <3>2, <2>3 DEF Part
  <2>4. ASSUME NEW f \in Part(p, V, q, i)
        PROVE  f \in Part(p, X, r, i)
    <3>1. f \in V /\ WDist(p, f) < WDist(p, q[t].buf)
      BY <2>1, <2>4 DEF Part
    <3>2. WDist(p, f) \in Int /\ WDist(p, q[t].buf) \in Int
      BY <3>1, <1>3, <1>5, <1>6
    <3>3. ASSUME f \in P PROVE FALSE
      <4>1. WDist(p, q[t].buf) <= WDist(p, f)
        BY <3>3 DEF Part
      <4> QED BY <4>1, <3>1, <3>2
    <3>4. f \in X
      BY <3>1, <3>3
    <3> QED BY <3>4, <2>4 DEF Part
  <2> QED BY <2>3, <2>4, Zenon
<1>10. Tiled(p, used + n, X, r)
  <2>1. used + n \in 0 .. WRITE_BUFFER_FRAME_NB /\ X \in SUBSET WFrame
    BY <1>1, <1>4
  <2>2. \A i \in Writes(r) : r[i].buf \in WFrame /\ WDist(p, r[i].buf) < used + n
    BY <1>1, <1>3, <1>6
  <2>3. \A i, j \in Writes(r) : i < j => WDist(p, r[i].buf) < WDist(p, r[j].buf)
    BY DEF Tiled
  <2>4. ASSUME NEW f \in X
        PROVE  WDist(p, f) < used + n /\ \E i \in Writes(r) : f \in Part(p, X, r, i)
    <3>1. CASE f \in New
      BY <3>1, <1>4, <1>8, Zenon
    <3>2. CASE f \in V /\ f \notin New
      <4>1. PICK i \in Writes(q) : f \in Part(p, V, q, i)
        BY <3>2 DEF Tiled
      <4>2. f \in Part(p, X, r, i)
        <5>1. CASE i = t
          BY <5>1, <4>1, <3>2, <2>4, <1>8, Zenon
        <5>2. CASE i # t
          BY <5>2, <4>1, <1>9, Zenon
        <5> QED BY <5>1, <5>2
      <4>3. WDist(p, f) < used + n
        BY <3>2, <1>1, <1>3, <1>5
      <4> QED BY <4>2, <4>3
    <3> QED BY <3>1, <3>2, <2>4, Zenon
  <2>5. ASSUME NEW i \in Writes(r)
        PROVE  Cardinality(Part(p, X, r, i)) = r[i].length
    <3>1. CASE i # t
      BY <3>1, <1>9, Zenon DEF Tiled
    <3>2. CASE i = t
      <4>1. Cardinality(New) = n /\ IsFiniteSet(New)
        BY <1>1, FreshCount
      <4>2. Kept \in SUBSET WFrame
        BY <1>1 DEF Part
      <4>3. IsFiniteSet(Kept) /\ Cardinality(Kept) \in Nat
        BY <4>2, FramesFinite
      <4>4. Kept \cap New = {}
        BY <1>7 DEF Part
      <4>5. Cardinality(Kept \cup New) = Cardinality(Kept) + Cardinality(New) - Cardinality(Kept \cap New)
        BY <4>1, <4>3, FS_Union
      <4>6. Cardinality(Kept \cap New) = 0
        BY <4>4, FS_EmptySet, Zenon
      <4>7. Cardinality(Kept \cup New) = Cardinality(Kept) + n
        BY <4>1, <4>3, <4>5, <4>6
      <4> QED BY <4>7, <3>2, <1>8, Zenon
    <3> QED BY <3>1, <3>2
  <2> QED BY <1>1, <2>1, <2>2, <2>3, <2>4, <2>5, Zenon DEF Tiled
<1> QED BY <1>8, <1>9, <1>10, Zenon

\* The first frames are free again: counting starts behind them.
LEMMA Advanced ==
  ASSUME NEW p, NEW used, NEW V, NEW q \in Seq(Entries), NEW d \in Nat \ {0}, d <= used,
         Tiled(p, used, V, q), \A f \in V : d <= WDist(p, f),
         \A i \in Writes(q) : d <= WDist(p, q[i].buf), NEW s, s = WAfter(p, d)
  PROVE  /\ Tiled(s, used - d, V, q)
         /\ \A i \in Writes(q) : Part(s, V, q, i) = Part(p, V, q, i)
         /\ \A f \in WFrame : WDist(s, f) = IF d <= WDist(p, f) THEN WDist(p, f) - d
                                            ELSE WDist(p, f) - d + WRITE_BUFFER_FRAME_NB
<1>1. /\ WRITE_BUFFER_FRAME_NB \in Nat \ {0} /\ p \in WFrame /\ used \in Nat
      /\ used <= WRITE_BUFFER_FRAME_NB /\ V \in SUBSET WFrame
  BY RingAssumption DEF Tiled
<1>2. d \in 0 .. WRITE_BUFFER_FRAME_NB
  BY <1>1
<1>3. \A f \in WFrame : WDist(p, f) \in 0 .. WRITE_BUFFER_FRAME_NB - 1
  BY <1>1, WDistFacts
<1>4. s \in WFrame /\ WDist(p, s) = IF d = WRITE_BUFFER_FRAME_NB THEN 0 ELSE d
  BY <1>1, <1>2, WAfterFacts
<1>5. ASSUME NEW f \in WFrame
      PROVE  WDist(s, f) = IF d <= WDist(p, f) THEN WDist(p, f) - d
                           ELSE WDist(p, f) - d + WRITE_BUFFER_FRAME_NB
  <2>1. WDist(s, f) = IF WDist(p, s) <= WDist(p, f) THEN WDist(p, f) - WDist(p, s)
                      ELSE WDist(p, f) - WDist(p, s) + WRITE_BUFFER_FRAME_NB
    BY <1>1, <1>4, WDistFrom
  <2>2. WDist(p, f) \in 0 .. WRITE_BUFFER_FRAME_NB - 1
    BY <1>3
  <2> QED BY <2>1, <2>2, <1>1, <1>2, <1>4
<1>6. \A f \in V : WDist(s, f) = WDist(p, f) - d /\ WDist(p, f) \in Int
  BY <1>1, <1>3, <1>5
<1>7. \A i \in Writes(q) : q[i].buf \in WFrame /\ WDist(p, q[i].buf) < used
  BY DEF Tiled
<1>8. \A i \in Writes(q) : WDist(s, q[i].buf) = WDist(p, q[i].buf) - d /\ WDist(p, q[i].buf) \in Int
  BY <1>3, <1>5, <1>7
<1>9. ASSUME NEW i \in Writes(q)
      PROVE  Part(s, V, q, i) = Part(p, V, q, i)
  <2>1. \A f \in V, j \in Writes(q) :
          /\ WDist(s, f) < WDist(s, q[j].buf) <=> WDist(p, f) < WDist(p, q[j].buf)
          /\ WDist(s, q[j].buf) <= WDist(s, f) <=> WDist(p, q[j].buf) <= WDist(p, f)
    BY <1>6, <1>8
  <2> QED BY <2>1 DEF Part
<1>10. Tiled(s, used - d, V, q)
  <2>1. used - d \in 0 .. WRITE_BUFFER_FRAME_NB
    BY <1>1
  <2>2. \A i \in Writes(q) : q[i].buf \in WFrame /\ WDist(s, q[i].buf) < used - d
    BY <1>1, <1>7, <1>8
  <2>3. \A i, j \in Writes(q) : i < j => WDist(s, q[i].buf) < WDist(s, q[j].buf)
    BY <1>8 DEF Tiled
  <2>4. ASSUME NEW f \in V
        PROVE  WDist(s, f) < used - d /\ \E i \in Writes(q) : f \in Part(s, V, q, i)
    <3>1. WDist(p, f) < used /\ \E i \in Writes(q) : f \in Part(p, V, q, i)
      BY DEF Tiled
    <3> QED BY <3>1, <1>1, <1>6, <1>9
  <2>5. \A i \in Writes(q) : Cardinality(Part(s, V, q, i)) = q[i].length
    BY <1>9 DEF Tiled
  <2> QED BY <1>1, <1>4, <2>1, <2>2, <2>3, <2>4, <2>5 DEF Tiled
<1> QED BY <1>5, <1>9, <1>10

\* UPDATE_WB_VALID_ARRAY and its relatives find the frames of an event from
\* its buf on, whatever lies behind the used frames ...
Beyond(p, used, V, X) == \E Z \in SUBSET WFrame : X = V \cup Z /\ \A f \in Z : used <= WDist(p, f)

LEMMA PartIsFirst ==
  ASSUME NEW p, NEW used, NEW V, NEW q \in Seq(Entries), Tiled(p, used, V, q), NEW i \in Writes(q),
         NEW X, Beyond(p, used, V, X)
  PROVE  FirstN(q[i].buf, q[i].length, X) = Part(p, V, q, i)
<1>0. PICK Z \in SUBSET WFrame : X = V \cup Z /\ \A f \in Z : used <= WDist(p, f)
  BY DEF Beyond
<1> DEFINE P == Part(p, V, q, i)
           b == q[i].buf
<1>1. /\ WRITE_BUFFER_FRAME_NB \in Nat \ {0} /\ p \in WFrame /\ used \in Nat
      /\ V \in SUBSET WFrame /\ b \in WFrame /\ WDist(p, b) < used /\ q[i].length = Cardinality(P)
  BY RingAssumption DEF Tiled
<1>2. \A f \in WFrame : WDist(p, f) \in 0 .. WRITE_BUFFER_FRAME_NB - 1
  BY <1>1, WDistFacts
<1>3. \A f \in WFrame : WDist(b, f) = IF WDist(p, b) <= WDist(p, f) THEN WDist(p, f) - WDist(p, b)
                                      ELSE WDist(p, f) - WDist(p, b) + WRITE_BUFFER_FRAME_NB
  BY <1>1, WDistFrom
<1>4. \A g \in P : g \in WFrame /\ WDist(p, b) <= WDist(p, g) /\ WDist(p, g) < used
  BY <1>1 DEF Part, Tiled
<1>5. ASSUME NEW g \in P, NEW f \in (V \cup Z) \ P
      PROVE  WDist(b, g) < WDist(b, f)
  <2>1. f \in WFrame /\ g \in WFrame
    BY <1>1, <1>4, <1>5
  <2>2. WDist(p, f) < WDist(p, b) \/ WDist(p, g) < WDist(p, f)
    <3>1. CASE f \in Z
      <4>1. used <= WDist(p, f) /\ WDist(p, g) < used
        BY <3>1, <1>0, <1>4
      <4> QED BY <4>1, <2>1, <1>1, <1>2
    <3>2. CASE f \in V /\ WDist(p, b) <= WDist(p, f)
      <4>1. PICK j \in Writes(q) : i < j /\ ~(WDist(p, f) < WDist(p, q[j].buf))
        BY <3>2, <1>5 DEF Part
      <4>2. WDist(p, g) < WDist(p, q[j].buf) /\ q[j].buf \in WFrame
        BY <4>1 DEF Part, Tiled
      <4> QED BY <4>1, <4>2, <2>1, <1>2
    <3>3. CASE ~(WDist(p, b) <= WDist(p, f))
      BY <3>3, <2>1, <1>1, <1>2
    <3> QED BY <3>1, <3>2, <3>3, <1>5
  <2>3. WDist(p, b) <= WDist(p, g)
    BY <1>4
  <2> QED BY <2>1, <2>2, <2>3, <1>1, <1>2, <1>3
<1>6. P \in SUBSET (V \cup Z) /\ V \cup Z \in SUBSET WFrame
  BY <1>1 DEF Part
<1> HIDE DEF P, b
<1>7. FirstN(b, Cardinality(P), V \cup Z) = P
  BY <1>1, <1>5, <1>6, FirstSegment
<1> QED BY <1>0, <1>1, <1>7 DEF P, b

\* ... and INCREASE_WB_FTL_POINTER those of the first event from p on.
LEMMA HeadIsFirst ==
  ASSUME NEW p, NEW used, NEW V, NEW q \in Seq(Entries), Tiled(p, used, V, q), NEW i \in Writes(q),
         \A j \in Writes(q) : i <= j
  PROVE  FirstN(p, q[i].length, V) = Part(p, V, q, i)
<1> DEFINE P == Part(p, V, q, i)
<1>1. /\ WRITE_BUFFER_FRAME_NB \in Nat \ {0} /\ p \in WFrame
      /\ V \in SUBSET WFrame /\ q[i].length = Cardinality(P) /\ P \in SUBSET V
  BY RingAssumption, Zenon DEF Tiled, Part
<1>2. \A f \in WFrame : WDist(p, f) \in Int
  BY <1>1, WDistFacts
<1>3. ASSUME NEW g \in P, NEW f \in V \ P
      PROVE  WDist(p, g) < WDist(p, f)
  <2>1. PICK j \in Writes(q) : f \in Part(p, V, q, j)
    BY DEF Tiled
  <2>2. j # i /\ i <= j /\ i \in Int /\ j \in Int
    BY <2>1, <1>3, WritesInt
  <2>3. WDist(p, g) < WDist(p, q[j].buf) /\ WDist(p, q[j].buf) <= WDist(p, f) /\ q[j].buf \in WFrame
    BY <2>1, <2>2, <1>3 DEF Part, Tiled
  <2> QED BY <2>3, <1>1, <1>2
<1> HIDE DEF P
<1>4. FirstN(p, Cardinality(P), V) = P
  BY <1>1, <1>3, FirstSegment
<1> QED BY <1>1, <1>4 DEF P
-----------------------------------------------------------------------------
(***************************************************************************)
(* The write ring: p is where both the FTL's pointer and the limit are.    *)
(***************************************************************************)
ZeroFrom(p, used, array) ==
  /\ array \in [WFrame -> {"0", "V", "I"}]
  /\ \A f \in WFrame : array[f] = "0" <=> used <= WDist(p, f)

\* The last used frame is valid.
EndsIn(p, used, V) == used # 0 => \E f \in V : WDist(p, f) = used - 1

Ring(p, sata, empty, array, q) ==
  LET used == WRITE_BUFFER_FRAME_NB - empty
  IN  /\ empty \in Int /\ sata = WAfter(p, used)
      /\ ZeroFrom(p, used, array) /\ Tiled(p, used, Valid(array), q)
      /\ EndsIn(p, used, Valid(array))

\* Without writes in the queue all frames are free.
LEMMA RingEmpty ==
  ASSUME NEW p, NEW sata, NEW empty, NEW array, NEW q, Ring(p, sata, empty, array, q),
         Writes(q) = {}
  PROVE  empty = WRITE_BUFFER_FRAME_NB
<1>1. Valid(array) = {}
  BY DEF Ring, Tiled
<1>2. WRITE_BUFFER_FRAME_NB - empty = 0 /\ empty \in Int
  BY <1>1 DEF Ring, EndsIn
<1> QED BY <1>2, RingAssumption

\* Reads come and go before the writes.
LEMMA RingShifted ==
  ASSUME NEW p, NEW sata, NEW empty, NEW array, NEW q, NEW r, NEW d,
         Ring(p, sata, empty, array, q), Shift(q, r, d)
  PROVE  /\ Ring(p, sata, empty, array, r)
         /\ MovedParts(p, Valid(array), q, r, d)
<1> DEFINE used == WRITE_BUFFER_FRAME_NB - empty
           V == Valid(array)
<1>1. Tiled(p, used, V, q)
  BY DEF Ring
<1> HIDE DEF used, V
<1>2. Tiled(p, used, V, r) /\ MovedParts(p, V, q, r, d)
  BY <1>1, Shifted
<1> QED BY <1>2 DEF Ring, used, V

\* INCREASE_WB_LIMIT_POINTER from p.
FreedTo(p, ftl) == IF p = ftl THEN WFrame ELSE Between(p, ftl)

\* FTL_WRITE of the first event.
LEMMA RingDequeued ==
  ASSUME NEW p, NEW sata, NEW empty, NEW array, NEW q \in Seq(Entries),
         Ring(p, sata, empty, array, q), 1 \in Writes(q),
         NEW ftl, ftl = WAfter(Nth(p, q[1].length - 1, Valid(array)), 1),
         NEW freed, freed = FreedTo(p, ftl),
         NEW rest, rest = Mark(Mark(array, FirstN(p, q[1].length, Valid(array)), "F"), freed, "0")
  PROVE  /\ Ring(ftl, sata, empty + Cardinality(freed), rest, Tail(q))
         /\ \A i \in Writes(Tail(q)) :
              i + 1 \in Writes(q) /\ Part(ftl, Valid(rest), Tail(q), i) = Part(p, Valid(array), q, i + 1)
         /\ ftl \in WFrame /\ FirstN(p, q[1].length, Valid(array)) = Part(p, Valid(array), q, 1)
         /\ Part(p, Valid(array), q, 1) \in SUBSET freed
         /\ Valid(array) \cap freed = Part(p, Valid(array), q, 1)
<1> DEFINE used == WRITE_BUFFER_FRAME_NB - empty
           V == Valid(array)
           n == q[1].length
           P == Part(p, V, q, 1)
           last == Nth(p, n - 1, V)
           d == WDist(p, last) + 1
           W == V \ P
           new == Mark(Mark(array, FirstN(p, n, V), "F"), freed, "0")
<1>1. /\ WRITE_BUFFER_FRAME_NB \in Nat \ {0} /\ p \in WFrame /\ used \in Nat /\ empty \in Int
      /\ used <= WRITE_BUFFER_FRAME_NB /\ V \in SUBSET WFrame /\ Tiled(p, used, V, q)
      /\ array \in [WFrame -> {"0", "V", "I"}] /\ sata = WAfter(p, used)
      /\ \A f \in WFrame : array[f] = "0" <=> used <= WDist(p, f)
      /\ used # 0 => \E f \in V : WDist(p, f) = used - 1
  BY RingAssumption DEF Ring, Tiled, ZeroFrom, EndsIn
<1>2. Len(q) \in Nat /\ 1 \in 1 .. Len(q) /\ q[1] \in Entries /\ n \in Nat \ {0}
  <2>1. Len(q) \in Nat /\ 1 \in 1 .. Len(q)
    BY WritesInt
  <2>2. q[1] \in Entries
    BY <2>1, ElementOfSeq
  <2> QED BY <2>1, <2>2, Zenon DEF Entries
<1>3. Cardinality(P) = n /\ P \in SUBSET V
  BY <1>1, Zenon DEF Tiled, Part
<1>4. \A j \in Writes(q) : 1 <= j /\ j \in Int
  BY WritesInt
<1> HIDE DEF used, V, n
<1>5. FirstN(p, n, V) = P
  BY <1>1, <1>4, HeadIsFirst DEF n
<1>6. \A f \in WFrame : WDist(p, f) \in 0 .. WRITE_BUFFER_FRAME_NB - 1
  BY <1>1, WDistFacts
<1>7. last \in P /\ \A f \in P : WDist(p, f) <= WDist(p, last)
  <2>1. Cardinality(V) \in Nat /\ IsFiniteSet(V) /\ Cardinality(P) <= Cardinality(V)
    BY <1>1, <1>3, FramesFinite, FS_Subset
  <2>2. n - 1 \in Nat /\ n - 1 < Cardinality(V) /\ n - 1 < n
    BY <2>1, <1>2, <1>3
  <2>3. \E f \in V : Rank(p, f, V) = n - 1 /\ Nth(p, n - 1, V) = f
    BY <2>2, <1>1, NthExists
  <2>4. last \in V /\ Rank(p, last, V) = n - 1
    BY <2>3
  <2> HIDE DEF last
  <2>5. last \in P
    BY <2>2, <2>4, <1>5 DEF FirstN
  <2>6. ASSUME NEW f \in P
        PROVE  WDist(p, f) <= WDist(p, last)
    <3>1. f \in V /\ Rank(p, f, V) < n
      BY <1>5 DEF FirstN
    <3>2. /\ Rank(p, f, V) \in Nat
          /\ WDist(p, last) < WDist(p, f) => Rank(p, last, V) < Rank(p, f, V)
      BY <3>1, <2>4, <1>1, RankFacts
    <3>3. WDist(p, last) \in Int /\ WDist(p, f) \in Int
      BY <3>1, <2>4, <1>1, <1>6
    <3> QED BY <3>1, <3>2, <3>3, <2>4, <1>2
  <2> QED BY <2>5, <2>6
<1> HIDE DEF last
<1>8. last \in WFrame /\ WDist(p, last) < used /\ WDist(p, last) \in 0 .. WRITE_BUFFER_FRAME_NB - 1
  BY <1>1, <1>3, <1>6, <1>7 DEF Tiled
<1>9. d \in Nat \ {0} /\ d <= used /\ d \in 0 .. WRITE_BUFFER_FRAME_NB
  BY <1>1, <1>8
<1>10. ftl = WAfter(p, d) /\ ftl \in WFrame
  <2>1. WAfter(p, WDist(p, last)) = last
    BY <1>1, <1>8, WDistFacts
  <2>2. WAfter(WAfter(p, WDist(p, last)), 1) = WAfter(p, WDist(p, last) + 1)
    <3>1. WDist(p, last) \in Nat /\ WDist(p, last) + 1 <= WRITE_BUFFER_FRAME_NB /\ 1 \in Nat
      BY <1>1, <1>8
    <3> QED BY <3>1, <1>1, AfterAfter
  <2>3. ftl = WAfter(last, 1)
    BY DEF last, n, V
  <2>4. WAfter(p, d) \in WFrame
    BY <1>1, <1>9, WAfterFacts
  <2> QED BY <2>1, <2>2, <2>3, <2>4
<1>11. \A f \in WFrame : f \in freed <=> WDist(p, f) < d
  <2>1. /\ WDist(p, ftl) = IF d = WRITE_BUFFER_FRAME_NB THEN 0 ELSE d
        /\ d = WRITE_BUFFER_FRAME_NB => ftl = p
    BY <1>1, <1>9, <1>10, WAfterFacts
  <2>2. WDist(p, p) = 0
    BY <1>1, WDistFacts
  <2> HIDE DEF d
  <2>3. CASE p = ftl
    <3>1. d = WRITE_BUFFER_FRAME_NB
      BY <2>1, <2>2, <2>3, <1>1, <1>9
    <3> QED BY <3>1, <2>3, <1>1, <1>6 DEF FreedTo
  <2>4. CASE p # ftl
    <3>1. d # WRITE_BUFFER_FRAME_NB /\ WDist(p, ftl) = d
      BY <2>1, <2>4
    <3> QED BY <3>1, <2>4 DEF Between, FreedTo
  <2> QED BY <2>3, <2>4
<1>12. freed \in SUBSET WFrame /\ Cardinality(freed) = d
  <2>1. freed \in SUBSET WFrame
    BY DEF Between, FreedTo
  <2>2. freed = Fresh(p, 0, d)
    BY <2>1, <1>1, <1>6, <1>9, <1>11 DEF Fresh
  <2>3. 0 + d <= WRITE_BUFFER_FRAME_NB /\ 0 \in Nat /\ d \in Nat
    BY <1>9
  <2> HIDE DEF d
  <2>4. Cardinality(Fresh(p, 0, d)) = d
    BY <2>3, <1>1, FreshCount
  <2> QED BY <2>1, <2>2, <2>4
<1>13. \A f \in P : f \in freed
  BY <1>1, <1>3, <1>6, <1>7, <1>8, <1>11
<1>14. \A f \in W : f \in WFrame /\ d <= WDist(p, f) /\ f \notin freed
  <2>1. ASSUME NEW f \in W
        PROVE  WDist(p, last) < WDist(p, f)
    BY <2>1, <1>1, <1>2, <1>5, <1>7, FirstBefore
  <2>2. ASSUME NEW f \in W
        PROVE  f \in WFrame /\ d <= WDist(p, f) /\ ~(WDist(p, f) < d)
    <3>1. f \in WFrame /\ WDist(p, f) \in Int
      BY <2>2, <1>1, <1>6
    <3> QED BY <3>1, <2>1, <2>2, <1>8
  <2> QED BY <2>2, <1>11, Zenon
<1> HIDE DEF d
<1>15. \A f \in WFrame : new[f] = IF f \in freed THEN "0" ELSE array[f]
  BY <1>5, <1>13 DEF Mark
<1>16. new \in [WFrame -> {"0", "V", "I"}]
  <2>1. \A f \in WFrame : new[f] \in {"0", "V", "I"}
    BY <1>1, <1>15
  <2>2. new = [f \in WFrame |-> new[f]]
    BY DEF Mark
  <2> QED BY <2>1, <2>2
<1>17. Valid(new) = W
  <2>1. \A f \in WFrame : f \in V <=> array[f] = "V"
    BY DEF V, Valid
  <2>2. \A f \in WFrame : new[f] = "V" <=> f \in W
    BY <2>1, <1>13, <1>14, <1>15
  <2>3. W \in SUBSET WFrame
    BY <1>1
  <2> QED BY <2>2, <2>3 DEF Valid
<1> DEFINE r == [q EXCEPT ![1] = [q[1] EXCEPT !.valid = FALSE]]
<1>18. /\ r \in Seq(Entries) /\ Len(r) = Len(q)
       /\ \A i \in 1 .. Len(q) : r[i] = IF i = 1 THEN [q[1] EXCEPT !.valid = FALSE] ELSE q[i]
  <2>1. [q[1] EXCEPT !.valid = FALSE] \in Entries
    BY <1>2, Zenon DEF Entries
  <2> QED BY <2>1, <1>2, ExceptSeq
<1> HIDE DEF r
<1>19. Writes(r) = Writes(q) \ {1} /\ \A i \in Writes(r) : r[i] = q[i]
  <2>1. ~r[1].valid
    BY <1>2, <1>18 DEF Entries
  <2> QED BY <2>1, <1>18 DEF Writes
<1>20. Tiled(p, used, W, r) /\ SameParts(p, V, q, p, W, r, Writes(r))
  <2> DEFINE O == {1}
  <2>1. Without(p, V, q, O, W)
    BY DEF Without
  <2>2. O \in SUBSET Writes(q)
    OBVIOUS
  <2>3. /\ Writes(r) = Writes(q) \ O /\ r \in Seq(Entries) /\ Tiled(p, used, V, q)
        /\ \A i \in Writes(r) : r[i].buf = q[i].buf /\ r[i].length = q[i].length
    BY <1>1, <1>18, <1>19
  <2> HIDE DEF W, P, O
  <2>4. Release(q, r, O)
    BY <2>2, <2>3 DEF Release
  <2> QED BY <2>1, <2>3, <2>4, Released, Zenon
<1>21. \A i \in Writes(r) : d <= WDist(p, r[i].buf)
  <2> SUFFICES ASSUME NEW i \in Writes(r)
               PROVE  d <= WDist(p, r[i].buf)
    BY Zenon
  <2>1. i \in Writes(q) /\ 1 < i /\ r[i] = q[i]
    BY <1>4, <1>19
  <2>2. WDist(p, last) < WDist(p, q[i].buf) /\ q[i].buf \in WFrame
    BY <2>1, <1>1, <1>7, Zenon DEF Part, Tiled
  <2> QED BY <2>1, <2>2, <1>1, <1>6, <1>8 DEF d
<1>22. /\ Tiled(ftl, used - d, W, r)
       /\ \A i \in Writes(r) : Part(ftl, W, r, i) = Part(p, W, r, i)
       /\ \A f \in WFrame : WDist(ftl, f) = IF d <= WDist(p, f) THEN WDist(p, f) - d
                                            ELSE WDist(p, f) - d + WRITE_BUFFER_FRAME_NB
  <2> HIDE DEF W
  <2> QED BY <1>9, <1>10, <1>14, <1>18, <1>20, <1>21, Advanced
<1>23. /\ Tiled(ftl, used - d, W, Tail(q))
       /\ \A i \in Writes(Tail(q)) :
            i + 1 \in Writes(q) /\ Part(ftl, W, Tail(q), i) = Part(p, V, q, i + 1)
  <2>1. /\ Tail(q) \in Seq(Entries) /\ Len(Tail(q)) = Len(q) - 1
        /\ \A i \in 1 .. Len(Tail(q)) : Tail(q)[i] = q[i + 1]
    BY <1>2, EmptySeq, HeadTailProperties
  <2>2. ASSUME NEW i \in Writes(r)
        PROVE  /\ i + (-1) \in Writes(Tail(q)) /\ Tail(q)[i + (-1)].buf = r[i].buf
               /\ Tail(q)[i + (-1)].length = r[i].length
    <3>1. i \in 1 .. Len(q) /\ i # 1 /\ r[i] = q[i] /\ i \in Writes(q)
      BY <1>18, <1>19, WritesInt
    <3>2. i + (-1) \in 1 .. Len(q) - 1 /\ (i + (-1)) + 1 = i
      BY <3>1, <1>2
    <3>3. Tail(q)[i + (-1)] = q[i]
      BY <3>2, <2>1
    <3> QED BY <3>1, <3>2, <3>3, <2>1 DEF Writes
  <2>3. ASSUME NEW j \in Writes(Tail(q))
        PROVE  j - (-1) \in Writes(r) /\ j - (-1) = j + 1 /\ j \in Int
    <3>1. j \in 1 .. Len(q) - 1 /\ Tail(q)[j] = q[j + 1]
      BY <2>1 DEF Writes
    <3>2. j - (-1) = j + 1 /\ j + 1 \in 1 .. Len(q) /\ j + 1 # 1
      BY <3>1, <1>2
    <3>3. j + 1 \in Writes(q)
      BY <3>1, <3>2, <2>3 DEF Writes
    <3> QED BY <3>1, <3>2, <3>3, <1>19
  <2> HIDE DEF W
  <2>4. -1 \in Int
    OBVIOUS
  <2>5. Tiled(ftl, used - d, W, r) /\ Tail(q) \in Seq(Entries) /\ r \in Seq(Entries)
    BY <2>1, <1>18, <1>22
  <2>6. /\ Tiled(ftl, used - d, W, Tail(q))
        /\ MovedParts(ftl, W, r, Tail(q), -1)
    <3>1. Shift(r, Tail(q), -1)
      BY <2>2, <2>3, <2>4, <2>5, Zenon DEF Shift
    <3> QED BY <3>1, <2>5, Shifted
  <2>7. ASSUME NEW i \in Writes(Tail(q))
        PROVE  i + 1 \in Writes(q) /\ Part(ftl, W, Tail(q), i) = Part(p, V, q, i + 1)
    <3>1. i + 1 \in Writes(r) /\ i \in Int /\ (i + 1) + (-1) = i
      BY <2>3
    <3>2. /\ Part(ftl, W, Tail(q), (i + 1) + (-1)) = Part(ftl, W, r, i + 1)
          /\ Part(ftl, W, r, i + 1) = Part(p, W, r, i + 1)
          /\ Part(p, W, r, i + 1) = Part(p, V, q, i + 1)
      BY <3>1, <2>6, <1>20, <1>22, Zenon DEF MovedParts, SameParts
    <3> QED BY <3>1, <3>2, <1>19
  <2> QED BY <2>6, <2>7, Zenon
<1>24. WRITE_BUFFER_FRAME_NB - (empty + Cardinality(freed)) = used - d
       /\ empty + Cardinality(freed) \in Int
  BY <1>1, <1>9, <1>12 DEF used
<1>25. sata = WAfter(ftl, used - d)
  <2>1. used - d \in Nat /\ d + (used - d) = used
    BY <1>1, <1>9
  <2>2. WAfter(WAfter(p, d), used - d) = WAfter(p, d + (used - d))
    BY <2>1, <1>1, <1>9, AfterAfter
  <2> QED BY <2>1, <2>2, <1>1, <1>10
<1>26. ASSUME NEW f \in WFrame
       PROVE  new[f] = "0" <=> used - d <= WDist(ftl, f)
  <2>1. WDist(p, f) \in 0 .. WRITE_BUFFER_FRAME_NB - 1 /\ (array[f] = "0" <=> used <= WDist(p, f))
    BY <1>1, <1>6
  <2>2. f \in freed <=> WDist(p, f) < d
    BY <1>11
  <2>3. new[f] = IF f \in freed THEN "0" ELSE array[f]
    BY <1>15
  <2>4. WDist(ftl, f) = IF d <= WDist(p, f) THEN WDist(p, f) - d
                        ELSE WDist(p, f) - d + WRITE_BUFFER_FRAME_NB
    BY <1>22
  <2> HIDE DEF new
  <2> QED BY <2>1, <2>2, <2>3, <2>4, <1>1, <1>9
<1>27. ASSUME used - d # 0
       PROVE  \E f \in W : WDist(ftl, f) = used - d - 1
  <2>1. PICK f \in V : WDist(p, f) = used - 1
    BY <1>1, <1>9, <1>27
  <2>2. f \in WFrame /\ d <= WDist(p, f)
    BY <2>1, <1>1, <1>9, <1>27
  <2>3. f \notin freed
    BY <2>2, <1>6, <1>9, <1>11
  <2>4. f \in W
    BY <2>1, <2>3, <1>13
  <2>5. WDist(ftl, f) = used - d - 1
    BY <2>1, <2>2, <1>1, <1>9, <1>22
  <2> QED BY <2>4, <2>5, Zenon
<1>28. Ring(ftl, sata, empty + Cardinality(freed), new, Tail(q))
  <2> HIDE DEF new, W
  <2>1. ZeroFrom(ftl, used - d, new) /\ EndsIn(ftl, used - d, W)
    BY <1>16, <1>26, <1>27 DEF ZeroFrom, EndsIn
  <2> QED BY <2>1, <1>17, <1>23, <1>24, <1>25 DEF Ring
<1>29. V \cap freed = P
  BY <1>3, <1>13, <1>14
<1>30. rest = new
  BY DEF V, n
<1> HIDE DEF new, P, W
<1> QED BY <1>5, <1>10, <1>13, <1>17, <1>23, <1>28, <1>29, <1>30 DEF V, n, P

\* The next n frames from sata on, and the frames of the events in O.
NewAt(sata, n) == {WAfter(sata, i) : i \in 0 .. n - 1}
Owned(array, q, O) == UNION {FirstN(q[i].buf, q[i].length, Valid(array)) : i \in O}

\* What every ENQUEUE_WRITE does to the frames: n new ones, and those of the
\* overwritten events are invalid.
\* ENQUEUE_WRITE of n sectors, up to the merge: over and qo are the array and
\* the queue without the overwritten events O.
Accept(sata, empty, array, q, n, O, over, qo) ==
  /\ n \in Nat \ {0} /\ n <= empty /\ Release(q, qo, O)
  /\ LET arrived == Mark(array, NewAt(sata, n), "V")
     IN  over = Mark(arrived, Owned(arrived, q, O), "I")

\* The ring between the two, with used frames before and W what is left of
\* the valid ones.
Accepted(p, sata, empty, array, q, n, over, qo, New, used, W) ==
  /\ New = NewAt(sata, n) /\ used = WRITE_BUFFER_FRAME_NB - empty /\ W = Valid(over) \ New
  /\ used \in Nat /\ n \in Nat /\ used + n <= WRITE_BUFFER_FRAME_NB /\ p \in WFrame
  /\ New = Fresh(p, used, n) /\ New \in SUBSET Valid(over)
  /\ ZeroFrom(p, used + n, over) /\ EndsIn(p, used + n, New)
  /\ Tiled(p, used, W, qo) /\ SameParts(p, Valid(array), q, p, W, qo, Writes(qo))
  /\ sata = WAfter(p, used) /\ WAfter(sata, n) = WAfter(p, used + n)

LEMMA RingOver ==
  ASSUME NEW p, NEW sata, NEW empty, NEW array, NEW q, NEW n, NEW O, NEW over, NEW qo,
         Ring(p, sata, empty, array, q), Accept(sata, empty, array, q, n, O, over, qo)
  PROVE  Accepted(p, sata, empty, array, q, n, over, qo, NewAt(sata, n),
                  WRITE_BUFFER_FRAME_NB - empty, Valid(over) \ NewAt(sata, n))
<1> DEFINE V == Valid(array)
           New == NewAt(sata, n)
           used == WRITE_BUFFER_FRAME_NB - empty
           W == Valid(over) \ New
           arrived == Mark(array, New, "V")
           U == Owned(arrived, q, O)
<1>0. /\ n \in Nat \ {0} /\ n <= empty /\ over = Mark(arrived, U, "I")
      /\ q \in Seq(Entries) /\ O \in SUBSET Writes(q) /\ Release(q, qo, O)
  BY DEF Accept, Release
<1>1. /\ WRITE_BUFFER_FRAME_NB \in Nat \ {0} /\ p \in WFrame /\ used \in Nat /\ empty \in Int
      /\ used <= WRITE_BUFFER_FRAME_NB /\ V \in SUBSET WFrame /\ Tiled(p, used, V, q)
      /\ array \in [WFrame -> {"0", "V", "I"}] /\ sata = WAfter(p, used)
      /\ \A f \in WFrame : array[f] = "0" <=> used <= WDist(p, f)
  BY RingAssumption DEF Ring, Tiled, ZeroFrom
<1> HIDE DEF New, used, W
<1>2. used + n <= WRITE_BUFFER_FRAME_NB
  BY <1>0, <1>1 DEF used
<1>3. /\ New = Fresh(p, used, n)
      /\ \A i \in 0 .. n - 1 : WDist(p, WAfter(WAfter(p, used), i)) = used + i
  BY <1>0, <1>1, <1>2, FreshCount DEF NewAt, New
<1>4. \A f \in WFrame : WDist(p, f) \in 0 .. WRITE_BUFFER_FRAME_NB - 1
  BY <1>1, WDistFacts
<1>5. New \in SUBSET WFrame /\ \A f \in New : used <= WDist(p, f) /\ WDist(p, f) < used + n
  BY <1>3 DEF Fresh
<1>6. \E f \in New : WDist(p, f) = used + n - 1
  <2>1. n - 1 \in 0 .. n - 1 /\ used + (n - 1) = used + n - 1
    BY <1>0, <1>1
  <2>2. WAfter(sata, n - 1) \in New /\ WDist(p, WAfter(sata, n - 1)) = used + (n - 1)
    BY <2>1, <1>1, <1>3 DEF NewAt, New
  <2> QED BY <2>1, <2>2
<1>7. WAfter(sata, n) = WAfter(p, used + n)
  BY <1>0, <1>1, <1>2, AfterAfter
<1>8. Valid(arrived) = V \cup New
  BY <1>1, <1>5 DEF Mark, Valid
<1> HIDE DEF V, arrived
<1>9. \A i \in O : FirstN(q[i].buf, q[i].length, Valid(arrived)) = Part(p, V, q, i)
  <2>1. ASSUME NEW i \in O
        PROVE  FirstN(q[i].buf, q[i].length, V \cup New) = Part(p, V, q, i)
    <3>1. Beyond(p, used, V, V \cup New)
      BY <1>5 DEF Beyond
    <3>2. Tiled(p, used, V, q) /\ q \in Seq(Entries) /\ i \in Writes(q)
      BY <1>0, <1>1
    <3> QED BY <3>1, <3>2, PartIsFirst
  <2> QED BY <2>1, <1>8
<1>10. \A f : f \in U <=> \E i \in O : f \in Part(p, V, q, i)
  BY <1>9 DEF Owned
<1> HIDE DEF U
<1>11. \A f \in V : f \in WFrame /\ WDist(p, f) < used
  BY <1>1 DEF Tiled
<1>12. \A f \in U : f \in V
  BY <1>10 DEF Part
<1>13. \A f \in New : f \in WFrame /\ f \notin V /\ f \notin U
  BY <1>1, <1>4, <1>5, <1>11, <1>12
<1>14. \A f \in WFrame : over[f] = IF f \in U THEN "I" ELSE IF f \in New THEN "V" ELSE array[f]
  <2>1. \A f \in WFrame : arrived[f] = IF f \in New THEN "V" ELSE array[f]
    BY DEF Mark, arrived
  <2> QED BY <2>1, <1>0 DEF Mark
<1>15. over \in [WFrame -> {"0", "V", "I"}]
  <2>1. \A f \in WFrame : over[f] \in {"0", "V", "I"}
    BY <1>1, <1>14
  <2>2. over = [f \in WFrame |-> over[f]]
    BY <1>0 DEF Mark
  <2> QED BY <2>1, <2>2
<1>16. ASSUME NEW f \in WFrame
       PROVE  over[f] = "0" <=> used + n <= WDist(p, f)
  <2>1. WDist(p, f) \in Int
    BY <1>1, <1>4
  <2>2. CASE f \in U
    <3>1. f \in V /\ over[f] = "I"
      BY <2>2, <1>12, <1>14
    <3>2. WDist(p, f) < used
      BY <3>1, <1>11
    <3> QED BY <3>1, <3>2, <2>1, <1>0, <1>1
  <2>3. CASE f \in New
    <3>1. over[f] = "V" /\ WDist(p, f) < used + n
      BY <2>3, <1>5, <1>13, <1>14
    <3> QED BY <3>1, <2>1, <1>0, <1>1
  <2>4. CASE f \notin U /\ f \notin New
    <3>1. over[f] = array[f] /\ (array[f] = "0" <=> used <= WDist(p, f))
      BY <2>4, <1>1, <1>14
    <3>2. ~(used <= WDist(p, f) /\ WDist(p, f) < used + n)
      BY <2>4, <1>3 DEF Fresh
    <3> QED BY <3>1, <3>2, <2>1, <1>0, <1>1
  <2> QED BY <2>2, <2>3, <2>4
<1>17. \A f : f \in W <=> f \in V /\ f \notin U
  <2>1. \A f \in WFrame : f \in V <=> array[f] = "V"
    BY DEF Valid, V
  <2>2. \A f : f \in Valid(over) <=> f \in WFrame /\ over[f] = "V"
    BY DEF Valid
  <2> QED BY <2>1, <2>2, <1>11, <1>13, <1>14 DEF W
<1>18. New \in SUBSET Valid(over)
  BY <1>13, <1>14 DEF Valid
<1>19. Tiled(p, used, W, qo) /\ SameParts(p, V, q, p, W, qo, Writes(qo))
  <2>1. Without(p, V, q, O, W)
    BY <1>10, <1>17 DEF Without
  <2>2. Tiled(p, used, V, q) /\ Release(q, qo, O)
    BY <1>0, <1>1
  <2> QED BY <2>1, <2>2, Released
<1>20. ZeroFrom(p, used + n, over) /\ EndsIn(p, used + n, New)
  <2>1. ZeroFrom(p, used + n, over)
    BY <1>15, <1>16 DEF ZeroFrom
  <2>2. EndsIn(p, used + n, New)
    <3>1. used \in Nat /\ n \in Nat
      BY <1>0, <1>1
    <3> QED BY <3>1, <1>6 DEF EndsIn
  <2> QED BY <2>1, <2>2
<1> QED BY <1>0, <1>1, <1>2, <1>3, <1>7, <1>18, <1>19, <1>20 DEF V, New, used, W, Accepted

\* ENQUEUE_WRITE with a new event.
LEMMA RingAppended ==
  ASSUME NEW p, NEW sata, NEW empty, NEW array, NEW q, NEW n, NEW O, NEW over, NEW qo, NEW e \in Entries,
         NEW New, New = NewAt(sata, n), Ring(p, sata, empty, array, q), Accept(sata, empty, array, q, n, O, over, qo),
         e.io_type = "WRITE", e.valid, e.buf = sata, e.length = n
  PROVE  /\ Ring(p, WAfter(sata, n), empty - n, over, Append(qo, e))
         /\ Len(qo) + 1 \in Writes(Append(qo, e))
         /\ Part(p, Valid(over), Append(qo, e), Len(qo) + 1) = New
         /\ SameParts(p, Valid(array), q, p, Valid(over), Append(qo, e), Writes(qo))
<1> DEFINE used == WRITE_BUFFER_FRAME_NB - empty
           W == Valid(over) \ New
           r == Append(qo, e)
<1> HIDE DEF used, W
<1>1. /\ used \in Nat /\ used + n <= WRITE_BUFFER_FRAME_NB /\ p \in WFrame
      /\ New = Fresh(p, used, n) /\ New \in SUBSET Valid(over)
      /\ ZeroFrom(p, used + n, over) /\ EndsIn(p, used + n, New)
      /\ Tiled(p, used, W, qo) /\ SameParts(p, Valid(array), q, p, W, qo, Writes(qo))
      /\ sata = WAfter(p, used) /\ WAfter(sata, n) = WAfter(p, used + n)
  <2>1. Accepted(p, sata, empty, array, q, n, over, qo, New, used, W)
    BY RingOver, Zenon DEF used, W
  <2> QED BY <2>1 DEF Accepted
<1>2. W \cup New = Valid(over)
  BY <1>1 DEF W
<1> HIDE DEF r
<1>3. /\ Tiled(p, used + n, Valid(over), r)
      /\ Len(qo) + 1 \in Writes(r) /\ Part(p, Valid(over), r, Len(qo) + 1) = New
      /\ SameParts(p, W, qo, p, Valid(over), r, Writes(qo))
  <2>1. r = Append(qo, e)
    BY DEF r
  <2>2. qo \in Seq(Entries)
    BY DEF Accept, Release
  <2>3. Add(p, used, W, qo, e, r, New, Valid(over), used + n, Len(qo) + 1)
    BY <2>1, <2>2, <1>1, <1>2 DEF Add
  <2> QED BY <2>3, Added
<1>4. WRITE_BUFFER_FRAME_NB - (empty - n) = used + n /\ empty - n \in Int
  <2>1. n \in Nat /\ empty \in Int
    BY DEF Ring, Accept
  <2> QED BY <2>1, RingAssumption DEF used
<1>5. EndsIn(p, used + n, Valid(over))
  BY <1>1 DEF EndsIn
<1>6. Ring(p, WAfter(sata, n), empty - n, over, r)
  BY <1>1, <1>2, <1>3, <1>4, <1>5 DEF Ring
<1>7. SameParts(p, Valid(array), q, p, Valid(over), r, Writes(qo))
  BY <1>1, <1>2, <1>3 DEF SameParts
<1> QED BY <1>2, <1>3, <1>6, <1>7 DEF r

\* ENQUEUE_WRITE that makes the last event longer; of the frames the event has
\* had it keeps some, and the others are invalid.
Merging(p, sata, empty, array, q, n, O, over, qo, r, t, P, Kept, cut, New) ==
  /\ Ring(p, sata, empty, array, q) /\ Accept(sata, empty, array, q, n, O, over, qo)
  /\ Extension(qo, r, t, n, Kept)
  /\ P = Part(p, Valid(array), q, t) /\ Kept \in SUBSET P
  /\ cut = Mark(over, P \ Kept, "I") /\ New = NewAt(sata, n)

Merged(p, sata, empty, array, q, n, qo, r, t, Kept, cut, New) ==
  /\ Ring(p, WAfter(sata, n), empty - n, cut, r)
  /\ Part(p, Valid(cut), r, t) = Kept \cup New
  /\ SameParts(p, Valid(array), q, p, Valid(cut), r, Writes(qo) \ {t})

LEMMA RingExtended ==
  ASSUME NEW p, NEW sata, NEW empty, NEW array, NEW q, NEW n, NEW O, NEW over, NEW qo, NEW r,
         NEW t, NEW P, NEW Kept, NEW cut, NEW New,
         Merging(p, sata, empty, array, q, n, O, over, qo, r, t, P, Kept, cut, New)
  PROVE  Merged(p, sata, empty, array, q, n, qo, r, t, Kept, cut, New)
<1> DEFINE used == WRITE_BUFFER_FRAME_NB - empty
           W == Valid(over) \ New
           X == (W \ (P \ Kept)) \cup New
<1> HIDE DEF used, W
<1> USE DEF Merging
<1>1. /\ used \in Nat /\ used + n <= WRITE_BUFFER_FRAME_NB /\ p \in WFrame
      /\ New = Fresh(p, used, n) /\ New \in SUBSET Valid(over)
      /\ ZeroFrom(p, used + n, over) /\ EndsIn(p, used + n, New)
      /\ Tiled(p, used, W, qo) /\ SameParts(p, Valid(array), q, p, W, qo, Writes(qo))
      /\ sata = WAfter(p, used) /\ WAfter(sata, n) = WAfter(p, used + n)
  <2>1. Accepted(p, sata, empty, array, q, n, over, qo, New, used, W)
    BY RingOver DEF used, W
  <2> QED BY <2>1 DEF Accepted
<1>2. P = Part(p, W, qo, t) /\ Kept \in SUBSET Part(p, W, qo, t) /\ Writes(r) = Writes(qo)
  BY <1>1 DEF Extension, SameParts
<1>3. \A f \in P : f \in W /\ f \notin New /\ f \in WFrame /\ over[f] = "V"
  BY <1>2, Zenon DEF Part, W, Valid
<1>4. \A f \in WFrame : cut[f] = IF f \in P /\ f \notin Kept THEN "I" ELSE over[f]
  BY DEF Mark
<1>5. cut \in [WFrame -> {"0", "V", "I"}]
  <2>1. \A f \in WFrame : cut[f] \in {"0", "V", "I"}
    BY <1>1, <1>4 DEF ZeroFrom
  <2>2. cut = [f \in WFrame |-> cut[f]]
    BY DEF Mark
  <2> QED BY <2>1, <2>2
<1>6. ZeroFrom(p, used + n, cut)
  BY <1>1, <1>3, <1>4, <1>5 DEF ZeroFrom
<1>7. Valid(cut) = X
  <2>1. \A f : f \in W <=> f \in WFrame /\ over[f] = "V" /\ f \notin New
    BY DEF W, Valid
  <2>2. \A f \in New : f \in WFrame /\ over[f] = "V" /\ f \notin P
    BY <1>1, <1>3 DEF Valid
  <2>3. \A f \in WFrame : cut[f] = "V" <=> f \in X
    BY <2>1, <2>2, <1>4, Zenon
  <2>4. X \in SUBSET WFrame
    BY <2>1, <2>2
  <2> QED BY <2>3, <2>4 DEF Valid
<1>8. X = (W \ (Part(p, W, qo, t) \ Kept)) \cup New
  BY <1>2
<1> HIDE DEF X
<1>9. /\ Tiled(p, used + n, X, r)
      /\ Part(p, X, r, t) = Kept \cup New
      /\ SameParts(p, W, qo, p, X, r, Writes(qo) \ {t})
  <2>1. Extend(p, used, W, qo, t, n, Kept, New, X, used + n, Kept \cup New)
    BY <1>1, <1>2, <1>8 DEF Extend
  <2> QED BY <2>1, Extended
<1>10. WRITE_BUFFER_FRAME_NB - (empty - n) = used + n /\ empty - n \in Int
  <2>1. n \in Nat /\ empty \in Int
    BY DEF Ring, Accept
  <2> QED BY <2>1, RingAssumption DEF used
<1>11. EndsIn(p, used + n, X)
  BY <1>1 DEF X, EndsIn
<1>12. Ring(p, WAfter(sata, n), empty - n, cut, r)
  BY <1>1, <1>6, <1>7, <1>9, <1>10, <1>11 DEF Ring
<1>13. SameParts(p, Valid(array), q, p, X, r, Writes(qo) \ {t})
  BY <1>1, <1>9 DEF SameParts
<1> QED BY <1>7, <1>9, <1>12, <1>13 DEF Merged

\* UPDATE_WB_VALID_ARRAY_PARTIAL finds the frames of the last event and the
\* first of them, although it counts the free frames in.
LEMMA RearCut ==
  ASSUME NEW p, NEW sata, NEW empty, NEW array, NEW q, NEW n, NEW O, NEW over, NEW qo,
         Ring(p, sata, empty, array, q), Accept(sata, empty, array, q, n, O, over, qo),
         NEW t \in Writes(qo), NEW m \in Nat, m <= qo[t].length
  PROVE  /\ FirstN(qo[t].buf, qo[t].length, NotInvalid(over)) = Part(p, Valid(array), q, t)
         /\ FirstN(qo[t].buf, m, NotInvalid(over)) \in SUBSET Part(p, Valid(array), q, t)
         /\ Cardinality(FirstN(qo[t].buf, m, NotInvalid(over))) = m
<1> DEFINE New == NewAt(sata, n)
           used == WRITE_BUFFER_FRAME_NB - empty
           W == Valid(over) \ New
           S == NotInvalid(over)
           P == Part(p, Valid(array), q, t)
           b == qo[t].buf
           l == qo[t].length
<1> HIDE DEF New, used, W
<1>1. /\ used \in Nat /\ n \in Nat /\ used + n <= WRITE_BUFFER_FRAME_NB /\ p \in WFrame
      /\ New = Fresh(p, used, n) /\ ZeroFrom(p, used + n, over)
      /\ Tiled(p, used, W, qo) /\ SameParts(p, Valid(array), q, p, W, qo, Writes(qo))
      /\ qo \in Seq(Entries)
  <2>1. Accepted(p, sata, empty, array, q, n, over, qo, New, used, W)
    BY RingOver DEF New, used, W
  <2> QED BY <2>1 DEF Accepted, Accept, Release
<1>2. /\ \A f \in WFrame : WDist(p, f) \in Int
      /\ Tiled(p, used, W, qo) /\ qo \in Seq(Entries)
  <2>1. p \in WFrame
    BY <1>1
  <2>2. \A f \in WFrame : WDist(p, f) \in Int
    BY <2>1, WDistFacts
  <2> QED BY <2>2, <1>1
<1>3. Beyond(p, used, W, S)
  <2> DEFINE Z == S \ W
  <2>1. ASSUME NEW f \in Z
        PROVE  f \in WFrame /\ used <= WDist(p, f)
    <3>1. f \in WFrame /\ over[f] # "I" /\ f \notin W
      BY <2>1 DEF NotInvalid
    <3>2. over[f] = "0" \/ f \in New
      BY <3>1, <1>1, Zenon DEF ZeroFrom, W, Valid
    <3>3. CASE over[f] = "0"
      <4>1. used + n <= WDist(p, f)
        BY <3>1, <3>3, <1>1 DEF ZeroFrom
      <4> QED BY <4>1, <3>1, <1>1, <1>2
    <3>4. CASE f \in New
      BY <3>4, <3>1, <1>1, Zenon DEF Fresh
    <3> QED BY <3>2, <3>3, <3>4, <3>1
  <2>2. S = W \cup Z
    BY DEF W, Valid, NotInvalid
  <2> HIDE DEF Z
  <2> QED BY <2>1, <2>2 DEF Beyond
<1>4. FirstN(b, l, S) = Part(p, W, qo, t)
  <2> HIDE DEF S
  <2> QED BY <1>2, <1>3, PartIsFirst
<1>5. Part(p, W, qo, t) = P
  BY <1>1 DEF SameParts
<1>6. b \in WFrame /\ S \in SUBSET WFrame /\ Cardinality(P) = l
  BY <1>1, <1>5, Zenon DEF Tiled, NotInvalid
<1>7. P \in SUBSET S
  BY <1>4, <1>5, Zenon DEF FirstN
<1> HIDE DEF S, P, b, l
<1>8. IsFiniteSet(S) /\ Cardinality(S) \in Nat /\ l <= Cardinality(S)
  BY <1>6, <1>7, FramesFinite, FS_Subset
<1>9. l \in Nat
  <2>1. IsFiniteSet(P)
    BY <1>7, <1>8, FS_Subset
  <2> QED BY <2>1, <1>6, FS_CardinalityType
<1>10. Cardinality(FirstN(b, m, S)) = m /\ m <= l
  <2>1. m \in 0 .. Cardinality(S) /\ m <= l
    BY <1>8, <1>9 DEF l
  <2> QED BY <2>1, <1>6, FirstCount
<1>11. ASSUME NEW f \in FirstN(b, m, S)
       PROVE  f \in FirstN(b, l, S)
  <2>1. f \in S /\ Rank(b, f, S) < m
    BY <1>11 DEF FirstN
  <2>2. Rank(b, f, S) \in Nat
    BY <2>1, <1>6, RankFacts
  <2>3. Rank(b, f, S) < l
    BY <2>1, <2>2, <1>9, <1>10
  <2> QED BY <2>1, <2>3 DEF FirstN
<1> QED BY <1>4, <1>5, <1>10, <1>11 DEF S, P, b, l

\* What the ring says of the frames of each event.
LEMMA RingFrames ==
  ASSUME NEW p, NEW sata, NEW empty, NEW array, NEW q \in Seq(Entries), Ring(p, sata, empty, array, q)
  PROVE  /\ empty = Cardinality({f \in WFrame : array[f] = "0"})
         /\ \A i \in Writes(q) :
              /\ FirstN(q[i].buf, q[i].length, Valid(array)) = Part(p, Valid(array), q, i)
              /\ Cardinality(Part(p, Valid(array), q, i)) = q[i].length
         /\ \A f \in Valid(array) : \E i \in Writes(q) : f \in Part(p, Valid(array), q, i)
         /\ \A i, j \in Writes(q) : i < j =>
              \A f \in Part(p, Valid(array), q, i), g \in Part(p, Valid(array), q, j) :
                WDist(p, f) < WDist(p, g)
<1> DEFINE V == Valid(array)
           used == WRITE_BUFFER_FRAME_NB - empty
<1>1. /\ WRITE_BUFFER_FRAME_NB \in Nat \ {0} /\ empty \in Int /\ used \in 0 .. WRITE_BUFFER_FRAME_NB
      /\ p \in WFrame /\ Tiled(p, used, V, q) /\ ZeroFrom(p, used, array)
  BY RingAssumption DEF Ring, Tiled
<1>2. \A f \in WFrame : WDist(p, f) \in 0 .. WRITE_BUFFER_FRAME_NB - 1
  BY <1>1, WDistFacts
<1>3. empty = Cardinality({f \in WFrame : array[f] = "0"})
  <2>1. empty \in Nat /\ used \in Nat /\ used + empty = WRITE_BUFFER_FRAME_NB
    BY <1>1
  <2>2. Cardinality(Fresh(p, used, empty)) = empty
    BY <2>1, <1>1, FreshCount
  <2>3. \A f \in WFrame : array[f] = "0" <=> used <= WDist(p, f)
    BY <1>1 DEF ZeroFrom
  <2>4. \A f \in WFrame : WDist(p, f) < used + empty
    BY <2>1, <1>1, <1>2
  <2> HIDE DEF used
  <2>5. Fresh(p, used, empty) = {f \in WFrame : array[f] = "0"}
    BY <2>3, <2>4 DEF Fresh
  <2> QED BY <2>2, <2>5
<1> HIDE DEF V, used
<1>4. Beyond(p, used, V, V)
  <2>1. V = V \cup {} /\ {} \in SUBSET WFrame /\ \A f \in {} : used <= WDist(p, f)
    OBVIOUS
  <2> QED BY <2>1 DEF Beyond
<1>5. \A i \in Writes(q) : FirstN(q[i].buf, q[i].length, V) = Part(p, V, q, i)
  BY <1>1, <1>4, PartIsFirst
<1>6. /\ \A i \in Writes(q) : Cardinality(Part(p, V, q, i)) = q[i].length
      /\ \A f \in V : \E i \in Writes(q) : f \in Part(p, V, q, i)
  BY <1>1 DEF Tiled
<1>7. ASSUME NEW i \in Writes(q), NEW j \in Writes(q), i < j,
             NEW f \in Part(p, V, q, i), NEW g \in Part(p, V, q, j)
      PROVE  WDist(p, f) < WDist(p, g)
  <2>1. /\ WDist(p, f) < WDist(p, q[j].buf) /\ WDist(p, q[j].buf) <= WDist(p, g)
        /\ f \in V /\ g \in V
    BY <1>7 DEF Part
  <2>2. f \in WFrame /\ g \in WFrame /\ q[j].buf \in WFrame
    BY <2>1, <1>1 DEF Tiled
  <2>3. WDist(p, f) \in Int /\ WDist(p, g) \in Int /\ WDist(p, q[j].buf) \in Int
    BY <2>2, <1>1, <1>2
  <2> QED BY <2>1, <2>3
<1> QED BY <1>3, <1>5, <1>6, <1>7 DEF V
-----------------------------------------------------------------------------
(***************************************************************************)
(* The frame of a sector: the n-th of the frames of its event.             *)
(***************************************************************************)
\* It is found among more frames too, if those are met later.
LEMMA NthInitial ==
  ASSUME NEW p \in WFrame, NEW frames \in SUBSET WFrame, NEW S \in SUBSET frames,
         \A g \in S, f \in frames \ S : WDist(p, g) < WDist(p, f),
         NEW n \in Nat, n < Cardinality(S)
  PROVE  Nth(p, n, frames) = Nth(p, n, S) /\ Nth(p, n, S) \in S
<1>1. PICK f \in S : Rank(p, f, S) = n /\ Nth(p, n, S) = f
  BY NthExists
<1>2. frames \cap Between(p, f) = S \cap Between(p, f)
  <2>1. ASSUME NEW g \in frames, g \in Between(p, f)
        PROVE  g \in S
    <3>1. WDist(p, g) < WDist(p, f) /\ WDist(p, g) \in Int /\ WDist(p, f) \in Int
      BY <2>1, WDistFacts DEF Between
    <3>2. ~(WDist(p, f) < WDist(p, g))
      BY <3>1
    <3> QED BY <3>2
  <2> QED BY <2>1
<1>3. Rank(p, f, frames) = n
  BY <1>1, <1>2 DEF Rank
<1>4. Nth(p, n, frames) = f
  BY <1>3, NthIs
<1> QED BY <1>1, <1>4

\* It is the same, counted from a frame before all of them.
LEMMA NthFrom ==
  ASSUME NEW p \in WFrame, NEW b \in WFrame, NEW S \in SUBSET WFrame,
         \A f \in S : WDist(p, b) <= WDist(p, f), NEW n \in Nat, n < Cardinality(S)
  PROVE  Nth(p, n, S) = Nth(b, n, S)
<1>1. PICK f \in S : Rank(b, f, S) = n /\ Nth(b, n, S) = f
  BY NthExists
<1>2. \A g \in S : WDist(b, g) < WDist(b, f) <=> WDist(p, g) < WDist(p, f)
  <2> TAKE g \in S
  <2>1. WDist(b, g) = WDist(p, g) - WDist(p, b) /\ WDist(b, f) = WDist(p, f) - WDist(p, b)
    BY WDistFrom
  <2>2. WDist(p, g) \in Int /\ WDist(p, f) \in Int /\ WDist(p, b) \in Int
    BY WDistFacts
  <2> QED BY <2>1, <2>2
<1>3. S \cap Between(p, f) = S \cap Between(b, f)
  BY <1>2 DEF Between
<1>4. Rank(p, f, S) = n
  BY <1>1, <1>3 DEF Rank
<1>5. Nth(p, n, S) = f
  BY <1>4, NthIs
<1> QED BY <1>1, <1>5

\* In the queue: what INCREASE_WB_FTL_POINTER and the copy for a read look for.
LEMMA NthOfEvent ==
  ASSUME NEW p, NEW sata, NEW empty, NEW array, NEW q \in Seq(Entries), Ring(p, sata, empty, array, q),
         NEW i \in Writes(q), NEW n \in Nat, n < q[i].length, NEW P, P = Part(p, Valid(array), q, i)
  PROVE  /\ Nth(q[i].buf, n, Valid(array)) = Nth(q[i].buf, n, P)
         /\ Nth(q[i].buf, n, P) \in P
         /\ Nth(p, n, P) = Nth(q[i].buf, n, P)
         /\ P \in SUBSET Valid(array) /\ q[i].buf \in WFrame /\ Cardinality(P) = q[i].length
<1> DEFINE V == Valid(array)
           b == q[i].buf
<1>1. /\ p \in WFrame /\ b \in WFrame /\ V \in SUBSET WFrame
      /\ Cardinality(P) = q[i].length
  BY DEF Ring, Tiled
<1>2. FirstN(b, q[i].length, V) = P
  <2> DEFINE used == WRITE_BUFFER_FRAME_NB - empty
  <2>1. Tiled(p, used, V, q)
    BY DEF Ring
  <2>2. Beyond(p, used, V, V)
    <3>1. {} \in SUBSET WFrame /\ V = V \cup {} /\ \A f \in {} : used <= WDist(p, f)
      OBVIOUS
    <3> HIDE DEF used, V
    <3> QED BY <3>1 DEF Beyond
  <2> HIDE DEF used, V
  <2>3. FirstN(q[i].buf, q[i].length, V) = Part(p, V, q, i)
    BY <2>1, <2>2, PartIsFirst
  <2> QED BY <2>3 DEF V
<1>3. q[i].length \in Nat
  <2>1. q[i] \in Entries
    BY WritesInt, ElementOfSeq
  <2> QED BY <2>1 DEF Entries
<1>4. P \in SUBSET V /\ \A f \in P : WDist(p, b) <= WDist(p, f)
  BY DEF Part
<1> HIDE DEF V, b
<1>5. \A g \in P, f \in V \ P : WDist(b, g) < WDist(b, f)
  BY <1>1, <1>2, <1>3, FirstBefore
<1>6. Nth(b, n, V) = Nth(b, n, P) /\ Nth(b, n, P) \in P
  BY <1>1, <1>4, <1>5, NthInitial
<1>7. P \in SUBSET WFrame
  BY <1>1, <1>4
<1>8. Nth(p, n, P) = Nth(b, n, P)
  BY <1>1, <1>4, <1>7, NthFrom
<1> QED BY <1>1, <1>4, <1>6, <1>8 DEF V, b

\* The n frames of a request that is taken behind Kept.
Behind(p, used, n, Kept, sata) ==
  /\ p \in WFrame /\ used \in Nat /\ n \in Nat /\ used + n <= WRITE_BUFFER_FRAME_NB
  /\ Kept \in SUBSET WFrame /\ \A f \in Kept : WDist(p, f) < used
  /\ sata = WAfter(p, used)

LEMMA NthNew ==
  ASSUME NEW p, NEW used, NEW n, NEW Kept, NEW sata, Behind(p, used, n, Kept, sata),
         NEW j \in 0 .. n - 1
  PROVE  Nth(p, Cardinality(Kept) + j, Kept \cup NewAt(sata, n)) = WAfter(sata, j)
<1> DEFINE f == WAfter(sata, j)
           P == Kept \cup NewAt(sata, n)
<1>0. /\ p \in WFrame /\ used \in Nat /\ n \in Nat /\ used + n <= WRITE_BUFFER_FRAME_NB
      /\ Kept \in SUBSET WFrame /\ \A g \in Kept : WDist(p, g) < used
      /\ sata = WAfter(p, used)
  BY DEF Behind
<1>1. /\ NewAt(sata, n) = Fresh(p, used, n) /\ f \in NewAt(sata, n) /\ WDist(p, f) = used + j
  BY <1>0, FreshCount DEF NewAt
<1>2. /\ IsFiniteSet(Fresh(p, used, j)) /\ Cardinality(Fresh(p, used, j)) = j
  <2>1. j \in Nat /\ used + j <= WRITE_BUFFER_FRAME_NB
    BY <1>0, RingAssumption
  <2> QED BY <1>0, <2>1, FreshCount
<1>3. P \in SUBSET WFrame /\ f \in P
  BY <1>0, <1>1 DEF Fresh
<1>9. P = Kept \cup NewAt(sata, n)
  OBVIOUS
<1> HIDE DEF f, P
<1>4. P \cap Between(p, f) = Kept \cup Fresh(p, used, j)
  <2>1. ASSUME NEW g \in WFrame
        PROVE  g \in P \cap Between(p, f) <=> g \in Kept \cup Fresh(p, used, j)
    <3>1. WDist(p, g) \in Nat
      BY <1>0, WDistFacts DEF WFrame
    <3>2. g \in Kept => WDist(p, g) < used
      BY <1>0
    <3>3. g \in Between(p, f) <=> WDist(p, g) < used + j
      BY <1>1 DEF Between
    <3>4. g \in NewAt(sata, n) <=> used <= WDist(p, g) /\ WDist(p, g) < used + n
      BY <1>1 DEF Fresh
    <3>5. g \in Fresh(p, used, j) <=> used <= WDist(p, g) /\ WDist(p, g) < used + j
      BY DEF Fresh
    <3>6. WDist(p, g) < used => WDist(p, g) < used + j
      BY <1>0, <3>1
    <3>7. WDist(p, g) < used + j => WDist(p, g) < used + n
      BY <1>0, <3>1
    <3> QED BY <1>9, <3>2, <3>3, <3>4, <3>5, <3>6, <3>7
  <2>2. Kept \cup Fresh(p, used, j) \in SUBSET WFrame
    BY <1>0 DEF Fresh
  <2> QED BY <1>3, <2>1, <2>2
<1>5. Kept \cap Fresh(p, used, j) = {}
  <2>1. ASSUME NEW g \in Kept, g \in Fresh(p, used, j)
        PROVE  FALSE
    <3>1. WDist(p, g) < used /\ used <= WDist(p, g) /\ WDist(p, g) \in Int /\ used \in Int
      BY <1>0, <2>1, WDistFacts DEF Fresh
    <3> QED BY <3>1
  <2> QED BY <2>1
<1>6. IsFiniteSet(Kept) /\ Cardinality(Kept) \in Nat
  BY <1>0, FramesFinite
<1>7. Cardinality(Kept \cup Fresh(p, used, j)) = Cardinality(Kept) + j
  <2>1. Cardinality(Kept \cup Fresh(p, used, j)) = Cardinality(Kept) + Cardinality(Fresh(p, used, j)) - Cardinality({})
    BY <1>2, <1>5, <1>6, FS_Union
  <2>2. Cardinality({}) = 0
    BY FS_EmptySet
  <2> QED BY <1>2, <1>6, <2>1, <2>2
<1>8. Rank(p, f, P) = Cardinality(Kept) + j
  BY <1>4, <1>7 DEF Rank
<1> QED BY <1>0, <1>3, <1>8, NthIs DEF f, P
-----------------------------------------------------------------------------
(***************************************************************************)
(* How the queue changes.                                                  *)
(***************************************************************************)
\* The writes of the queue move by d places.
Moved(q, r, d) ==
  /\ Shift(q, r, d)
  /\ \A i \in Writes(q) : r[i + d] = q[i]

\* A read or an overwritten write leaves.
LEMMA HeadLeaves ==
  ASSUME NEW q \in Seq(Entries), Len(q) \in Nat \ {0}, 1 \notin Writes(q),
         NEW r \in Seq(Entries), Len(r) = Len(q) - 1, \A i \in 1 .. Len(q) - 1 : r[i] = q[i + 1]
  PROVE  Moved(q, r, -1)
<1> DEFINE n == Len(q)
<1>1. r \in Seq(Entries) /\ n \in Nat \ {0} /\ Len(r) = n - 1 /\ \A i \in 1 .. n - 1 : r[i] = q[i + 1]
  OBVIOUS
<1>2. \A i \in Writes(q) : i \in 2 .. n /\ i + (-1) \in 1 .. n - 1 /\ r[i + (-1)] = q[i]
  <2> TAKE i \in Writes(q)
  <2>1. i \in 1 .. n /\ i # 1
    BY DEF Writes
  <2>2. i + (-1) \in 1 .. n - 1 /\ (i + (-1)) + 1 = i
    BY <2>1, <1>1
  <2> QED BY <2>1, <2>2, <1>1
<1>3. \A i \in Writes(q) : i + (-1) \in Writes(r)
  BY <1>1, <1>2 DEF Writes
<1>4. \A j \in Writes(r) : j - (-1) \in Writes(q)
  <2> TAKE j \in Writes(r)
  <2>1. j \in 1 .. n - 1 /\ r[j].io_type = "WRITE" /\ r[j].valid
    BY <1>1 DEF Writes
  <2>2. j - (-1) = j + 1 /\ j + 1 \in 1 .. n /\ r[j] = q[j + 1]
    BY <2>1, <1>1
  <2> QED BY <2>1, <2>2 DEF Writes
<1>5. -1 \in Int
  OBVIOUS
<1> QED BY <1>1, <1>2, <1>3, <1>4, <1>5 DEF Shift, Moved

\* The new read goes before the writes.
LEMMA ReadComes ==
  ASSUME NEW q \in Seq(Entries), NEW k \in 0 .. Len(q), NEW e \in Entries, e.io_type = "READ",
         \A i \in 1 .. Len(q) : q[i].io_type = "READ" <=> i <= k,
         NEW r \in Seq(Entries), Len(r) = Len(q) + 1,
         \A i \in 1 .. Len(q) + 1 :
           r[i] = IF i <= k THEN q[i] ELSE IF i = k + 1 THEN e ELSE q[i - 1]
  PROVE  Moved(q, r, 1)
<1> DEFINE n == Len(q)
<1>1. n \in Nat /\ k \in 0 .. n /\ \A i \in 1 .. n : q[i].io_type = "READ" <=> i <= k
  BY LenProperties
<1>2. /\ r \in Seq(Entries) /\ Len(r) = n + 1
      /\ \A i \in 1 .. n + 1 : r[i] = IF i <= k THEN q[i] ELSE IF i = k + 1 THEN e ELSE q[i - 1]
  OBVIOUS
<1>3. ASSUME NEW i \in Writes(q)
      PROVE  i \in 1 .. n /\ r[i + 1] = q[i] /\ i + 1 \in Writes(r)
  <2>1. i \in 1 .. n /\ q[i].io_type = "WRITE" /\ q[i].valid
    BY DEF Writes
  <2>2. ~(i <= k)
    BY <2>1, <1>1
  <2>3. i + 1 \in 1 .. n + 1 /\ ~(i + 1 <= k) /\ i + 1 # k + 1 /\ (i + 1) - 1 = i
    BY <2>1, <2>2, <1>1
  <2>4. r[i + 1] = q[i]
    BY <2>3, <1>2
  <2> QED BY <2>1, <2>3, <2>4, <1>2 DEF Writes
<1>4. ASSUME NEW j \in Writes(r)
      PROVE  j - 1 \in Writes(q)
  <2>1. j \in 1 .. n + 1 /\ r[j].io_type = "WRITE" /\ r[j].valid
    BY <1>2 DEF Writes
  <2>2. ~(j <= k) /\ j # k + 1
    <3>1. j <= k => j \in 1 .. n
      BY <2>1, <1>1
    <3> QED BY <3>1, <2>1, <1>1, <1>2
  <2>3. r[j] = q[j - 1] /\ j - 1 \in 1 .. n
    BY <2>1, <2>2, <1>1, <1>2
  <2> QED BY <2>1, <2>3 DEF Writes
<1>5. 1 \in Int
  OBVIOUS
<1> QED BY <1>1, <1>2, <1>3, <1>4, <1>5 DEF Shift, Moved

\* The last event gets another length.
LEMMA LengthChanged ==
  ASSUME NEW q \in Seq(Entries), NEW t \in Writes(q), t = Len(q), NEW length \in Nat \ {0},
         NEW n \in Nat \ {0}, NEW Kept, length = Cardinality(Kept) + n,
         NEW r, r = [q EXCEPT ![t].length = length]
  PROVE  Extension(q, r, t, n, Kept)
<1>1. t \in 1 .. Len(q) /\ Len(q) \in Nat
  BY WritesInt
<1>2. q \in [1 .. Len(q) -> Entries] /\ q[t] \in Entries
  BY <1>1, ElementOfSeq, LenProperties
<1>3. PICK e \in Entries : e = [q[t] EXCEPT !.length = length]
  BY <1>2 DEF Entries
<1>4. e.length = length /\ e.buf = q[t].buf /\ e.io_type = q[t].io_type /\ e.valid = q[t].valid
  BY <1>2, <1>3 DEF Entries
<1>5. r = [q EXCEPT ![t] = e]
  BY <1>3
<1>6. r \in [1 .. Len(q) -> Entries] /\ r[t] = e /\ \A i \in 1 .. Len(q) : i # t => r[i] = q[i]
  BY <1>1, <1>2, <1>5
<1>7. r \in Seq(Entries) /\ Len(r) = Len(q)
  BY <1>1, <1>6
<1>8. Writes(r) = Writes(q)
  BY <1>4, <1>6, <1>7 DEF Writes
<1>9. \A i \in Writes(q) : r[i].buf = q[i].buf /\ (i # t => r[i].length = q[i].length)
  BY <1>4, <1>6 DEF Writes
<1> QED BY <1>1, <1>4, <1>6, <1>7, <1>8, <1>9 DEF Extension

LEMMA Fits ==
  ASSUME NEW p, NEW sata, NEW empty, NEW array, NEW q, Ring(p, sata, empty, array, q)
  PROVE  empty \in 0 .. WRITE_BUFFER_FRAME_NB
<1>1. /\ empty \in Int
      /\ Tiled(p, WRITE_BUFFER_FRAME_NB - empty, Valid(array), q)
  BY DEF Ring
<1>2. WRITE_BUFFER_FRAME_NB - empty \in 0 .. WRITE_BUFFER_FRAME_NB
  BY <1>1 DEF Tiled
<1> QED BY <1>1, <1>2, RingAssumption

LEMMA PartCount ==
  ASSUME NEW p, NEW sata, NEW empty, NEW array, NEW q \in Seq(Entries),
         Ring(p, sata, empty, array, q), NEW i \in Writes(q)
  PROVE  Cardinality(Part(p, Valid(array), q, i)) = q[i].length
  BY DEF Ring, Tiled

-----------------------------------------------------------------------------
(***************************************************************************)
(* Contents.  Of the valid writes the last one that holds sector w has its *)
(* newest contents, in the frame that CellOf finds.                        *)
(***************************************************************************)
Newest(q, i, w) ==
  /\ i \in Writes(q) /\ Holds(q[i], w)
  /\ \A j \in Writes(q) : i < j => ~Holds(q[j], w)

CellOf(p, V, q, i, w) == Nth(q[i].buf, w - q[i].sector_nb, Part(p, V, q, i))

NoneHolds(q, w) == \A i \in Writes(q) : ~Holds(q[i], w)

DataOk(p, V, q, cells, w, stored, last) ==
  /\ NoneHolds(q, w) => last = stored
  /\ \A i \in Writes(q) : Newest(q, i, w) => last = cells[CellOf(p, V, q, i, w)]

LEMMA CellIs ==
  ASSUME NEW p, NEW sata, NEW empty, NEW array, NEW q \in Seq(Entries), Ring(p, sata, empty, array, q),
         NEW V, V = Valid(array), NEW i \in Writes(q), NEW w \in Nat, Holds(q[i], w)
  PROVE  /\ w - q[i].sector_nb \in Nat /\ w - q[i].sector_nb < q[i].length
         /\ CellOf(p, V, q, i, w) \in Part(p, V, q, i) /\ CellOf(p, V, q, i, w) \in V
         /\ CellOf(p, V, q, i, w) = Nth(q[i].buf, w - q[i].sector_nb, V)
         /\ CellOf(p, V, q, i, w) = Nth(p, w - q[i].sector_nb, Part(p, V, q, i))
<1>1. q[i].sector_nb \in Nat /\ q[i].length \in Nat
  <2>1. q[i] \in Entries
    BY WritesInt, ElementOfSeq
  <2> QED BY <2>1 DEF Entries
<1>2. w - q[i].sector_nb \in Nat /\ w - q[i].sector_nb < q[i].length
  BY <1>1 DEF Holds
<1> DEFINE n == w - q[i].sector_nb
           P == Part(p, V, q, i)
<1> HIDE DEF n, P
<1>3. P = Part(p, Valid(array), q, i) /\ n \in Nat /\ n < q[i].length
  BY <1>2 DEF n, P
<1>4. /\ Nth(q[i].buf, n, Valid(array)) = Nth(q[i].buf, n, P) /\ Nth(q[i].buf, n, P) \in P
      /\ Nth(p, n, P) = Nth(q[i].buf, n, P) /\ P \in SUBSET Valid(array)
  BY <1>3, NthOfEvent
<1> QED BY <1>2, <1>4 DEF CellOf, n, P

LEMMA DataMoved ==
  ASSUME NEW p, NEW sata, NEW empty, NEW array, NEW q, NEW r, NEW d,
         Ring(p, sata, empty, array, q), Moved(q, r, d), NEW V, V = Valid(array),
         NEW cells, NEW after, \A f \in V : after[f] = cells[f],
         NEW w \in Nat, NEW stored, NEW last, DataOk(p, V, q, cells, w, stored, last)
  PROVE  DataOk(p, V, r, after, w, stored, last)
<1>1. /\ q \in Seq(Entries) /\ r \in Seq(Entries) /\ d \in Int
      /\ \A i \in Writes(q) : i + d \in Writes(r) /\ r[i + d] = q[i]
      /\ \A j \in Writes(r) : j - d \in Writes(q)
  BY DEF Moved, Shift
<1>2. \A i \in Writes(q) : Part(p, V, r, i + d) = Part(p, V, q, i)
  <2>1. Shift(q, r, d)
    BY DEF Moved
  <2>2. MovedParts(p, V, q, r, d)
    BY <2>1, RingShifted
  <2> QED BY <2>2 DEF MovedParts
<1>3. \A i \in Writes(q), j \in Writes(r) : i \in Int /\ j \in Int
  BY <1>1, WritesInt
<1>4. ASSUME NoneHolds(r, w)
      PROVE  last = stored
  <2>1. NoneHolds(q, w)
    BY <1>1, <1>4 DEF NoneHolds
  <2> QED BY <2>1 DEF DataOk
<1>5. ASSUME NEW j \in Writes(r), Newest(r, j, w)
      PROVE  last = after[CellOf(p, V, r, j, w)]
  <2> DEFINE i == j - d
  <2>1. i \in Writes(q) /\ i + d = j /\ i \in Int /\ j \in Int
    BY <1>1, <1>3
  <2> HIDE DEF i
  <2>2. r[j] = q[i] /\ Part(p, V, r, j) = Part(p, V, q, i)
    BY <1>1, <1>2, <2>1
  <2>3. Holds(q[i], w)
    BY <1>5, <2>2 DEF Newest
  <2>4. ASSUME NEW k \in Writes(q), i < k
        PROVE  ~Holds(q[k], w)
    <3>1. k + d \in Writes(r) /\ r[k + d] = q[k] /\ j < k + d
      BY <1>1, <1>3, <2>1, <2>4
    <3> QED BY <3>1, <1>5 DEF Newest
  <2>5. last = cells[CellOf(p, V, q, i, w)]
    BY <2>1, <2>3, <2>4 DEF DataOk, Newest
  <2>6. CellOf(p, V, q, i, w) \in V
    BY <1>1, <2>1, <2>3, CellIs
  <2>7. CellOf(p, V, r, j, w) = CellOf(p, V, q, i, w)
    BY <2>2 DEF CellOf
  <2> QED BY <2>5, <2>6, <2>7
<1> QED BY <1>4, <1>5 DEF DataOk

\* The first event of the queue, a write, goes to the FTL.
Stored(p, V, q, p2, V2, r) ==
  /\ r \in Seq(Entries) /\ 1 \in Writes(q)
  /\ \A i \in Writes(r) : /\ i + 1 \in Writes(q) /\ r[i] = q[i + 1]
                          /\ Part(p2, V2, r, i) = Part(p, V, q, i + 1)
  /\ \A i \in Writes(q) : i # 1 => i - 1 \in Writes(r)

\* FTL_WRITE takes its contents from the frames of the event.
Storing(p, sata, empty, array, q, p2, V2, r, cells, after, w, stored, stored2) ==
  /\ q \in Seq(Entries) /\ Ring(p, sata, empty, array, q)
  /\ Stored(p, Valid(array), q, p2, V2, r) /\ w \in Nat
  /\ \A f \in Valid(array) : f \in Part(p, Valid(array), q, 1) \/ after[f] = cells[f]
  /\ stored2 = IF Holds(q[1], w) THEN cells[CellOf(p, Valid(array), q, 1, w)] ELSE stored

LEMMA DataStored ==
  ASSUME NEW p, NEW sata, NEW empty, NEW array, NEW q, NEW p2, NEW V2, NEW r, NEW cells, NEW after,
         NEW w, NEW stored, NEW stored2,
         Storing(p, sata, empty, array, q, p2, V2, r, cells, after, w, stored, stored2),
         NEW last, DataOk(p, Valid(array), q, cells, w, stored, last)
  PROVE  DataOk(p2, V2, r, after, w, stored2, last)
<1> DEFINE V == Valid(array)
<1>0. /\ q \in Seq(Entries) /\ Ring(p, sata, empty, array, q) /\ V = Valid(array) /\ w \in Nat
      /\ DataOk(p, V, q, cells, w, stored, last) /\ Stored(p, V, q, p2, V2, r)
  BY DEF Storing
<1>6. /\ \A f \in V : f \in Part(p, V, q, 1) \/ after[f] = cells[f]
      /\ stored2 = IF Holds(q[1], w) THEN cells[CellOf(p, V, q, 1, w)] ELSE stored
  BY DEF Storing
<1> HIDE DEF V
<1>1. /\ r \in Seq(Entries) /\ 1 \in Writes(q)
      /\ \A i \in Writes(r) : /\ i + 1 \in Writes(q) /\ r[i] = q[i + 1]
                              /\ Part(p2, V2, r, i) = Part(p, V, q, i + 1)
      /\ \A i \in Writes(q) : i # 1 => i - 1 \in Writes(r)
  BY <1>0 DEF Stored
<1>2. (\A i \in Writes(q) : i \in Int /\ 1 <= i) /\ (\A j \in Writes(r) : j \in Int /\ 1 <= j)
  <2>1. ASSUME NEW i \in Writes(q)
        PROVE  i \in Int /\ 1 <= i
    BY <1>0, WritesInt
  <2>2. ASSUME NEW j \in Writes(r)
        PROVE  j \in Int /\ 1 <= j
    BY <1>1, WritesInt
  <2> QED BY <2>1, <2>2
<1>3. \A i \in Writes(q) : i # 1 => r[i - 1] = q[i]
  <2> TAKE i \in Writes(q)
  <2> HAVE i # 1
  <2>1. i - 1 \in Writes(r) /\ (i - 1) + 1 = i
    BY <1>1, <1>2
  <2> QED BY <2>1, <1>1
<1>4. ASSUME NoneHolds(r, w)
      PROVE  last = stored2
  <2>1. \A i \in Writes(q) : i # 1 => ~Holds(q[i], w)
    BY <1>1, <1>3, <1>4 DEF NoneHolds
  <2>2. CASE Holds(q[1], w)
    <3>1. Newest(q, 1, w)
      BY <1>1, <1>2, <2>1, <2>2 DEF Newest
    <3> QED BY <1>0, <1>1, <1>6, <2>2, <3>1 DEF DataOk
  <2>3. CASE ~Holds(q[1], w)
    <3>1. NoneHolds(q, w)
      BY <2>1, <2>3 DEF NoneHolds
    <3> QED BY <1>0, <1>6, <2>3, <3>1 DEF DataOk
  <2> QED BY <2>2, <2>3
<1>5. ASSUME NEW j \in Writes(r), Newest(r, j, w)
      PROVE  last = after[CellOf(p2, V2, r, j, w)]
  <2> DEFINE i == j + 1
  <2>1. i \in Writes(q) /\ i # 1 /\ i - 1 = j /\ r[j] = q[i] /\ Part(p2, V2, r, j) = Part(p, V, q, i)
    BY <1>1, <1>2
  <2> HIDE DEF i
  <2>2. Holds(q[i], w)
    BY <1>5, <2>1 DEF Newest
  <2>3. ASSUME NEW k \in Writes(q), i < k
        PROVE  ~Holds(q[k], w)
    <3>1. k # 1 /\ j < k - 1
      BY <1>2, <2>1, <2>3
    <3>2. k - 1 \in Writes(r) /\ r[k - 1] = q[k]
      BY <1>1, <1>3, <3>1
    <3> QED BY <3>1, <3>2, <1>5 DEF Newest
  <2>4. last = cells[CellOf(p, V, q, i, w)]
    BY <1>0, <2>1, <2>2, <2>3 DEF DataOk, Newest
  <2>5. CellOf(p, V, q, i, w) \in V /\ CellOf(p, V, q, i, w) \in Part(p, V, q, i)
    BY <1>0, <2>1, <2>2, CellIs
  <2>6. CellOf(p, V, q, i, w) \notin Part(p, V, q, 1)
    <3> DEFINE used == WRITE_BUFFER_FRAME_NB - empty
    <3>1. Tiled(p, used, V, q)
      BY <1>0 DEF Ring
    <3> HIDE DEF used
    <3> QED BY <1>0, <1>1, <2>1, <2>5, <3>1, OneOwner
  <2>7. CellOf(p2, V2, r, j, w) = CellOf(p, V, q, i, w)
    BY <2>1 DEF CellOf
  <2> QED BY <1>6, <2>4, <2>5, <2>6, <2>7
<1> QED BY <1>4, <1>5 DEF DataOk

\* The frames that a request takes.
LEMMA NewAre ==
  ASSUME NEW p, NEW sata, NEW empty, NEW array, NEW q, Ring(p, sata, empty, array, q),
         NEW n \in Nat \ {0}, n <= empty, NEW used, used = WRITE_BUFFER_FRAME_NB - empty
  PROVE  /\ used \in Nat /\ used + n <= WRITE_BUFFER_FRAME_NB
         /\ p \in WFrame /\ sata = WAfter(p, used) /\ NewAt(sata, n) = Fresh(p, used, n)
         /\ \A f \in NewAt(sata, n) : f \notin Valid(array)
         /\ \A f \in Valid(array) : f \in WFrame /\ WDist(p, f) < used
<1>1. empty \in Int /\ sata = WAfter(p, used) /\ ZeroFrom(p, used, array) /\ Tiled(p, used, Valid(array), q)
  BY DEF Ring
<1>3. /\ p \in WFrame /\ used \in 0 .. WRITE_BUFFER_FRAME_NB
      /\ \A f \in Valid(array) : f \in WFrame /\ WDist(p, f) < used
  BY <1>1 DEF Tiled
<1>4. used \in Nat /\ used + n <= WRITE_BUFFER_FRAME_NB
  BY <1>1, <1>3, RingAssumption
<1>5. NewAt(sata, n) = Fresh(p, used, n)
  <2>1. Fresh(p, used, n) = {WAfter(WAfter(p, used), i) : i \in 0 .. n - 1}
    BY <1>3, <1>4, FreshCount
  <2> QED BY <1>1, <2>1 DEF NewAt
<1>6. \A f \in Fresh(p, used, n) : f \notin Valid(array)
  BY <1>1 DEF ZeroFrom, Fresh, Valid
<1> QED BY <1>1, <1>3, <1>4, <1>5, <1>6

\* A request for n sectors from s on is taken in by event t, which keeps some
\* of the frames it had, if it was there already.
Takes(p, V, q, W, r, sata, n, s, t, Kept) ==
  /\ t \in Writes(r) /\ Part(p, W, r, t) = Kept \cup NewAt(sata, n)
  /\ Cardinality(Kept) \in Nat /\ r[t].length = Cardinality(Kept) + n
  /\ r[t].sector_nb + Cardinality(Kept) = s
  /\ \A i \in Writes(r) \ {t} :
       /\ i < t /\ i \in Writes(q) /\ Part(p, W, r, i) = Part(p, V, q, i)
       /\ r[i].buf = q[i].buf /\ r[i].sector_nb = q[i].sector_nb /\ r[i].length = q[i].length
  /\ \A i \in Writes(q) :
       i \in Writes(r) \/ (s <= q[i].sector_nb /\ s + n >= q[i].sector_nb + q[i].length)
  /\ \/ t \notin Writes(q) /\ Kept = {}
     \/ /\ t \in Writes(q) /\ r[t].buf = q[t].buf /\ r[t].sector_nb = q[t].sector_nb
        /\ Kept \in SUBSET Part(p, V, q, t)
        /\ \A g \in Kept, f \in Part(p, V, q, t) \ Kept : WDist(q[t].buf, g) < WDist(q[t].buf, f)
        /\ q[t].sector_nb + q[t].length <= s + n

\* WRITE_DATA_TO_BUFFER puts the contents of the request into the new frames.
Arriving(p, sata, empty, array, q, array2, r, n, s, t, Kept, cells, after, w, last, last2) ==
  /\ q \in Seq(Entries) /\ Ring(p, sata, empty, array, q) /\ n \in Nat \ {0} /\ n <= empty
  /\ r \in Seq(Entries) /\ \E sata2, empty2 : Ring(p, sata2, empty2, array2, r)
  /\ Takes(p, Valid(array), q, Valid(array2), r, sata, n, s, t, Kept)
  /\ s \in Nat /\ w \in Nat
  /\ \A f \in Valid(array) : after[f] = cells[f]
  /\ IF s <= w /\ w < s + n THEN last2 = after[WAfter(sata, w - s)] ELSE last2 = last

LEMMA DataArrived ==
  ASSUME NEW p, NEW sata, NEW empty, NEW array, NEW q, NEW array2, NEW r, NEW n, NEW s, NEW t,
         NEW Kept, NEW cells, NEW after, NEW w, NEW last, NEW last2,
         NEW stored
  PROVE  /\ Arriving(p, sata, empty, array, q, array2, r, n, s, t, Kept, cells, after, w, last, last2)
         /\ DataOk(p, Valid(array), q, cells, w, stored, last)
         => DataOk(p, Valid(array2), r, after, w, stored, last2)
<1>1. ASSUME Arriving(p, sata, empty, array, q, array2, r, n, s, t, Kept, cells, after, w, last, last2),
             DataOk(p, Valid(array), q, cells, w, stored, last)
      PROVE  DataOk(p, Valid(array2), r, after, w, stored, last2)
  <2> DEFINE V == Valid(array)
             W == Valid(array2)
             has == s <= w /\ w < s + n
             New == NewAt(sata, n)
             used == WRITE_BUFFER_FRAME_NB - empty
             c == Cardinality(Kept)
  <2>1. t \in Writes(r) /\ c \in Nat /\ r[t].length = c + n /\ r[t].sector_nb + c = s
    BY <1>1 DEF Arriving, Takes
  <2>15. Part(p, W, r, t) = Kept \cup New
    BY <1>1 DEF Arriving, Takes
  <2>16. \A i \in Writes(r) \ {t} :
           /\ i < t /\ i \in Writes(q) /\ Part(p, W, r, i) = Part(p, V, q, i)
           /\ r[i].buf = q[i].buf /\ r[i].sector_nb = q[i].sector_nb /\ r[i].length = q[i].length
    BY <1>1 DEF Arriving, Takes
  <2>17. \/ t \notin Writes(q) /\ Kept = {}
         \/ /\ t \in Writes(q) /\ r[t].buf = q[t].buf /\ r[t].sector_nb = q[t].sector_nb
            /\ Kept \in SUBSET Part(p, V, q, t)
            /\ \A g \in Kept, f \in Part(p, V, q, t) \ Kept : WDist(q[t].buf, g) < WDist(q[t].buf, f)
            /\ q[t].sector_nb + q[t].length <= s + n
    BY <1>1 DEF Arriving, Takes
  <2>2. /\ q \in Seq(Entries) /\ r \in Seq(Entries) /\ w \in Nat /\ s \in Nat /\ n \in Nat \ {0}
    BY <1>1 DEF Arriving
  <2>4. /\ Ring(p, sata, empty, array, q) /\ n <= empty /\ V = Valid(array) /\ W = Valid(array2)
        /\ \E sata2, empty2 : Ring(p, sata2, empty2, array2, r)
    BY <1>1 DEF Arriving
  <2>3. /\ used \in Nat /\ used + n <= WRITE_BUFFER_FRAME_NB
        /\ p \in WFrame /\ sata = WAfter(p, used) /\ New = Fresh(p, used, n)
        /\ \A f \in New : f \notin V
        /\ \A f \in V : f \in WFrame /\ WDist(p, f) < used
    <3> HIDE DEF used, V
    <3>2. used = WRITE_BUFFER_FRAME_NB - empty
      BY DEF used
    <3> QED BY <2>2, <2>4, <3>2, NewAre
  <2>5. (\A i \in Writes(q) : q[i].sector_nb \in Nat /\ q[i].length \in Nat /\ i \in Int)
        /\ (\A i \in Writes(r) : r[i].sector_nb \in Nat /\ r[i].length \in Nat /\ i \in Int)
    <3>1. \A x \in Entries : x.sector_nb \in Nat /\ x.length \in Nat
      BY DEF Entries
    <3>2. ASSUME NEW i \in Writes(q) PROVE q[i] \in Entries /\ i \in Int
      BY <2>2, WritesInt, ElementOfSeq
    <3>3. ASSUME NEW i \in Writes(r) PROVE r[i] \in Entries /\ i \in Int
      BY <2>2, WritesInt, ElementOfSeq
    <3> QED BY <3>1, <3>2, <3>3
  <2>6. \A i \in Writes(q) :
          i \in Writes(r) \/ (s <= q[i].sector_nb /\ s + n >= q[i].sector_nb + q[i].length)
    BY <1>1 DEF Arriving, Takes
  <2>7. /\ \A f \in V : after[f] = cells[f]
        /\ has => last2 = after[WAfter(sata, w - s)]
        /\ ~has => last2 = last
    BY <1>1 DEF Arriving
  <2>8. /\ NoneHolds(q, w) => last = stored
        /\ \A i \in Writes(q) : Newest(q, i, w) => last = cells[CellOf(p, V, q, i, w)]
    BY <1>1 DEF DataOk
  <2>9. has <=> s <= w /\ w < s + n
    OBVIOUS
  <2>11. Kept \in SUBSET V /\ \A f \in Kept : f \in WFrame /\ WDist(p, f) < used
    <3>1. Part(p, V, q, t) \in SUBSET V
      BY DEF Part
    <3> QED BY <2>17, <2>3, <3>1
  <2> HIDE DEF New, used, c, V, W, has
\* The request has the sector.
  <2>18. w \in Int /\ s \in Int /\ n \in Int /\ c \in Int /\ r[t].sector_nb \in Int /\ r[t].length \in Int
    BY <2>1, <2>2, <2>5
  <2>13. CASE has
    <3>1. Holds(r[t], w)
      BY <2>1, <2>9, <2>13, <2>18 DEF Holds
    <3>2. ~NoneHolds(r, w)
      BY <3>1, <2>1 DEF NoneHolds
    <3>3. ASSUME NEW i \in Writes(r), Newest(r, i, w)
          PROVE  i = t
      BY <3>1, <3>3, <2>1, <2>16 DEF Newest
    <3>4. CellOf(p, W, r, t, w) = WAfter(sata, w - s)
      <4>1. CellOf(p, W, r, t, w) = Nth(p, w - r[t].sector_nb, Part(p, W, r, t))
        <5>1. t \in Writes(r) /\ r \in Seq(Entries) /\ w \in Nat
          BY <2>1, <2>2
        <5> QED BY <3>1, <5>1, <2>4, CellIs
      <4>2. w - r[t].sector_nb = c + (w - s) /\ w - s \in 0 .. n - 1
        BY <2>1, <2>9, <2>13, <2>18
      <4>3. Nth(p, c + (w - s), Kept \cup New) = WAfter(sata, w - s)
        <5>1. Behind(p, used, n, Kept, sata)
          BY <2>2, <2>3, <2>11 DEF Behind
        <5> DEFINE j == w - s
        <5>2. j \in 0 .. n - 1
          BY <4>2
        <5> HIDE DEF j
        <5>3. Nth(p, Cardinality(Kept) + j, Kept \cup NewAt(sata, n)) = WAfter(sata, j)
          BY <5>1, <5>2, NthNew
        <5> QED BY <5>3 DEF j, c, New
      <4> QED BY <4>1, <4>2, <4>3, <2>15
    <3> QED BY <3>2, <3>3, <3>4, <2>7, <2>13 DEF DataOk, W
\* It has not.
  <2>14. CASE ~has
    <3>1. ASSUME NEW j \in Writes(q), Holds(q[j], w)
          PROVE  j \in Writes(r) /\ Holds(r[j], w)
      <4>1. q[j].sector_nb <= w /\ w < q[j].sector_nb + q[j].length
        BY <3>1 DEF Holds
      <4>2. j \in Writes(r)
        <5>1. q[j].sector_nb \in Int /\ q[j].length \in Int
          BY <2>5
        <5>2. ASSUME s <= q[j].sector_nb, s + n >= q[j].sector_nb + q[j].length
              PROVE  has
          BY <4>1, <5>1, <5>2, <2>9, <2>18
        <5> QED BY <5>2, <2>6, <2>14
      <4>3. CASE j # t
        BY <3>1, <4>2, <4>3, <2>16 DEF Holds
      <4>4. CASE j = t
        <5>1. /\ q[t].sector_nb \in Int /\ q[t].length \in Int /\ r[t].sector_nb = q[t].sector_nb
              /\ q[t].sector_nb + q[t].length <= s + n
          BY <4>4, <2>5, <2>17
        <5>2. r[t].sector_nb <= w /\ w < r[t].sector_nb + r[t].length
          BY <4>1, <4>4, <5>1, <2>1, <2>18
        <5> QED BY <4>2, <4>4, <5>2 DEF Holds
      <4> QED BY <4>2, <4>3, <4>4
    <3>2. ASSUME NoneHolds(r, w)
          PROVE  last2 = stored
      BY <3>1, <3>2, <2>7, <2>8, <2>14 DEF NoneHolds
    <3>3. ASSUME NEW i \in Writes(r), Newest(r, i, w), i \in Writes(q), Holds(q[i], w)
          PROVE  Newest(q, i, w)
      BY <3>1, <3>3 DEF Newest
    <3>4. ASSUME NEW i \in Writes(r), Newest(r, i, w), i # t
          PROVE  last2 = after[CellOf(p, W, r, i, w)]
      <4>1. /\ i \in Writes(q) /\ Part(p, W, r, i) = Part(p, V, q, i)
            /\ r[i].buf = q[i].buf /\ r[i].sector_nb = q[i].sector_nb /\ r[i].length = q[i].length
        BY <3>4, <2>16
      <4>2. Holds(q[i], w)
        BY <3>4, <4>1 DEF Newest, Holds
      <4>3. last = cells[CellOf(p, V, q, i, w)]
        BY <3>3, <3>4, <4>1, <4>2, <2>8
      <4>4. CellOf(p, V, q, i, w) \in V
        BY <4>1, <4>2, <2>2, <2>4, CellIs
      <4>5. CellOf(p, W, r, i, w) = CellOf(p, V, q, i, w)
        BY <4>1 DEF CellOf
      <4> QED BY <4>3, <4>4, <4>5, <2>7, <2>14
    <3>5. ASSUME Newest(r, t, w)
          PROVE  last2 = after[CellOf(p, W, r, t, w)]
      <4> DEFINE k == w - r[t].sector_nb
                 P == Part(p, V, q, t)
                 b == q[t].buf
      <4>1. r[t].sector_nb <= w /\ w < r[t].sector_nb + r[t].length /\ Holds(r[t], w)
        BY <3>5 DEF Newest, Holds
      <4>2. k \in Nat /\ k < c
        <5>1. w < s
          BY <4>1, <2>1, <2>9, <2>14, <2>18
        <5> QED BY <4>1, <5>1, <2>1, <2>18
      <4>3. Kept # {}
        <5>1. Kept = {} => c = 0
          BY FS_EmptySet DEF c
        <5>2. c # 0
          BY <4>2, <2>18
        <5> QED BY <5>1, <5>2
      <4>4. /\ t \in Writes(q) /\ r[t].sector_nb = q[t].sector_nb /\ Kept \in SUBSET P
            /\ \A g \in Kept, f \in P \ Kept : WDist(b, g) < WDist(b, f)
        BY <4>3, <2>17
      <4>5. P = Part(p, Valid(array), q, t) /\ P = Part(p, V, q, t) /\ b = q[t].buf
        BY DEF V
      <4> HIDE DEF k, P, b
      <4>6. /\ P \in SUBSET WFrame /\ b \in WFrame /\ Cardinality(P) = q[t].length
            /\ \A f \in P : WDist(p, b) <= WDist(p, f)
        <5>1. Tiled(p, WRITE_BUFFER_FRAME_NB - empty, Valid(array), q)
          BY <2>4 DEF Ring
        <5>2. b \in WFrame /\ Cardinality(P) = q[t].length
          BY <4>4, <4>5, <5>1 DEF Tiled
        <5>3. \A f \in P : f \in V /\ WDist(p, b) <= WDist(p, f)
          BY <4>5 DEF Part
        <5> QED BY <5>2, <5>3, <2>3
      <4>7. Holds(q[t], w)
        <5>1. c <= q[t].length
          <6>1. IsFiniteSet(P)
            BY <4>6, FramesFinite
          <6>2. Cardinality(Kept) <= Cardinality(P)
            BY <4>4, <6>1, FS_Subset
          <6> QED BY <6>2, <4>6 DEF c
        <5>2. q[t].length \in Int
          BY <4>4, <2>5
        <5>3. w < q[t].sector_nb + q[t].length
          BY <4>2, <4>4, <5>1, <5>2, <2>18 DEF k
        <5> QED BY <4>1, <4>4, <5>3 DEF Holds
      <4>8. last = cells[CellOf(p, V, q, t, w)]
        BY <3>3, <3>5, <4>4, <4>7, <2>1, <2>8
      <4>9. CellOf(p, V, q, t, w) \in V /\ CellOf(p, V, q, t, w) = Nth(b, k, P)
        <5>1. CellOf(p, V, q, t, w) \in V
          BY <4>4, <4>7, <2>2, <2>4, CellIs
        <5> QED BY <5>1, <4>4, <4>5 DEF CellOf, k
      <4>10. Nth(b, k, P) = Nth(b, k, Kept)
        BY <4>2, <4>4, <4>6, NthInitial DEF c
      <4>11. Nth(p, k, Kept) = Nth(b, k, Kept)
        <5>1. Kept \in SUBSET WFrame /\ \A f \in Kept : WDist(p, b) <= WDist(p, f)
          BY <4>4, <4>6
        <5> QED BY <5>1, <4>2, <4>6, <2>3, NthFrom DEF c
      <4>12. CellOf(p, W, r, t, w) = Nth(p, k, Kept \cup New)
        <5>1. CellOf(p, W, r, t, w) = Nth(p, w - r[t].sector_nb, Part(p, W, r, t))
          <6>1. t \in Writes(r) /\ r \in Seq(Entries) /\ w \in Nat
            BY <2>1, <2>2
          <6> QED BY <4>1, <6>1, <2>4, CellIs
        <5> QED BY <5>1, <2>15 DEF k
      <4>13. Nth(p, k, Kept \cup New) = Nth(p, k, Kept)
        <5> DEFINE U == Kept \cup New
        <5>1. U \in SUBSET WFrame /\ Kept \in SUBSET U
          BY <2>3, <2>11 DEF Fresh
        <5>2. \A g \in Kept, f \in U \ Kept : WDist(p, g) < WDist(p, f)
          <6> TAKE g \in Kept, f \in U \ Kept
          <6>1. f \in Fresh(p, used, n) /\ g \in WFrame /\ WDist(p, g) < used
            BY <2>3, <2>11
          <6>2. used <= WDist(p, f) /\ f \in WFrame
            BY <6>1 DEF Fresh
          <6>3. WDist(p, g) \in Int /\ WDist(p, f) \in Int
            BY <6>1, <6>2, <2>3, WDistFacts
          <6> QED BY <6>1, <6>2, <6>3, <2>3
        <5> HIDE DEF U
        <5>3. Nth(p, k, U) = Nth(p, k, Kept)
          BY <4>2, <5>1, <5>2, <2>3, NthInitial DEF c
        <5> QED BY <5>3 DEF U
      <4> QED BY <4>8, <4>9, <4>10, <4>11, <4>12, <4>13, <2>7, <2>14
    <3> QED BY <3>2, <3>4, <3>5 DEF DataOk, W
  <2> QED BY <2>13, <2>14 DEF V, W
<1> QED BY <1>1
=============================================================================
