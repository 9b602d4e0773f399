--------------------------- MODULE FirmReadProofs ---------------------------
(***************************************************************************)
(* The read buffer, for every number of frames, every set of requests and  *)
(* every build: the frames of the reads lie behind one another in the      *)
(* order in which the reads complete, and a read finds the frames that it  *)
(* needs.                                                                  *)
(***************************************************************************)
EXTENDS FirmBufferProofs, FiniteSetTheorems

USE ZenonT(2), SMTT(30), ZenonT(30)
-----------------------------------------------------------------------------
(***************************************************************************)
(* The frames of a queue of reads.                                         *)
(***************************************************************************)
\* The sectors of one entry.
Slice(i, e) == {i} \X (1 .. e.length)

LEMMA SliceCount ==
  ASSUME NEW i, NEW e \in Entries
  PROVE  IsFiniteSet(Slice(i, e)) /\ Cardinality(Slice(i, e)) = e.length
<1>1. e.length \in Nat
  BY DEF Entries
<1>2. IsFiniteSet(1 .. e.length) /\ Cardinality(1 .. e.length) = e.length
  BY <1>1, FS_Interval
<1>3. IsFiniteSet({i}) /\ Cardinality({i}) = 1
  BY FS_Singleton, Zenon
<1> DEFINE A == {i}
           B == 1 .. e.length
<1>4. IsFiniteSet(Slice(i, e)) /\ Cardinality(Slice(i, e)) = 1 * e.length
  <2>1. IsFiniteSet(A) /\ IsFiniteSet(B) /\ Cardinality(A) = 1 /\ Cardinality(B) = e.length
    BY <1>2, <1>3
  <2>2. Slice(i, e) = A \X B
    BY DEF Slice
  <2> HIDE DEF A, B
  <2>3. IsFiniteSet(A \X B) /\ Cardinality(A \X B) = Cardinality(A) * Cardinality(B)
    BY <2>1, FS_Product, Zenon
  <2> QED BY <2>1, <2>2, <2>3, Zenon
<1> QED BY <1>1, <1>4

LEMMA SlotsFinite ==
  ASSUME NEW s \in Seq(Entries)
  PROVE  IsFiniteSet(Slots(s)) /\ Frames(s) \in Nat
<1>1. DOMAIN s = 1 .. Len(s) /\ Len(s) \in Nat /\ \A i \in DOMAIN s : s[i] \in Entries
  BY LenProperties, ElementOfSeq
<1> DEFINE F == [i \in DOMAIN s |-> Slice(i, s[i])]
           T == {Slice(i, s[i]) : i \in DOMAIN s}
<1>2. IsFiniteSet(DOMAIN s)
  BY <1>1, FS_Interval
<1>3. F \in Surjection(DOMAIN s, T)
  BY Zenon DEF Surjection
<1>4. IsFiniteSet(T)
  BY <1>2, <1>3, FS_Surjection
<1>5. \A X \in T : IsFiniteSet(X)
  BY <1>1, SliceCount
<1>6. IsFiniteSet(UNION T)
  BY <1>4, <1>5, FS_UNION
<1>7. Slots(s) = UNION T
  BY DEF Slots, Slice
<1> QED BY <1>6, <1>7, FS_CardinalityType DEF Frames

LEMMA NoFrames == Frames(<<>>) = 0
<1>1. Slots(<<>>) = {}
  BY DEF Slots
<1> QED BY <1>1, FS_EmptySet DEF Frames

LEMMA SlotsAre ==
  ASSUME NEW s \in Seq(Entries), NEW x
  PROVE  x \in Slots(s) <=> \E i \in 1 .. Len(s) : x \in Slice(i, s[i])
<1>1. DOMAIN s = 1 .. Len(s)
  BY LenProperties
<1> QED BY <1>1 DEF Slots, Slice

LEMMA FramesAppend ==
  ASSUME NEW s \in Seq(Entries), NEW e \in Entries
  PROVE  Append(s, e) \in Seq(Entries) /\ Frames(Append(s, e)) = Frames(s) + e.length
<1> DEFINE a == Append(s, e)
           n == Len(s)
<1>1. /\ a \in Seq(Entries) /\ n \in Nat /\ Len(a) = n + 1
      /\ a[n + 1] = e /\ \A i \in 1 .. n : a[i] = s[i]
  BY AppendProperties, LenProperties
<1> HIDE DEF a
<1>2. Slots(a) = Slots(s) \cup Slice(n + 1, e)
  <2>1. ASSUME NEW x
        PROVE  x \in Slots(a) <=> x \in Slots(s) \/ x \in Slice(n + 1, e)
    <3>1. \A i \in 1 .. n + 1 : i \in 1 .. n \/ i = n + 1
      BY <1>1
    <3>2. n + 1 \in 1 .. n + 1 /\ \A i \in 1 .. n : i \in 1 .. n + 1
      BY <1>1
    <3>3. x \in Slots(a) <=> \E i \in 1 .. n + 1 : x \in Slice(i, a[i])
      BY <1>1, SlotsAre
    <3>4. x \in Slots(s) <=> \E i \in 1 .. n : x \in Slice(i, s[i])
      BY SlotsAre
    <3> QED BY <3>1, <3>2, <3>3, <3>4, <1>1, Zenon
  <2> QED BY <2>1
<1>3. Slots(s) \cap Slice(n + 1, e) = {}
  <2>1. ASSUME NEW x \in Slots(s), x \in Slice(n + 1, e)
        PROVE  FALSE
    <3>1. PICK i \in 1 .. n : x \in Slice(i, s[i])
      BY <2>1, SlotsAre
    <3>2. x[1] = i /\ x[1] = n + 1
      BY <2>1, <3>1 DEF Slice
    <3> QED BY <3>2, <1>1
  <2> QED BY <2>1
<1>4. IsFiniteSet(Slots(s)) /\ Frames(s) \in Nat
  BY SlotsFinite
<1>5. IsFiniteSet(Slice(n + 1, e)) /\ Cardinality(Slice(n + 1, e)) = e.length /\ e.length \in Nat
  BY SliceCount DEF Entries
<1>6. Cardinality(Slots(s) \cup Slice(n + 1, e)) = Frames(s) + e.length - Cardinality({})
  BY <1>3, <1>4, <1>5, FS_Union DEF Frames
<1>7. Cardinality({}) = 0
  BY FS_EmptySet
<1> QED BY <1>1, <1>2, <1>4, <1>5, <1>6, <1>7 DEF a, Frames

LEMMA FramesTail ==
  ASSUME NEW s \in Seq(Entries), s # <<>>
  PROVE  Frames(s) = Head(s).length + Frames(Tail(s))
<1> DEFINE t == Tail(s)
           n == Len(t)
<1>1. /\ t \in Seq(Entries) /\ n \in Nat /\ Len(s) = n + 1 /\ s[1] = Head(s) /\ s[1] \in Entries
      /\ \A i \in 1 .. n : t[i] = s[i + 1]
  BY HeadTailProperties, EmptySeq, LenProperties
<1> HIDE DEF t
<1> DEFINE Rest == Slots(s) \ Slice(1, s[1])
           F == [x \in Slots(t) |-> <<x[1] + 1, x[2]>>]
<1>2. Slice(1, s[1]) \subseteq Slots(s)
  <2>1. 1 \in 1 .. n + 1
    BY <1>1
  <2> QED BY <2>1, <1>1, SlotsAre
<1>3. \A x : x \in Rest <=> \E i \in 1 .. n : x \in Slice(i + 1, t[i])
  <2> SUFFICES ASSUME NEW x
               PROVE  x \in Rest <=> \E i \in 1 .. n : x \in Slice(i + 1, t[i])
    OBVIOUS
  <2>1. ASSUME x \in Rest
        PROVE  \E i \in 1 .. n : x \in Slice(i + 1, t[i])
    <3>1. PICK j \in 1 .. n + 1 : x \in Slice(j, s[j])
      BY <2>1, <1>1, SlotsAre
    <3>2. j # 1
      BY <2>1, <3>1
    <3>3. j - 1 \in 1 .. n /\ (j - 1) + 1 = j
      BY <3>2, <1>1
    <3>4. x \in Slice((j - 1) + 1, t[j - 1])
      BY <3>1, <3>3, <1>1
    <3> QED BY <3>3, <3>4
  <2>2. ASSUME NEW i \in 1 .. n, x \in Slice(i + 1, t[i])
        PROVE  x \in Rest
    <3>1. i + 1 \in 1 .. n + 1 /\ s[i + 1] = t[i] /\ i + 1 # 1
      BY <1>1
    <3>2. x \in Slots(s)
      BY <3>1, <2>2, <1>1, SlotsAre
    <3>3. x \notin Slice(1, s[1])
      BY <3>1, <2>2 DEF Slice
    <3> QED BY <3>2, <3>3
  <2> QED BY <2>1, <2>2
<1>4. F \in Bijection(Slots(t), Rest)
  <2>1. ASSUME NEW x \in Slots(t)
        PROVE  x[1] \in 1 .. n /\ x = <<x[1], x[2]>> /\ F[x] \in Rest
    <3>1. PICK i \in 1 .. n : x \in Slice(i, t[i])
      BY <1>1, SlotsAre
    <3>2. x[1] = i /\ x = <<x[1], x[2]>> /\ <<x[1] + 1, x[2]>> \in Slice(i + 1, t[i])
      BY <3>1 DEF Slice
    <3>3. F[x] \in Rest
      BY <3>2, <1>3
    <3> QED BY <3>2, <3>3
  <2>2. ASSUME NEW x \in Slots(t), NEW y \in Slots(t), F[x] = F[y]
        PROVE  x = y
    <3>1. x[1] + 1 = y[1] + 1 /\ x[2] = y[2]
      BY <2>2
    <3>2. x[1] \in 1 .. n /\ y[1] \in 1 .. n
      BY <2>1, Zenon
    <3>3. x[1] = y[1]
      BY <3>1, <3>2, <1>1
    <3> QED BY <2>1, <3>1, <3>3, Zenon
  <2>3. ASSUME NEW y \in Rest
        PROVE  \E x \in Slots(t) : F[x] = y
    <3>1. PICK i \in 1 .. n : y \in Slice(i + 1, t[i])
      BY <1>3
    <3>2. <<i, y[2]>> \in Slice(i, t[i]) /\ y = <<i + 1, y[2]>>
      BY <3>1 DEF Slice
    <3>3. <<i, y[2]>> \in Slots(t)
      BY <3>2, <1>1, SlotsAre
    <3>4. F[<<i, y[2]>>] = <<i + 1, y[2]>>
      BY <3>3
    <3> QED BY <3>2, <3>3, <3>4
  <2>4. F \in [Slots(t) -> Rest]
    BY <2>1
  <2>5. F \in Injection(Slots(t), Rest)
    BY <2>2, <2>4, Zenon DEF Injection, IsInjective
  <2>6. F \in Surjection(Slots(t), Rest)
    BY <2>3, <2>4, Zenon DEF Surjection
  <2> QED BY <2>5, <2>6 DEF Bijection
<1>5. IsFiniteSet(Slots(t)) /\ IsFiniteSet(Slots(s)) /\ Frames(s) \in Nat /\ Frames(t) \in Nat
  BY <1>1, SlotsFinite
<1>6. ExistsBijection(Slots(t), Rest)
  BY <1>4, Zenon DEF ExistsBijection
<1>7. Cardinality(Rest) = Frames(t)
  BY <1>5, <1>6, FS_Bijection DEF Frames
<1>8. Cardinality(Rest) = Frames(s) - Cardinality(Slots(s) \cap Slice(1, s[1]))
  BY <1>5, FS_Difference, Zenon DEF Frames
<1>9. Slots(s) \cap Slice(1, s[1]) = Slice(1, s[1])
  BY <1>2
<1>10. Cardinality(Slice(1, s[1])) = s[1].length /\ s[1].length \in Nat
  BY <1>1, SliceCount DEF Entries
<1>11. Frames(t) = Frames(s) - s[1].length
  BY <1>7, <1>8, <1>9, <1>10, Zenon
<1>12. Frames(s) = s[1].length + Frames(t)
  BY <1>5, <1>10, <1>11
<1> QED BY <1>1, <1>12 DEF t
-----------------------------------------------------------------------------
(***************************************************************************)
(* The read buffer.  c is the queue of completed reads, m the read between *)
(* the queues, and reads are those that wait in the event queue.           *)
(***************************************************************************)
LEMMA RemainderUnique ==
  ASSUME NEW n \in Nat \ {0}, NEW d \in Nat, NEW r \in 0 .. n - 1
  PROVE  (n * d + r) % n = r
  BY SMT

LEMMA RemainderAdd ==
  ASSUME NEW n \in Nat \ {0}, NEW x \in Nat, NEW b \in Nat
  PROVE  ((x % n) + b) % n = (x + b) % n
<1>1. PICK d \in Nat, r \in 0 .. n - 1 : x = n * d + r
  <2>1. x \div n \in Nat /\ x % n \in 0 .. n - 1 /\ x = n * (x \div n) + (x % n)
    BY SMT
  <2> QED BY <2>1
<1>2. PICK e \in Nat, s \in 0 .. n - 1 : r + b = n * e + s
  <2>1. r + b \in Nat
    OBVIOUS
  <2>2. (r + b) \div n \in Nat /\ (r + b) % n \in 0 .. n - 1
        /\ r + b = n * ((r + b) \div n) + ((r + b) % n)
    BY <2>1, SMT
  <2> QED BY <2>2
<1>3. x % n = r /\ (r + b) % n = s
  BY <1>1, <1>2, RemainderUnique
<1>4. x + b = n * (d + e) + s
  <2>1. n * (d + e) = n * d + n * e
    BY SMT
  <2>2. n * d \in Nat /\ n * e \in Nat
    BY SMT
  <2> QED BY <1>1, <1>2, <2>1, <2>2
<1>5. (x + b) % n = s
  <2>1. d + e \in Nat
    OBVIOUS
  <2> QED BY <1>4, <2>1, RemainderUnique
<1> QED BY <1>3, <1>5

LEMMA RAfterFacts ==
  ASSUME NEW p \in RFrame, NEW a \in Nat, NEW b \in Nat
  PROVE  /\ RAfter(p, a) \in RFrame /\ RAfter(p, 0) = p
         /\ RAfter(RAfter(p, a), b) = RAfter(p, a + b)
<1>1. p \in Nat /\ p + a \in Nat /\ (p + a) + b = p + (a + b) /\ READ_BUFFER_FRAME_NB \in Nat \ {0}
      /\ p \in 0 .. READ_BUFFER_FRAME_NB - 1
  BY BufferAssumption DEF RFrame
<1>2. (((p + a) % READ_BUFFER_FRAME_NB) + b) % READ_BUFFER_FRAME_NB = ((p + a) + b) % READ_BUFFER_FRAME_NB
  BY <1>1, RemainderAdd
<1>3. (p + 0) % READ_BUFFER_FRAME_NB = p
  <2>1. p + 0 = p /\ p \in Int
    BY <1>1
  <2>2. (READ_BUFFER_FRAME_NB * 0 + p) % READ_BUFFER_FRAME_NB = p
    BY <1>1, RemainderUnique
  <2> QED BY <1>1, <2>1, <2>2
<1>4. (p + a) % READ_BUFFER_FRAME_NB \in 0 .. READ_BUFFER_FRAME_NB - 1
  BY <1>1
<1> QED BY <1>1, <1>2, <1>3, <1>4 DEF RAfter, RFrame

HeldFrames(m) == IF m = NoEntry THEN 0 ELSE m.length

\* Which frames are taken; only the first read can have its data already.
ReadOk(c, m, reads, sata, ftl, empty) ==
  /\ c \in Seq(Entries) /\ m \in Entries \cup {NoEntry} /\ reads \in Seq(Entries)
  /\ sata \in RFrame /\ ftl \in RFrame /\ empty \in Nat
  /\ \A i \in 1 .. Len(reads) : reads[i].buf # NULL => i = 1
  /\ empty = READ_BUFFER_FRAME_NB - Frames(c) - HeldFrames(m) - Frames(reads)

\* Where they are.
NextRead(c, m, sata) == RAfter(sata, Frames(c) + HeldFrames(m))

Placed(c, sata) == \A i \in 1 .. Len(c) : c[i].buf = RAfter(sata, Frames(SubSeq(c, 1, i - 1)))

Places(c, m, reads, sata, ftl) ==
  /\ Placed(c, sata)
  /\ m # NoEntry => m.buf = RAfter(sata, Frames(c))
  /\ IF reads # <<>> /\ reads[1].buf # NULL
     THEN reads[1].buf = NextRead(c, m, sata) /\ ftl = RAfter(NextRead(c, m, sata), reads[1].length)
     ELSE ftl = NextRead(c, m, sata)

LEMMA EntryIsNone ==
  ASSUME NEW m \in Entries
  PROVE  m # NoEntry /\ HeldFrames(m) = m.length /\ m.length \in Nat \ {0} /\ HeldFrames(NoEntry) = 0
  BY DEF Entries, NoEntry, Entry, HeldFrames

LEMMA HeldNat ==
  ASSUME NEW m \in Entries \cup {NoEntry}
  PROVE  HeldFrames(m) \in Nat
  BY EntryIsNone DEF HeldFrames

\* The first half of DEQUEUE_IO for a read.
LEMMA ReadMoves ==
  ASSUME NEW c, NEW reads, NEW sata, NEW ftl, NEW empty, NEW m \in Entries, NEW to \in RFrame,
         ReadOk(c, NoEntry, reads, sata, ftl, empty), reads # <<>>, m.length = reads[1].length
  PROVE  /\ ReadOk(c, m, Tail(reads), sata, to, empty)
         /\ /\ Places(c, NoEntry, reads, sata, ftl)
            /\ \/ reads[1].buf # NULL /\ m.buf = reads[1].buf /\ to = ftl
               \/ reads[1].buf = NULL /\ m.buf = ftl /\ to = RAfter(ftl, m.length)
            => Places(c, m, Tail(reads), sata, to)
<1>1. /\ c \in Seq(Entries) /\ reads \in Seq(Entries) /\ sata \in RFrame /\ ftl \in RFrame
      /\ empty \in Nat /\ \A i \in 1 .. Len(reads) : reads[i].buf # NULL => i = 1
      /\ empty = READ_BUFFER_FRAME_NB - Frames(c) - HeldFrames(NoEntry) - Frames(reads)
  BY DEF ReadOk
<1>2. m # NoEntry /\ HeldFrames(m) = m.length /\ m.length \in Nat /\ HeldFrames(NoEntry) = 0
  BY EntryIsNone
<1> DEFINE r == Tail(reads)
<1>3. /\ r \in Seq(Entries) /\ Len(reads) \in Nat \ {0} /\ Len(r) = Len(reads) - 1
      /\ Head(reads) = reads[1] /\ \A i \in 1 .. Len(reads) - 1 : r[i] = reads[i + 1]
  BY <1>1, TailIs
<1>4. Frames(reads) = m.length + Frames(r) /\ Frames(r) \in Nat /\ Frames(c) \in Nat
  BY <1>1, <1>3, FramesTail, SlotsFinite
<1>5. \A i \in 1 .. Len(r) : r[i].buf = NULL
  <2> TAKE i \in 1 .. Len(r)
  <2>1. i \in 1 .. Len(reads) - 1 /\ i + 1 \in 1 .. Len(reads) /\ i + 1 # 1
    BY <1>3
  <2> QED BY <2>1, <1>1, <1>3
<1> HIDE DEF r
<1>6. empty = READ_BUFFER_FRAME_NB - Frames(c) - HeldFrames(m) - Frames(r)
  BY <1>1, <1>2, <1>4, BufferAssumption
<1>7. ReadOk(c, m, r, sata, to, empty)
  BY <1>1, <1>3, <1>5, <1>6 DEF ReadOk
<1>8. r # <<>> => r[1].buf = NULL
  BY <1>3, <1>5, EmptySeq
<1>9. NextRead(c, NoEntry, sata) = RAfter(sata, Frames(c))
      /\ NextRead(c, m, sata) = RAfter(RAfter(sata, Frames(c)), m.length)
  <2>1. Frames(c) + 0 = Frames(c)
    BY <1>4
  <2>2. RAfter(RAfter(sata, Frames(c)), m.length) = RAfter(sata, Frames(c) + m.length)
    BY <1>1, <1>2, <1>4, RAfterFacts
  <2> QED BY <2>1, <2>2, <1>2 DEF NextRead
<1>10. ASSUME Places(c, NoEntry, reads, sata, ftl),
              \/ reads[1].buf # NULL /\ m.buf = reads[1].buf /\ to = ftl
              \/ reads[1].buf = NULL /\ m.buf = ftl /\ to = RAfter(ftl, m.length)
       PROVE  Places(c, m, r, sata, to)
  <2>1. Placed(c, sata)
    BY <1>10 DEF Places
  <2>2. m.buf = RAfter(sata, Frames(c)) /\ to = NextRead(c, m, sata)
    BY <1>9, <1>10 DEF Places
  <2> QED BY <2>1, <2>2, <1>8 DEF Places
<1> QED BY <1>7, <1>10 DEF r

LEMMA SameStart ==
  ASSUME NEW c \in Seq(Entries), NEW e \in Entries, NEW i \in 1 .. Len(c) + 1
  PROVE  /\ SubSeq(Append(c, e), 1, i - 1) = SubSeq(c, 1, i - 1)
         /\ SubSeq(c, 1, Len(c)) = c
  OBVIOUS

\* The second half of DEQUEUE_IO.
LEMMA ReadCompletes ==
  ASSUME NEW c, NEW reads, NEW sata, NEW ftl, NEW empty, NEW m \in Entries,
         ReadOk(c, m, reads, sata, ftl, empty)
  PROVE  /\ ReadOk(Append(c, m), NoEntry, reads, sata, ftl, empty)
         /\ Places(c, m, reads, sata, ftl) => Places(Append(c, m), NoEntry, reads, sata, ftl)
<1>1. /\ c \in Seq(Entries) /\ reads \in Seq(Entries) /\ sata \in RFrame /\ ftl \in RFrame
      /\ empty \in Nat /\ \A i \in 1 .. Len(reads) : reads[i].buf # NULL => i = 1
      /\ empty = READ_BUFFER_FRAME_NB - Frames(c) - HeldFrames(m) - Frames(reads)
  BY DEF ReadOk
<1>2. m # NoEntry /\ HeldFrames(m) = m.length /\ m.length \in Nat /\ HeldFrames(NoEntry) = 0
  BY EntryIsNone
<1> DEFINE d == Append(c, m)
<1>3. /\ d \in Seq(Entries) /\ Frames(d) = Frames(c) + m.length /\ Len(c) \in Nat
      /\ Len(d) = Len(c) + 1 /\ d[Len(c) + 1] = m /\ \A i \in 1 .. Len(c) : d[i] = c[i]
  BY <1>1, FramesAppend, AppendProperties, LenProperties
<1>4. Frames(c) \in Nat /\ Frames(reads) \in Nat
  BY <1>1, SlotsFinite
<1>5. \A i \in 1 .. Len(c) + 1 : SubSeq(d, 1, i - 1) = SubSeq(c, 1, i - 1)
  BY <1>1, SameStart
<1>6. SubSeq(c, 1, (Len(c) + 1) - 1) = c
  <2>1. (Len(c) + 1) - 1 = Len(c) /\ Len(c) + 1 \in 1 .. Len(c) + 1
    BY <1>3
  <2> QED BY <2>1, <1>1, SameStart
<1> HIDE DEF d
<1>7. ReadOk(d, NoEntry, reads, sata, ftl, empty)
  <2>1. empty = READ_BUFFER_FRAME_NB - Frames(d) - HeldFrames(NoEntry) - Frames(reads)
    BY <1>1, <1>2, <1>3, <1>4, BufferAssumption
  <2> QED BY <2>1, <1>1, <1>3 DEF ReadOk
<1>8. ASSUME Places(c, m, reads, sata, ftl)
      PROVE  Places(d, NoEntry, reads, sata, ftl)
  <2>1. NextRead(d, NoEntry, sata) = NextRead(c, m, sata)
    BY <1>2, <1>3, <1>4 DEF NextRead
  <2>2. Placed(d, sata)
    <3> SUFFICES ASSUME NEW i \in 1 .. Len(c) + 1
                 PROVE  d[i].buf = RAfter(sata, Frames(SubSeq(c, 1, i - 1)))
      BY <1>3, <1>5 DEF Placed
    <3>1. CASE i \in 1 .. Len(c)
      BY <3>1, <1>3, <1>8 DEF Places, Placed
    <3>2. CASE i = Len(c) + 1
      BY <3>2, <1>2, <1>3, <1>6, <1>8 DEF Places
    <3> QED BY <3>1, <3>2, <1>3
  <2> QED BY <2>1, <2>2, <1>8 DEF Places
<1> QED BY <1>7, <1>8 DEF d

\* DEQUEUE_COMPLETED_READ.
LEMMA ReadsDrain ==
  ASSUME NEW c, NEW m, NEW reads, NEW sata, NEW ftl, NEW empty,
         ReadOk(c, m, reads, sata, ftl, empty), NEW n, n = Frames(c)
  PROVE  /\ ReadOk(<<>>, m, reads, RAfter(sata, n), ftl, empty + n)
         /\ Places(c, m, reads, sata, ftl) => Places(<<>>, m, reads, RAfter(sata, n), ftl)
         /\ n \in Nat
<1>1. /\ c \in Seq(Entries) /\ m \in Entries \cup {NoEntry} /\ reads \in Seq(Entries)
      /\ sata \in RFrame /\ ftl \in RFrame /\ empty \in Nat
      /\ \A i \in 1 .. Len(reads) : reads[i].buf # NULL => i = 1
      /\ empty = READ_BUFFER_FRAME_NB - Frames(c) - HeldFrames(m) - Frames(reads)
  BY DEF ReadOk
<1>2. n \in Nat /\ Frames(reads) \in Nat /\ HeldFrames(m) \in Nat /\ Frames(<<>>) = 0
      /\ <<>> \in Seq(Entries) /\ Len(<<>>) = 0
  BY <1>1, SlotsFinite, HeldNat, NoFrames, EmptySeq
<1>3. RAfter(sata, n) \in RFrame
  BY <1>1, <1>2, RAfterFacts
<1>4. ReadOk(<<>>, m, reads, RAfter(sata, n), ftl, empty + n)
  <2>1. empty + n = READ_BUFFER_FRAME_NB - Frames(<<>>) - HeldFrames(m) - Frames(reads)
        /\ empty + n \in Nat
    BY <1>1, <1>2, BufferAssumption
  <2> QED BY <2>1, <1>1, <1>2, <1>3 DEF ReadOk
<1>5. NextRead(<<>>, m, RAfter(sata, n)) = NextRead(c, m, sata)
      /\ RAfter(RAfter(sata, n), Frames(<<>>)) = RAfter(sata, Frames(c))
  <2>1. RAfter(RAfter(sata, n), HeldFrames(m)) = RAfter(sata, n + HeldFrames(m))
    BY <1>1, <1>2, RAfterFacts
  <2>2. RAfter(RAfter(sata, n), 0) = RAfter(sata, n)
    BY <1>2, <1>3, RAfterFacts
  <2>3. 0 + HeldFrames(m) = HeldFrames(m)
    BY <1>2
  <2> QED BY <2>1, <2>2, <2>3, <1>2 DEF NextRead
<1>6. ASSUME Places(c, m, reads, sata, ftl)
      PROVE  Places(<<>>, m, reads, RAfter(sata, n), ftl)
  <2>1. Placed(<<>>, RAfter(sata, n))
    BY <1>2 DEF Placed
  <2> QED BY <2>1, <1>5, <1>6 DEF Places
<1> QED BY <1>2, <1>4, <1>6

\* ENQUEUE_READ.
LEMMA ReadEnters ==
  ASSUME NEW c, NEW m, NEW reads, NEW sata, NEW ftl, NEW empty, NEW e \in Entries, NEW to \in RFrame,
         ReadOk(c, m, reads, sata, ftl, empty), e.length <= empty,
         e.buf = NULL \/ reads = <<>>
  PROVE  /\ ReadOk(c, m, Append(reads, e), sata, to, empty - e.length)
         /\ /\ Places(c, m, reads, sata, ftl)
            /\ \/ e.buf = NULL /\ to = ftl
               \/ reads = <<>> /\ e.buf # NULL /\ e.buf = ftl /\ to = RAfter(ftl, e.length)
            => Places(c, m, Append(reads, e), sata, to)
<1>1. /\ c \in Seq(Entries) /\ m \in Entries \cup {NoEntry} /\ reads \in Seq(Entries)
      /\ sata \in RFrame /\ ftl \in RFrame /\ empty \in Nat
      /\ \A i \in 1 .. Len(reads) : reads[i].buf # NULL => i = 1
      /\ empty = READ_BUFFER_FRAME_NB - Frames(c) - HeldFrames(m) - Frames(reads)
  BY DEF ReadOk
<1> DEFINE r == Append(reads, e)
<1>2. /\ r \in Seq(Entries) /\ Frames(r) = Frames(reads) + e.length /\ Len(reads) \in Nat
      /\ Len(r) = Len(reads) + 1 /\ r[Len(reads) + 1] = e /\ \A i \in 1 .. Len(reads) : r[i] = reads[i]
  BY <1>1, FramesAppend, AppendProperties, LenProperties
<1>3. Frames(c) \in Nat /\ Frames(reads) \in Nat /\ HeldFrames(m) \in Nat /\ e.length \in Nat \ {0}
  BY <1>1, SlotsFinite, HeldNat DEF Entries
<1>4. reads = <<>> => Len(reads) = 0 /\ r[1] = e
  BY <1>2, EmptySeq
<1>5. reads # <<>> => 1 \in 1 .. Len(reads) /\ r[1] = reads[1]
  BY <1>1, <1>2, EmptySeq
<1>6. r # <<>>
  <2>1. Len(<<>>) = 0 /\ Len(r) # 0
    BY <1>2, EmptySeq
  <2> HIDE DEF r
  <2> QED BY <2>1
<1> HIDE DEF r
<1>7. \A i \in 1 .. Len(r) : r[i].buf # NULL => i = 1
  BY <1>1, <1>2, <1>4
<1>8. ReadOk(c, m, r, sata, to, empty - e.length)
  <2>1. empty - e.length = READ_BUFFER_FRAME_NB - Frames(c) - HeldFrames(m) - Frames(r)
        /\ empty - e.length \in Nat
    BY <1>1, <1>2, <1>3, BufferAssumption
  <2> QED BY <2>1, <1>1, <1>2, <1>7 DEF ReadOk
<1>9. ASSUME Places(c, m, reads, sata, ftl),
             \/ e.buf = NULL /\ to = ftl
             \/ reads = <<>> /\ e.buf # NULL /\ e.buf = ftl /\ to = RAfter(ftl, e.length)
      PROVE  Places(c, m, r, sata, to)
  BY <1>4, <1>5, <1>6, <1>9 DEF Places
<1> QED BY <1>8, <1>9 DEF r
-----------------------------------------------------------------------------
LEMMA FirstReads ==
  ASSUME NEW q \in Seq(Entries), NEW k \in 0 .. Len(q)
  PROVE  /\ SubSeq(q, 1, k) \in Seq(Entries) /\ Len(SubSeq(q, 1, k)) = k
         /\ \A i \in 1 .. k : SubSeq(q, 1, k)[i] = q[i]
  OBVIOUS

LEMMA SameFirst ==
  ASSUME NEW q \in Seq(Entries), NEW r \in Seq(Entries), Len(q) = Len(r),
         \A i \in 1 .. Len(q) : q[i] = r[i]
  PROVE  q = r
  BY SeqEqual

LEMMA NoReads ==
  ASSUME NEW q \in Seq(Entries), NEW k, k = 0
  PROVE  SubSeq(q, 1, k) = <<>>
  OBVIOUS

\* The first read leaves.
LEMMA ReadsTail ==
  ASSUME NEW q \in Seq(Entries), NEW k \in 1 .. Len(q), NEW d, d = k - 1
  PROVE  /\ SubSeq(Tail(q), 1, d) = Tail(SubSeq(q, 1, k))
         /\ SubSeq(q, 1, k) # <<>> /\ SubSeq(q, 1, k)[1] = q[1]
<1> DEFINE a == SubSeq(q, 1, k)
           b == SubSeq(Tail(q), 1, d)
<1>1. Len(q) \in Nat \ {0} /\ k \in 0 .. Len(q) /\ q # <<>> /\ d \in 0 .. Len(q) - 1 /\ d + 1 = k
  BY LenProperties
<1>2. Tail(q) \in Seq(Entries) /\ Len(Tail(q)) = Len(q) - 1
      /\ \A i \in 1 .. Len(q) - 1 : Tail(q)[i] = q[i + 1]
  BY <1>1, TailIs
<1>3. a \in Seq(Entries) /\ Len(a) = k /\ \A i \in 1 .. k : a[i] = q[i]
  BY <1>1, FirstReads
<1>4. b \in Seq(Entries) /\ Len(b) = d /\ \A i \in 1 .. d : b[i] = Tail(q)[i]
  BY <1>1, <1>2, FirstReads
<1> HIDE DEF a, b
<1>5. a # <<>>
  BY <1>1, <1>3, EmptySeq
<1>6. Tail(a) \in Seq(Entries) /\ Len(Tail(a)) = k - 1 /\ \A i \in 1 .. k - 1 : Tail(a)[i] = a[i + 1]
  BY <1>3, <1>5, TailIs
<1>7. \A i \in 1 .. d : b[i] = Tail(a)[i]
  BY <1>1, <1>2, <1>3, <1>4, <1>6
<1>8. b = Tail(a)
  BY <1>1, <1>4, <1>6, <1>7, SameFirst
<1>9. 1 \in 1 .. k
  BY <1>1
<1> QED BY <1>3, <1>5, <1>8, <1>9 DEF a, b

\* Another read joins them.
LEMMA ReadsInserted ==
  ASSUME NEW q \in Seq(Entries), NEW k \in 0 .. Len(q), NEW e \in Entries
  PROVE  SubSeq(Insert(q, k, e), 1, k + 1) = Append(SubSeq(q, 1, k), e)
<1> DEFINE r == Insert(q, k, e)
           a == SubSeq(q, 1, k)
           b == SubSeq(r, 1, k + 1)
           d == Append(a, e)
<1>1. Len(q) \in Nat /\ k \in Nat /\ k <= Len(q)
  BY LenProperties
<1>2. r \in Seq(Entries) /\ Len(r) = Len(q) + 1
      /\ \A i \in 1 .. Len(q) + 1 : r[i] = IF i <= k THEN q[i] ELSE IF i = k + 1 THEN e ELSE q[i - 1]
  BY InsertIs
<1>3. a \in Seq(Entries) /\ Len(a) = k /\ \A i \in 1 .. k : a[i] = q[i]
  BY FirstReads
<1> HIDE DEF r, a
<1>4. b \in Seq(Entries) /\ Len(b) = k + 1 /\ \A i \in 1 .. k + 1 : b[i] = r[i]
  <2>1. k + 1 \in 0 .. Len(r)
    BY <1>1, <1>2
  <2> QED BY <2>1, <1>2, FirstReads
<1>5. d \in Seq(Entries) /\ Len(d) = k + 1 /\ d[k + 1] = e /\ \A i \in 1 .. k : d[i] = a[i]
  BY <1>3, AppendProperties
<1> HIDE DEF b, d
<1>6. \A i \in 1 .. k + 1 : b[i] = d[i]
  <2> TAKE i \in 1 .. k + 1
  <2>1. CASE i \in 1 .. k
    <3>1. i \in 1 .. Len(q) + 1 /\ i <= k
      BY <2>1, <1>1
    <3>2. r[i] = q[i]
      BY <3>1, <1>2
    <3> QED BY <2>1, <3>2, <1>3, <1>4, <1>5
  <2>2. CASE i = k + 1
    <3>1. k + 1 \in 1 .. Len(q) + 1 /\ ~(k + 1 <= k)
      BY <1>1
    <3>2. r[k + 1] = e
      BY <3>1, <1>2
    <3> QED BY <2>2, <3>2, <1>4, <1>5
  <2> QED BY <2>1, <2>2, <1>1
<1>7. b = d
  BY <1>4, <1>5, <1>6, SameFirst
<1> QED BY <1>7 DEF b, d, a, r

\* A write changes none of them.
LEMMA ReadsSame ==
  ASSUME NEW q \in Seq(Entries), NEW r \in Seq(Entries), NEW k \in 0 .. Len(q), k <= Len(r),
         \A i \in 1 .. k : r[i] = q[i]
  PROVE  SubSeq(r, 1, k) = SubSeq(q, 1, k)
<1>1. k \in 0 .. Len(r)
  BY LenProperties
<1> DEFINE a == SubSeq(q, 1, k)
           b == SubSeq(r, 1, k)
<1>2. a \in Seq(Entries) /\ Len(a) = k /\ \A i \in 1 .. k : a[i] = q[i]
  BY FirstReads
<1>3. b \in Seq(Entries) /\ Len(b) = k /\ \A i \in 1 .. k : b[i] = r[i]
  BY <1>1, FirstReads
<1> HIDE DEF a, b
<1>4. a = b
  BY <1>2, <1>3, SameFirst
<1> QED BY <1>4 DEF a, b
-----------------------------------------------------------------------------
(***************************************************************************)
(* The invariant of the read buffer.                                       *)
(***************************************************************************)
Reads == SubSeq(e_queue, 1, last_read_entry)

ReadNow ==
  ReadOk(c_e_queue, moving, Reads, sata_read_ptr, ftl_read_ptr, empty_read_buffer_frame)
PlacesNow == Places(c_e_queue, moving, Reads, sata_read_ptr, ftl_read_ptr)
ROk == ReadNow /\ (~failed => PlacesNow)

\* Who flushes for a read, flushes all reads.
RFlushed ==
  host = "flush" \/ (host = "secure" /\ req.io_type = "READ") \/ thread = "secure_r" =>
    last_read_entry + Held <= todo

RFits ==
  host \in {"secure", "spin"} /\ req.io_type = "READ" => req.length <= READ_BUFFER_FRAME_NB

RRoom ==
  req.io_type = "READ" /\ (host \in {"enqueue", "flush"} \/ (host = "spin" /\ ~r_queue_full)) =>
    req.length <= empty_read_buffer_frame

RInv == ROk /\ RFlushed /\ RFits /\ RRoom

LEMMA ReadsStay ==
  ASSUME ROk, UNCHANGED <<c_e_queue, moving, e_queue, last_read_entry, sata_read_ptr, ftl_read_ptr,
                          empty_read_buffer_frame>>, failed' \/ UNCHANGED failed
  PROVE  ROk'
  BY DEF ROk, ReadNow, PlacesNow, Reads

LEMMA ReadRoomInt == ASSUME ROk PROVE empty_read_buffer_frame \in Nat
  BY DEF ROk, ReadNow, ReadOk

LEMMA ReadsDrained ==
  ASSUME IInv, ROk, DEQUEUE_COMPLETED_READ,
         UNCHANGED <<moving, e_queue, last_read_entry, ftl_read_ptr, failed>>
  PROVE  /\ ROk'
         /\ empty_read_buffer_frame' = empty_read_buffer_frame + Frames(c_e_queue)
         /\ Frames(c_e_queue) \in Nat
         /\ last_read_entry + Held <= 0 => empty_read_buffer_frame' = READ_BUFFER_FRAME_NB
<1>1. /\ c_e_queue' = <<>> /\ sata_read_ptr' = RAfter(sata_read_ptr, Frames(c_e_queue))
      /\ empty_read_buffer_frame' = empty_read_buffer_frame + Frames(c_e_queue)
  BY DEF DEQUEUE_COMPLETED_READ
<1>2. Reads' = Reads
  BY DEF Reads
<1>3. /\ ReadNow' /\ (PlacesNow => PlacesNow') /\ Frames(c_e_queue) \in Nat
  BY <1>1, <1>2, ReadsDrain DEF ROk, ReadNow, PlacesNow
<1>4. ROk'
  BY <1>3 DEF ROk
<1>5. ASSUME last_read_entry + Held <= 0
      PROVE  empty_read_buffer_frame' = READ_BUFFER_FRAME_NB
  <2>1. last_read_entry = 0 /\ moving = NoEntry
    <3>1. last_read_entry \in Nat
      BY LenProperties DEF IInv, Types
    <3> QED BY <3>1, <1>5 DEF Held
  <2>2. Reads = <<>>
    BY <2>1, NoReads DEF Reads, IInv, Types
  <2>3. HeldFrames(moving) = 0
    BY <2>1 DEF HeldFrames
  <2>4. empty_read_buffer_frame' = READ_BUFFER_FRAME_NB - Frames(<<>>) - 0 - Frames(<<>>)
    BY <1>1, <1>2, <1>3, <2>2, <2>3 DEF ReadNow, ReadOk
  <2> QED BY <2>4, NoFrames, BufferAssumption
<1> QED BY <1>1, <1>3, <1>4, <1>5

LEMMA RInitially == Init => RInv
<1> SUFFICES ASSUME Init PROVE RInv
  OBVIOUS
<1>1. RFlushed /\ RFits /\ RRoom
  BY BufferAssumption DEF Init, RFlushed, RFits, RRoom, NoReq
<1>2. /\ c_e_queue = <<>> /\ moving = NoEntry /\ Reads = <<>> /\ <<>> \in Seq(Entries)
      /\ sata_read_ptr = 0 /\ ftl_read_ptr = 0 /\ empty_read_buffer_frame = READ_BUFFER_FRAME_NB
  <2>1. <<>> \in Seq(Entries)
    BY EmptySeq
  <2>2. Reads = <<>>
    BY <2>1, NoReads DEF Init, Reads
  <2> QED BY <2>1, <2>2 DEF Init
<1>3. 0 \in RFrame /\ READ_BUFFER_FRAME_NB \in Nat /\ Len(<<>>) = 0
  BY BufferAssumption, EmptySeq DEF RFrame
<1>4. HeldFrames(NoEntry) = 0 /\ Frames(<<>>) = 0
  BY NoFrames DEF HeldFrames
<1>5. RAfter(0, 0 + 0) = 0
  <2>1. 0 + 0 = 0 /\ 0 \in Nat
    OBVIOUS
  <2> QED BY <2>1, <1>3, RAfterFacts
<1>6. ReadNow
  <2>1. READ_BUFFER_FRAME_NB = READ_BUFFER_FRAME_NB - 0 - 0 - 0
    BY <1>3
  <2> QED BY <2>1, <1>2, <1>3, <1>4 DEF ReadNow, ReadOk
<1>7. PlacesNow
  <2>1. Placed(<<>>, 0)
    BY <1>3 DEF Placed
  <2> QED BY <2>1, <1>2, <1>4, <1>5 DEF PlacesNow, Places, NextRead
<1> QED BY <1>1, <1>6, <1>7 DEF RInv, ROk

LEMMA RHost ==
  ASSUME IInv, RInv, HostSecured \/ SpinSignals \/ SpinEnds \/ HostSignals \/ Terminated
  PROVE  RInv'
<1>1. /\ UNCHANGED <<e_queue, last_read_entry, moving, todo, req, r_queue_full, failed, ftl_read_ptr>>
      /\ \/ host = "secure" /\ todo = 0 /\ host' = "enqueue" /\ thread' = thread
         \/ host = "spin" /\ thread = "asleep" /\ thread' = "lock" /\ host' = host
         \/ host = "spin" /\ ~Flag(req.io_type) /\ host' = "enqueue" /\ thread' = thread
         \/ /\ host = "signal" /\ host' = "idle"
            /\ thread' = IF thread = "asleep" THEN "lock" ELSE thread
         \/ host = "term" /\ todo = 0 /\ host' = "closed" /\ thread' = thread
  BY DEF HostSecured, Secured, SpinSignals, SpinEnds, HostSignals, Terminated,
         queues, rbVars, flags, flushing, ghosts
<1>2. \/ UNCHANGED <<c_e_queue, sata_read_ptr, empty_read_buffer_frame>>
         /\ ~(host = "secure" /\ req.io_type = "READ")
      \/ DEQUEUE_COMPLETED_READ /\ host = "secure" /\ req.io_type = "READ"
  BY DEF HostSecured, Secured, SpinSignals, SpinEnds, HostSignals, Terminated, queues, rbVars
<1>3. RFlushed'
  BY <1>1 DEF RInv, RFlushed, Held, NoEntry, Entry
<1>4. RFits'
  BY <1>1 DEF RInv, RFits
<1>5. CASE UNCHANGED <<c_e_queue, sata_read_ptr, empty_read_buffer_frame>>
           /\ ~(host = "secure" /\ req.io_type = "READ")
  <2>1. ROk'
    BY <1>1, <1>5, ReadsStay DEF RInv
  <2>2. RRoom'
    BY <1>1, <1>5 DEF RInv, RRoom, Flag
  <2> QED BY <1>3, <1>4, <2>1, <2>2 DEF RInv
<1>6. CASE DEQUEUE_COMPLETED_READ /\ host = "secure" /\ req.io_type = "READ"
  <2>1. last_read_entry + Held <= 0
    BY <1>1, <1>6 DEF RInv, RFlushed
  <2>2. ROk' /\ empty_read_buffer_frame' = READ_BUFFER_FRAME_NB
    BY <1>1, <1>6, <2>1, ReadsDrained DEF RInv
  <2>3. req.length <= READ_BUFFER_FRAME_NB
    BY <1>6 DEF RInv, RFits
  <2>4. RRoom'
    BY <2>2, <2>3, <1>1 DEF RRoom
  <2> QED BY <1>3, <1>4, <2>2, <2>4 DEF RInv
<1> QED BY <1>2, <1>5, <1>6

LEMMA RThread ==
  ASSUME IInv, RInv, ThreadStep \/ SpuriousWakeup
  PROVE  RInv'
<1>1. /\ UNCHANGED <<e_queue, last_read_entry, moving, host, req, failed, ftl_read_ptr>>
      /\ thread # "none"
  BY DEF ThreadStep, ThreadDequeues, ThreadWorked, ThreadSecures, ThreadSecured, Secured, ThreadLocks,
         ThreadFindsNothing, ThreadWaits, SpuriousWakeup, queues, rbVars, flushing, ghosts
<1>2. \/ /\ thread' = "secure_r" /\ thread = "lock" /\ r_queue_full /\ mode = "2"
         /\ todo' = last_read_entry /\ DEQUEUE_COMPLETED_READ /\ UNCHANGED r_queue_full
      \/ /\ thread = "secure_r" /\ thread' = "lock" /\ todo = 0 /\ DEQUEUE_COMPLETED_READ
         /\ UNCHANGED todo
      \/ /\ thread \notin {"secure_r"} /\ thread' \notin {"secure_r"}
         /\ UNCHANGED <<c_e_queue, sata_read_ptr, empty_read_buffer_frame>>
         /\ r_queue_full' = r_queue_full \/ r_queue_full' = (r_queue_full /\ TRUE)
         /\ (UNCHANGED todo \/ (thread = "lock" /\ host # "flush"))
  BY DEF ThreadStep, ThreadDequeues, ThreadWorked, ThreadSecures, ThreadSecured, Secured, ThreadLocks,
         ThreadFindsNothing, ThreadWaits, SpuriousWakeup, SECURE_READ_BUFFER, SECURE_WRITE_BUFFER,
         FlushLength, flags, flushing, queues, rbVars
<1>3. RFits'
  BY <1>1 DEF RInv, RFits
<1>4. /\ r_queue_full \in BOOLEAN /\ (r_queue_full => host = "spin" /\ req.io_type = "READ")
      /\ (thread = "secure_r" => r_queue_full) /\ host # "secure" /\ last_read_entry \in Nat
  BY <1>1, LenProperties DEF IInv, Control, Types
<1>5. CASE /\ thread' = "secure_r" /\ thread = "lock" /\ r_queue_full /\ mode = "2"
           /\ todo' = last_read_entry /\ DEQUEUE_COMPLETED_READ /\ UNCHANGED r_queue_full
  <2>1. moving = NoEntry
    BY <1>4, <1>5, Quiet DEF IInv, HostInQueue, ThreadInQueue
  <2>2. RFlushed'
    BY <2>1, <1>1, <1>4, <1>5 DEF RFlushed, Held, NoEntry, Entry
  <2>3. ROk'
    BY <1>1, <1>5, ReadsDrained DEF RInv
  <2>4. RRoom'
    BY <1>1, <1>4, <1>5 DEF RRoom
  <2> QED BY <1>3, <2>2, <2>3, <2>4 DEF RInv
<1>6. CASE /\ thread = "secure_r" /\ thread' = "lock" /\ todo = 0 /\ DEQUEUE_COMPLETED_READ
           /\ UNCHANGED todo
  <2>1. last_read_entry + Held <= 0
    BY <1>6 DEF RInv, RFlushed
  <2>2. ROk' /\ empty_read_buffer_frame' = READ_BUFFER_FRAME_NB
    BY <1>1, <1>6, <2>1, ReadsDrained DEF RInv
  <2>3. req.length <= READ_BUFFER_FRAME_NB
    BY <1>4, <1>6 DEF RInv, RFits
  <2>4. RRoom'
    BY <2>2, <2>3, <1>1 DEF RRoom
  <2>5. RFlushed'
    BY <1>1, <1>4, <1>6 DEF RFlushed
  <2> QED BY <1>3, <2>2, <2>4, <2>5 DEF RInv
<1>7. CASE /\ thread \notin {"secure_r"} /\ thread' \notin {"secure_r"}
           /\ UNCHANGED <<c_e_queue, sata_read_ptr, empty_read_buffer_frame>>
           /\ r_queue_full' = r_queue_full \/ r_queue_full' = (r_queue_full /\ TRUE)
           /\ (UNCHANGED todo \/ (thread = "lock" /\ host # "flush"))
  <2>1. ROk'
    BY <1>1, <1>7, ReadsStay DEF RInv
  <2>2. r_queue_full' = r_queue_full
    BY <1>4, <1>7
  <2>3. RRoom'
    BY <1>1, <1>7, <2>2 DEF RInv, RRoom
  <2>4. RFlushed'
    BY <1>1, <1>4, <1>7 DEF RInv, RFlushed, Held, NoEntry, Entry
  <2> QED BY <1>3, <2>1, <2>3, <2>4 DEF RInv
<1> QED BY <1>2, <1>5, <1>6, <1>7

\* SSD_READ and SSD_WRITE, up to where the host has to wait, and TERM_IO_BUFFER.
LEMMA RRequest ==
  ASSUME IInv, RInv, Request
  PROVE  RInv'
<1>1. /\ UNCHANGED <<e_queue, last_read_entry, moving, thread, ftl_read_ptr, failed, mode>>
      /\ host = "idle"
  BY DEF Request, SSD_WRITE, SSD_READ, Call, TERM_IO_BUFFER, queues, rbVars, ghosts
<1>2. thread # "secure_r" /\ ~r_queue_full /\ r_queue_full \in BOOLEAN
  BY <1>1 DEF IInv, Control
<1>3. CASE TERM_IO_BUFFER
  <2>1. host' = "term" /\ UNCHANGED <<c_e_queue, sata_read_ptr, empty_read_buffer_frame>>
    BY <1>3 DEF TERM_IO_BUFFER, queues, rbVars
  <2>2. ROk'
    BY <2>1, <1>1, ReadsStay DEF RInv
  <2> QED BY <2>1, <2>2, <1>1, <1>2 DEF RInv, RFlushed, RFits, RRoom
<1>4. ASSUME NEW q \in Requests, NEW d \in Data \cup {NoData}, SSD_WRITE(q, d)
      PROVE  RInv'
  <2>1. req'.io_type = "WRITE" /\ DEQUEUE_COMPLETED_READ /\ host' # "flush"
    BY <1>4 DEF SSD_WRITE, Call
  <2>2. ROk'
    BY <2>1, <1>1, ReadsDrained DEF RInv
  <2> QED BY <2>1, <2>2, <1>1, <1>2 DEF RInv, RFlushed, RFits, RRoom
<1>5. ASSUME NEW q \in Requests, SSD_READ(q)
      PROVE  RInv'
  <2> DEFINE full == IsLess(empty_read_buffer_frame + Frames(c_e_queue), q.length)
  <2>1. /\ q.io_type = "READ" /\ req'.io_type = "READ" /\ req'.length = q.length
        /\ host' = IF ~full THEN "enqueue" ELSE IF mode = "none" THEN "secure" ELSE "spin"
        /\ full /\ mode = "none" => todo' = FlushLength("READ")
        /\ r_queue_full' = (r_queue_full \/ (full /\ mode # "none"))
        /\ DEQUEUE_COMPLETED_READ
    BY <1>5 DEF SSD_READ, Call
  <2>2. q.length \in 1 .. READ_BUFFER_FRAME_NB
    <3>1. \/ q \in [io_type : {"WRITE"}, sector_nb : Nat, length : 1 .. WRITE_BUFFER_FRAME_NB]
          \/ q \in [io_type : {"READ"}, sector_nb : Nat, length : 1 .. READ_BUFFER_FRAME_NB]
      BY BufferAssumption
    <3> QED BY <3>1, <2>1
  <2>3. RFits'
    BY <2>1, <2>2, BufferAssumption DEF RFits
  <2>4. /\ ROk' /\ empty_read_buffer_frame' = empty_read_buffer_frame + Frames(c_e_queue)
    BY <2>1, <1>1, ReadsDrained DEF RInv
  <2>5. empty_read_buffer_frame' \in Nat
    BY <2>4 DEF ROk, ReadNow, ReadOk
  <2>6. RFlushed'
    <3> SUFFICES ASSUME host' = "secure"
                 PROVE  last_read_entry + Held <= todo'
      BY <1>1, <1>2, <2>1 DEF RFlushed, Held, NoEntry, Entry
    <3>1. mode = "none" /\ todo' = last_read_entry
      BY <2>1 DEF FlushLength
    <3>2. moving = NoEntry
      BY <1>1, <3>1, Quiet DEF IInv, Control, HostInQueue, ThreadInQueue
    <3>3. last_read_entry \in Nat
      BY LenProperties DEF IInv, Types
    <3> QED BY <3>1, <3>2, <3>3 DEF Held
  <2>7. RRoom'
    <3> SUFFICES ASSUME host' = "enqueue" \/ (host' = "spin" /\ ~r_queue_full')
                 PROVE  q.length <= empty_read_buffer_frame'
      BY <1>1, <2>1 DEF RRoom
    <3>1. ~full
      BY <2>1
    <3> QED BY <3>1, <2>2, <2>4, <2>5, BufferAssumption DEF IsLess
  <2> QED BY <2>3, <2>4, <2>6, <2>7 DEF RInv
<1> QED BY <1>3, <1>4, <1>5 DEF Request

\* DEQUEUE_IO.
LEMMA RDequeue ==
  ASSUME IInv, RInv, DEQUEUE_IO
  PROVE  RInv'
<1>1. UNCHANGED <<host, req, thread, r_queue_full, sata_read_ptr, empty_read_buffer_frame>>
  BY DEF DEQUEUE_IO, DequeueRead, DequeueWrite, AppendCompleted, RemoveHead, flags, rbVars,
         FTL_READ, FTL_WRITE, FTL_WRITE_Fails
<1>2. RFits' /\ RRoom'
  BY <1>1 DEF RInv, RFits, RRoom
<1>3. ASSUME ROk', last_read_entry' + Held' <= todo' \/ ~(last_read_entry + Held <= todo)
      PROVE  RInv'
  BY <1>1, <1>2, <1>3 DEF RInv, RFlushed
<1>4. /\ todo \in Nat /\ last_read_entry \in Nat /\ last_read_entry \in 0 .. Len(e_queue)
      /\ e_queue \in Seq(Entries) /\ moving \in Entries \cup {NoEntry}
  BY LenProperties DEF IInv, Types
<1>5. CASE AppendCompleted
  <2>1. /\ moving # NoEntry /\ moving' = NoEntry /\ todo' = todo - 1
        /\ c_e_queue' = Append(c_e_queue, moving)
        /\ UNCHANGED <<e_queue, last_read_entry, failed, ftl_read_ptr>>
    BY <1>5 DEF AppendCompleted, rbVars, ghosts
  <2>2. moving \in Entries /\ Reads' = Reads /\ NoEntry' = NoEntry
    BY <1>4, <2>1 DEF Reads, NoEntry, Entry
  <2>3. ROk'
    BY <1>1, <2>1, <2>2, ReadCompletes DEF RInv, ROk, ReadNow, PlacesNow
  <2>4. last_read_entry' + Held' <= todo' \/ ~(last_read_entry + Held <= todo)
    BY <2>1, <1>4 DEF Held, NoEntry, Entry
  <2> QED BY <2>3, <2>4, <1>3
<1>6. CASE DequeueWrite
  <2>1. /\ e_queue # <<>> /\ Head(e_queue).io_type = "WRITE" /\ moving = NoEntry /\ todo > 0
        /\ e_queue' = Tail(e_queue) /\ todo' = todo - 1
        /\ last_read_entry' = IF last_read_entry = 0 THEN 0 ELSE last_read_entry - 1
        /\ UNCHANGED <<c_e_queue, moving, ftl_read_ptr>> /\ (failed' \/ UNCHANGED failed)
    BY <1>6 DEF DequeueWrite, Dequeuing, RemoveHead, FTL_WRITE, FTL_WRITE_Fails, rbVars
  <2>2. Head(e_queue) = e_queue[1] /\ Len(e_queue) \in Nat \ {0} /\ Tail(e_queue) \in Seq(Entries)
    BY <1>4, <2>1, TailIs
  <2>3. last_read_entry = 0 /\ last_read_entry' = 0
    BY <1>4, <2>1, <2>2 DEF IInv, QueueOrder
  <2>4. Reads = <<>> /\ Reads' = <<>>
    BY <1>4, <2>1, <2>2, <2>3, NoReads DEF Reads
  <2>5. ROk'
    BY <1>1, <2>1, <2>4 DEF RInv, ROk, ReadNow, PlacesNow
  <2>6. last_read_entry' + Held' <= todo'
    BY <2>1, <2>3, <1>4 DEF Held, NoEntry, Entry
  <2> QED BY <2>5, <2>6, <1>3
<1>7. CASE DequeueRead
  <2> DEFINE e == Head(e_queue)
             r == Tail(Reads)
  <2>1. /\ e_queue # <<>> /\ e.io_type = "READ" /\ moving = NoEntry
        /\ e_queue' = Tail(e_queue) /\ todo' = todo /\ UNCHANGED c_e_queue
        /\ last_read_entry' = IF last_read_entry = 0 THEN 0 ELSE last_read_entry - 1
        /\ IF e.buf = NULL
           THEN FTL_READ(e) /\ moving' = [e EXCEPT !.buf = ftl_read_ptr]
           ELSE moving' = e /\ UNCHANGED <<ftl_read_ptr, failed>>
    BY <1>7 DEF DequeueRead, Dequeuing, RemoveHead, rbVars
  <2>2. e = e_queue[1] /\ Len(e_queue) \in Nat \ {0} /\ Tail(e_queue) \in Seq(Entries) /\ e \in Entries
    BY <1>4, <2>1, TailIs, ElementOfSeq
  <2>3. last_read_entry \in 1 .. Len(e_queue) /\ last_read_entry' = last_read_entry - 1
    BY <1>4, <2>1, <2>2 DEF IInv, QueueOrder
  <2>4. Reads' = r /\ Reads # <<>> /\ Reads[1] = e
    BY <1>4, <2>1, <2>2, <2>3, ReadsTail DEF Reads
  <2>5. ftl_read_ptr \in RFrame /\ ftl_read_ptr \in Nat /\ NoEntry' = NoEntry
    BY BufferAssumption DEF IInv, Types, RFrame, NoEntry, Entry
  <2>6. moving' \in Entries /\ moving'.length = e.length
        /\ moving'.buf = IF e.buf = NULL THEN ftl_read_ptr ELSE e.buf
    BY <2>1, <2>2, <2>5 DEF Entries
  <2>7. e.length \in Nat
    BY <2>2 DEF Entries
  <2>8. \/ failed' /\ ftl_read_ptr' = ftl_read_ptr
        \/ /\ UNCHANGED failed
           /\ ftl_read_ptr' = IF e.buf = NULL THEN RAfter(ftl_read_ptr, e.length) ELSE ftl_read_ptr
    BY <2>1 DEF FTL_READ
  <2>9. ftl_read_ptr' \in RFrame
    BY <2>5, <2>7, <2>8, RAfterFacts
  <2> HIDE DEF e, r
  <2>10. /\ ReadNow'
         /\ PlacesNow /\ ~failed' => PlacesNow'
    <3>1. ReadOk(c_e_queue, NoEntry, Reads, sata_read_ptr, ftl_read_ptr, empty_read_buffer_frame)
      BY <2>1 DEF RInv, ROk, ReadNow
    <3>2. PlacesNow => Places(c_e_queue, NoEntry, Reads, sata_read_ptr, ftl_read_ptr)
      BY <2>1 DEF PlacesNow
    <3>3. ReadOk(c_e_queue, moving', r, sata_read_ptr, ftl_read_ptr', empty_read_buffer_frame)
      BY <3>1, <2>4, <2>6, <2>9, ReadMoves DEF r
    <3>4. PlacesNow /\ ~failed' => Places(c_e_queue, moving', r, sata_read_ptr, ftl_read_ptr')
      <4> SUFFICES ASSUME PlacesNow, ~failed'
                   PROVE  Places(c_e_queue, moving', r, sata_read_ptr, ftl_read_ptr')
        OBVIOUS
      <4>1. \/ Reads[1].buf # NULL /\ moving'.buf = Reads[1].buf /\ ftl_read_ptr' = ftl_read_ptr
            \/ /\ Reads[1].buf = NULL /\ moving'.buf = ftl_read_ptr
               /\ ftl_read_ptr' = RAfter(ftl_read_ptr, moving'.length)
        BY <2>4, <2>6, <2>8
      <4> QED BY <4>1, <3>1, <3>2, <2>4, <2>6, <2>9, ReadMoves DEF r
    <3> QED BY <3>3, <3>4, <1>1, <2>1, <2>4 DEF ReadNow, PlacesNow
  <2>11. ROk'
    BY <2>8, <2>10 DEF RInv, ROk
  <2>12. last_read_entry' + Held' <= todo' \/ ~(last_read_entry + Held <= todo)
    BY <2>1, <2>3, <1>4 DEF Held, NoEntry, Entry
  <2> QED BY <2>11, <2>12, <1>3
<1> QED BY <1>5, <1>6, <1>7 DEF DEQUEUE_IO

\* ENQUEUE_WRITE leaves the reads alone.
LEMMA ReadsKept ==
  ASSUME IInv, ENQUEUE_WRITE, NEW i \in 1 .. last_read_entry
  PROVE  e_queue'[i] = e_queue[i]
<1> DEFINE s == req.sector_nb
           n == req.length
           N == Len(e_queue)
           over == QueueOver(s, n)
<1>1. /\ e_queue \in Seq(Entries) /\ N \in Nat /\ last_read_entry \in 0 .. N /\ i \in 1 .. N
      /\ DOMAIN e_queue = 1 .. N /\ e_queue[i] \in Entries
  BY LenProperties, ElementOfSeq DEF IInv, Types
<1>2. over \in Seq(Entries) /\ Len(over) = N
      /\ \A j \in 1 .. N : over[j].io_type = "READ" <=> j <= last_read_entry
  BY OverMarked DEF IInv
<1>3. over[i] = e_queue[i]
  <2>1. i \notin Overwritten(s, n)
    BY <1>1 DEF Overwritten, Pending
  <2>2. over[i] = [e_queue[i] EXCEPT !.valid = @ /\ i \notin Overwritten(s, n)]
    BY <1>1 DEF QueueOver
  <2>3. e_queue[i].valid = (e_queue[i].valid /\ i \notin Overwritten(s, n))
    BY <1>1, <2>1 DEF Entries
  <2>4. over[i] \in Entries
    BY <1>1, <1>2, ElementOfSeq
  <2> HIDE DEF over, s, n
  <2> QED BY <1>1, <2>2, <2>3, <2>4 DEF Entries
<1> HIDE DEF over
<1>4. \/ \E k : e_queue' = [over EXCEPT ![N].length = k] /\ over[N].io_type = "WRITE" /\ e_queue # <<>>
      \/ \E e \in Entries : e_queue' = Append(over, e)
  <2>1. CASE MergeSequential
    BY <2>1 DEF MergeSequential, AcceptWrite, Continues, CHECK_SEQUENTIALITY, over
  <2>2. CASE MergeOverlap
    BY <2>2 DEF MergeOverlap, AcceptWrite, Overlaps, CHECK_IO_DEPENDENCY_FOR_WRITE, over
  <2>3. CASE NewWriteEvent
    <3>1. host = "enqueue" /\ e_queue' = Append(over, Entry("WRITE", s, n, sata_write_ptr, NoData))
      BY <2>3 DEF NewWriteEvent, AcceptWrite, over
    <3>2. s \in Nat /\ n \in Nat \ {0} /\ sata_write_ptr \in Nat
      BY <3>1, RingAssumption DEF IInv, Types, Asked, WFrame
    <3>3. Entry("WRITE", s, n, sata_write_ptr, NoData) \in Entries
      BY <3>2 DEF Entry, Entries
    <3> QED BY <3>1, <3>3
  <2> QED BY <2>1, <2>2, <2>3 DEF ENQUEUE_WRITE
<1>5. ASSUME NEW k, e_queue' = [over EXCEPT ![N].length = k], over[N].io_type = "WRITE", e_queue # <<>>
      PROVE  e_queue'[i] = over[i]
  <2>1. N \in 1 .. N /\ i # N
    BY <1>1, <1>2, <1>5, EmptySeq
  <2>2. i \in DOMAIN over
    BY <1>1, <1>2, LenProperties
  <2> QED BY <1>5, <2>1, <2>2
<1>6. ASSUME NEW e \in Entries, e_queue' = Append(over, e)
      PROVE  e_queue'[i] = over[i]
  BY <1>1, <1>2, <1>6, AppendProperties
<1> QED BY <1>3, <1>4, <1>5, <1>6

LEMMA RWrite ==
  ASSUME IInv, RInv, ENQUEUE_WRITE
  PROVE  RInv'
<1>1. /\ host = "enqueue" /\ req.io_type = "WRITE" /\ ~ThreadHolds /\ Enqueued
      /\ UNCHANGED <<last_read_entry, c_e_queue, moving, sata_read_ptr, ftl_read_ptr,
                     empty_read_buffer_frame, thread, failed>>
      /\ req' = NoReq
  BY DEF ENQUEUE_WRITE, MergeSequential, MergeOverlap, NewWriteEvent, AcceptWrite, rbVars, flushing
<1>2. RFlushed' /\ RFits' /\ RRoom'
  BY <1>1 DEF Enqueued, ThreadHolds, RFlushed, RFits, RRoom, NoReq
<1>3. IInv'
  BY Preserved DEF Next, Step, HostStep
<1>4. /\ e_queue \in Seq(Entries) /\ e_queue' \in Seq(Entries)
      /\ last_read_entry \in 0 .. Len(e_queue) /\ last_read_entry <= Len(e_queue')
  BY <1>1, <1>3, LenProperties DEF IInv, Types
<1>5. Reads' = Reads
  BY <1>1, <1>4, ReadsKept, ReadsSame DEF Reads
<1>6. ROk'
  BY <1>1, <1>5 DEF RInv, ROk, ReadNow, PlacesNow
<1> QED BY <1>2, <1>6 DEF RInv

\* ENQUEUE_READ.
LEMMA RRead ==
  ASSUME IInv, RInv, EnqueueRead \/ FlushForRead \/ CopyForRead \/ FlushedForRead
  PROVE  RInv'
<1>1. /\ host \in {"enqueue", "flush"} /\ req \in Asked /\ req.io_type = "READ"
      /\ thread' = thread /\ thread # "secure_r" /\ ~ThreadHolds
  <2>1. /\ host \in {"enqueue", "flush"} /\ thread' = thread
        /\ host = "enqueue" => req.io_type = "READ" /\ ~ThreadHolds
    BY DEF EnqueueRead, FlushForRead, CopyForRead, FlushedForRead, InsertRead
  <2> QED BY <2>1 DEF IInv, Types, Control, ThreadHolds
<1>2. /\ e_queue \in Seq(Entries) /\ last_read_entry \in 0 .. Len(e_queue) /\ Len(e_queue) \in Nat
      /\ last_read_entry \in Nat /\ ftl_read_ptr \in RFrame /\ ftl_read_ptr \in Nat
      /\ moving \in Entries \cup {NoEntry}
  BY LenProperties, BufferAssumption DEF IInv, Types, RFrame
<1>3. CASE FlushForRead
  <2> DEFINE T == Dependencies(req.sector_nb, req.length)
  <2>1. /\ host = "enqueue" /\ host' = "flush" /\ todo' = LastDependency(req.sector_nb, req.length)
        /\ T # {}
        /\ UNCHANGED <<e_queue, last_read_entry, c_e_queue, moving, sata_read_ptr, ftl_read_ptr,
                       empty_read_buffer_frame, failed, req>>
    BY <1>3 DEF FlushForRead, queues, rbVars, ghosts
  <2>2. T \in SUBSET (1 .. Len(e_queue)) /\ \A i \in T : i > last_read_entry
    BY DEF Dependencies, Pending
  <2>3. todo' > last_read_entry /\ todo' \in Nat
    <3>1. todo' = Max(T)
      BY <2>1 DEF LastDependency
    <3> HIDE DEF T
    <3>2. Max(T) \in T
      BY <1>2, <2>1, <2>2, LastExists
    <3>3. todo' > last_read_entry /\ todo' \in 1 .. Len(e_queue)
      BY <2>2, <3>1, <3>2, Zenon
    <3> QED BY <1>2, <3>3
  <2>4. moving = NoEntry
    BY <2>1, <1>1, Quiet DEF IInv, HostInQueue, ThreadInQueue, ThreadHolds
  <2>5. RFlushed'
    BY <1>2, <2>1, <2>3, <2>4 DEF RFlushed, Held, NoEntry, Entry
  <2>6. ROk'
    BY <2>1, ReadsStay DEF RInv
  <2>7. RFits' /\ RRoom'
    BY <2>1 DEF RInv, RFits, RRoom
  <2> QED BY <2>5, <2>6, <2>7 DEF RInv
<1>4. req.length <= empty_read_buffer_frame
  BY <1>1 DEF RInv, RRoom
<1>5. ASSUME NEW buf \in Nat \cup {NULL}, InsertRead(buf), ftl_read_ptr' \in RFrame,
             \/ buf = NULL /\ ftl_read_ptr' = ftl_read_ptr
             \/ /\ Reads = <<>> /\ buf = ftl_read_ptr
                /\ ftl_read_ptr' = RAfter(ftl_read_ptr, req.length)
      PROVE  RInv'
  <2> DEFINE e == NewRead(buf)
  <2>1. /\ e_queue' = Insert(e_queue, last_read_entry, e) /\ req' = NoReq /\ Enqueued
        /\ last_read_entry' = last_read_entry + 1
        /\ empty_read_buffer_frame' = empty_read_buffer_frame - req.length
        /\ UNCHANGED <<c_e_queue, moving, sata_read_ptr, failed>>
    BY <1>5 DEF InsertRead, ghosts, flushing, NewRead
  <2>2. e \in Entries /\ e.length = req.length /\ e.buf = buf
    BY <1>1, <1>5, NewReadIs
  <2> HIDE DEF e
  <2>3. Reads' = Append(Reads, e)
    BY <1>2, <2>1, <2>2, ReadsInserted DEF Reads
  <2>4. buf = ftl_read_ptr => buf # NULL
    BY <1>2 DEF NULL
  <2>5. ReadOk(c_e_queue, moving, Append(Reads, e), sata_read_ptr, ftl_read_ptr',
               empty_read_buffer_frame - e.length)
    BY <1>4, <1>5, <2>2, ReadEnters DEF RInv, ROk, ReadNow
  <2>6. PlacesNow => Places(c_e_queue, moving, Append(Reads, e), sata_read_ptr, ftl_read_ptr')
    <3>1. \/ e.buf = NULL /\ ftl_read_ptr' = ftl_read_ptr
          \/ /\ Reads = <<>> /\ e.buf # NULL /\ e.buf = ftl_read_ptr
             /\ ftl_read_ptr' = RAfter(ftl_read_ptr, e.length)
      BY <1>5, <2>2, <2>4
    <3> QED BY <3>1, <1>4, <1>5, <2>2, ReadEnters DEF RInv, ROk, ReadNow, PlacesNow
  <2>7. ROk'
    BY <2>1, <2>2, <2>3, <2>5, <2>6 DEF RInv, ROk, ReadNow, PlacesNow
  <2> QED BY <2>1, <2>7, <1>1 DEF RInv, RFlushed, RFits, RRoom, Enqueued, NoReq
<1>6. CASE EnqueueRead \/ FlushedForRead
  <2>1. InsertRead(NULL) /\ ftl_read_ptr' = ftl_read_ptr
    BY <1>6 DEF EnqueueRead, FlushedForRead
  <2> QED BY <2>1, <1>2, <1>5
<1>7. CASE CopyForRead
  <2>1. /\ host = "flush" /\ todo = 0 /\ InsertRead(ftl_read_ptr)
        /\ ftl_read_ptr' = RAfter(ftl_read_ptr, req.length)
    BY <1>7 DEF CopyForRead
  <2>2. last_read_entry = 0
    BY <2>1, <1>2 DEF RInv, RFlushed, Held
  <2>3. Reads = <<>>
    BY <2>2, <1>2, NoReads DEF Reads
  <2>4. ftl_read_ptr' \in RFrame
    BY <1>1, <1>2, <2>1, RAfterFacts DEF Asked
  <2> QED BY <2>1, <2>3, <2>4, <1>2, <1>5
<1> QED BY <1>3, <1>6, <1>7

LEMMA RPreserved == IInv /\ RInv /\ [Next]_vars => RInv'
<1> SUFFICES ASSUME IInv, RInv, [Next]_vars
             PROVE  RInv'
  OBVIOUS
<1>1. CASE Request
  BY <1>1, RRequest
<1>2. CASE HostStep
  BY <1>2, RHost, RWrite, RRead DEF HostStep
<1>3. CASE ThreadStep \/ SpuriousWakeup
  BY <1>3, RThread
<1>4. CASE DEQUEUE_IO
  BY <1>4, RDequeue
<1>5. CASE UNCHANGED vars
  <2>1. /\ UNCHANGED <<c_e_queue, moving, e_queue, last_read_entry, sata_read_ptr, ftl_read_ptr,
                       empty_read_buffer_frame, failed>>
        /\ UNCHANGED <<host, req, thread, todo, r_queue_full>>
    BY <1>5 DEF vars, queues, rbVars, flags, flushing, ghosts
  <2>2. ROk'
    BY <2>1, ReadsStay DEF RInv
  <2> QED BY <2>1, <2>2 DEF RInv, RFlushed, RFits, RRoom, Held, NoEntry, Entry
<1>6. CASE Ended
  BY <1>5, <1>6 DEF Ended
<1> QED BY <1>1, <1>2, <1>3, <1>4, <1>5, <1>6 DEF Next, Step

\* The inductive invariant of the read buffer: the counter knows the frames of
\* all reads and, unless a call of the FTL has failed, the frames lie behind
\* one another in the order in which the reads complete.
THEOREM ReadRing == Spec => []RInv
<1> QED BY Invariance, RInitially, RPreserved, PTL DEF Spec

\* READ_DATA_FROM_BUFFER_TO_HOST finds every completed read at the pointer it
\* has got to, unless the FTL refused one, and empty_read_buffer_frame counts
\* the frames of all reads: for every size of the read buffer, although
\* ENQUEUE_READ may have taken the frames of the first read before it is
\* dequeued.
THEOREM ReadsComplete == Spec => []CompletedInOrder
<1>1. RInv => CompletedInOrder
  <2> SUFFICES ASSUME RInv PROVE CompletedInOrder
    OBVIOUS
  <2>1. /\ c_e_queue \in Seq(Entries) /\ moving \in Entries \cup {NoEntry}
        /\ empty_read_buffer_frame =
             READ_BUFFER_FRAME_NB - Frames(c_e_queue) - HeldFrames(moving) - Frames(Reads)
        /\ Reads \in Seq(Entries)
    BY DEF RInv, ROk, ReadNow, ReadOk
  <2>2. Frames(c_e_queue) \in Nat /\ HeldFrames(moving) \in Nat /\ Frames(Reads) \in Nat
    BY <2>1, SlotsFinite, HeldNat
  <2>3. Served \in Seq(Entries) /\ Frames(Served) = Frames(c_e_queue) + HeldFrames(moving)
    BY <2>1, <2>2, FramesAppend DEF Served, HeldFrames
  <2>4. empty_read_buffer_frame = READ_BUFFER_FRAME_NB - Frames(Served) - Frames(Reads)
    BY <2>1, <2>2, <2>3, BufferAssumption
  <2>5. ASSUME ~failed, moving = NoEntry, NEW i \in 1 .. Len(Served)
        PROVE  Served[i].buf = RAfter(sata_read_ptr, Frames(SubSeq(Served, 1, i - 1)))
    BY <2>5 DEF RInv, ROk, PlacesNow, Places, Placed, Served
  <2>6. ASSUME ~failed, moving # NoEntry, NEW i \in 1 .. Len(Served)
        PROVE  Served[i].buf = RAfter(sata_read_ptr, Frames(SubSeq(Served, 1, i - 1)))
    <3>1. moving \in Entries /\ Served = Append(c_e_queue, moving)
      BY <2>1, <2>6 DEF Served
    <3>2. ReadNow /\ PlacesNow
      BY <2>6 DEF RInv, ROk
    <3>3. Places(Served, NoEntry, Reads, sata_read_ptr, ftl_read_ptr)
      BY <3>1, <3>2, ReadCompletes DEF ReadNow, PlacesNow
    <3> QED BY <3>3 DEF Places, Placed
  <2> QED BY <2>4, <2>5, <2>6 DEF CompletedInOrder, Reads
<1> QED BY <1>1, ReadRing, PTL

\* When ENQUEUE_READ runs, the frames it takes are free, for every size of the
\* read buffer: EVENT_QUEUE_IS_FULL read the counter without a lock, but only
\* the host takes frames, and SECURE_READ_BUFFER frees all of them.
THEOREM ReadRoom == Spec => [](req.io_type = "READ" => RoomAtEnqueue)
<1>1. RInv => (req.io_type = "READ" => RoomAtEnqueue)
  BY DEF RInv, RRoom, RoomAtEnqueue
<1> QED BY <1>1, ReadRing, PTL
=============================================================================
