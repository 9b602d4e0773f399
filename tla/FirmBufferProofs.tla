-------------------------- MODULE FirmBufferProofs --------------------------
(***************************************************************************)
(* The locking of the IO buffer and the order of its event queue are right *)
(* for every number of frames, every set of requests and every build.      *)
(***************************************************************************)
EXTENDS FirmBuffer, SequenceTheorems, WellFoundedInduction, TLAPS

USE ZenonT(2), SMTT(30), ZenonT(30)

\* What the host asks for.
Asked ==
  [io_type : {"READ", "WRITE"}, sector_nb : Nat, length : Nat \ {0},
   data : Data \cup {NoData}]

Types ==
  /\ e_queue \in Seq(Entries) /\ last_read_entry \in 0 .. Len(e_queue)
  /\ sata_write_ptr \in WFrame /\ ftl_read_ptr \in RFrame
  /\ latest \in Data \cup {NoData}
  /\ moving \in Entries \cup {NoEntry} /\ todo \in Nat
  /\ host \in {"secure", "spin", "enqueue", "flush"} => req \in Asked
  /\ host = "flush" => req.io_type = "READ"

\* A read between the queues.
Held == IF moving = NoEntry THEN 0 ELSE 1

\* Where the host and the thread can be at the same time.
Control ==
  /\ mode \in {"none", "1", "2"}
  /\ host \in {"idle", "secure", "spin", "enqueue", "flush", "signal", "term", "closed"}
  /\ thread \in {"none", "lock", "towait", "asleep", "work", "secure_r", "secure_w"}
  /\ r_queue_full \in BOOLEAN /\ w_queue_full \in BOOLEAN
  /\ mode = "none" <=> thread = "none"
  /\ host = "secure" => mode = "none"
  /\ host = "term" => mode # "1"
  /\ thread = "work" => mode = "1"
  /\ thread \in {"secure_r", "secure_w"} => mode = "2"
  /\ r_queue_full => host = "spin" /\ req.io_type = "READ"
  /\ w_queue_full => host = "spin" /\ req.io_type = "WRITE"
  /\ thread = "secure_r" => r_queue_full
  /\ thread = "secure_w" => w_queue_full
  /\ host = "flush" => ~ThreadHolds /\ (mode = "1" => thread # "asleep")

\* Why the thread may sleep, with SSD_THREAD_MODE_1.
Asleep ==
  mode = "1" => /\ thread = "towait" => e_queue = <<>>
                /\ thread = "asleep" /\ e_queue # <<>> => host = "signal"

\* Only who is inside a flush has calls of DEQUEUE_IO to make.
Flushing ==
  /\ todo > 0 => HostInQueue \/ ThreadInQueue
  /\ moving # NoEntry => todo > 0
  /\ FlushCounted

IInv == Types /\ Control /\ Asleep /\ Flushing /\ QueueOrder
-----------------------------------------------------------------------------
(***************************************************************************)
(* The event queue.                                                        *)
(***************************************************************************)
LEMMA FunctionIsSeq ==
  ASSUME NEW S, NEW n \in Nat, NEW f \in [1 .. n -> S]
  PROVE  f \in Seq(S) /\ Len(f) = n
  OBVIOUS

LEMMA TailIs ==
  ASSUME NEW q \in Seq(Entries), q # <<>>
  PROVE  /\ Head(q) = q[1] /\ Tail(q) \in Seq(Entries) /\ Len(q) \in Nat \ {0}
         /\ Len(Tail(q)) = Len(q) - 1
         /\ \A i \in 1 .. Len(q) - 1 : Tail(q)[i] = q[i + 1]
<1>1. Len(q) \in Nat \ {0}
  BY EmptySeq
<1>2. Tail(q) \in Seq(Entries) /\ Len(Tail(q)) = Len(q) - 1
  BY HeadTailProperties
<1> QED BY <1>1, <1>2

\* DEQUEUE_IO takes the head.
LEMMA HeadRemoved ==
  ASSUME Types, QueueOrder, e_queue # <<>>, e_queue' = Tail(e_queue),
         last_read_entry' = IF last_read_entry = 0 THEN 0 ELSE last_read_entry - 1
  PROVE  /\ e_queue' \in Seq(Entries) /\ last_read_entry' \in 0 .. Len(e_queue')
         /\ Head(e_queue) \in Entries /\ Len(e_queue') = Len(e_queue) - 1
         /\ QueueOrder'
<1>1. e_queue \in Seq(Entries) /\ last_read_entry \in 0 .. Len(e_queue) /\ Len(e_queue) \in Nat \ {0}
  BY EmptySeq DEF Types
<1>2. /\ Head(e_queue) \in Entries /\ e_queue' \in Seq(Entries)
      /\ Len(e_queue') = Len(e_queue) - 1
      /\ \A i \in 1 .. Len(e_queue') : e_queue'[i] = e_queue[i + 1]
  BY <1>1, HeadTailProperties
<1>3. last_read_entry' \in 0 .. Len(e_queue')
  BY <1>1, <1>2
<1>4. ASSUME NEW i \in 1 .. Len(e_queue')
      PROVE  e_queue'[i].io_type = "READ" <=> i <= last_read_entry'
  <2>1. i + 1 \in 1 .. Len(e_queue) /\ e_queue'[i] = e_queue[i + 1]
    BY <1>1, <1>2, <1>4
  <2>2. e_queue[i + 1].io_type = "READ" <=> i + 1 <= last_read_entry
    BY <2>1 DEF QueueOrder
  <2> QED BY <2>1, <2>2, <1>1, <1>4
<1>5. e_queue' # <<>> => e_queue'[Len(e_queue')].valid
  <2> SUFFICES ASSUME e_queue' # <<>>
               PROVE  e_queue'[Len(e_queue')].valid
    OBVIOUS
  <2>1. Len(e_queue') \in Nat \ {0}
    BY <1>2, EmptySeq
  <2>2. e_queue'[Len(e_queue')] = e_queue[Len(e_queue)]
    BY <2>1, <1>1, <1>2
  <2> QED BY <2>2 DEF QueueOrder
<1> QED BY <1>2, <1>3, <1>4, <1>5 DEF QueueOrder

LEMMA InsertIs ==
  ASSUME NEW q \in Seq(Entries), NEW k \in 0 .. Len(q), NEW e \in Entries
  PROVE  /\ Insert(q, k, e) \in Seq(Entries) /\ Len(Insert(q, k, e)) = Len(q) + 1
         /\ \A i \in 1 .. Len(q) + 1 :
              Insert(q, k, e)[i] = IF i <= k THEN q[i] ELSE IF i = k + 1 THEN e ELSE q[i - 1]
<1> DEFINE n == Len(q)
           a == SubSeq(q, 1, k)
           b == SubSeq(q, k + 1, n)
<1>1. k \in 0 .. n /\ n \in Nat
  BY LenProperties
<1>2. /\ a \in Seq(Entries) /\ Len(a) = k
      /\ \A i \in 1 .. k : a[i] = q[i]
  BY <1>1, SubSeqProperties
<1>3. /\ b \in Seq(Entries) /\ Len(b) = n - k
      /\ \A i \in 1 .. n - k : b[i] = q[k + i]
  BY <1>1, SubSeqProperties
<1> HIDE DEF n, a, b
<1>4. <<e>> \in Seq(Entries) /\ Len(<<e>>) = 1 /\ <<e>>[1] = e
  OBVIOUS
<1> DEFINE c == a \o <<e>>
<1>5. /\ c \in Seq(Entries) /\ Len(c) = k + 1
      /\ \A i \in 1 .. k + 1 : c[i] = IF i <= k THEN a[i] ELSE <<e>>[i - k]
  BY <1>2, <1>4, ConcatProperties
<1> HIDE DEF c
<1> DEFINE d == c \o b
<1>6. /\ d \in Seq(Entries) /\ Len(d) = n + 1
      /\ \A i \in 1 .. n + 1 : d[i] = IF i <= k + 1 THEN c[i] ELSE b[i - (k + 1)]
  <2>1. /\ d \in Seq(Entries) /\ Len(d) = Len(c) + Len(b)
        /\ \A i \in 1 .. Len(c) + Len(b) : d[i] = IF i <= Len(c) THEN c[i] ELSE b[i - Len(c)]
    BY <1>3, <1>5, ConcatProperties, Zenon
  <2>2. Len(c) + Len(b) = n + 1 /\ Len(c) = k + 1
    BY <1>1, <1>3, <1>5
  <2> QED BY <2>1, <2>2
<1> HIDE DEF d
<1>7. Insert(q, k, e) = d
  BY DEF Insert, a, b, c, d, n
<1>8. ASSUME NEW i \in 1 .. n + 1
      PROVE  d[i] = IF i <= k THEN q[i] ELSE IF i = k + 1 THEN e ELSE q[i - 1]
  <2>1. CASE i <= k
    <3>1. i \in 1 .. k /\ i \in 1 .. k + 1 /\ i <= k + 1
      BY <2>1, <1>1, <1>8
    <3>2. d[i] = c[i]
      BY <3>1, <1>6, <1>8
    <3>3. c[i] = a[i]
      BY <3>1, <2>1, <1>5
    <3> QED BY <3>1, <3>2, <3>3, <2>1, <1>2
  <2>2. CASE i = k + 1
    <3>1. d[i] = c[k + 1] /\ k + 1 \in 1 .. k + 1 /\ ~(k + 1 <= k) /\ (k + 1) - k = 1
      BY <2>2, <1>1, <1>6, <1>8
    <3>2. c[k + 1] = <<e>>[1]
      BY <3>1, <1>5
    <3> QED BY <3>1, <3>2, <2>2, <1>4
  <2>3. CASE i > k + 1
    <3>1. i - (k + 1) \in 1 .. n - k /\ k + (i - (k + 1)) = i - 1
      BY <2>3, <1>1, <1>8
    <3>2. ~(i <= k + 1) /\ ~(i <= k) /\ i # k + 1
      BY <2>3, <1>1, <1>8
    <3>3. d[i] = b[i - (k + 1)]
      BY <3>2, <1>6, <1>8
    <3>4. b[i - (k + 1)] = q[k + (i - (k + 1))]
      BY <3>1, <1>3
    <3> QED BY <3>1, <3>2, <3>3, <3>4
  <2>4. i <= k \/ i = k + 1 \/ i > k + 1
    BY <1>1, <1>8
  <2> QED BY <2>1, <2>2, <2>3, <2>4
<1> QED BY <1>6, <1>7, <1>8 DEF n

\* ENQUEUE_READ puts a read behind the other reads.
LEMMA ReadInserted ==
  ASSUME Types, QueueOrder, NEW e \in Entries, e.io_type = "READ", e.valid,
         e_queue' = Insert(e_queue, last_read_entry, e),
         last_read_entry' = last_read_entry + 1
  PROVE  /\ e_queue' \in Seq(Entries) /\ last_read_entry' \in 0 .. Len(e_queue')
         /\ QueueOrder'
<1> DEFINE q == e_queue
           k == last_read_entry
           n == Len(e_queue)
           d == Insert(q, k, e)
<1>1. q \in Seq(Entries) /\ k \in 0 .. n /\ n \in Nat
  BY LenProperties DEF Types
<1>2. /\ d \in Seq(Entries) /\ Len(d) = n + 1
      /\ \A i \in 1 .. n + 1 : d[i] = IF i <= k THEN q[i] ELSE IF i = k + 1 THEN e ELSE q[i - 1]
  BY <1>1, InsertIs
<1>3. e_queue' = d /\ last_read_entry' = k + 1
  OBVIOUS
<1>4. \A i \in 1 .. n + 1 : d[i] = IF i <= k THEN q[i] ELSE IF i = k + 1 THEN e ELSE q[i - 1]
  BY <1>2
<1> HIDE DEF q, k, n, d
<1>5. /\ \A i \in 1 .. n : q[i].io_type = "READ" <=> i <= k
      /\ n > 0 => q[n].valid
  <2>1. n > 0 => q # <<>>
    BY <1>1, EmptySeq DEF q, n
  <2> QED BY <2>1 DEF QueueOrder, q, k, n
<1>6. \A i \in 1 .. n + 1 : d[i].io_type = "READ" <=> i <= k + 1
  <2> TAKE i \in 1 .. n + 1
  <2>1. CASE i <= k
    BY <2>1, <1>1, <1>4, <1>5
  <2>2. CASE i = k + 1
    BY <2>2, <1>1, <1>4
  <2>3. CASE i > k + 1
    <3>1. i - 1 \in 1 .. n /\ ~(i - 1 <= k)
      BY <2>3, <1>1
    <3>2. d[i] = q[i - 1]
      BY <2>3, <1>1, <1>4
    <3> QED BY <3>1, <3>2, <2>3, <1>1, <1>5
  <2> QED BY <2>1, <2>2, <2>3, <1>1
<1>7. d[n + 1].valid
  <2>1. CASE n = k
    BY <2>1, <1>1, <1>4
  <2>2. CASE n > k
    BY <2>2, <1>1, <1>4, <1>5
  <2> QED BY <2>1, <2>2, <1>1
<1>8. QueueOrder'
  BY <1>2, <1>3, <1>6, <1>7 DEF QueueOrder
<1>9. last_read_entry' \in 0 .. Len(e_queue')
  BY <1>1, <1>2, <1>3
<1> QED BY <1>2, <1>3, <1>8, <1>9

\* ENQUEUE_WRITE marks the writes that the new one covers.
LEMMA OverMarked ==
  ASSUME Types, QueueOrder, NEW s, NEW n
  PROVE  /\ QueueOver(s, n) \in Seq(Entries) /\ Len(QueueOver(s, n)) = Len(e_queue)
         /\ \A i \in 1 .. Len(e_queue) :
              /\ QueueOver(s, n)[i].io_type = "READ" <=> i <= last_read_entry
              /\ QueueOver(s, n)[i].io_type \in {"READ", "WRITE"}
              /\ QueueOver(s, n)[i].io_type = "READ" => QueueOver(s, n)[i].valid = e_queue[i].valid
<1> DEFINE over == QueueOver(s, n)
           N == Len(e_queue)
<1>1. e_queue \in [1 .. N -> Entries] /\ N \in Nat /\ DOMAIN e_queue = 1 .. N
  BY LenProperties DEF Types
<1>2. over = [i \in 1 .. N |-> [e_queue[i] EXCEPT !.valid = @ /\ i \notin Overwritten(s, n)]]
  BY <1>1 DEF QueueOver
<1>3. ASSUME NEW i \in 1 .. N
      PROVE  /\ [e_queue[i] EXCEPT !.valid = @ /\ i \notin Overwritten(s, n)] \in Entries
             /\ over[i].io_type = e_queue[i].io_type
             /\ e_queue[i].io_type \in {"READ", "WRITE"}
             /\ e_queue[i].io_type = "READ" => over[i].valid = e_queue[i].valid
  <2>1. e_queue[i] \in Entries
    BY <1>1, <1>3
  <2>2. e_queue[i].io_type = "READ" => i \notin Overwritten(s, n)
    BY DEF Overwritten
  <2>3. over[i] = [e_queue[i] EXCEPT !.valid = @ /\ i \notin Overwritten(s, n)]
    BY <1>2, <1>3
  <2> HIDE DEF over
  <2> QED BY <2>1, <2>2, <2>3, Zenon DEF Entries
<1>4. over \in [1 .. N -> Entries]
  BY <1>2, <1>3
<1> HIDE DEF over
<1>5. over \in Seq(Entries) /\ Len(over) = N
  BY <1>1, <1>4, FunctionIsSeq, Zenon
<1>6. \A i \in 1 .. N : e_queue[i].io_type = "READ" <=> i <= last_read_entry
  BY DEF QueueOrder
<1> QED BY <1>3, <1>5, <1>6, Zenon DEF over

\* A merge changes the length of the last event, a valid write.
LEMMA WriteMerged ==
  ASSUME Types, QueueOrder, NEW s, NEW n, NEW length \in Nat \ {0}, e_queue # <<>>,
         QueueOver(s, n)[Len(e_queue)].io_type = "WRITE",
         QueueOver(s, n)[Len(e_queue)].valid,
         e_queue' = [QueueOver(s, n) EXCEPT ![Len(e_queue)].length = length],
         last_read_entry' = last_read_entry
  PROVE  /\ e_queue' \in Seq(Entries) /\ last_read_entry' \in 0 .. Len(e_queue')
         /\ QueueOrder'
<1> DEFINE over == QueueOver(s, n)
           N == Len(e_queue)
           last == [over[N] EXCEPT !.length = length]
<1>1. /\ N \in Nat \ {0} /\ last_read_entry \in 0 .. N
      /\ over \in Seq(Entries) /\ Len(over) = N
      /\ \A i \in 1 .. N : over[i].io_type = "READ" <=> i <= last_read_entry
  BY OverMarked, EmptySeq DEF Types
<1>2. over[N] \in Entries /\ over[N].io_type = "WRITE" /\ over[N].valid /\ N \in 1 .. N
  BY <1>1, ElementOfSeq
<1>3. e_queue' = [over EXCEPT ![N] = last]
  OBVIOUS
<1> HIDE DEF over, N
<1>4. last \in Entries /\ last.io_type = "WRITE" /\ last.valid
  BY <1>2 DEF Entries
<1> HIDE DEF last
<1>5. /\ e_queue' \in Seq(Entries) /\ Len(e_queue') = N
      /\ \A j \in 1 .. N : e_queue'[j] = IF j = N THEN last ELSE over[j]
  <2>1. over \in [1 .. N -> Entries]
    BY <1>1, LenProperties
  <2>2. e_queue' \in [1 .. N -> Entries]
    BY <2>1, <1>2, <1>3, <1>4, Zenon
  <2>3. \A j \in 1 .. N : e_queue'[j] = IF j = N THEN last ELSE over[j]
    BY <2>1, <1>2, <1>3
  <2>4. N \in Nat
    BY <1>1
  <2>5. e_queue' \in Seq(Entries) /\ Len(e_queue') = N
    BY <2>2, <2>4, FunctionIsSeq, Zenon
  <2> QED BY <2>3, <2>5
<1>6. QueueOrder'
  <2>1. ASSUME NEW i \in 1 .. N
        PROVE  e_queue'[i].io_type = "READ" <=> i <= last_read_entry'
    BY <2>1, <1>1, <1>2, <1>4, <1>5, Zenon
  <2>2. e_queue'[N].valid
    BY <1>2, <1>4, <1>5
  <2> QED BY <2>1, <2>2, <1>5 DEF QueueOrder
<1> QED BY <1>1, <1>5, <1>6

\* Otherwise there is a new event at the tail.
LEMMA WriteAppended ==
  ASSUME Types, QueueOrder, NEW s, NEW n, NEW e \in Entries, e.io_type = "WRITE", e.valid,
         e_queue' = Append(QueueOver(s, n), e), last_read_entry' = last_read_entry
  PROVE  /\ e_queue' \in Seq(Entries) /\ last_read_entry' \in 0 .. Len(e_queue')
         /\ QueueOrder'
<1> DEFINE over == QueueOver(s, n)
           N == Len(e_queue)
<1>1. /\ N \in Nat /\ last_read_entry \in 0 .. N
      /\ over \in Seq(Entries) /\ Len(over) = N
      /\ \A i \in 1 .. N : over[i].io_type = "READ" <=> i <= last_read_entry
  BY OverMarked, LenProperties DEF Types
<1>2. e_queue' = Append(over, e)
  OBVIOUS
<1> HIDE DEF over, N
<1>3. /\ e_queue' \in Seq(Entries) /\ Len(e_queue') = N + 1
      /\ \A i \in 1 .. N : e_queue'[i] = over[i]
      /\ e_queue'[N + 1] = e
  BY <1>1, <1>2, AppendProperties
<1>4. ASSUME NEW i \in 1 .. N + 1
      PROVE  e_queue'[i].io_type = "READ" <=> i <= last_read_entry'
  <2>1. CASE i = N + 1
    BY <2>1, <1>1, <1>3
  <2>2. CASE i \in 1 .. N
    BY <2>2, <1>1, <1>3
  <2>3. i = N + 1 \/ i \in 1 .. N
    BY <1>1, <1>4
  <2> QED BY <2>1, <2>2, <2>3, Zenon
<1>5. QueueOrder'
  BY <1>3, <1>4 DEF QueueOrder
<1> QED BY <1>1, <1>3, <1>5
-----------------------------------------------------------------------------
(***************************************************************************)
(* Induction.                                                              *)
(***************************************************************************)
\* The variables that the invariant speaks of.
Seen == <<mode, e_queue, last_read_entry, sata_write_ptr, ftl_read_ptr, latest, moving,
          todo, host, req, thread, r_queue_full, w_queue_full>>

\* Frames come after frames.
LEMMA RingTypes ==
  ASSUME NEW n \in Nat
  PROVE  /\ \A f \in WFrame : WAfter(f, n) \in WFrame
         /\ \A f \in RFrame : RAfter(f, n) \in RFrame
  BY BufferAssumption, RingAssumption DEF WFrame, RFrame, WAfter, RAfter

LEMMA Initially == Init => IInv
<1> SUFFICES ASSUME Init PROVE IInv
  OBVIOUS
<1>1. Types
  BY BufferAssumption, RingAssumption, EmptySeq DEF Init, Types, WFrame, RFrame
<1>2. Control /\ Asleep
  BY BufferAssumption, Zenon DEF Init, Control, Asleep, ThreadHolds
<1>3. Flushing
  BY EmptySeq DEF Init, Flushing, FlushCounted
<1>4. QueueOrder
  BY EmptySeq DEF Init, QueueOrder
<1> QED BY <1>1, <1>2, <1>3, <1>4 DEF IInv

\* Nobody is inside a flush: there are no calls left and no read is moving.
LEMMA Quiet ==
  ASSUME Flushing, Types, ~HostInQueue, ~ThreadInQueue
  PROVE  todo = 0 /\ moving = NoEntry
  BY DEF Flushing, Types

\* CHECK_OVERWRITE changes nothing but valid.
LEMMA OverIs ==
  ASSUME IInv, NEW s, NEW n, NEW i \in 1 .. Len(e_queue)
  PROVE  /\ QueueOver(s, n)[i].io_type = e_queue[i].io_type
         /\ QueueOver(s, n)[i].buf = e_queue[i].buf
         /\ QueueOver(s, n)[i].length = e_queue[i].length
         /\ QueueOver(s, n)[i].sector_nb = e_queue[i].sector_nb
         /\ QueueOver(s, n)[i].valid = (e_queue[i].valid /\ i \notin Overwritten(s, n))
<1>1. e_queue[i] \in Entries /\ DOMAIN e_queue = 1 .. Len(e_queue)
  BY ElementOfSeq, LenProperties DEF IInv, Types
<1>2. QueueOver(s, n)[i] = [e_queue[i] EXCEPT !.valid = @ /\ i \notin Overwritten(s, n)]
  BY <1>1 DEF QueueOver
<1> QED BY <1>1, <1>2 DEF Entries

\* The entry that InsertRead inserts.
NewRead(buf) ==
  Entry("READ", req.sector_nb, req.length, buf, IF Holds(req, watch) THEN latest ELSE NoData)

LEMMA NewReadIs ==
  ASSUME IInv, NEW buf \in Nat \cup {NULL}, req \in Asked
  PROVE  /\ NewRead(buf) \in Entries /\ NewRead(buf).io_type = "READ" /\ NewRead(buf).valid
         /\ NewRead(buf).length = req.length /\ NewRead(buf).buf = buf
<1>1. latest \in Data \cup {NoData}
  BY DEF IInv, Types
<1>2. req.sector_nb \in Nat /\ req.length \in Nat \ {0}
  BY DEF Asked
<1> QED BY <1>1, <1>2 DEF Entries, Entry, NewRead

\* DEQUEUE_IO.
LEMMA DequeuePreserves ==
  ASSUME IInv, DEQUEUE_IO
  PROVE  IInv'
<1> DEFINE N == Len(e_queue)
<1>1. CASE DequeueRead \/ DequeueWrite
  <2>1. /\ todo > 0 /\ moving = NoEntry /\ e_queue # <<>>
        /\ e_queue' = Tail(e_queue)
        /\ last_read_entry' = IF last_read_entry = 0 THEN 0 ELSE last_read_entry - 1
        /\ UNCHANGED <<mode, host, req, thread, r_queue_full, w_queue_full, latest, sata_write_ptr>>
    BY <1>1 DEF DequeueRead, DequeueWrite, Dequeuing, RemoveHead, FTL_READ, FTL_WRITE,
                FTL_WRITE_Fails, wbVars, rbVars, flags
  <2>2. /\ e_queue' \in Seq(Entries) /\ last_read_entry' \in 0 .. Len(e_queue')
        /\ Head(e_queue) \in Entries /\ Len(e_queue') = N - 1 /\ QueueOrder'
    BY <2>1, HeadRemoved DEF IInv
  <2>3. N \in Nat \ {0} /\ todo \in Nat \ {0} /\ todo <= N
    BY <2>1, EmptySeq DEF IInv, Types, Flushing, FlushCounted
  <2>4. \/ DequeueRead /\ todo' = todo /\ moving' \in Entries /\ moving' # NoEntry
        \/ DequeueWrite /\ todo' = todo - 1 /\ moving' = NoEntry
    <3>1. CASE DequeueRead
      <4>1. Head(e_queue).io_type = "READ" /\ todo' = todo
            /\ moving' \in {Head(e_queue), [Head(e_queue) EXCEPT !.buf = ftl_read_ptr]}
        BY <3>1 DEF DequeueRead
      <4>2. ftl_read_ptr \in Nat
        BY BufferAssumption DEF IInv, Types, RFrame
      <4>3. PICK e \in Entries : e = Head(e_queue)
        BY <2>2
      <4>4. \A b \in Nat : [e EXCEPT !.buf = b] \in Entries /\ [e EXCEPT !.buf = b].io_type = e.io_type
        BY DEF Entries
      <4>5. moving' \in Entries /\ moving'.io_type = "READ"
        BY <4>1, <4>2, <4>3, <4>4, Zenon
      <4>6. NoEntry.io_type = "none"
        BY DEF NoEntry, Entry
      <4> QED BY <3>1, <4>1, <4>5, <4>6
    <3>2. CASE DequeueWrite
      BY <3>2, <2>1 DEF DequeueWrite
    <3> QED BY <1>1, <3>1, <3>2
  <2>5. ftl_read_ptr' \in RFrame
    <3>1. ftl_read_ptr' = ftl_read_ptr \/ ftl_read_ptr' = RAfter(ftl_read_ptr, Head(e_queue).length)
      BY <1>1 DEF DequeueRead, DequeueWrite, FTL_READ, FTL_WRITE, FTL_WRITE_Fails, rbVars
    <3>2. Head(e_queue).length \in Nat
      BY <2>2 DEF Entries
    <3> QED BY <3>1, <3>2, RingTypes DEF IInv, Types
  <2>6. Types'
    BY <2>1, <2>2, <2>3, <2>4, <2>5 DEF IInv, Types
  <2>7. Control'
    BY <2>1 DEF IInv, Control, ThreadHolds
  <2>8. Asleep'
    BY <2>1 DEF IInv, Asleep
  <2>9. Flushing'
    <3>1. todo' > 0 => HostInQueue' \/ ThreadInQueue'
      BY <2>1 DEF IInv, Flushing, HostInQueue, ThreadInQueue
    <3>2. (moving' # NoEntry => todo' > 0) /\ todo' <= Len(e_queue') + (IF moving' = NoEntry THEN 0 ELSE 1)
      BY <2>2, <2>3, <2>4
    <3> QED BY <3>1, <3>2 DEF Flushing, FlushCounted, NoEntry, Entry
  <2> QED BY <2>2, <2>6, <2>7, <2>8, <2>9 DEF IInv
<1>2. CASE AppendCompleted
  <2>1. /\ moving # NoEntry /\ moving' = NoEntry /\ todo' = todo - 1
        /\ UNCHANGED <<mode, e_queue, last_read_entry, sata_write_ptr, ftl_read_ptr, latest,
                       host, req, thread, r_queue_full, w_queue_full>>
    BY <1>2 DEF AppendCompleted, wbVars, rbVars, flags, ghosts
  <2>2. todo \in Nat \ {0} /\ todo <= N + 1 /\ N \in Nat
    BY <2>1, LenProperties DEF IInv, Types, Flushing, FlushCounted
  <2>3. Types'
    BY <2>1, <2>2 DEF IInv, Types
  <2>4. Control' /\ Asleep' /\ QueueOrder'
    BY <2>1 DEF IInv, Control, Asleep, QueueOrder, ThreadHolds
  <2>5. Flushing'
    BY <2>1, <2>2 DEF IInv, Flushing, FlushCounted, HostInQueue, ThreadInQueue, NoEntry, Entry
  <2> QED BY <2>3, <2>4, <2>5 DEF IInv
<1> QED BY <1>1, <1>2 DEF DEQUEUE_IO

\* What an enqueued request leaves: nobody was inside a flush.
LEMMA EnqueuePreserves ==
  ASSUME IInv, host \in {"enqueue", "flush"}, ~ThreadHolds, todo = 0, moving = NoEntry,
         UNCHANGED <<mode, thread, moving, todo, r_queue_full, w_queue_full>>, Enqueued,
         sata_write_ptr' \in WFrame, ftl_read_ptr' \in RFrame, latest' \in Data \cup {NoData},
         e_queue' \in Seq(Entries), last_read_entry' \in 0 .. Len(e_queue'), QueueOrder'
  PROVE  IInv'
<1>1. host' \in {"signal", "idle"} /\ (mode = "1" => host' = "signal")
  BY DEF Enqueued
<1>2. Types'
  BY <1>1 DEF IInv, Types
<1>3. ~r_queue_full /\ ~w_queue_full
  BY DEF IInv, Control
<1>4. Control'
  BY <1>1, <1>3 DEF IInv, Control
<1>5. Asleep'
  BY <1>1 DEF Asleep, ThreadHolds
<1>6. Flushing'
  <2>1. Len(e_queue') \in Nat
    BY LenProperties
  <2> QED BY <2>1 DEF Flushing, FlushCounted, NoEntry, Entry
<1> QED BY <1>2, <1>4, <1>5, <1>6 DEF IInv

LEMMA WritePreserves ==
  ASSUME IInv, ENQUEUE_WRITE
  PROVE  IInv'
<1> DEFINE s == req.sector_nb
           n == req.length
           over == QueueOver(s, n)
           N == Len(e_queue)
           t == over[N]
<1>1. ASSUME NEW array, NEW queue, AcceptWrite(array, queue),
             queue \in Seq(Entries), last_read_entry \in 0 .. Len(queue),
             e_queue' = queue => QueueOrder'
      PROVE  IInv'
  <2>1. /\ host = "enqueue" /\ ~ThreadHolds /\ Enqueued /\ e_queue' = queue
        /\ sata_write_ptr' = WAfter(sata_write_ptr, req.length)
        /\ latest' \in {latest, req.data}
        /\ UNCHANGED <<mode, thread, moving, todo, r_queue_full, w_queue_full, last_read_entry,
                       ftl_read_ptr>>
    BY <1>1 DEF AcceptWrite, rbVars, flags, flushing
  <2>2. req \in Asked
    BY <2>1 DEF IInv, Types
  <2>3. sata_write_ptr' \in WFrame /\ latest' \in Data \cup {NoData} /\ ftl_read_ptr' \in RFrame
    <3>1. req.length \in Nat /\ req.data \in Data \cup {NoData}
      BY <2>2 DEF Asked
    <3> QED BY <3>1, <2>1, RingTypes DEF IInv, Types
  <2>4. todo = 0 /\ moving = NoEntry
    BY <2>1, Quiet DEF IInv, HostInQueue, ThreadInQueue, ThreadHolds
  <2> QED BY <1>1, <2>1, <2>3, <2>4, EnqueuePreserves
<1>2. host = "enqueue" /\ req \in Asked /\ UNCHANGED last_read_entry
  BY DEF ENQUEUE_WRITE, MergeSequential, MergeOverlap, NewWriteEvent, AcceptWrite, IInv, Types
<1>3. s \in Nat /\ n \in Nat \ {0}
  BY <1>2 DEF Asked
<1>4. e_queue # <<>> => t \in Entries /\ N \in 1 .. N
  <2> SUFFICES ASSUME e_queue # <<>>
               PROVE  t \in Entries /\ N \in 1 .. N
    OBVIOUS
  <2>1. N \in Nat \ {0}
    BY EmptySeq DEF IInv, Types
  <2>2. over \in Seq(Entries) /\ Len(over) = N
    BY OverMarked DEF IInv
  <2> HIDE DEF over, N
  <2> QED BY <2>1, <2>2, ElementOfSeq
<1>5. CASE MergeSequential
  <2>1. PICK array : /\ Continues(s)
                     /\ AcceptWrite(array, [over EXCEPT ![N].length = @ + n])
    BY <1>5 DEF MergeSequential
  <2>2. e_queue # <<>> /\ t.io_type = "WRITE" /\ t.valid
    BY <2>1 DEF Continues, CHECK_SEQUENTIALITY
  <2>3. t.length + n \in Nat \ {0}
    BY <2>2, <1>3, <1>4 DEF Entries
  <2>4. e_queue' = [over EXCEPT ![N].length = t.length + n]
    <3>1. e_queue' = [over EXCEPT ![N].length = @ + n]
      BY <2>1 DEF AcceptWrite
    <3> QED BY <3>1
  <2>5. e_queue' \in Seq(Entries) /\ last_read_entry' \in 0 .. Len(e_queue') /\ QueueOrder'
    BY <2>2, <2>3, <2>4, <1>2, WriteMerged DEF IInv
  <2>6. e_queue' = [over EXCEPT ![N].length = @ + n]
    BY <2>1 DEF AcceptWrite
  <2> HIDE DEF over, N
  <2> QED BY <2>1, <2>5, <2>6, <1>1, <1>2, Zenon
<1>6. CASE MergeOverlap
  <2> DEFINE k == t.sector_nb + t.length - s
  <2>1. PICK array : /\ Overlaps(s)
                     /\ AcceptWrite(array, [over EXCEPT ![N].length = @ + n - k])
    BY <1>6 DEF MergeOverlap
  <2>2. e_queue # <<>> /\ t.io_type = "WRITE" /\ t.valid /\ t.sector_nb < s
    BY <2>1 DEF Overlaps, CHECK_IO_DEPENDENCY_FOR_WRITE
  <2>3. t.length + n - k \in Nat \ {0}
    <3>1. t.sector_nb \in Nat /\ t.length \in Nat \ {0}
      BY <2>2, <1>4 DEF Entries
    <3> HIDE DEF t, s, n
    <3> QED BY <3>1, <2>2, <1>3
  <2>4. e_queue' = [over EXCEPT ![N].length = @ + n - k]
    BY <2>1 DEF AcceptWrite
  <2>5. e_queue' = [over EXCEPT ![N].length = t.length + n - k]
    BY <2>4
  <2>6. e_queue' \in Seq(Entries) /\ last_read_entry' \in 0 .. Len(e_queue') /\ QueueOrder'
    BY <2>2, <2>3, <2>5, <1>2, WriteMerged DEF IInv
  <2> HIDE DEF over, N, k
  <2> QED BY <2>1, <2>4, <2>6, <1>1, <1>2, Zenon
<1>7. CASE NewWriteEvent
  <2> DEFINE e == Entry("WRITE", s, n, sata_write_ptr, NoData)
  <2>1. PICK array : AcceptWrite(array, Append(over, e))
    BY <1>7 DEF NewWriteEvent
  <2>2. e \in Entries /\ e.io_type = "WRITE" /\ e.valid
    <3>1. sata_write_ptr \in Nat
      BY RingAssumption DEF IInv, Types, WFrame
    <3> QED BY <3>1, <1>3 DEF Entries, Entry
  <2>3. e_queue' = Append(over, e)
    BY <2>1 DEF AcceptWrite
  <2> HIDE DEF e
  <2>4. e_queue' \in Seq(Entries) /\ last_read_entry' \in 0 .. Len(e_queue') /\ QueueOrder'
    BY <2>2, <2>3, <1>2, WriteAppended DEF IInv
  <2> HIDE DEF over
  <2> QED BY <2>1, <2>3, <2>4, <1>1, <1>2, Zenon
<1> QED BY <1>5, <1>6, <1>7 DEF ENQUEUE_WRITE

\* A set of positions in the queue has a last one.
LEMMA LastIs ==
  ASSUME NEW n \in Nat, NEW T \in SUBSET (1 .. n), T # {}
  PROVE  Max(T) \in T /\ \A y \in T : Max(T) >= y
<1> DEFINE R == OpToRel(<, Nat)
           D == {n - x : x \in T}
<1>1. D \subseteq Nat /\ D # {}
  <2>1. \A x \in T : n - x \in Nat
    OBVIOUS
  <2> QED BY <2>1, Zenon
<1>2. PICK d \in D : \A y \in D : ~(<<y, d>> \in R)
  <2> HIDE DEF D
  <2> QED BY <1>1, NatLessThanWellFounded, WFMin, Zenon
<1>3. \A y \in D : ~(y < d)
  BY <1>1, <1>2, Zenon DEF OpToRel
<1>4. PICK x \in T : d = n - x
  OBVIOUS
<1>5. \A y \in T : x >= y
  <2> TAKE y \in T
  <2>1. ~(n - y < d)
    BY <1>3
  <2> HIDE DEF D, R
  <2>2. x \in 1 .. n /\ y \in 1 .. n
    BY Zenon
  <2> QED BY <2>1, <2>2, <1>4
<1> QED BY <1>5, Zenon DEF Max

LEMMA LastExists ==
  ASSUME NEW n \in Nat, NEW T \in SUBSET (1 .. n), T # {}
  PROVE  Max(T) \in T
BY LastIs, Zenon

\* ENQUEUE_READ.
LEMMA InsertPreserves ==
  ASSUME IInv, NEW buf \in Nat \cup {NULL}, InsertRead(buf), req \in Asked,
         host \in {"enqueue", "flush"}, ~ThreadHolds, todo = 0, moving = NoEntry,
         ftl_read_ptr' \in RFrame
  PROVE  IInv'
<1> DEFINE e == Entry("READ", req.sector_nb, req.length, buf,
                      IF Holds(req, watch) THEN latest ELSE NoData)
<1>1. e \in Entries /\ e.io_type = "READ" /\ e.valid
  <2>1. latest \in Data \cup {NoData}
    BY DEF IInv, Types
  <2>2. req.sector_nb \in Nat /\ req.length \in Nat \ {0}
    BY DEF Asked
  <2> QED BY <2>1, <2>2 DEF Entries, Entry
<1>2. e_queue' = Insert(e_queue, last_read_entry, e) /\ last_read_entry' = last_read_entry + 1
  BY DEF InsertRead
<1> HIDE DEF e
<1>3. e_queue' \in Seq(Entries) /\ last_read_entry' \in 0 .. Len(e_queue') /\ QueueOrder'
  BY <1>1, <1>2, ReadInserted DEF IInv
<1>4. /\ Enqueued
      /\ UNCHANGED <<mode, thread, moving, todo, r_queue_full, w_queue_full, sata_write_ptr, latest>>
  BY DEF InsertRead, flags, flushing, ghosts
<1>5. sata_write_ptr' \in WFrame /\ latest' \in Data \cup {NoData}
  BY <1>4 DEF IInv, Types
<1> QED BY <1>3, <1>4, <1>5, EnqueuePreserves

LEMMA ReadPreserves ==
  ASSUME IInv, EnqueueRead \/ FlushForRead \/ CopyForRead \/ FlushedForRead
  PROVE  IInv'
<1>1. req \in Asked
  BY DEF EnqueueRead, FlushForRead, CopyForRead, FlushedForRead, IInv, Types
<1>2. ftl_read_ptr \in RFrame /\ ftl_read_ptr \in Nat
  BY BufferAssumption DEF IInv, Types, RFrame
<1>3. CASE EnqueueRead
  <2>1. host = "enqueue" /\ ~ThreadHolds /\ InsertRead(NULL) /\ UNCHANGED ftl_read_ptr
    BY <1>3 DEF EnqueueRead
  <2>2. todo = 0 /\ moving = NoEntry
    BY <2>1, Quiet DEF IInv, HostInQueue, ThreadInQueue, ThreadHolds
  <2> QED BY <2>1, <2>2, <1>1, <1>2, InsertPreserves, Zenon
<1>4. host = "flush" => ~ThreadHolds
  BY DEF IInv, Control
<1>5. todo = 0 => moving = NoEntry
  BY DEF IInv, Flushing
<1>6. CASE CopyForRead
  <2>1. host = "flush" /\ todo = 0 /\ InsertRead(ftl_read_ptr)
        /\ ftl_read_ptr' = RAfter(ftl_read_ptr, req.length)
    BY <1>6 DEF CopyForRead
  <2>2. ftl_read_ptr' \in RFrame
    BY <2>1, <1>1, <1>2, RingTypes DEF Asked
  <2> QED BY <2>1, <2>2, <1>1, <1>2, <1>4, <1>5, InsertPreserves
<1>7. CASE FlushedForRead
  <2>1. host = "flush" /\ todo = 0 /\ InsertRead(NULL) /\ UNCHANGED ftl_read_ptr
    BY <1>7 DEF FlushedForRead
  <2> QED BY <2>1, <1>1, <1>2, <1>4, <1>5, InsertPreserves, Zenon
<1>8. CASE FlushForRead
  <2> DEFINE T == Dependencies(req.sector_nb, req.length)
  <2>1. /\ host = "enqueue" /\ req.io_type = "READ" /\ ~ThreadHolds /\ host' = "flush"
        /\ T # {} /\ todo' = Max(T)
        /\ UNCHANGED <<mode, e_queue, last_read_entry, sata_write_ptr, ftl_read_ptr, latest,
                       moving, req, thread, r_queue_full, w_queue_full>>
    BY <1>8 DEF FlushForRead, LastDependency, queues, wbVars, rbVars, flags, ghosts
  <2>2. todo = 0 /\ moving = NoEntry
    BY <2>1, Quiet DEF IInv, HostInQueue, ThreadInQueue, ThreadHolds
  <2>3. Len(e_queue) \in Nat /\ T \in SUBSET (1 .. Len(e_queue))
    BY LenProperties DEF IInv, Types, Dependencies, Pending
  <2>4. todo' \in 1 .. Len(e_queue)
    <3> HIDE DEF T
    <3> QED BY <2>1, <2>3, LastExists, Zenon
  <2>5. e_queue # <<>>
    BY <2>3, <2>4, EmptySeq
  <2>6. mode = "1" => thread # "asleep"
    BY <2>1, <2>5 DEF IInv, Asleep
  <2>7. Types'
    BY <2>1, <2>4, <1>1 DEF IInv, Types
  <2>8. Control'
    BY <2>1, <2>6 DEF IInv, Control, ThreadHolds
  <2>9. Asleep'
    BY <2>1, <2>5 DEF IInv, Asleep
  <2>10. Flushing'
    BY <2>1, <2>2, <2>3, <2>4 DEF Flushing, FlushCounted, HostInQueue, NoEntry, Entry
  <2>11. QueueOrder'
    BY <2>1 DEF IInv, QueueOrder
  <2> QED BY <2>7, <2>8, <2>9, <2>10, <2>11 DEF IInv
<1> QED BY <1>3, <1>6, <1>7, <1>8

\* SSD_READ and SSD_WRITE, up to where the host has to wait.
LEMMA RequestPreserves ==
  ASSUME IInv, Request
  PROVE  IInv'
<1>1. ASSUME NEW q \in Requests, NEW d \in Data \cup {NoData}, NEW counter, Call(q, d, counter)
      PROVE  IInv'
  <2> DEFINE full == IsLess(counter, q.length)
  <2>1. /\ host = "idle"
        /\ req' = [io_type |-> q.io_type, sector_nb |-> q.sector_nb, length |-> q.length, data |-> d]
        /\ host' = IF ~full THEN "enqueue" ELSE IF mode = "none" THEN "secure" ELSE "spin"
        /\ todo' = IF full /\ mode = "none" THEN FlushLength(q.io_type) ELSE todo
        /\ r_queue_full' = (r_queue_full \/ (full /\ mode # "none" /\ q.io_type = "READ"))
        /\ w_queue_full' = (w_queue_full \/ (full /\ mode # "none" /\ q.io_type = "WRITE"))
        /\ UNCHANGED <<mode, e_queue, last_read_entry, sata_write_ptr, ftl_read_ptr, latest,
                       moving, thread>>
    BY <1>1 DEF Call, wbVars, ghosts
  <2>2. req' \in Asked /\ req'.io_type = q.io_type
    <3>1. q.io_type \in {"READ", "WRITE"} /\ q.sector_nb \in Nat /\ q.length \in Nat \ {0}
      <4>1. \/ q \in [io_type : {"WRITE"}, sector_nb : Nat, length : 1 .. WRITE_BUFFER_FRAME_NB]
            \/ q \in [io_type : {"READ"}, sector_nb : Nat, length : 1 .. READ_BUFFER_FRAME_NB]
        BY BufferAssumption
      <4> QED BY <4>1, BufferAssumption
    <3> QED BY <3>1, <2>1 DEF Asked
  <2> HIDE DEF full
  <2>3. ~r_queue_full /\ ~w_queue_full /\ full \in BOOLEAN
    BY <2>1 DEF IInv, Control, full, IsLess
  <2>4. Len(e_queue) \in Nat /\ FlushLength(q.io_type) \in 0 .. Len(e_queue)
    BY LenProperties DEF IInv, Types, FlushLength
  <2>5. mode = "none" => todo = 0 /\ moving = NoEntry
    <3>1. mode = "none" => ~ThreadInQueue
      BY DEF IInv, Control, ThreadInQueue
    <3> QED BY <3>1, <2>1, Quiet DEF IInv, HostInQueue
  <2>6. Types'
    BY <2>1, <2>2, <2>4 DEF IInv, Types
  <2>7. Control'
    BY <2>1, <2>2, <2>3 DEF IInv, Control, ThreadHolds
  <2>8. Asleep'
    BY <2>1 DEF IInv, Asleep
  <2>9. Flushing'
    <3>1. CASE full /\ mode = "none"
      BY <3>1, <2>1, <2>4, <2>5 DEF Flushing, FlushCounted, HostInQueue, NoEntry, Entry
    <3>2. CASE ~(full /\ mode = "none")
      BY <3>2, <2>1 DEF IInv, Flushing, FlushCounted, HostInQueue, ThreadInQueue, NoEntry, Entry
    <3> QED BY <3>1, <3>2
  <2>10. QueueOrder'
    BY <2>1 DEF IInv, QueueOrder
  <2> QED BY <2>6, <2>7, <2>8, <2>9, <2>10 DEF IInv
<1>2. CASE TERM_IO_BUFFER
  <2>1. /\ host = "idle" /\ mode # "1" /\ host' = "term" /\ todo' = Len(e_queue)
        /\ UNCHANGED <<mode, e_queue, last_read_entry, sata_write_ptr, ftl_read_ptr, latest,
                       moving, req, thread, r_queue_full, w_queue_full>>
    BY <1>2 DEF TERM_IO_BUFFER, queues, wbVars, rbVars, flags, ghosts
  <2>2. ~ThreadInQueue
    BY <2>1 DEF IInv, Control, ThreadInQueue
  <2>3. todo = 0 /\ moving = NoEntry
    BY <2>1, <2>2, Quiet DEF IInv, HostInQueue
  <2>4. Len(e_queue) \in Nat
    BY LenProperties DEF IInv, Types
  <2>5. Types'
    BY <2>1, <2>4 DEF IInv, Types
  <2>6. Control' /\ Asleep'
    BY <2>1 DEF IInv, Control, Asleep, ThreadHolds
  <2>7. Flushing'
    BY <2>1, <2>3, <2>4 DEF Flushing, FlushCounted, HostInQueue, NoEntry, Entry
  <2>8. QueueOrder'
    BY <2>1 DEF IInv, QueueOrder
  <2> QED BY <2>5, <2>6, <2>7, <2>8 DEF IInv
<1>3. NoData \in Data \cup {NoData}
  OBVIOUS
<1> QED BY <1>1, <1>2, <1>3 DEF Request, SSD_WRITE, SSD_READ

\* The other steps of the host.
LEMMA HostPreserves ==
  ASSUME IInv, HostSecured \/ SpinSignals \/ SpinEnds \/ HostSignals \/ Terminated
  PROVE  IInv'
<1>1. /\ UNCHANGED <<mode, e_queue, last_read_entry, sata_write_ptr, ftl_read_ptr, latest,
                     moving, todo, req, r_queue_full, w_queue_full>>
      /\ \/ host = "secure" /\ todo = 0 /\ host' = "enqueue" /\ thread' = thread
         \/ host = "spin" /\ thread = "asleep" /\ thread' = "lock" /\ host' = host
         \/ host = "spin" /\ ~Flag(req.io_type) /\ host' = "enqueue" /\ thread' = thread
         \/ /\ host = "signal" /\ host' = "idle"
            /\ thread' = IF thread = "asleep" THEN "lock" ELSE thread
         \/ host = "term" /\ todo = 0 /\ host' = "closed" /\ thread' = thread
  BY DEF HostSecured, Secured, SpinSignals, SpinEnds, HostSignals, Terminated,
         queues, wbVars, rbVars, flags, flushing, ghosts
<1>2. Types'
  BY <1>1 DEF IInv, Types
<1>3. host = "spin" => req.io_type \in {"READ", "WRITE"}
  BY DEF IInv, Types, Asked
<1>4. Control'
  BY <1>1, <1>3 DEF IInv, Control, ThreadHolds, Flag
<1>5. Asleep'
  BY <1>1 DEF IInv, Asleep
<1>6. Flushing'
  BY <1>1 DEF IInv, Flushing, FlushCounted, HostInQueue, ThreadInQueue, NoEntry, Entry
<1>7. QueueOrder'
  BY <1>1 DEF IInv, QueueOrder
<1> QED BY <1>2, <1>4, <1>5, <1>6, <1>7 DEF IInv

\* SSD_THREAD_MAIN_LOOP.
LEMMA ThreadPreserves ==
  ASSUME IInv, ThreadStep \/ SpuriousWakeup
  PROVE  IInv'
<1>1. /\ UNCHANGED <<mode, e_queue, last_read_entry, sata_write_ptr, ftl_read_ptr, latest,
                     moving, host, req>>
      /\ ~ThreadSecured => UNCHANGED <<r_queue_full, w_queue_full>>
  BY DEF ThreadStep, ThreadDequeues, ThreadWorked, ThreadSecures, ThreadSecured, Secured,
         ThreadFindsNothing, ThreadWaits, SpuriousWakeup, SECURE_READ_BUFFER, SECURE_WRITE_BUFFER,
         DEQUEUE_COMPLETED_READ, queues, wbVars, rbVars, flags, flushing, ghosts
<1>2. Len(e_queue) \in Nat
  BY LenProperties DEF IInv, Types
<1>3. QueueOrder'
  BY <1>1 DEF IInv, QueueOrder
<1>4. ASSUME todo' \in Nat
      PROVE  Types'
  BY <1>1, <1>4 DEF IInv, Types
<1>5. CASE ThreadDequeues \/ ThreadSecures
  <2>1. /\ thread = "lock" /\ host # "flush"
        /\ \/ mode = "1" /\ e_queue # <<>> /\ todo' = 1 /\ thread' = "work"
           \/ mode = "2" /\ r_queue_full /\ todo' = last_read_entry /\ thread' = "secure_r"
           \/ mode = "2" /\ w_queue_full /\ todo' = Len(e_queue) /\ thread' = "secure_w"
    BY <1>5 DEF ThreadDequeues, ThreadSecures, ThreadLocks, HasWork, SECURE_READ_BUFFER,
                SECURE_WRITE_BUFFER, FlushLength
  <2>2. ~HostInQueue /\ ~ThreadInQueue
    BY <2>1 DEF IInv, Control, HostInQueue, ThreadInQueue
  <2>3. todo = 0 /\ moving = NoEntry
    BY <2>2, Quiet DEF IInv
  <2>4. todo' \in 0 .. Len(e_queue)
    BY <2>1, <1>2, EmptySeq DEF IInv, Types
  <2>5. Types'
    BY <2>4, <1>2, <1>4
  <2>6. ~ThreadSecured
    BY <2>1 DEF ThreadSecured
  <2>7. Control'
    BY <2>1, <2>6, <1>1 DEF IInv, Control, ThreadHolds
  <2>8. Asleep'
    BY <2>1, <1>1 DEF Asleep
  <2>9. Flushing'
    BY <2>1, <2>3, <2>4, <1>1, <1>2 DEF Flushing, FlushCounted, ThreadInQueue, NoEntry, Entry
  <2> QED BY <2>5, <2>7, <2>8, <2>9, <1>3 DEF IInv
<1>6. CASE ThreadWorked \/ ThreadSecured
  <2>1. /\ thread \in {"work", "secure_r", "secure_w"} /\ todo = 0 /\ todo' = todo /\ thread' = "lock"
        /\ r_queue_full' \in BOOLEAN /\ w_queue_full' \in BOOLEAN
        /\ r_queue_full' => r_queue_full
        /\ w_queue_full' => w_queue_full
    <3>1. r_queue_full \in BOOLEAN /\ w_queue_full \in BOOLEAN
      BY DEF IInv, Control
    <3>2. CASE ThreadWorked
      BY <3>1, <3>2 DEF ThreadWorked, flags, flushing
    <3>3. CASE ThreadSecured
      <4>1. /\ thread \in {"work", "secure_r", "secure_w"} /\ todo = 0 /\ todo' = todo
            /\ thread' = "lock"
        BY <3>3 DEF ThreadSecured, Secured, flushing
      <4>2. /\ r_queue_full' = (r_queue_full /\ thread # "secure_r")
            /\ w_queue_full' = (w_queue_full /\ thread # "secure_w")
        BY <3>3 DEF ThreadSecured
      <4> QED BY <4>1, <4>2, <3>1
    <3> QED BY <3>2, <3>3, <1>6
  <2>2. Types'
    BY <2>1, <1>4 DEF IInv, Types
  <2>3. Control'
    BY <2>1, <1>1 DEF IInv, Control, ThreadHolds
  <2>4. Asleep'
    BY <2>1, <1>1 DEF Asleep
  <2>5. Flushing'
    BY <2>1, <1>1 DEF IInv, Flushing, FlushCounted, NoEntry, Entry
  <2> QED BY <2>2, <2>3, <2>4, <2>5, <1>3 DEF IInv
<1>7. CASE ThreadFindsNothing \/ ThreadWaits \/ SpuriousWakeup
  <2>1. /\ todo' = todo
        /\ UNCHANGED <<r_queue_full, w_queue_full>>
        /\ \/ thread = "lock" /\ host # "flush" /\ ~HasWork /\ thread' = "towait"
           \/ thread = "towait" /\ thread' = "asleep"
           \/ thread = "asleep" /\ thread' = "lock"
    BY <1>7 DEF ThreadFindsNothing, ThreadWaits, SpuriousWakeup, ThreadLocks, flags, flushing
  <2>2. Types'
    BY <2>1, <1>4 DEF IInv, Types
  <2>3. Control'
    BY <2>1, <1>1 DEF IInv, Control, ThreadHolds
  <2>4. Asleep'
    BY <2>1, <1>1 DEF IInv, Asleep, HasWork
  <2>5. Flushing'
    BY <2>1, <1>1 DEF IInv, Flushing, FlushCounted, HostInQueue, ThreadInQueue, NoEntry, Entry
  <2> QED BY <2>2, <2>3, <2>4, <2>5, <1>3 DEF IInv
<1> QED BY <1>5, <1>6, <1>7 DEF ThreadStep

LEMMA Preserved == IInv /\ [Next]_vars => IInv'
<1> SUFFICES ASSUME IInv, [Next]_vars
             PROVE  IInv'
  OBVIOUS
<1>1. CASE Request
  BY <1>1, RequestPreserves
<1>2. CASE HostStep
  BY <1>2, HostPreserves, WritePreserves, ReadPreserves DEF HostStep
<1>3. CASE ThreadStep \/ SpuriousWakeup
  BY <1>3, ThreadPreserves
<1>4. CASE DEQUEUE_IO
  BY <1>4, DequeuePreserves
<1>5. CASE UNCHANGED vars
  <2>1. UNCHANGED Seen
    BY <1>5 DEF vars, Seen, queues, wbVars, rbVars, flags, flushing, ghosts
  <2>2. Types' /\ Control' /\ Asleep'
    BY <2>1 DEF Seen, IInv, Types, Control, Asleep, ThreadHolds
  <2>3. Flushing' /\ QueueOrder'
    BY <2>1 DEF Seen, IInv, Flushing, FlushCounted, QueueOrder, HostInQueue, ThreadInQueue,
                NoEntry, Entry
  <2> QED BY <2>2, <2>3 DEF IInv
<1>6. CASE Ended
  BY <1>5, <1>6 DEF Ended
<1> QED BY <1>1, <1>2, <1>3, <1>4, <1>5, <1>6 DEF Next, Step

\* The inductive invariant: where the host and SSD_THREAD_MAIN_LOOP can be at
\* the same time, why the thread may sleep, how many calls of DEQUEUE_IO a
\* flush has left, and what the event queue looks like.
THEOREM Invariance == Spec => []IInv
<1> QED BY Initially, Preserved, PTL DEF Spec
-----------------------------------------------------------------------------
(***************************************************************************)
(* The properties.                                                         *)
(***************************************************************************)
\* The host and the thread are never inside a flush at once, although
\* TERM_IO_BUFFER takes no lock and SECURE_READ_BUFFER drains without cq_lock.
THEOREM MutualExclusion == Spec => []Exclusive
<1>1. IInv => Exclusive
  BY DEF IInv, Control, Exclusive, HostInQueue, ThreadInQueue, ThreadHolds
<1> QED BY <1>1, Invariance, PTL

\* No wakeup is lost: when SSD_THREAD_MAIN_LOOP waits although there is work,
\* the host is about to signal.
THEOREM NoLostWakeup == Spec => []SleepsSafely
<1>1. IInv => SleepsSafely
  BY DEF IInv, Control, Asleep, SleepsSafely, HasWork
<1> QED BY <1>1, Invariance, PTL

\* DEQUEUE_IO never finds the event queue empty, in any build.
THEOREM NeverEmpty == Spec => []FlushCounted
<1>1. IInv => FlushCounted
  BY DEF IInv, Flushing
<1> QED BY <1>1, Invariance, PTL

\* ENQUEUE_READ and ENQUEUE_WRITE keep the reads before the writes and the
\* event at the tail valid.
THEOREM ReadsFirst == Spec => []QueueOrder
<1>1. IInv => QueueOrder
  BY DEF IInv
<1> QED BY <1>1, Invariance, PTL
=============================================================================
