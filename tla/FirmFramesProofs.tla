-------------------------- MODULE FirmFramesProofs --------------------------
(***************************************************************************)
(* The rings of the IO buffer stay right for every number of frames, every *)
(* set of requests and every build: the frames of the write buffer belong  *)
(* to the writes of the event queue, and a request finds the frames that   *)
(* it needs.                                                               *)
(***************************************************************************)
EXTENDS FirmBufferProofs, FirmRingProofs

USE ZenonT(2), SMTT(30), ZenonT(30)

\* Who flushes for a write, flushes everything.
WFlushed ==
  (host = "secure" /\ req.io_type = "WRITE") \/ thread = "secure_w" =>
    Len(e_queue) + Held <= todo

WFits ==
  host \in {"secure", "spin", "enqueue"} /\ req.io_type = "WRITE" =>
    req.length <= WRITE_BUFFER_FRAME_NB

WRoom ==
  ~failed /\ req.io_type = "WRITE" /\ (host = "enqueue" \/ (host = "spin" /\ ~w_queue_full)) =>
    req.length <= empty_write_buffer_frame

\* The used frames are the ring of FirmRingProofs.
RingNow ==
  Ring(write_limit_ptr, sata_write_ptr, empty_write_buffer_frame, wb_valid_array, e_queue)
WOk == ~failed => ftl_write_ptr = write_limit_ptr /\ RingNow

WInv == WFlushed /\ WFits /\ WRoom /\ WOk
-----------------------------------------------------------------------------
LEMMA EmptyFits == ASSUME WOk, ~failed PROVE empty_write_buffer_frame \in 0 .. WRITE_BUFFER_FRAME_NB
  BY Fits DEF WOk, RingNow

\* At the end of a flush for a write all frames are free.
LEMMA Emptied ==
  ASSUME IInv, WOk, ~failed, todo = 0, Len(e_queue) + Held <= todo
  PROVE  empty_write_buffer_frame = WRITE_BUFFER_FRAME_NB
<1>1. Len(e_queue) \in Nat
  BY LenProperties DEF IInv, Types
<1>2. Len(e_queue) = 0
  BY <1>1 DEF Held
<1>3. Writes(e_queue) = {}
  BY <1>2 DEF Writes
<1> QED BY <1>3, RingEmpty DEF WOk, RingNow

\* Steps that leave the queue of writes and its frames alone.
LEMMA FramesStay ==
  ASSUME WOk, UNCHANGED <<e_queue, wb_valid_array, ftl_write_ptr, sata_write_ptr,
                          write_limit_ptr, empty_write_buffer_frame, failed>>
  PROVE  WOk'
  BY DEF WOk, RingNow

LEMMA WInitially == Init => WInv
<1> SUFFICES ASSUME Init PROVE WInv
  OBVIOUS
<1>1. WFlushed /\ WFits /\ WRoom
  BY BufferAssumption DEF Init, WFlushed, WFits, WRoom, NoReq
<1>2. RingNow
  <2> DEFINE array == [f \in WFrame |-> "0"]
             N == WRITE_BUFFER_FRAME_NB
  <2>1. N \in Nat \ {0} /\ N - N = 0 /\ 0 \in WFrame /\ 0 \in 0 .. N
    BY RingAssumption DEF WFrame
  <2>2. Valid(array) = {} /\ Writes(<<>>) = {}
    BY DEF Valid, Writes
  <2>3. 0 = WAfter(0, 0)
    BY <2>1, WAfterFacts
  <2>4. ZeroFrom(0, 0, array)
    <3>1. \A f \in WFrame : 0 <= WDist(0, f)
      BY <2>1, WDistFacts
    <3> QED BY <3>1 DEF ZeroFrom
  <2>5. Tiled(0, 0, Valid(array), <<>>)
    BY <2>1, <2>2 DEF Tiled
  <2>6. EndsIn(0, 0, Valid(array))
    BY DEF EndsIn
  <2>7. Ring(0, 0, N, array, <<>>)
    BY <2>1, <2>3, <2>4, <2>5, <2>6 DEF Ring
  <2> QED BY <2>7 DEF Init, RingNow
<1>3. WOk
  BY <1>2 DEF WOk, Init
<1> QED BY <1>1, <1>3 DEF WInv

\* The steps of the host that touch no frame.
LEMMA WHost ==
  ASSUME IInv, WInv, HostSecured \/ SpinSignals \/ SpinEnds \/ HostSignals \/ Terminated
  PROVE  WInv'
<1>1. /\ UNCHANGED <<e_queue, moving, todo, req, w_queue_full, empty_write_buffer_frame, failed>>
      /\ \/ host = "secure" /\ todo = 0 /\ host' = "enqueue" /\ thread' = thread
         \/ host = "spin" /\ thread = "asleep" /\ thread' = "lock" /\ host' = host
         \/ host = "spin" /\ ~Flag(req.io_type) /\ host' = "enqueue" /\ thread' = thread
         \/ /\ host = "signal" /\ host' = "idle"
            /\ thread' = IF thread = "asleep" THEN "lock" ELSE thread
         \/ host = "term" /\ todo = 0 /\ host' = "closed" /\ thread' = thread
  BY DEF HostSecured, Secured, SpinSignals, SpinEnds, HostSignals, Terminated,
         queues, wbVars, flags, flushing, ghosts
<1>2. UNCHANGED <<wb_valid_array, ftl_write_ptr, sata_write_ptr, write_limit_ptr>>
  BY DEF HostSecured, Secured, SpinSignals, SpinEnds, HostSignals, Terminated, wbVars
<1>3. WOk'
  BY <1>1, <1>2, FramesStay DEF WInv
<1>4. WFlushed'
  BY <1>1 DEF WInv, WFlushed, Held, NoEntry, Entry
<1>5. WFits'
  BY <1>1 DEF WInv, WFits
<1>6. WRoom'
  <2> SUFFICES ASSUME ~failed, req.io_type = "WRITE",
                      host' = "enqueue" \/ (host' = "spin" /\ ~w_queue_full)
               PROVE  req.length <= empty_write_buffer_frame
    BY <1>1 DEF WRoom
  <2>1. CASE host = "secure"
    <3>1. empty_write_buffer_frame = WRITE_BUFFER_FRAME_NB
      BY <2>1, <1>1, Emptied DEF WInv, WFlushed
    <3> QED BY <3>1, <2>1 DEF WInv, WFits
  <2>2. CASE host = "spin" /\ ~w_queue_full
    BY <2>2 DEF WInv, WRoom
  <2> QED BY <1>1, <2>1, <2>2 DEF Flag
<1> QED BY <1>3, <1>4, <1>5, <1>6 DEF WInv

\* SSD_THREAD_MAIN_LOOP.
LEMMA WThread ==
  ASSUME IInv, WInv, ThreadStep \/ SpuriousWakeup
  PROVE  WInv'
<1>1. /\ UNCHANGED <<e_queue, moving, host, req, empty_write_buffer_frame, failed>>
      /\ UNCHANGED <<wb_valid_array, ftl_write_ptr, sata_write_ptr, write_limit_ptr>>
  BY DEF ThreadStep, ThreadDequeues, ThreadWorked, ThreadSecures, ThreadSecured, Secured,
         ThreadFindsNothing, ThreadWaits, SpuriousWakeup, queues, wbVars, flushing, ghosts
<1>2. \/ thread' = "secure_w" /\ ThreadSecures /\ w_queue_full' = w_queue_full
      \/ thread' # "secure_w" /\ w_queue_full' = w_queue_full
      \/ thread' # "secure_w" /\ thread = "secure_w" /\ todo = 0 /\ w_queue_full' = FALSE
      \/ thread' # "secure_w" /\ w_queue_full' = (w_queue_full /\ TRUE)
  BY DEF ThreadStep, ThreadDequeues, ThreadWorked, ThreadSecures, ThreadSecured, Secured,
         ThreadFindsNothing, ThreadWaits, SpuriousWakeup, flags, flushing
<1>3. WOk'
  BY <1>1, FramesStay DEF WInv
<1>4. WFits'
  BY <1>1 DEF WInv, WFits
<1>5. w_queue_full \in BOOLEAN /\ (thread = "secure_w" => host = "spin" /\ req.io_type = "WRITE")
  BY DEF IInv, Control
<1>6. mode = "none" => thread = "none"
  BY DEF IInv, Control
<1>7. host = "secure" => mode = "none"
  BY DEF IInv, Control
<1>8. WFlushed'
  <2>1. thread # "none"
    BY DEF ThreadStep, ThreadDequeues, ThreadWorked, ThreadSecures, ThreadSecured, ThreadLocks,
           ThreadFindsNothing, ThreadWaits, SpuriousWakeup
  <2>2. host # "secure"
    BY <2>1, <1>6, <1>7
  <2>3. CASE thread' # "secure_w"
    BY <2>2, <2>3, <1>1 DEF WFlushed
  <2>4. CASE ThreadSecures
    <3>1. /\ thread = "lock" /\ host # "flush"
          /\ thread' = "secure_w" => ~r_queue_full /\ SECURE_WRITE_BUFFER
      BY <2>4 DEF ThreadSecures, ThreadLocks
    <3>2. thread' = "secure_w" => todo' = Len(e_queue)
      BY <3>1 DEF SECURE_WRITE_BUFFER, FlushLength
    <3>3. mode = "2" /\ (r_queue_full \/ w_queue_full)
      BY <2>4 DEF ThreadSecures, HasWork
    <3>4. host = "spin"
      BY <3>3 DEF IInv, Control
    <3>5. moving = NoEntry
      BY <3>1, <3>4, Quiet DEF IInv, HostInQueue, ThreadInQueue
    <3>6. Len(e_queue) \in Nat
      BY LenProperties DEF IInv, Types
    <3> QED BY <3>2, <3>4, <3>5, <3>6, <1>1 DEF WFlushed, Held, NoEntry, Entry
  <2> QED BY <2>3, <2>4, <1>2
<1>9. WRoom'
  <2> SUFFICES ASSUME ~failed, req.io_type = "WRITE",
                      host = "enqueue" \/ (host = "spin" /\ ~w_queue_full')
               PROVE  req.length <= empty_write_buffer_frame
    BY <1>1 DEF WRoom
  <2>1. CASE host = "enqueue" \/ (host = "spin" /\ ~w_queue_full)
    BY <2>1 DEF WInv, WRoom
  <2>2. CASE thread = "secure_w" /\ todo = 0
    <3>1. empty_write_buffer_frame = WRITE_BUFFER_FRAME_NB
      BY <2>2, Emptied DEF WInv, WFlushed
    <3> QED BY <3>1, <2>2, <1>5 DEF WInv, WFits
  <2> QED BY <1>2, <1>5, <2>1, <2>2
<1> QED BY <1>3, <1>4, <1>8, <1>9 DEF WInv

\* SSD_READ and SSD_WRITE, up to where the host has to wait, and TERM_IO_BUFFER.
LEMMA WRequest ==
  ASSUME IInv, WInv, Request
  PROVE  WInv'
<1>1. /\ UNCHANGED <<e_queue, moving, thread, empty_write_buffer_frame, failed, mode>>
      /\ UNCHANGED <<wb_valid_array, ftl_write_ptr, sata_write_ptr, write_limit_ptr>>
      /\ host = "idle"
  BY DEF Request, SSD_WRITE, SSD_READ, Call, TERM_IO_BUFFER, queues, wbVars, ghosts
<1>2. WOk'
  BY <1>1, FramesStay DEF WInv
<1>3. thread # "secure_w"
  BY <1>1 DEF IInv, Control
<1>4. CASE TERM_IO_BUFFER
  <2>1. host' = "term"
    BY <1>4 DEF TERM_IO_BUFFER
  <2> QED BY <2>1, <1>1, <1>2, <1>3 DEF WInv, WFlushed, WFits, WRoom
<1>5. ASSUME NEW q \in Requests, NEW d \in Data \cup {NoData}, SSD_READ(q)
      PROVE  WInv'
  <2>1. req'.io_type = "READ"
    BY <1>5 DEF SSD_READ, Call
  <2> QED BY <2>1, <1>1, <1>2, <1>3 DEF WInv, WFlushed, WFits, WRoom
<1>6. ASSUME NEW q \in Requests, NEW d \in Data \cup {NoData}, SSD_WRITE(q, d)
      PROVE  WInv'
  <2> DEFINE full == IsLess(empty_write_buffer_frame, q.length)
  <2>1. /\ q.io_type = "WRITE" /\ req'.io_type = "WRITE" /\ req'.length = q.length
        /\ host' = IF ~full THEN "enqueue" ELSE IF mode = "none" THEN "secure" ELSE "spin"
        /\ full /\ mode = "none" => todo' = FlushLength("WRITE")
        /\ w_queue_full' = (w_queue_full \/ (full /\ mode # "none"))
    BY <1>6 DEF SSD_WRITE, Call
  <2>2. q.length \in 1 .. WRITE_BUFFER_FRAME_NB
    <3>1. \/ q \in [io_type : {"WRITE"}, sector_nb : Nat, length : 1 .. WRITE_BUFFER_FRAME_NB]
          \/ q \in [io_type : {"READ"}, sector_nb : Nat, length : 1 .. READ_BUFFER_FRAME_NB]
      BY BufferAssumption
    <3> QED BY <3>1, <2>1
  <2>3. WFits'
    BY <2>1, <2>2, RingAssumption DEF WFits
  <2>4. WFlushed'
    <3> SUFFICES ASSUME host' = "secure"
                 PROVE  Len(e_queue) + Held <= todo'
      BY <1>1, <1>3 DEF WFlushed, Held, NoEntry, Entry
    <3>1. mode = "none" /\ todo' = Len(e_queue)
      BY <2>1 DEF FlushLength
    <3>2. moving = NoEntry
      BY <1>1, <3>1, Quiet DEF IInv, Control, HostInQueue, ThreadInQueue
    <3>3. Len(e_queue) \in Nat
      BY LenProperties DEF IInv, Types
    <3> QED BY <3>1, <3>2, <3>3 DEF Held
  <2>5. WRoom'
    <3> SUFFICES ASSUME ~failed, host' = "enqueue" \/ (host' = "spin" /\ ~w_queue_full')
                 PROVE  q.length <= empty_write_buffer_frame
      BY <1>1, <2>1 DEF WRoom
    <3>1. ~full
      BY <2>1
    <3>2. empty_write_buffer_frame \in 0 .. WRITE_BUFFER_FRAME_NB
      BY EmptyFits DEF WInv
    <3> QED BY <3>1, <3>2, <2>2, RingAssumption DEF IsLess
  <2> QED BY <2>3, <2>4, <2>5, <1>2 DEF WInv
<1>7. NoData \in Data \cup {NoData}
  OBVIOUS
<1> QED BY <1>4, <1>5, <1>6, <1>7 DEF Request
-----------------------------------------------------------------------------
(***************************************************************************)
(* DEQUEUE_IO.                                                             *)
(***************************************************************************)
\* A read or an overwritten write leaves.
LEMMA TailShifts ==
  ASSUME NEW q \in Seq(Entries), q # <<>>, 1 \notin Writes(q)
  PROVE  Moved(q, Tail(q), -1)
BY TailIs, HeadLeaves

\* What stays when the first event has been written, and what is freed.
Leaves ==
  LET q == e_queue
      p == write_limit_ptr
      V == Valid(wb_valid_array)
  IN  /\ \A i \in Writes(e_queue') :
           /\ i + 1 \in Writes(q)
           /\ Part(write_limit_ptr', Valid(wb_valid_array'), e_queue', i) = Part(p, V, q, i + 1)
      /\ FirstN(p, q[1].length, V) = Part(p, V, q, 1)
      /\ V \cap Freed(write_limit_ptr') = Part(p, V, q, 1)

LEMMA RingWritten ==
  ASSUME IInv, WOk, ~failed, e_queue # <<>>, e_queue' = Tail(e_queue),
         Head(e_queue).io_type = "WRITE", Head(e_queue).valid, FTL_WRITE(Head(e_queue))
  PROVE  /\ WOk' /\ empty_write_buffer_frame <= empty_write_buffer_frame' /\ Leaves
<1> DEFINE q == e_queue
           n == q[1].length
           V == Valid(wb_valid_array)
           ftl == WAfter(Nth(write_limit_ptr, n - 1, V), 1)
           freed == FreedTo(write_limit_ptr, ftl)
           rest == Mark(Mark(wb_valid_array, FirstN(write_limit_ptr, n, V), "F"), freed, "0")
<1>1. q \in Seq(Entries) /\ Head(q) = q[1] /\ Len(q) \in Nat \ {0}
  BY TailIs DEF IInv, Types
<1>2. 1 \in Writes(q) /\ n \in Nat \ {0}
  <2>1. 1 \in 1 .. Len(q)
    BY <1>1
  <2>2. q[1] \in Entries
    BY <1>1, <2>1, ElementOfSeq
  <2> QED BY <1>1, <2>1, <2>2 DEF Writes, Entries
<1>3. ftl_write_ptr = write_limit_ptr /\ RingNow
  BY DEF WOk
<1>4. FtlAfter(n) = ftl /\ FtlFrames(n) = FirstN(write_limit_ptr, n, V)
  BY <1>2, <1>3 DEF FtlAfter, FtlFrames
<1>5. /\ wb_valid_array' = Mark(Mark(wb_valid_array, FtlFrames(n), "F"), Freed(FtlAfter(n)), "0")
      /\ ftl_write_ptr' = FtlAfter(n) /\ write_limit_ptr' = FtlAfter(n)
      /\ empty_write_buffer_frame' = empty_write_buffer_frame + Cardinality(Freed(FtlAfter(n)))
      /\ sata_write_ptr' = sata_write_ptr /\ failed' = failed
  BY <1>1 DEF FTL_WRITE
<1>6. Freed(FtlAfter(n)) = freed
  BY <1>4 DEF Freed, FreedTo
<1>7. /\ wb_valid_array' = rest /\ ftl_write_ptr' = ftl /\ write_limit_ptr' = ftl
      /\ empty_write_buffer_frame' = empty_write_buffer_frame + Cardinality(freed)
  BY <1>4, <1>5, <1>6
<1>8. /\ Ring(ftl, sata_write_ptr, empty_write_buffer_frame + Cardinality(freed), rest, Tail(q))
      /\ \A i \in Writes(Tail(q)) :
           i + 1 \in Writes(q) /\ Part(ftl, Valid(rest), Tail(q), i) = Part(write_limit_ptr, V, q, i + 1)
      /\ FirstN(write_limit_ptr, n, V) = Part(write_limit_ptr, V, q, 1)
      /\ V \cap freed = Part(write_limit_ptr, V, q, 1)
  <2>1. Ring(write_limit_ptr, sata_write_ptr, empty_write_buffer_frame, wb_valid_array, q)
    BY <1>3 DEF RingNow
  <2>2. ftl = WAfter(Nth(write_limit_ptr, q[1].length - 1, Valid(wb_valid_array)), 1)
    OBVIOUS
  <2>3. freed = FreedTo(write_limit_ptr, ftl)
    OBVIOUS
  <2>4. rest = Mark(Mark(wb_valid_array, FirstN(write_limit_ptr, q[1].length, Valid(wb_valid_array)), "F"),
                    freed, "0")
    OBVIOUS
  <2> HIDE DEF q, ftl, freed, rest
  <2> QED BY <1>1, <1>2, <2>1, <2>2, <2>3, <2>4, RingDequeued
<1>9. freed \in SUBSET WFrame
  BY DEF FreedTo, Between
<1>10. Cardinality(freed) \in Nat /\ empty_write_buffer_frame \in Int
  BY <1>9, <1>3, FramesFinite DEF RingNow, Ring
<1>11. Freed(write_limit_ptr') = freed
  BY <1>7 DEF Freed, FreedTo
<1> HIDE DEF freed, rest, ftl
<1>12. RingNow'
  BY <1>5, <1>7, <1>8 DEF RingNow
<1>13. Leaves
  BY <1>7, <1>8, <1>11 DEF Leaves
<1> QED BY <1>7, <1>10, <1>12, <1>13 DEF WOk

LEMMA WDequeue ==
  ASSUME IInv, WInv, DEQUEUE_IO
  PROVE  WInv'
<1>1. UNCHANGED <<host, req, thread, w_queue_full>>
  BY DEF DEQUEUE_IO, DequeueRead, DequeueWrite, AppendCompleted, RemoveHead, flags
<1>2. WFits'
  BY <1>1 DEF WInv, WFits
<1>3. ASSUME WOk', ~failed' => ~failed /\ empty_write_buffer_frame <= empty_write_buffer_frame',
             Len(e_queue') + Held' <= todo' \/ ~(Len(e_queue) + Held <= todo)
      PROVE  WInv'
  <2>1. WFlushed'
    BY <1>1, <1>3 DEF WInv, WFlushed
  <2>2. WRoom'
    <3> SUFFICES ASSUME ~failed', req.io_type = "WRITE",
                        host = "enqueue" \/ (host = "spin" /\ ~w_queue_full)
                 PROVE  req.length <= empty_write_buffer_frame'
      BY <1>1 DEF WRoom
    <3>1. req.length <= empty_write_buffer_frame
      BY <1>3 DEF WInv, WRoom
    <3>2. req.length \in Nat
      BY DEF IInv, Types, Asked
    <3>3. empty_write_buffer_frame \in Int
      BY <1>3, EmptyFits DEF WInv
    <3>4. empty_write_buffer_frame' \in Int
      BY <1>3, Fits DEF WOk, RingNow
    <3> QED BY <3>1, <3>2, <3>3, <3>4, <1>3
  <2> QED BY <1>2, <1>3, <2>1, <2>2 DEF WInv
<1>4. CASE AppendCompleted
  <2>1. /\ moving # NoEntry /\ moving' = NoEntry /\ todo' = todo - 1
        /\ UNCHANGED <<e_queue, empty_write_buffer_frame, failed>>
        /\ UNCHANGED <<wb_valid_array, ftl_write_ptr, sata_write_ptr, write_limit_ptr>>
    BY <1>4 DEF AppendCompleted, wbVars, ghosts
  <2>2. WOk'
    BY <2>1, FramesStay DEF WInv
  <2>3. todo \in Nat /\ Len(e_queue) \in Nat
    BY LenProperties DEF IInv, Types
  <2>4. Len(e_queue') + Held' <= todo' \/ ~(Len(e_queue) + Held <= todo)
    BY <2>1, <2>3 DEF Held, NoEntry, Entry
  <2>5. ~failed' => ~failed /\ empty_write_buffer_frame <= empty_write_buffer_frame'
    BY <2>1, EmptyFits DEF WInv
  <2> QED BY <2>2, <2>4, <2>5, <1>3
<1>5. CASE DequeueRead \/ DequeueWrite
  <2> DEFINE e == Head(e_queue)
  <2>1. /\ moving = NoEntry /\ e_queue # <<>> /\ e_queue' = Tail(e_queue)
        /\ \/ DequeueRead /\ e.io_type = "READ" /\ todo' = todo
           \/ DequeueWrite /\ e.io_type = "WRITE" /\ todo' = todo - 1 /\ moving' = NoEntry
    BY <1>5 DEF DequeueRead, DequeueWrite, Dequeuing, RemoveHead
  <2>2. /\ e_queue \in Seq(Entries) /\ e = e_queue[1] /\ Len(e_queue) \in Nat \ {0}
        /\ Len(e_queue') = Len(e_queue) - 1 /\ todo \in Nat
    BY <2>1, TailIs DEF IInv, Types
  <2>3. Len(e_queue') + Held' <= todo' \/ ~(Len(e_queue) + Held <= todo)
    BY <2>1, <2>2 DEF Held, NoEntry, Entry
  <2>4. ASSUME UNCHANGED <<wb_valid_array, ftl_write_ptr, sata_write_ptr, write_limit_ptr,
                           empty_write_buffer_frame>>,
               failed' \/ UNCHANGED failed, ~(e.io_type = "WRITE" /\ e.valid)
        PROVE  WInv'
    <3>1. 1 \notin Writes(e_queue)
      BY <2>2, <2>4 DEF Writes
    <3>2. Shift(e_queue, Tail(e_queue), -1)
      BY <2>1, <2>2, <3>1, TailShifts DEF Moved
    <3>3. ~failed => RingNow'
      BY <2>1, <2>4, <3>2, RingShifted DEF WInv, WOk, RingNow
    <3>4. WOk'
      BY <2>4, <3>3 DEF WInv, WOk
    <3>5. ~failed' => ~failed /\ empty_write_buffer_frame <= empty_write_buffer_frame'
      BY <2>4, EmptyFits DEF WInv
    <3> QED BY <2>3, <3>4, <3>5, <1>3
  <2>5. CASE DequeueRead
    <3>1. e.io_type = "READ" /\ ((FTL_READ(e)) \/ (UNCHANGED <<wbVars, failed>>))
      BY <2>5 DEF DequeueRead
    <3>2. /\ UNCHANGED <<wb_valid_array, ftl_write_ptr, sata_write_ptr, write_limit_ptr,
                         empty_write_buffer_frame>>
          /\ failed' \/ UNCHANGED failed
      BY <3>1 DEF FTL_READ, wbVars
    <3> QED BY <3>1, <3>2, <2>4
  <2>6. CASE DequeueWrite /\ ~e.valid
    BY <2>4, <2>6 DEF DequeueWrite, wbVars
  <2>7. CASE DequeueWrite /\ e.valid /\ FTL_WRITE(e)
    <3>1. e.io_type = "WRITE" /\ failed' = failed
      BY <2>7 DEF DequeueWrite, FTL_WRITE
    <3>2. ~failed => WOk' /\ empty_write_buffer_frame <= empty_write_buffer_frame'
      BY <2>1, <2>7, <3>1, RingWritten DEF WInv
    <3>3. WOk'
      BY <3>1, <3>2 DEF WOk
    <3> QED BY <2>3, <3>1, <3>2, <3>3, <1>3
  <2>8. CASE DequeueWrite /\ e.valid /\ FTL_WRITE_Fails(e)
    <3>1. failed'
      BY <2>8 DEF FTL_WRITE_Fails
    <3>2. WOk'
      BY <3>1 DEF WOk
    <3> QED BY <2>3, <3>1, <3>2, <1>3
  <2>9. DequeueWrite => ~e.valid \/ FTL_WRITE(e) \/ FTL_WRITE_Fails(e)
    BY DEF DequeueWrite
  <2> QED BY <1>5, <2>5, <2>6, <2>7, <2>8, <2>9
<1> QED BY <1>4, <1>5 DEF DEQUEUE_IO
-----------------------------------------------------------------------------
(***************************************************************************)
(* ENQUEUE_WRITE.                                                          *)
(***************************************************************************)
LEMMA WriteAccepts ==
  ASSUME IInv, NEW s, NEW n \in Nat \ {0}, n <= empty_write_buffer_frame
  PROVE  Accept(sata_write_ptr, empty_write_buffer_frame, wb_valid_array, e_queue, n,
                Overwritten(s, n), ArrivedOver(s, n), QueueOver(s, n))
<1> DEFINE q == e_queue
           r == QueueOver(s, n)
           O == Overwritten(s, n)
<1>1. q \in Seq(Entries) /\ r \in Seq(Entries) /\ Len(r) = Len(q) /\ Len(q) \in Nat
  BY OverMarked, LenProperties DEF IInv, Types
<1>2. O \in SUBSET Writes(q)
  BY DEF Overwritten, Pending, Writes
<1>3. \A i \in 1 .. Len(q) : /\ r[i].io_type = q[i].io_type /\ r[i].buf = q[i].buf
                             /\ r[i].length = q[i].length
                             /\ r[i].valid = (q[i].valid /\ i \notin O)
  BY OverIs
<1> HIDE DEF r, O
<1>4. Writes(r) = Writes(q) \ O
  BY <1>1, <1>3 DEF Writes
<1>5. \A i \in Writes(r) : r[i].buf = q[i].buf /\ r[i].length = q[i].length
  BY <1>1, <1>3 DEF Writes
<1>6. Release(q, r, O)
  BY <1>1, <1>2, <1>4, <1>5 DEF Release
<1>7. NewFrames(n) = NewAt(sata_write_ptr, n)
  BY DEF NewFrames, NewAt
<1>8. ArrivedOver(s, n) = LET arrived == Mark(wb_valid_array, NewAt(sata_write_ptr, n), "V")
                          IN  Mark(arrived, Owned(arrived, q, O), "I")
  BY <1>7 DEF ArrivedOver, Arrived, Owned, O
<1> QED BY <1>6, <1>8 DEF Accept, r, O

\* What an accepted write does to the queue and the ring: event t takes it in
\* and keeps some of the frames it had, if it was there already.
Taken(t, Kept) ==
  LET q == e_queue
      r == e_queue'
      p == write_limit_ptr
      V == Valid(wb_valid_array)
      W == Valid(wb_valid_array')
      n == req.length
  IN  /\ RingNow'
      /\ t \in Writes(r) /\ Part(p, W, r, t) = Kept \cup NewAt(sata_write_ptr, n)
      /\ Cardinality(Kept) \in Nat /\ r[t].length = Cardinality(Kept) + n
      /\ r[t].sector_nb + Cardinality(Kept) = req.sector_nb
      /\ \A i \in Writes(r) \ {t} :
           /\ i < t /\ i \in Writes(q) /\ Part(p, W, r, i) = Part(p, V, q, i)
           /\ r[i].buf = q[i].buf /\ r[i].sector_nb = q[i].sector_nb /\ r[i].length = q[i].length
      /\ \A i \in Writes(q) : i \in Writes(r) \/ i \in Overwritten(req.sector_nb, n)
      /\ \/ t \notin Writes(q) /\ Kept = {} /\ r[t].buf = sata_write_ptr
         \/ /\ t \in Writes(q) /\ r[t].buf = q[t].buf /\ r[t].sector_nb = q[t].sector_nb
            /\ Kept \in SUBSET Part(p, V, q, t)
            /\ \A g \in Kept, f \in Part(p, V, q, t) \ Kept : WDist(q[t].buf, g) < WDist(q[t].buf, f)
            /\ q[t].sector_nb + q[t].length <= req.sector_nb + n

\* A request that ENQUEUE_WRITE has room for.
Acceptable ==
  /\ req \in Asked /\ req.length <= empty_write_buffer_frame /\ RingNow

LEMMA TakenNew ==
  ASSUME IInv, Acceptable, NewWriteEvent
  PROVE  \E t, Kept : Taken(t, Kept)
<1> DEFINE s == req.sector_nb
           n == req.length
           q == e_queue
           qo == QueueOver(s, n)
           O == Overwritten(s, n)
           over == ArrivedOver(s, n)
           p == write_limit_ptr
           e == Entry("WRITE", s, n, sata_write_ptr, NoData)
           r == Append(qo, e)
           t == Len(qo) + 1
           New == NewAt(sata_write_ptr, n)
<1>1. s \in Nat /\ n \in Nat \ {0} /\ n <= empty_write_buffer_frame
  BY DEF Acceptable, Asked
<1>2. Accept(sata_write_ptr, empty_write_buffer_frame, wb_valid_array, q, n, O, over, qo)
  BY <1>1, WriteAccepts
<1>3. Ring(p, sata_write_ptr, empty_write_buffer_frame, wb_valid_array, q)
  BY DEF Acceptable, RingNow
<1>4. e \in Entries /\ e.io_type = "WRITE" /\ e.valid /\ e.buf = sata_write_ptr /\ e.length = n
      /\ e.sector_nb = s
  <2>1. sata_write_ptr \in Nat
    BY RingAssumption DEF IInv, Types, WFrame
  <2> QED BY <2>1, <1>1 DEF Entries, Entry
<1>5. /\ e_queue' = r /\ wb_valid_array' = over
      /\ sata_write_ptr' = WAfter(sata_write_ptr, n)
      /\ empty_write_buffer_frame' = empty_write_buffer_frame - n
      /\ write_limit_ptr' = write_limit_ptr
  BY DEF NewWriteEvent, AcceptWrite
<1>6. /\ qo \in Seq(Entries) /\ Len(qo) = Len(q) /\ Len(q) \in Nat /\ q \in Seq(Entries)
      /\ Writes(qo) = Writes(q) \ O /\ O \in SUBSET Writes(q)
  BY <1>2, OverMarked, LenProperties DEF IInv, Types, Accept, Release
<1>7. \A i \in 1 .. Len(q) : qo[i].buf = q[i].buf /\ qo[i].length = q[i].length
                             /\ qo[i].sector_nb = q[i].sector_nb
  BY OverIs
<1> HIDE DEF qo, O, over, e, New
<1>8. /\ Ring(p, WAfter(sata_write_ptr, n), empty_write_buffer_frame - n, over, r)
      /\ t \in Writes(r) /\ Part(p, Valid(over), r, t) = New
      /\ SameParts(p, Valid(wb_valid_array), q, p, Valid(over), r, Writes(qo))
  <2>1. New = NewAt(sata_write_ptr, n)
    BY DEF New
  <2> HIDE DEF n, q, p
  <2> QED BY <1>2, <1>3, <1>4, <2>1, RingAppended
<1>9. /\ Len(r) = Len(q) + 1 /\ t = Len(q) + 1 /\ r[t] = e
      /\ \A i \in 1 .. Len(q) : r[i] = qo[i]
  BY <1>4, <1>6, AppendProperties
<1> HIDE DEF r
<1>10. ASSUME NEW i \in Writes(r), i # t
       PROVE  i \in Writes(qo) /\ i \in Writes(q) /\ i \in 1 .. Len(q)
  <2>1. i \in 1 .. Len(q)
    BY <1>6, <1>9, <1>10 DEF Writes
  <2>2. i \in Writes(qo)
    BY <2>1, <1>6, <1>9 DEF Writes
  <2> QED BY <2>1, <2>2, <1>6
<1>11. \A i \in Writes(q) : i \in Writes(r) \/ i \in O
  <2> TAKE i \in Writes(q)
  <2>1. i \in 1 .. Len(q)
    BY DEF Writes
  <2>2. i \in Writes(qo) \/ i \in O
    BY <1>6
  <2> QED BY <2>1, <2>2, <1>6, <1>9 DEF Writes
<1>12. RingNow'
  BY <1>5, <1>8 DEF RingNow
<1>13. Cardinality({}) = 0 /\ Cardinality({}) \in Nat
  BY FS_EmptySet
<1>14. t \notin Writes(q)
  BY <1>6, <1>9 DEF Writes
<1>15. \A i \in Writes(r) \ {t} :
         /\ i < t /\ i \in Writes(q) /\ Part(p, Valid(over), r, i) = Part(p, Valid(wb_valid_array), q, i)
         /\ r[i].buf = q[i].buf /\ r[i].sector_nb = q[i].sector_nb /\ r[i].length = q[i].length
  <2> TAKE i \in Writes(r) \ {t}
  <2>1. i \in Writes(qo) /\ i \in Writes(q) /\ i \in 1 .. Len(q)
    BY <1>10
  <2>2. r[i] = qo[i]
    BY <2>1, <1>9
  <2>3. Part(p, Valid(over), r, i) = Part(p, Valid(wb_valid_array), q, i)
    BY <2>1, <1>8 DEF SameParts
  <2>4. i < t
    BY <2>1, <1>6, <1>9
  <2> QED BY <2>1, <2>2, <2>3, <2>4, <1>7
<1>16. /\ r[t].length = Cardinality({}) + n /\ r[t].sector_nb + Cardinality({}) = s
       /\ r[t].buf = sata_write_ptr /\ Part(p, Valid(over), r, t) = {} \cup New
  BY <1>1, <1>4, <1>8, <1>9, <1>13
<1>17. Taken(t, {})
  BY <1>5, <1>8, <1>11, <1>12, <1>13, <1>14, <1>15, <1>16 DEF Taken, O, New
<1> QED BY <1>17

\* The last event takes the request in.
LEMMA TakenMerged ==
  ASSUME IInv, Acceptable,
         NEW qo, qo = QueueOver(req.sector_nb, req.length), NEW t \in Writes(qo), t = Len(qo),
         NEW P, P = Part(write_limit_ptr, Valid(wb_valid_array), e_queue, t),
         NEW Kept \in SUBSET P,
         \A g \in Kept, f \in P \ Kept : WDist(e_queue[t].buf, g) < WDist(e_queue[t].buf, f),
         Cardinality(Kept) \in Nat, qo[t].sector_nb + Cardinality(Kept) = req.sector_nb,
         qo[t].sector_nb + qo[t].length <= req.sector_nb + req.length,
         AcceptWrite(Mark(ArrivedOver(req.sector_nb, req.length), P \ Kept, "I"),
                     [qo EXCEPT ![t].length = Cardinality(Kept) + req.length])
  PROVE  Taken(t, Kept)
<1> DEFINE s == req.sector_nb
           n == req.length
           q == e_queue
           O == Overwritten(s, n)
           over == ArrivedOver(s, n)
           p == write_limit_ptr
           length == Cardinality(Kept) + n
           r == [qo EXCEPT ![t].length = length]
           cut == Mark(over, P \ Kept, "I")
           New == NewAt(sata_write_ptr, n)
<1>1. s \in Nat /\ n \in Nat \ {0} /\ n <= empty_write_buffer_frame /\ length \in Nat \ {0}
  BY DEF Acceptable, Asked
<1>2. Accept(sata_write_ptr, empty_write_buffer_frame, wb_valid_array, q, n, O, over, qo)
  BY <1>1, WriteAccepts
<1>3. Ring(p, sata_write_ptr, empty_write_buffer_frame, wb_valid_array, q)
  BY DEF Acceptable, RingNow
<1>4. /\ e_queue' = r /\ wb_valid_array' = cut
      /\ sata_write_ptr' = WAfter(sata_write_ptr, n)
      /\ empty_write_buffer_frame' = empty_write_buffer_frame - n
      /\ write_limit_ptr' = write_limit_ptr
  BY DEF AcceptWrite
<1>5. /\ qo \in Seq(Entries) /\ Len(qo) = Len(q) /\ Len(q) \in Nat /\ q \in Seq(Entries)
      /\ Writes(qo) = Writes(q) \ O /\ O \in SUBSET Writes(q) /\ t \in 1 .. Len(q)
  <2>1. qo \in Seq(Entries) /\ Len(qo) = Len(q) /\ Len(q) \in Nat /\ q \in Seq(Entries)
    BY OverMarked, LenProperties DEF IInv, Types
  <2>2. Writes(qo) = Writes(q) \ O /\ O \in SUBSET Writes(q)
    BY <1>2 DEF Accept, Release
  <2>3. t \in 1 .. Len(q)
    BY <2>1, WritesInt
  <2> QED BY <2>1, <2>2, <2>3
<1>6. \A i \in 1 .. Len(q) : qo[i].buf = q[i].buf /\ qo[i].length = q[i].length
                             /\ qo[i].sector_nb = q[i].sector_nb
  BY OverIs
<1>7. Extension(qo, r, t, n, Kept)
  BY <1>1, <1>5, LengthChanged
<1>8. /\ Ring(p, WAfter(sata_write_ptr, n), empty_write_buffer_frame - n, cut, r)
      /\ Part(p, Valid(cut), r, t) = Kept \cup New
      /\ SameParts(p, Valid(wb_valid_array), q, p, Valid(cut), r, Writes(qo) \ {t})
  <2>1. Merging(p, sata_write_ptr, empty_write_buffer_frame, wb_valid_array, q, n, O, over, qo, r,
                t, P, Kept, cut, New)
    BY <1>2, <1>3, <1>7 DEF Merging
  <2> HIDE DEF n, q, p, r, cut, over, O, New
  <2>2. Merged(p, sata_write_ptr, empty_write_buffer_frame, wb_valid_array, q, n, qo, r, t, Kept,
               cut, New)
    BY <2>1, RingExtended, Zenon
  <2> QED BY <2>2 DEF Merged
<1>9. \A i \in 1 .. Len(q) : r[i].sector_nb = qo[i].sector_nb
  <2>1. DOMAIN qo = 1 .. Len(q)
    BY <1>5, LenProperties
  <2>2. qo[t] \in Entries
    BY <1>5, ElementOfSeq
  <2>3. \A i \in 1 .. Len(q) : r[i] = IF i = t THEN [qo[t] EXCEPT !.length = length] ELSE qo[i]
    BY <2>1, <1>5
  <2>4. [qo[t] EXCEPT !.length = length].sector_nb = qo[t].sector_nb
    BY <2>2 DEF Entries
  <2> QED BY <2>3, <2>4, Zenon
<1> HIDE DEF r, O, over, cut, New
<1>10. /\ Writes(r) = Writes(qo) /\ \A i \in Writes(qo) : r[i].buf = qo[i].buf
       /\ \A i \in Writes(qo) : i # t => r[i].length = qo[i].length
       /\ r[t].length = length
  BY <1>7 DEF Extension
<1>11. RingNow'
  BY <1>4, <1>8 DEF RingNow
<1>12. \A i \in Writes(q) : i \in Writes(r) \/ i \in O
  BY <1>5, <1>10
<1>13. \A i \in Writes(r) \ {t} :
         /\ i < t /\ i \in Writes(q) /\ Part(p, Valid(cut), r, i) = Part(p, Valid(wb_valid_array), q, i)
         /\ r[i].buf = q[i].buf /\ r[i].sector_nb = q[i].sector_nb /\ r[i].length = q[i].length
  <2> TAKE i \in Writes(r) \ {t}
  <2>1. i \in Writes(qo) \ {t} /\ i \in Writes(q) /\ i \in 1 .. Len(q)
    BY <1>5, <1>10 DEF Writes
  <2>2. Part(p, Valid(cut), r, i) = Part(p, Valid(wb_valid_array), q, i)
    BY <2>1, <1>8 DEF SameParts
  <2>3. i < t
    BY <2>1, <1>5
  <2> QED BY <2>1, <2>2, <2>3, <1>6, <1>9, <1>10
<1>14. /\ t \in Writes(q) /\ t \in Writes(r) /\ r[t].buf = q[t].buf /\ r[t].sector_nb = q[t].sector_nb
       /\ q[t].sector_nb + q[t].length <= s + n /\ r[t].sector_nb + Cardinality(Kept) = s
  BY <1>5, <1>6, <1>9, <1>10
<1> QED BY <1>4, <1>8, <1>10, <1>11, <1>12, <1>13, <1>14 DEF Taken, O, New

LEMMA TakenSequential ==
  ASSUME IInv, Acceptable, MergeSequential
  PROVE  \E t, Kept : Taken(t, Kept)
<1> DEFINE s == req.sector_nb
           n == req.length
           q == e_queue
           qo == QueueOver(s, n)
           over == ArrivedOver(s, n)
           p == write_limit_ptr
           t == Len(q)
           P == Part(p, Valid(wb_valid_array), q, t)
<1>1. s \in Nat /\ n \in Nat \ {0} /\ n <= empty_write_buffer_frame
  BY DEF Acceptable, Asked
<1>2. Accept(sata_write_ptr, empty_write_buffer_frame, wb_valid_array, q, n, Overwritten(s, n), over, qo)
  BY <1>1, WriteAccepts
<1>3. /\ q # <<>> /\ qo[t].io_type = "WRITE" /\ qo[t].valid /\ qo[t].sector_nb + qo[t].length = s
      /\ AcceptWrite(over, [qo EXCEPT ![t].length = @ + n])
  BY DEF MergeSequential, Continues, CHECK_SEQUENTIALITY
<1>4. /\ qo \in Seq(Entries) /\ Len(qo) = Len(q) /\ Len(q) \in Nat \ {0} /\ q \in Seq(Entries)
      /\ Writes(qo) = Writes(q) \ Overwritten(s, n)
  <2>1. qo \in Seq(Entries) /\ Len(qo) = Len(q) /\ Len(q) \in Nat \ {0} /\ q \in Seq(Entries)
    BY <1>3, OverMarked, EmptySeq DEF IInv, Types
  <2>2. Writes(qo) = Writes(q) \ Overwritten(s, n)
    BY <1>2 DEF Accept, Release
  <2> QED BY <2>1, <2>2
<1>5. t \in Writes(qo) /\ t \in Writes(q) /\ t \in 1 .. Len(q) /\ qo[t] \in Entries
  <2>1. t \in 1 .. Len(q)
    BY <1>4
  <2>2. t \in Writes(qo)
    BY <2>1, <1>3, <1>4 DEF Writes
  <2>3. qo[t] \in Entries
    BY <2>1, <1>4, ElementOfSeq
  <2> QED BY <2>1, <2>2, <2>3, <1>4
<1>6. qo[t].length = q[t].length /\ qo[t].length \in Nat /\ qo[t].sector_nb \in Nat
  BY <1>5, OverIs DEF Entries
<1>7. Cardinality(P) = q[t].length
  BY <1>4, <1>5, PartCount DEF Acceptable, RingNow
<1>8. Mark(over, P \ P, "I") = over
  <2>1. PICK x, y : over = Mark(x, y, "I")
    BY DEF ArrivedOver
  <2> HIDE DEF over
  <2> QED BY <2>1 DEF Mark
<1> HIDE DEF qo, over, P, s, n
<1>9. [qo EXCEPT ![t].length = @ + n] = [qo EXCEPT ![t].length = Cardinality(P) + n]
  BY <1>6, <1>7
<1>10. Taken(t, P)
  <2>1. AcceptWrite(Mark(over, P \ P, "I"), [qo EXCEPT ![t].length = Cardinality(P) + n])
    BY <1>3, <1>8, <1>9
  <2>2. /\ Cardinality(P) \in Nat /\ qo[t].sector_nb + Cardinality(P) = s
        /\ qo[t].sector_nb + qo[t].length <= s + n
    BY <1>1, <1>3, <1>6, <1>7
  <2>3. /\ P \in SUBSET P
        /\ \A g \in P, f \in P \ P : WDist(e_queue[t].buf, g) < WDist(e_queue[t].buf, f)
    OBVIOUS
  <2>4. P = Part(write_limit_ptr, Valid(wb_valid_array), e_queue, t) /\ t = Len(qo)
        /\ qo = QueueOver(req.sector_nb, req.length)
    BY <1>4 DEF P, qo, s, n
  <2> QED BY <1>5, <2>1, <2>2, <2>3, <2>4, TakenMerged DEF over, s, n
<1> QED BY <1>10

LEMMA TakenOverlap ==
  ASSUME IInv, Acceptable, MergeOverlap
  PROVE  \E t, Kept : Taken(t, Kept)
<1> DEFINE s == req.sector_nb
           n == req.length
           q == e_queue
           qo == QueueOver(s, n)
           over == ArrivedOver(s, n)
           p == write_limit_ptr
           t == Len(q)
           P == Part(p, Valid(wb_valid_array), q, t)
           k == qo[t].sector_nb + qo[t].length - s
           m == qo[t].length - k
           X == NotInvalid(over)
           Kept == FirstN(qo[t].buf, m, X)
<1>1. s \in Nat /\ n \in Nat \ {0} /\ n <= empty_write_buffer_frame
  BY DEF Acceptable, Asked
<1>2. Accept(sata_write_ptr, empty_write_buffer_frame, wb_valid_array, q, n, Overwritten(s, n), over, qo)
  BY <1>1, WriteAccepts
<1>3. /\ q # <<>> /\ qo[t].io_type = "WRITE" /\ qo[t].valid
      /\ qo[t].sector_nb < s /\ s < qo[t].sector_nb + qo[t].length - 1
      /\ qo[t].sector_nb + qo[t].length - 1 < s + n - 1
      /\ AcceptWrite(Mark(over, RearFrames(over, qo[t], k), "I"), [qo EXCEPT ![t].length = @ + n - k])
  BY DEF MergeOverlap, Overlaps, CHECK_IO_DEPENDENCY_FOR_WRITE
<1>4. /\ qo \in Seq(Entries) /\ Len(qo) = Len(q) /\ Len(q) \in Nat \ {0} /\ q \in Seq(Entries)
      /\ Writes(qo) = Writes(q) \ Overwritten(s, n)
  <2>1. qo \in Seq(Entries) /\ Len(qo) = Len(q) /\ Len(q) \in Nat \ {0} /\ q \in Seq(Entries)
    BY <1>3, OverMarked, EmptySeq DEF IInv, Types
  <2>2. Writes(qo) = Writes(q) \ Overwritten(s, n)
    BY <1>2 DEF Accept, Release
  <2> QED BY <2>1, <2>2
<1>5. t \in Writes(qo) /\ t \in Writes(q) /\ t \in 1 .. Len(q) /\ qo[t] \in Entries
  <2>1. t \in 1 .. Len(q)
    BY <1>4
  <2>2. t \in Writes(qo)
    BY <2>1, <1>3, <1>4 DEF Writes
  <2>3. qo[t] \in Entries
    BY <2>1, <1>4, ElementOfSeq
  <2> QED BY <2>1, <2>2, <2>3, <1>4
<1>6. /\ qo[t].length = q[t].length /\ qo[t].length \in Nat /\ qo[t].sector_nb \in Nat
      /\ qo[t].buf = q[t].buf
  BY <1>5, OverIs DEF Entries
<1>7. m \in Nat /\ m <= qo[t].length /\ qo[t].sector_nb + m = s
      /\ qo[t].sector_nb + qo[t].length <= s + n /\ qo[t].length + n - k = m + n
  <2> DEFINE a == qo[t].sector_nb
             b == qo[t].length
  <2>1. /\ a \in Nat /\ b \in Nat /\ s \in Nat /\ n \in Nat
        /\ a < s /\ s < a + b - 1 /\ a + b - 1 < s + n - 1
    BY <1>1, <1>3, <1>6
  <2> HIDE DEF a, b, s, n
  <2>2. /\ b - (a + b - s) \in Nat /\ b - (a + b - s) <= b /\ a + (b - (a + b - s)) = s
        /\ a + b <= s + n /\ b + n - (a + b - s) = b - (a + b - s) + n
    BY <2>1
  <2> QED BY <2>2 DEF a, b
<1>8. Ring(p, sata_write_ptr, empty_write_buffer_frame, wb_valid_array, q)
  BY DEF Acceptable, RingNow
<1>9. RearFrames(over, qo[t], k) = FirstN(qo[t].buf, qo[t].length, X) \ Kept
  BY DEF RearFrames
<1> HIDE DEF qo, over, P, s, n, p, k, m
<1>10. /\ FirstN(qo[t].buf, qo[t].length, X) = P /\ Kept \in SUBSET P /\ Cardinality(Kept) = m
  BY <1>2, <1>5, <1>7, <1>8, RearCut DEF P
<1>11. \A g \in Kept, f \in P \ Kept : WDist(q[t].buf, g) < WDist(q[t].buf, f)
  <2>1. X \in SUBSET WFrame
    BY DEF NotInvalid
  <2>2. P \in SUBSET X
    BY <1>10 DEF FirstN
  <2>3. q[t].buf \in WFrame
    BY <1>5, <1>8 DEF Ring, Tiled
  <2> SUFFICES ASSUME NEW g \in Kept, NEW f \in P \ Kept
               PROVE  WDist(q[t].buf, g) < WDist(q[t].buf, f)
    BY Zenon
  <2>4. f \in X \ FirstN(q[t].buf, m, X) /\ g \in FirstN(q[t].buf, m, X)
    BY <2>2, <1>6
  <2> HIDE DEF X
  <2> QED BY <2>1, <2>3, <2>4, <1>7, FirstBefore
<1> HIDE DEF Kept, X
<1>12. [qo EXCEPT ![t].length = @ + n - k] = [qo EXCEPT ![t].length = Cardinality(Kept) + n]
  BY <1>7, <1>10
<1>13. Taken(t, Kept)
  <2>1. AcceptWrite(Mark(over, P \ Kept, "I"), [qo EXCEPT ![t].length = Cardinality(Kept) + n])
    BY <1>3, <1>9, <1>10, <1>12
  <2>2. /\ Cardinality(Kept) \in Nat /\ qo[t].sector_nb + Cardinality(Kept) = s
        /\ qo[t].sector_nb + qo[t].length <= s + n
    BY <1>7, <1>10
  <2>3. P = Part(write_limit_ptr, Valid(wb_valid_array), e_queue, t) /\ t = Len(qo)
        /\ qo = QueueOver(req.sector_nb, req.length)
    BY <1>4 DEF P, qo, s, n, p
  <2> QED BY <1>5, <1>10, <1>11, <2>1, <2>2, <2>3, TakenMerged DEF over, s, n
<1> QED BY <1>13

LEMMA WriteTaken ==
  ASSUME IInv, Acceptable, ENQUEUE_WRITE
  PROVE  \E t, Kept : Taken(t, Kept)
  BY TakenNew, TakenSequential, TakenOverlap DEF ENQUEUE_WRITE

LEMMA WWrite ==
  ASSUME IInv, WInv, ENQUEUE_WRITE
  PROVE  WInv'
<1>1. /\ host = "enqueue" /\ req.io_type = "WRITE" /\ ~ThreadHolds /\ Enqueued
      /\ UNCHANGED <<ftl_write_ptr, write_limit_ptr, thread, failed>> /\ req' = NoReq
  BY DEF ENQUEUE_WRITE, MergeSequential, MergeOverlap, NewWriteEvent, AcceptWrite
<1>2. WFlushed' /\ WFits' /\ WRoom'
  BY <1>1 DEF Enqueued, ThreadHolds, WFlushed, WFits, WRoom, NoReq
<1>3. WOk'
  <2> SUFFICES ASSUME ~failed PROVE ftl_write_ptr' = write_limit_ptr' /\ RingNow'
    BY <1>1 DEF WOk
  <2>1. Acceptable
    BY <1>1 DEF Acceptable, IInv, Types, WInv, WRoom, WOk
  <2>2. RingNow'
    BY <2>1, WriteTaken DEF Taken
  <2> QED BY <2>2, <1>1 DEF WInv, WOk
<1> QED BY <1>2, <1>3 DEF WInv
-----------------------------------------------------------------------------
(***************************************************************************)
(* ENQUEUE_READ.                                                           *)
(***************************************************************************)
\* The new read goes before the writes.
LEMMA InsertShifts ==
  ASSUME IInv, NEW e \in Entries, e.io_type = "READ",
         NEW r, r = Insert(e_queue, last_read_entry, e)
  PROVE  Moved(e_queue, r, 1)
<1>1. /\ e_queue \in Seq(Entries) /\ last_read_entry \in 0 .. Len(e_queue)
      /\ \A i \in 1 .. Len(e_queue) : e_queue[i].io_type = "READ" <=> i <= last_read_entry
  BY DEF IInv, Types, QueueOrder
<1>2. /\ r \in Seq(Entries) /\ Len(r) = Len(e_queue) + 1
      /\ \A i \in 1 .. Len(e_queue) + 1 :
           r[i] = IF i <= last_read_entry THEN e_queue[i]
                  ELSE IF i = last_read_entry + 1 THEN e ELSE e_queue[i - 1]
  BY <1>1, InsertIs
<1> QED BY <1>1, <1>2, ReadComes

LEMMA WRead ==
  ASSUME IInv, WInv, EnqueueRead \/ FlushForRead \/ CopyForRead \/ FlushedForRead
  PROVE  WInv'
<1>1. /\ host \in {"enqueue", "flush"} /\ req \in Asked /\ ftl_read_ptr \in Nat
      /\ thread' = thread /\ thread # "secure_w"
  <2>1. host \in {"enqueue", "flush"} /\ thread' = thread
    BY DEF EnqueueRead, FlushForRead, CopyForRead, FlushedForRead, InsertRead
  <2>2. req \in Asked /\ ftl_read_ptr \in Nat /\ thread # "secure_w"
    BY <2>1, BufferAssumption DEF IInv, Types, RFrame, Control
  <2> QED BY <2>1, <2>2
<1>2. CASE FlushForRead
  <2>1. /\ host' = "flush"
        /\ UNCHANGED <<e_queue, wb_valid_array, ftl_write_ptr, sata_write_ptr,
                       write_limit_ptr, empty_write_buffer_frame, failed>>
    BY <1>2 DEF FlushForRead, queues, wbVars, ghosts
  <2>2. WOk'
    BY <2>1, FramesStay DEF WInv
  <2> QED BY <2>1, <2>2, <1>1 DEF WInv, WFlushed, WFits, WRoom
<1>3. ASSUME NEW buf \in Nat \cup {NULL}, InsertRead(buf)
      PROVE  WInv'
  <2>1. /\ e_queue' = Insert(e_queue, last_read_entry, NewRead(buf)) /\ req' = NoReq /\ Enqueued
        /\ UNCHANGED <<wb_valid_array, ftl_write_ptr, sata_write_ptr,
                       write_limit_ptr, empty_write_buffer_frame, failed>>
    BY <1>3 DEF InsertRead, ghosts, NewRead
  <2>2. Shift(e_queue, e_queue', 1)
    BY <2>1, <1>1, NewReadIs, InsertShifts DEF Moved
  <2>3. ~failed => RingNow'
    BY <2>1, <2>2, RingShifted DEF WInv, WOk, RingNow
  <2>4. WOk'
    BY <2>1, <2>3 DEF WInv, WOk
  <2> QED BY <2>1, <2>4, <1>1 DEF WInv, WFlushed, WFits, WRoom, Enqueued, NoReq
<1> QED BY <1>1, <1>2, <1>3 DEF EnqueueRead, CopyForRead, FlushedForRead
-----------------------------------------------------------------------------
LEMMA WPreserved == IInv /\ WInv /\ [Next]_vars => WInv'
<1> SUFFICES ASSUME IInv, WInv, [Next]_vars
             PROVE  WInv'
  OBVIOUS
<1>1. CASE Request
  BY <1>1, WRequest
<1>2. CASE HostStep
  BY <1>2, WHost, WWrite, WRead DEF HostStep
<1>3. CASE ThreadStep \/ SpuriousWakeup
  BY <1>3, WThread
<1>4. CASE DEQUEUE_IO
  BY <1>4, WDequeue
<1>5. CASE UNCHANGED vars
  <2>1. /\ UNCHANGED <<e_queue, wb_valid_array, ftl_write_ptr, sata_write_ptr,
                       write_limit_ptr, empty_write_buffer_frame, failed>>
        /\ UNCHANGED <<host, req, thread, moving, todo, w_queue_full>>
    BY <1>5 DEF vars, queues, wbVars, flags, flushing, ghosts
  <2>2. WOk'
    BY <2>1, FramesStay DEF WInv
  <2> QED BY <2>1, <2>2 DEF WInv, WFlushed, WFits, WRoom, Held, NoEntry, Entry
<1>6. CASE Ended
  BY <1>5, <1>6 DEF Ended
<1> QED BY <1>1, <1>2, <1>3, <1>4, <1>5, <1>6 DEF Next, Step

\* The inductive invariant of the write buffer: while no call of the FTL has
\* failed, the frames lie behind one another as the writes do in the queue.
THEOREM WriteRing == Spec => []WInv
<1> QED BY Invariance, WInitially, WPreserved, PTL DEF Spec

\* The frames marked 'V' are those of the valid writes of the event queue, as
\* many for each as it is long and in the order of the queue, and
\* empty_write_buffer_frame is the number of frames marked '0': ENQUEUE_WRITE
\* with its merges and overwrites, and FTL_WRITE, keep ring and queue together.
THEOREM FramesMatchQueue == Spec => []WriteFrames
<1>1. IInv /\ WInv => WriteFrames
  <2> SUFFICES ASSUME IInv, WInv, ~failed
               PROVE  /\ empty_write_buffer_frame = Cardinality({f \in WFrame : wb_valid_array[f] = "0"})
                      /\ Valid(wb_valid_array) = UNION {FramesOf(i) : i \in ValidWrites}
                      /\ \A i \in ValidWrites : Cardinality(FramesOf(i)) = e_queue[i].length
                      /\ \A i, j \in ValidWrites : i < j =>
                           \A f \in FramesOf(i), g \in FramesOf(j) :
                             WDist(ftl_write_ptr, f) < WDist(ftl_write_ptr, g)
    BY DEF WriteFrames
  <2> DEFINE p == write_limit_ptr
             V == Valid(wb_valid_array)
             q == e_queue
  <2>1. q \in Seq(Entries) /\ ftl_write_ptr = p
        /\ Ring(p, sata_write_ptr, empty_write_buffer_frame, wb_valid_array, q)
    BY DEF IInv, Types, WInv, WOk, RingNow
  <2>2. /\ empty_write_buffer_frame = Cardinality({f \in WFrame : wb_valid_array[f] = "0"})
        /\ \A i \in Writes(q) :
             /\ FirstN(q[i].buf, q[i].length, V) = Part(p, V, q, i)
             /\ Cardinality(Part(p, V, q, i)) = q[i].length
        /\ \A f \in V : \E i \in Writes(q) : f \in Part(p, V, q, i)
        /\ \A i, j \in Writes(q) : i < j =>
             \A f \in Part(p, V, q, i), g \in Part(p, V, q, j) : WDist(p, f) < WDist(p, g)
    <3> HIDE DEF p, q
    <3> QED BY <2>1, RingFrames
  <2>3. \A i \in ValidWrites : FramesOf(i) = Part(p, V, q, i)
    BY <2>2 DEF ValidWrites, FramesOf
  <2>4. \A i : Part(p, V, q, i) \in SUBSET V
    BY DEF Part
  <2> HIDE DEF p, V, q
  <2>5. V = UNION {FramesOf(i) : i \in ValidWrites}
    <3>1. ASSUME NEW f \in V
          PROVE  \E i \in ValidWrites : f \in FramesOf(i)
      BY <2>2, <2>3 DEF ValidWrites, q
    <3>2. ASSUME NEW i \in ValidWrites, NEW f \in FramesOf(i)
          PROVE  f \in V
      BY <2>3, <2>4
    <3> QED BY <3>1, <3>2
  <2>6. \A i \in ValidWrites : Cardinality(FramesOf(i)) = e_queue[i].length
    BY <2>2, <2>3 DEF ValidWrites, q
  <2>7. \A i, j \in ValidWrites : i < j =>
          \A f \in FramesOf(i), g \in FramesOf(j) : WDist(ftl_write_ptr, f) < WDist(ftl_write_ptr, g)
    BY <2>1, <2>2, <2>3 DEF ValidWrites, q
  <2> QED BY <2>2, <2>5, <2>6, <2>7 DEF V
<1> QED BY <1>1, Invariance, WriteRing, PTL

\* When ENQUEUE_WRITE runs, the frames it takes are free, for every size of
\* the write buffer and unless a write of the FTL has failed: nobody but the
\* host takes frames after EVENT_QUEUE_IS_FULL has read the counter, and
\* SECURE_WRITE_BUFFER frees all of them.
THEOREM WriteRoom == Spec => [](req.io_type # "READ" => RoomAtEnqueue)
<1>1. IInv /\ WInv => (req.io_type # "READ" => RoomAtEnqueue)
  BY DEF IInv, Types, Asked, WInv, WRoom, RoomAtEnqueue
<1> QED BY <1>1, Invariance, WriteRing, PTL
-----------------------------------------------------------------------------
(***************************************************************************)
(* Contents.                                                               *)
(***************************************************************************)
DataNow ==
  DataOk(write_limit_ptr, Valid(wb_valid_array), e_queue, write_buffer, watch, disk, latest)

\* WRITE_DATA_TO_BUFFER.
DataArrives ==
  /\ UNCHANGED <<watch, disk, write_limit_ptr>>
  /\ \A f \in Valid(wb_valid_array) : write_buffer'[f] = write_buffer[f]
  /\ Holds(req, watch) => write_buffer'[WAfter(sata_write_ptr, watch - req.sector_nb)] = req.data
  /\ latest' = IF Holds(req, watch) THEN req.data ELSE latest

LEMMA DataTaken ==
  ASSUME IInv, IInv', Acceptable, DataArrives, NEW t, NEW Kept, Taken(t, Kept), DataNow, watch \in Nat
  PROVE  DataNow'
<1> DEFINE q == e_queue
           p == write_limit_ptr
           V == Valid(wb_valid_array)
           n == req.length
           s == req.sector_nb
           has == Holds(req, watch)
<1>1. PICK r, array, sata, empty, after, last :
        /\ r = e_queue' /\ array = wb_valid_array' /\ sata = sata_write_ptr'
        /\ empty = empty_write_buffer_frame' /\ after = write_buffer' /\ last = latest'
  OBVIOUS
<1>2. /\ q \in Seq(Entries) /\ r \in Seq(Entries) /\ watch \in Nat /\ s \in Nat /\ n \in Nat \ {0}
      /\ n <= empty_write_buffer_frame
  BY <1>1 DEF IInv, Types, Acceptable, Asked
<1>3. watch' = watch /\ disk' = disk /\ write_limit_ptr' = p
  BY DEF DataArrives
<1>4. /\ Ring(p, sata_write_ptr, empty_write_buffer_frame, wb_valid_array, q)
      /\ Ring(p, sata, empty, array, r)
  BY <1>1, <1>3 DEF Acceptable, Taken, RingNow
<1>5. Takes(p, V, q, Valid(array), r, sata_write_ptr, n, s, t, Kept)
  <2>1. \A i \in Overwritten(s, n) : s <= q[i].sector_nb /\ s + n >= q[i].sector_nb + q[i].length
    BY DEF Overwritten
  <2> QED BY <1>1, <2>1 DEF Taken, Takes
<1>6. /\ \A f \in V : after[f] = write_buffer[f]
      /\ has => last = after[WAfter(sata_write_ptr, watch - s)]
      /\ ~has => last = latest
      /\ has <=> s <= watch /\ watch < s + n
  BY <1>1 DEF DataArrives, Holds
<1>7. DataOk(p, V, q, write_buffer, watch, disk, latest)
  BY DEF DataNow
<1>8. Arriving(p, sata_write_ptr, empty_write_buffer_frame, wb_valid_array, q, array, r, n, s, t, Kept,
               write_buffer, after, watch, latest, last)
  <2> HIDE DEF q, p, n, s, has
  <2> QED BY <1>2, <1>4, <1>5, <1>6 DEF Arriving
<1> HIDE DEF q, p, n, s, has
<1>9. DataOk(p, Valid(array), r, after, watch, disk, last)
  BY <1>7, <1>8, DataArrived
<1> QED BY <1>1, <1>3, <1>9 DEF DataNow, p
-----------------------------------------------------------------------------
(***************************************************************************)
(* No step loses the newest contents of the watched sector.                *)
(***************************************************************************)
DInv == watch \in Nat /\ (~failed => DataNow)

LEMMA DInitially == Init => DInv
<1> SUFFICES ASSUME Init PROVE DInv
  OBVIOUS
<1>1. watch \in Nat
  <2>1. PICK q \in Requests : watch \in q.sector_nb .. q.sector_nb + q.length - 1
    BY DEF Init, Sectors
  <2>2. q.sector_nb \in Nat /\ q.length \in Nat
    <3>1. \/ q \in [io_type : {"WRITE"}, sector_nb : Nat, length : 1 .. WRITE_BUFFER_FRAME_NB]
          \/ q \in [io_type : {"READ"}, sector_nb : Nat, length : 1 .. READ_BUFFER_FRAME_NB]
      BY BufferAssumption
    <3> QED BY <3>1, BufferAssumption, RingAssumption
  <2> QED BY <2>1, <2>2
<1>2. \A i : i \notin Writes(e_queue)
  BY DEF Init, Writes
<1>3. latest = disk
  BY DEF Init
<1> QED BY <1>1, <1>2, <1>3 DEF DInv, DataNow, DataOk

LEMMA DataStays ==
  ASSUME DInv, UNCHANGED <<e_queue, wb_valid_array, write_limit_ptr, write_buffer, watch, disk, latest>>,
         failed' \/ UNCHANGED failed
  PROVE  DInv'
  BY DEF DInv, DataNow

\* The steps that touch neither the queue nor the write buffer.
LEMMA DControl ==
  ASSUME DInv,
         \/ Request \/ ThreadStep \/ SpuriousWakeup \/ AppendCompleted \/ FlushForRead
         \/ HostSecured \/ SpinSignals \/ SpinEnds \/ HostSignals \/ Terminated
  PROVE  DInv'
<1>1. UNCHANGED <<e_queue, wb_valid_array, write_limit_ptr, write_buffer, watch, disk, latest, failed>>
  <2>1. CASE Request
    BY <2>1 DEF Request, SSD_WRITE, SSD_READ, Call, TERM_IO_BUFFER, queues, wbVars, ghosts
  <2>2. CASE ThreadStep \/ SpuriousWakeup
    BY <2>2 DEF ThreadStep, ThreadDequeues, ThreadWorked, ThreadSecures, ThreadSecured, Secured,
                ThreadFindsNothing, ThreadWaits, SpuriousWakeup, queues, wbVars, ghosts
  <2>3. CASE AppendCompleted \/ FlushForRead
    BY <2>3 DEF AppendCompleted, FlushForRead, queues, wbVars, ghosts
  <2>4. CASE HostSecured \/ SpinSignals \/ SpinEnds \/ HostSignals \/ Terminated
    BY <2>4 DEF HostSecured, Secured, SpinSignals, SpinEnds, HostSignals, Terminated, queues, wbVars,
                ghosts
  <2> QED BY <2>1, <2>2, <2>3, <2>4
<1> QED BY <1>1, DataStays

\* The writes move in the queue.
LEMMA DMoved ==
  ASSUME WInv, DInv, NEW d, Moved(e_queue, e_queue', d), failed' \/ UNCHANGED failed,
         UNCHANGED <<wb_valid_array, write_limit_ptr, watch, disk, latest>>,
         \A f \in Valid(wb_valid_array) : write_buffer'[f] = write_buffer[f]
  PROVE  DInv'
<1> SUFFICES ASSUME ~failed PROVE DataNow'
  BY DEF DInv
<1>1. /\ Ring(write_limit_ptr, sata_write_ptr, empty_write_buffer_frame, wb_valid_array, e_queue)
      /\ DataNow /\ watch \in Nat
  BY DEF WInv, WOk, RingNow, DInv
<1> DEFINE V == Valid(wb_valid_array)
           r == e_queue'
           cells == write_buffer
           after == write_buffer'
<1>2. /\ V = Valid(wb_valid_array) /\ Moved(e_queue, r, d) /\ \A f \in V : after[f] = cells[f]
      /\ DataOk(write_limit_ptr, V, e_queue, cells, watch, disk, latest)
  BY <1>1 DEF DataNow
<1> HIDE DEF V, r, cells, after
<1>3. DataOk(write_limit_ptr, V, r, after, watch, disk, latest)
  BY <1>1, <1>2, DataMoved
<1> QED BY <1>3 DEF V, r, after, DataNow

LEMMA DRead ==
  ASSUME IInv, WInv, DInv, EnqueueRead \/ CopyForRead \/ FlushedForRead
  PROVE  DInv'
<1>1. PICK buf \in Nat \cup {NULL} : InsertRead(buf)
  <2>1. ftl_read_ptr \in Nat
    BY BufferAssumption DEF IInv, Types, RFrame
  <2> QED BY <2>1 DEF EnqueueRead, CopyForRead, FlushedForRead
<1>2. host \in {"enqueue", "flush"} /\ req \in Asked
  BY DEF EnqueueRead, CopyForRead, FlushedForRead, IInv, Types
<1>3. /\ e_queue' = Insert(e_queue, last_read_entry, NewRead(buf))
      /\ write_buffer' = Dropped({f \in WFrame : wb_valid_array[f] = "0"})
      /\ UNCHANGED <<wb_valid_array, write_limit_ptr, watch, disk, latest, failed>>
  BY <1>1 DEF InsertRead, ghosts, NewRead
<1>4. Moved(e_queue, e_queue', 1)
  BY <1>2, <1>3, NewReadIs, InsertShifts
<1>5. \A f \in Valid(wb_valid_array) : write_buffer'[f] = write_buffer[f]
  BY <1>3 DEF Dropped, Valid
<1> QED BY <1>3, <1>4, <1>5, DMoved

LEMMA DWrite ==
  ASSUME IInv, WInv, DInv, ENQUEUE_WRITE
  PROVE  DInv'
<1>1. /\ host = "enqueue" /\ req.io_type = "WRITE"
      /\ UNCHANGED <<write_limit_ptr, watch, disk, failed>>
      /\ write_buffer' = [Dropped(NewFrames(req.length)) EXCEPT
                            ![WAfter(sata_write_ptr, watch - req.sector_nb)] =
                               IF Holds(req, watch) THEN req.data ELSE @]
      /\ latest' = IF Holds(req, watch) THEN req.data ELSE latest
  BY DEF ENQUEUE_WRITE, MergeSequential, MergeOverlap, NewWriteEvent, AcceptWrite
<1> SUFFICES ASSUME ~failed PROVE DataNow'
  BY <1>1 DEF DInv
<1>2. Acceptable
  BY <1>1 DEF Acceptable, IInv, Types, WInv, WRoom, WOk
<1>3. IInv'
  BY Preserved DEF Next, Step, HostStep
<1>4. DataNow /\ watch \in Nat
  BY DEF DInv
<1>5. DataArrives
  <2> DEFINE s == req.sector_nb
             n == req.length
             cell == WAfter(sata_write_ptr, watch - s)
             used == WRITE_BUFFER_FRAME_NB - empty_write_buffer_frame
  <2>1. /\ \A f \in NewAt(sata_write_ptr, n) : f \notin Valid(wb_valid_array)
        /\ NewAt(sata_write_ptr, n) = Fresh(write_limit_ptr, used, n) /\ n \in Nat \ {0}
    <3>1. /\ Ring(write_limit_ptr, sata_write_ptr, empty_write_buffer_frame, wb_valid_array, e_queue)
          /\ n \in Nat \ {0} /\ n <= empty_write_buffer_frame
      BY <1>2 DEF Acceptable, Asked, RingNow
    <3> HIDE DEF n
    <3> QED BY <3>1, NewAre
  <2>2. NewFrames(n) = NewAt(sata_write_ptr, n)
    BY DEF NewFrames, NewAt
  <2>3. Holds(req, watch) => cell \in NewAt(sata_write_ptr, n)
    <3>1. s \in Nat
      BY <1>2 DEF Acceptable, Asked
    <3>2. Holds(req, watch) => watch - s \in 0 .. n - 1
      BY <1>4, <2>1, <3>1 DEF Holds
    <3> QED BY <3>2 DEF NewAt
  <2> HIDE DEF cell
  <2>4. \A f \in WFrame : f \notin NewFrames(n) => write_buffer'[f] = write_buffer[f]
    BY <1>1, <2>2, <2>3 DEF Dropped, cell
  <2>5. \A f \in Valid(wb_valid_array) : write_buffer'[f] = write_buffer[f]
    BY <2>1, <2>2, <2>4 DEF Valid
  <2>6. Holds(req, watch) => write_buffer'[cell] = req.data
    <3>1. NewAt(sata_write_ptr, n) \in SUBSET WFrame
      BY <2>1 DEF Fresh
    <3> QED BY <3>1, <1>1, <2>3 DEF Dropped, cell
  <2> QED BY <2>5, <2>6, <1>1 DEF DataArrives, cell
<1>6. PICK t, Kept : Taken(t, Kept)
  BY <1>2, WriteTaken
<1> QED BY <1>2, <1>3, <1>4, <1>5, <1>6, DataTaken

\* DEQUEUE_IO of a write: FTL_WRITE takes the contents from the right frame.
LEMMA DWritten ==
  ASSUME IInv, WInv, DInv, ~failed, e_queue # <<>>, e_queue' = Tail(e_queue),
         Head(e_queue).io_type = "WRITE", Head(e_queue).valid, FTL_WRITE(Head(e_queue)),
         UNCHANGED <<watch, latest>>
  PROVE  DataNow'
<1> DEFINE q == e_queue
           r == Tail(q)
           p == write_limit_ptr
           V == Valid(wb_valid_array)
           p2 == write_limit_ptr'
           V2 == Valid(wb_valid_array')
           P == Part(p, V, q, 1)
           cells == write_buffer
           after == write_buffer'
           w == watch
           k == w - q[1].sector_nb
<1>1. /\ q \in Seq(Entries) /\ Head(q) = q[1] /\ Len(q) \in Nat \ {0} /\ r \in Seq(Entries)
      /\ Len(r) = Len(q) - 1 /\ \A i \in 1 .. Len(q) - 1 : r[i] = q[i + 1]
  BY TailIs DEF IInv, Types
<1>2. 1 \in Writes(q) /\ q[1].sector_nb \in Nat /\ q[1].length \in Nat
  <2>1. 1 \in 1 .. Len(q)
    BY <1>1
  <2>2. q[1] \in Entries
    BY <1>1, <2>1, ElementOfSeq
  <2> QED BY <1>1, <2>1, <2>2 DEF Writes, Entries
<1>3. ftl_write_ptr = p /\ Ring(p, sata_write_ptr, empty_write_buffer_frame, wb_valid_array, q)
  BY DEF WInv, WOk, RingNow
<1>4. Leaves
  BY RingWritten DEF WInv
<1>5. /\ \A i \in Writes(r) : i + 1 \in Writes(q) /\ Part(p2, V2, r, i) = Part(p, V, q, i + 1)
      /\ FirstN(p, q[1].length, V) = P
      /\ V \cap Freed(p2) = P
  BY <1>4 DEF Leaves
<1>6. Stored(p, V, q, p2, V2, r)
  <2>1. ASSUME NEW i \in Writes(r)
        PROVE  r[i] = q[i + 1]
    BY <1>1, WritesInt
  <2>2. ASSUME NEW i \in Writes(q), i # 1
        PROVE  i - 1 \in Writes(r)
    <3>1. i \in 1 .. Len(q) /\ q[i].io_type = "WRITE" /\ q[i].valid
      BY DEF Writes
    <3>2. i - 1 \in 1 .. Len(q) - 1 /\ (i - 1) + 1 = i
      BY <1>1, <2>2, <3>1
    <3>3. r[i - 1] = q[i]
      BY <1>1, <3>2
    <3> HIDE DEF r, q
    <3> QED BY <3>1, <3>2, <3>3, <1>1 DEF Writes
  <2> HIDE DEF r, q, p, V, p2, V2, P
  <2> QED BY <2>1, <2>2, <1>1, <1>2, <1>5 DEF Stored
<1>7. /\ after = IF host = "flush" THEN cells ELSE Dropped(Freed(p2))
      /\ disk' = Written(q[1], q[1].length)
  BY <1>1 DEF FTL_WRITE
<1>8. \A f \in V : f \in P \/ after[f] = cells[f]
  <2> TAKE f \in V
  <2>1. f \in WFrame
    BY DEF Valid
  <2>2. CASE f \in P
    BY <2>2
  <2>3. CASE f \notin P
    <3>1. f \notin Freed(p2)
      BY <2>3, <1>5
    <3> QED BY <2>1, <3>1, <1>7 DEF Dropped
  <2> QED BY <2>2, <2>3
<1>9. w \in Nat /\ DataOk(p, V, q, cells, w, disk, latest)
  BY DEF DInv, DataNow
<1>10. disk' = IF Holds(q[1], w) THEN cells[CellOf(p, V, q, 1, w)] ELSE disk
  <2>1. ASSUME Holds(q[1], w)
        PROVE  Nth(p, k, V) = CellOf(p, V, q, 1, w)
    <3>1. /\ k \in Nat /\ k < q[1].length
          /\ CellOf(p, V, q, 1, w) = Nth(p, k, P)
      BY <2>1, <1>1, <1>2, <1>3, <1>9, CellIs
    <3>2. p \in WFrame /\ V \in SUBSET WFrame /\ P \in SUBSET V /\ Cardinality(P) = q[1].length
      <4>1. Cardinality(P) = q[1].length
        BY <1>1, <1>2, <1>3, PartCount
      <4> QED BY <4>1, <1>3 DEF Ring, Tiled, Part
    <3> HIDE DEF p, V, P, k
    <3>3. \A g \in P, f \in V \ P : WDist(p, g) < WDist(p, f)
      BY <1>2, <1>5, <3>2, FirstBefore
    <3>4. Nth(p, k, V) = Nth(p, k, P)
      BY <3>1, <3>2, <3>3, NthInitial
    <3> QED BY <3>1, <3>4
  <2>2. Written(q[1], q[1].length) = IF Holds(q[1], w) THEN cells[Nth(p, k, V)] ELSE disk
    BY <1>3 DEF Written, Holds
  <2> QED BY <2>1, <2>2, <1>7
<1> HIDE DEF q, r, p, V, p2, V2, P, cells, after, w, k
<1>11. DataOk(p2, V2, r, after, w, disk', latest)
  <2>1. Storing(p, sata_write_ptr, empty_write_buffer_frame, wb_valid_array, q, p2, V2, r, cells, after,
                w, disk, disk')
    BY <1>1, <1>3, <1>6, <1>8, <1>9, <1>10 DEF Storing, V, P
  <2>2. DataOk(p, Valid(wb_valid_array), q, cells, w, disk, latest)
    BY <1>9 DEF V
  <2> QED BY <2>1, <2>2, DataStored
<1> QED BY <1>11 DEF DataNow, p2, V2, r, q, after, w

LEMMA DDequeue ==
  ASSUME IInv, WInv, DInv, DequeueRead \/ DequeueWrite
  PROVE  DInv'
<1> DEFINE e == Head(e_queue)
<1>1. /\ e_queue # <<>> /\ e_queue' = Tail(e_queue) /\ UNCHANGED <<watch, latest>>
  BY DEF DequeueRead, DequeueWrite, Dequeuing, RemoveHead
<1>2. e_queue \in Seq(Entries) /\ e = e_queue[1]
  BY <1>1, TailIs DEF IInv, Types
<1>3. ASSUME UNCHANGED <<wb_valid_array, write_limit_ptr, write_buffer, disk>>,
             failed' \/ UNCHANGED failed, ~(e.io_type = "WRITE" /\ e.valid)
      PROVE  DInv'
  <2>1. 1 \notin Writes(e_queue)
    BY <1>2, <1>3 DEF Writes
  <2>2. Moved(e_queue, e_queue', -1)
    BY <1>1, <1>2, <2>1, TailShifts
  <2> QED BY <1>1, <1>3, <2>2, DMoved
<1>4. CASE DequeueRead
  <2>1. e.io_type = "READ" /\ ((FTL_READ(e)) \/ (UNCHANGED <<wbVars, disk, failed>>))
    BY <1>4 DEF DequeueRead
  <2>2. /\ UNCHANGED <<wb_valid_array, write_limit_ptr, write_buffer, disk>>
        /\ failed' \/ UNCHANGED failed
    BY <2>1 DEF FTL_READ, wbVars
  <2> QED BY <2>1, <2>2, <1>3
<1>5. CASE DequeueWrite /\ ~e.valid
  BY <1>3, <1>5 DEF DequeueWrite, wbVars
<1>6. CASE DequeueWrite /\ e.valid /\ FTL_WRITE(e)
  <2>1. e.io_type = "WRITE" /\ failed' = failed
    BY <1>6 DEF DequeueWrite, FTL_WRITE
  <2> QED BY <1>1, <1>6, <2>1, DWritten DEF DInv
<1>7. CASE DequeueWrite /\ e.valid /\ FTL_WRITE_Fails(e)
  BY <1>1, <1>7 DEF FTL_WRITE_Fails, DInv
<1>8. DequeueWrite => ~e.valid \/ FTL_WRITE(e) \/ FTL_WRITE_Fails(e)
  BY DEF DequeueWrite
<1> QED BY <1>4, <1>5, <1>6, <1>7, <1>8

LEMMA DPreserved == IInv /\ WInv /\ DInv /\ [Next]_vars => DInv'
<1> SUFFICES ASSUME IInv, WInv, DInv, [Next]_vars
             PROVE  DInv'
  OBVIOUS
<1>1. CASE Request \/ ThreadStep \/ SpuriousWakeup
  BY <1>1, DControl
<1>2. CASE HostStep
  BY <1>2, DControl, DWrite, DRead DEF HostStep
<1>3. CASE DEQUEUE_IO
  BY <1>3, DControl, DDequeue DEF DEQUEUE_IO
<1>4. CASE UNCHANGED vars
  BY <1>4, DataStays DEF vars, queues, wbVars, ghosts
<1>5. CASE Ended
  BY <1>4, <1>5 DEF Ended
<1> QED BY <1>1, <1>2, <1>3, <1>4, <1>5 DEF Next, Step

\* Nothing the host wrote is lost while the FTL fails no call: the newest
\* contents of a sector are in the frame of the last valid write that holds
\* it, through every merge, overwrite and flush of the queue, or FTL_WRITE has
\* taken them; in particular after TERM_IO_BUFFER.
THEOREM NoDataLost == Spec => []NothingLost
<1>1. IInv /\ WInv /\ DInv => NothingLost
  <2> SUFFICES ASSUME IInv, WInv, DInv, ~failed
               PROVE  LET holders == {i \in ValidWrites : Holds(e_queue[i], watch)}
                          last == e_queue[Max(holders)]
                      IN  latest = IF holders = {} THEN disk
                                   ELSE write_buffer[Nth(last.buf, watch - last.sector_nb,
                                                         Valid(wb_valid_array))]
    BY DEF NothingLost
  <2> DEFINE q == e_queue
             w == watch
             p == write_limit_ptr
             V == Valid(wb_valid_array)
             H == {i \in ValidWrites : Holds(e_queue[i], watch)}
             m == Max(H)
  <2>1. /\ Ring(p, sata_write_ptr, empty_write_buffer_frame, wb_valid_array, q)
        /\ q \in Seq(Entries) /\ Len(q) \in Nat /\ w \in Nat
        /\ DataOk(p, V, q, write_buffer, w, disk, latest)
    BY LenProperties DEF IInv, Types, WInv, WOk, RingNow, DInv, DataNow
  <2>2. \A i : i \in H <=> i \in Writes(q) /\ Holds(q[i], w)
    BY DEF ValidWrites
  <2>3. CASE H = {}
    <3>1. NoneHolds(q, w)
      BY <2>2, <2>3 DEF NoneHolds
    <3> QED BY <2>1, <2>3, <3>1 DEF DataOk
  <2>4. CASE H # {}
    <3>1. H \in SUBSET (1 .. Len(q))
      BY DEF ValidWrites, Writes
    <3>2. m \in H /\ \A i \in H : m >= i
      <4>1. Len(q) \in Nat
        BY <2>1
      <4> HIDE DEF H, q
      <4> QED BY <2>4, <3>1, <4>1, LastIs, Zenon
    <3> HIDE DEF H, m
    <3>3. m \in Writes(q) /\ Holds(q[m], w)
      BY <2>2, <3>2
    <3>4. \A i \in Writes(q) : m < i => ~Holds(q[i], w)
      <4> SUFFICES ASSUME NEW i \in Writes(q), m < i, Holds(q[i], w)
                   PROVE  FALSE
        OBVIOUS
      <4>1. i \in H /\ i \in Int /\ m \in Int
        BY <2>1, <2>2, <3>3, WritesInt
      <4> QED BY <3>2, <4>1
    <3>5. latest = write_buffer[CellOf(p, V, q, m, w)]
      BY <2>1, <3>3, <3>4 DEF DataOk, Newest
    <3>6. CellOf(p, V, q, m, w) = Nth(q[m].buf, w - q[m].sector_nb, V)
      BY <2>1, <3>3, CellIs
    <3> QED BY <2>4, <3>5, <3>6 DEF H, m
  <2> QED BY <2>3, <2>4
<1>2. Spec => []DInv
  BY DInitially, DPreserved, Invariance, WriteRing, PTL DEF Spec
<1> QED BY <1>1, <1>2, Invariance, WriteRing, PTL
=============================================================================
