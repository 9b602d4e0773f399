----------------------------- MODULE FirmBuffer -----------------------------
(***************************************************************************)
(* The IO buffer of the firmware: the event queue between SSD_READ and     *)
(* SSD_WRITE and the FTL, the queue of completed reads, and the two rings  *)
(* of sector frames behind them.  mode is the way it was compiled:         *)
(*   "none"  FIRM_IO_BUFFER alone, the caller empties the queue itself;    *)
(*   "1"     SSD_THREAD_MODE_1, a thread empties it all the time;          *)
(*   "2"     SSD_THREAD_MODE_2, a thread empties it when a ring is full.   *)
(*                                                                         *)
(* A step is a piece of code whose middle no other thread can tell from    *)
(* its ends: one call of DEQUEUE_IO up to its lock of cq_lock, what the    *)
(* host does from a call of SSD_READ until it has to wait, and so on.  A   *)
(* frame is an index into its ring, the place of last_read_entry an index  *)
(* into the queue (0 is NULL).  FrameRing defines events and frames.       *)
(*                                                                         *)
(* The FTL below is the disk of LogicalDisk.  The code moves no data; for  *)
(* the properties one sector, watch, has contents: disk is what the FTL    *)
(* holds of it, latest what the host wrote last, want what a read has to   *)
(* return, and write_buffer and read_buffer which frames hold it.          *)
(*                                                                         *)
(* An operator F_X is F with a mistake put into it, to see that a property *)
(* notices; nothing uses it.                                               *)
(***************************************************************************)
EXTENDS FrameRing, FiniteSetsExt

CONSTANTS
  Modes,                   \* the builds to look at
  READ_BUFFER_FRAME_NB, SECTOR_NB, SECTORS_PER_PAGE,
  Requests,                \* bound: what the host asks for, a set of requests
  FTL_FAILS                \* bound: may GET_NEW_PAGE fail, once?

ASSUME BufferAssumption ==
  /\ Modes \subseteq {"none", "1", "2"}
  /\ READ_BUFFER_FRAME_NB \in Nat \ {0}
  /\ SECTOR_NB \in Nat \ {0} /\ SECTORS_PER_PAGE \in Nat \ {0}
  /\ \A q \in Requests :
       \/ q \in [io_type : {"WRITE"}, sector_nb : Nat, length : 1 .. WRITE_BUFFER_FRAME_NB]
       \/ q \in [io_type : {"READ"}, sector_nb : Nat, length : 1 .. READ_BUFFER_FRAME_NB]
  /\ FTL_FAILS \in BOOLEAN

VARIABLES
  mode,
  e_queue, last_read_entry, c_e_queue,
  wb_valid_array, ftl_write_ptr, sata_write_ptr, write_limit_ptr,
  empty_write_buffer_frame,
  ftl_read_ptr, sata_read_ptr, read_limit_ptr, empty_read_buffer_frame,
  r_queue_full, w_queue_full,
  host, req,         \* where the host is, and with which request
  thread,            \* where SSD_THREAD_MAIN_LOOP is
  todo,              \* calls of DEQUEUE_IO the current flush still makes
  moving,            \* a read that is in neither queue, between the locks
  dependency,        \* temp_e_q_entry of ENQUEUE_READ
  watch, write_buffer, read_buffer, disk, latest,
  failed             \* has a call of the FTL failed?

wbVars   == <<wb_valid_array, ftl_write_ptr, sata_write_ptr, write_limit_ptr,
              empty_write_buffer_frame, write_buffer>>
rbVars   == <<ftl_read_ptr, sata_read_ptr, read_limit_ptr,
              empty_read_buffer_frame, read_buffer>>
queues   == <<e_queue, last_read_entry, c_e_queue>>
flags    == <<r_queue_full, w_queue_full>>
flushing == <<todo, moving>>
ghosts   == <<watch, disk, latest, failed>>
vars     == <<mode, queues, wbVars, rbVars, flags, host, req, thread, flushing,
              dependency, ghosts>>

RFrame == 0 .. READ_BUFFER_FRAME_NB - 1

NoEntry == Entry("none", 0, 0, NULL, NoData)
NoReq   == [io_type |-> "none", sector_nb |-> 0, length |-> 0, data |-> NoData]

Sectors == UNION {q.sector_nb .. q.sector_nb + q.length - 1 : q \in Requests}

\* INIT_IO_BUFFER.
Init ==
  /\ mode \in Modes
  /\ e_queue = <<>> /\ last_read_entry = 0 /\ c_e_queue = <<>>
  /\ wb_valid_array = [f \in WFrame |-> "0"]
  /\ ftl_write_ptr = 0 /\ sata_write_ptr = 0 /\ write_limit_ptr = 0
  /\ empty_write_buffer_frame = WRITE_BUFFER_FRAME_NB
  /\ ftl_read_ptr = 0 /\ sata_read_ptr = 0 /\ read_limit_ptr = 0
  /\ empty_read_buffer_frame = READ_BUFFER_FRAME_NB
  /\ r_queue_full = FALSE /\ w_queue_full = FALSE
  /\ host = "idle" /\ req = NoReq
  /\ thread = IF mode = "none" THEN "none" ELSE "lock"
  /\ todo = 0 /\ moving = NoEntry /\ dependency = NoEntry
  /\ write_buffer = [f \in WFrame |-> NoData]
  /\ read_buffer = [f \in RFrame |-> NoData]
  /\ watch \in Sectors /\ disk = NoData /\ latest = NoData
  /\ failed = FALSE
-----------------------------------------------------------------------------
(***************************************************************************)
(* The rings.                                                              *)
(***************************************************************************)
RAfter_NoWrap(f, n) == f + n
RAfter(f, n) == (f + n) % READ_BUFFER_FRAME_NB

\* INCREASE_WB_FTL_POINTER takes the next n valid frames.
FtlFrames(n) == FirstN(ftl_write_ptr, n, Valid(wb_valid_array))
FtlAfter(n) == IF n = 0 THEN ftl_write_ptr
               ELSE WAfter(Nth(ftl_write_ptr, n - 1, Valid(wb_valid_array)), 1)

Freed_While(ftl) == Between(write_limit_ptr, ftl)

\* INCREASE_WB_LIMIT_POINTER frees all frames up to the FTL's pointer, and
\* goes round once if it is there already.
Freed(ftl) == IF write_limit_ptr = ftl THEN WFrame ELSE Between(write_limit_ptr, ftl)

\* Contents that nobody will look at any more are forgotten.
Dropped(frames) == [f \in WFrame |-> IF f \in frames THEN NoData ELSE write_buffer[f]]

\* The read buffer after contents, sectors numbered from 0, were put at p.
Filled(p, contents) ==
  [f \in RFrame |-> LET i == (f - p) % READ_BUFFER_FRAME_NB
                    IN  IF i \in DOMAIN contents THEN contents[i] ELSE read_buffer[f]]
-----------------------------------------------------------------------------
(***************************************************************************)
(* DEQUEUE_IO.                                                             *)
(***************************************************************************)
Overlap(s, n, t, k) == s <= t + k - 1 /\ t <= s + n - 1

\* The FTL refuses a request beyond the device before it touches a pointer.
Refused(e) == e.sector_nb + e.length > SECTOR_NB

\* FTL_READ moves the pointers whether or not the pages are mapped.
FTL_READ(e) ==
  /\ IF Refused(e)
     THEN /\ failed' = TRUE
          /\ UNCHANGED <<ftl_read_ptr, read_limit_ptr, read_buffer>>
     ELSE /\ ftl_read_ptr' = RAfter(ftl_read_ptr, e.length)
          /\ read_limit_ptr' = ftl_read_ptr'
          /\ read_buffer' = Filled(ftl_read_ptr,
               [i \in 0 .. e.length - 1 |-> IF e.sector_nb + i = watch THEN disk ELSE NoData])
          /\ UNCHANGED failed
  /\ UNCHANGED <<sata_read_ptr, empty_read_buffer_frame, wbVars, disk>>

\* The sectors of a request up to the end of one of its pages.
PageEnds(e) ==
  {n \in 1 .. e.length : n = e.length \/ (e.sector_nb + n) % SECTORS_PER_PAGE = 0}
PagesBefore(e, n) ==
  {k \in PageEnds(e) \cup {0} : k < n}

\* The first n sectors of e go from their frames to the disk.
Written(e, n) ==
  IF e.sector_nb <= watch /\ watch < e.sector_nb + n
  THEN write_buffer[Nth(ftl_write_ptr, watch - e.sector_nb, Valid(wb_valid_array))]
  ELSE disk

FTL_WRITE(e) ==
  /\ ~Refused(e)
  /\ LET ftl == FtlAfter(e.length)
     IN  /\ wb_valid_array' = Mark(Mark(wb_valid_array, FtlFrames(e.length), "F"), Freed(ftl), "0")
         /\ ftl_write_ptr' = ftl
         /\ write_limit_ptr' = ftl
         /\ empty_write_buffer_frame' = empty_write_buffer_frame + Cardinality(Freed(ftl))
         /\ write_buffer' = IF host = "flush" THEN write_buffer ELSE Dropped(Freed(ftl))
  /\ disk' = Written(e, e.length)
  /\ UNCHANGED <<sata_write_ptr, rbVars, failed>>

\* GET_NEW_PAGE fails for the page that ends after n sectors, or the request
\* is refused (n = 0): the limit pointer stays where it is.
FTL_WRITE_Fails(e) ==
  /\ (FTL_FAILS /\ ~failed) \/ Refused(e)
  /\ \E n \in IF Refused(e) THEN {0} ELSE PageEnds(e) :
       /\ wb_valid_array' = Mark(wb_valid_array, FtlFrames(n), "F")
       /\ ftl_write_ptr' = FtlAfter(n)
       /\ \E k \in PagesBefore(e, n) \cup {0} :
            /\ \A j \in PagesBefore(e, n) : j <= k
            /\ disk' = Written(e, k)
  /\ failed' = TRUE
  /\ UNCHANGED <<sata_write_ptr, write_limit_ptr, empty_write_buffer_frame,
                 write_buffer, rbVars>>

\* The thread that empties the queue.
Dequeuing == todo > 0 /\ moving = NoEntry /\ e_queue # <<>>

\* The head leaves the queue; it is last_read_entry only if it is the last read.
RemoveHead ==
  /\ e_queue' = Tail(e_queue)
  /\ last_read_entry' = IF last_read_entry = 0 THEN 0 ELSE last_read_entry - 1
  /\ UNCHANGED <<mode, c_e_queue, flags, host, req, thread, dependency, watch, latest>>

DequeueRead ==
  /\ Dequeuing
  /\ LET e == Head(e_queue)
     IN  /\ e.io_type = "READ"
         /\ IF e.buf = NULL
            THEN FTL_READ(e) /\ moving' = [e EXCEPT !.buf = ftl_read_ptr]
            ELSE moving' = e /\ UNCHANGED <<wbVars, rbVars, disk, failed>>
  /\ RemoveHead
  /\ UNCHANGED todo

DequeueWrite ==
  /\ Dequeuing
  /\ LET e == Head(e_queue)
     IN  /\ e.io_type = "WRITE"
         /\ IF e.valid THEN FTL_WRITE(e) \/ FTL_WRITE_Fails(e)
                       ELSE UNCHANGED <<wbVars, rbVars, disk, failed>>
  /\ RemoveHead
  /\ todo' = todo - 1
  /\ UNCHANGED moving

\* The second half of DEQUEUE_IO: under cq_lock the read joins the completed.
AppendCompleted ==
  /\ moving # NoEntry
  /\ c_e_queue' = Append(c_e_queue, moving)
  /\ moving' = NoEntry
  /\ todo' = todo - 1
  /\ UNCHANGED <<mode, e_queue, last_read_entry, wbVars, rbVars, flags, host, req,
                 thread, dependency, ghosts>>
-----------------------------------------------------------------------------
(***************************************************************************)
(* DEQUEUE_COMPLETED_READ: the host takes the data of the completed reads. *)
(***************************************************************************)
DEQUEUE_COMPLETED_READ_Entries ==
  /\ c_e_queue' = <<>>
  /\ sata_read_ptr' = RAfter(sata_read_ptr, Len(c_e_queue))
  /\ empty_read_buffer_frame' = empty_read_buffer_frame + Len(c_e_queue)
  /\ read_buffer' = Filled(sata_read_ptr, [i \in 0 .. Frames(c_e_queue) - 1 |-> NoData])

DEQUEUE_COMPLETED_READ ==
  /\ c_e_queue' = <<>>
  /\ sata_read_ptr' = RAfter(sata_read_ptr, Frames(c_e_queue))
  /\ empty_read_buffer_frame' = empty_read_buffer_frame + Frames(c_e_queue)
  /\ read_buffer' = Filled(sata_read_ptr, [i \in 0 .. Frames(c_e_queue) - 1 |-> NoData])
-----------------------------------------------------------------------------
(***************************************************************************)
(* Making room.                                                            *)
(***************************************************************************)
IsLess_ByOne(counter, length) == counter >= 0 /\ counter < length - 1

\* The counters are int and length is unsigned: a counter below 0 is large.
IsLess(counter, length) == counter >= 0 /\ counter < length

FlushLength_OneMore(type) == IF type = "WRITE" THEN Len(e_queue) ELSE last_read_entry + 1

\* FLUSH_EVENT_QUEUE_UNTIL the tail, or until the last read.
FlushLength(type) == IF type = "WRITE" THEN Len(e_queue) ELSE last_read_entry

SECURE_WRITE_BUFFER ==
  /\ todo' = FlushLength("WRITE")
  /\ UNCHANGED <<c_e_queue, sata_read_ptr, empty_read_buffer_frame, read_buffer>>

SECURE_READ_BUFFER ==
  /\ todo' = FlushLength("READ")
  /\ DEQUEUE_COMPLETED_READ

\* The flush is over; SECURE_READ_BUFFER drains once more.
Secured(type) ==
  /\ todo = 0
  /\ IF type = "READ" THEN DEQUEUE_COMPLETED_READ
     ELSE UNCHANGED <<c_e_queue, sata_read_ptr, empty_read_buffer_frame, read_buffer>>
  /\ UNCHANGED <<mode, e_queue, last_read_entry, wbVars, ftl_read_ptr, read_limit_ptr,
                 flushing, dependency, ghosts>>

\* Without a thread the host makes room itself.
HostSecured ==
  /\ host = "secure"
  /\ Secured(req.io_type)
  /\ host' = "enqueue"
  /\ UNCHANGED <<flags, req, thread>>

\* With a thread it signals until the flag it raised is down again.
Flag(type) == IF type = "READ" THEN r_queue_full ELSE w_queue_full

SpinSignals ==
  /\ host = "spin" /\ Flag(req.io_type)
  /\ thread = "asleep"
  /\ thread' = "lock"
  /\ UNCHANGED <<mode, queues, wbVars, rbVars, flags, host, req, flushing, dependency, ghosts>>

SpinEnds ==
  /\ host = "spin" /\ ~Flag(req.io_type)
  /\ host' = "enqueue"
  /\ UNCHANGED <<mode, queues, wbVars, rbVars, flags, req, thread, flushing,
                 dependency, ghosts>>
-----------------------------------------------------------------------------
(***************************************************************************)
(* ENQUEUE_IO, under eq_lock.                                              *)
(***************************************************************************)
\* The thread holds eq_lock from its lock to its unlock or cond_wait.
ThreadHolds == thread \in {"towait", "work", "secure_r", "secure_w"}

\* The events behind the last read: all of them are writes.
Pending == {i \in 1 .. Len(e_queue) : i > last_read_entry}

Insert_Tail(entries, i, e) == Append(entries, e)
Insert(entries, i, e) == SubSeq(entries, 1, i) \o <<e>> \o SubSeq(entries, i + 1, Len(entries))

Enqueued_Silent == host' = "idle"

\* Where the host is after ENQUEUE_IO.
Enqueued == host' = IF mode = "1" THEN "signal" ELSE "idle"

Overwritten_Touched(s, n) ==
  {i \in Pending : /\ e_queue[i].io_type = "WRITE" /\ e_queue[i].valid
                   /\ Overlap(s, n, e_queue[i].sector_nb, e_queue[i].length)}

\* CHECK_OVERWRITE: the pending writes that the new one covers.
Overwritten(s, n) ==
  {i \in Pending : /\ e_queue[i].io_type = "WRITE" /\ e_queue[i].valid
                   /\ s <= e_queue[i].sector_nb
                   /\ s + n >= e_queue[i].sector_nb + e_queue[i].length}

CHECK_SEQUENTIALITY(e, s) ==
  e.io_type = "WRITE" /\ e.valid /\ e.sector_nb + e.length = s

CHECK_IO_DEPENDENCY_FOR_WRITE(e, s, n) ==
  LET last == e.sector_nb + e.length - 1
  IN  /\ e.io_type = "WRITE" /\ e.valid
      /\ e.sector_nb < s /\ s < last /\ last < s + n - 1

\* WRITE_DATA_TO_BUFFER, then UPDATE_WB_VALID_ARRAY for the overwritten.
NewFrames(n) == {WAfter(sata_write_ptr, i) : i \in 0 .. n - 1}
Arrived(n)   == Mark(wb_valid_array, NewFrames(n), "V")
ArrivedOver(s, n) ==
  Mark(Arrived(n),
       UNION {FirstN(e_queue[i].buf, e_queue[i].length, Valid(Arrived(n))) :
                i \in Overwritten(s, n)},
       "I")
QueueOver_Kept(s, n) == e_queue
QueueOver(s, n) ==
  [i \in DOMAIN e_queue |-> [e_queue[i] EXCEPT !.valid = @ /\ i \notin Overwritten(s, n)]]

RearFrames_Front(array, e, n) == FirstN(e.buf, n, NotInvalid(array))

\* UPDATE_WB_VALID_ARRAY_PARTIAL with mode 1: the last n frames of an event.
RearFrames(array, e, n) ==
  FirstN(e.buf, e.length, NotInvalid(array)) \ FirstN(e.buf, e.length - n, NotInvalid(array))

\* What every ENQUEUE_WRITE does, with the array and the queue it ends with.
AcceptWrite(array, queue) ==
  /\ host = "enqueue" /\ req.io_type = "WRITE" /\ ~ThreadHolds
  /\ wb_valid_array' = array
  /\ e_queue' = queue
  /\ sata_write_ptr' = WAfter(sata_write_ptr, req.length)
  /\ empty_write_buffer_frame' = empty_write_buffer_frame - req.length
  /\ write_buffer' = [Dropped(NewFrames(req.length)) EXCEPT
                         ![WAfter(sata_write_ptr, watch - req.sector_nb)] =
                            IF Holds(req, watch) THEN req.data ELSE @]
  /\ latest' = IF Holds(req, watch) THEN req.data ELSE latest
  /\ req' = NoReq
  /\ Enqueued
  /\ UNCHANGED <<mode, last_read_entry, c_e_queue, ftl_write_ptr, write_limit_ptr, rbVars,
                 flags, thread, flushing, dependency, watch, disk, failed>>

\* Does the last event take the request in?
Continues(s) == e_queue # <<>> /\ CHECK_SEQUENTIALITY(QueueOver(s, req.length)[Len(e_queue)], s)
Overlaps(s) ==
  /\ e_queue # <<>> /\ ~Continues(s)
  /\ CHECK_IO_DEPENDENCY_FOR_WRITE(QueueOver(s, req.length)[Len(e_queue)], s, req.length)

MergeSequential ==
  LET s == req.sector_nb
      n == req.length
  IN  /\ Continues(s)
      /\ AcceptWrite(ArrivedOver(s, n),
                     [QueueOver(s, n) EXCEPT ![Len(e_queue)].length = @ + n])

MergeOverlap ==
  LET s == req.sector_nb
      n == req.length
      tail == QueueOver(s, n)[Len(e_queue)]
      invalid_len == tail.sector_nb + tail.length - s
  IN  /\ Overlaps(s)
      /\ AcceptWrite(Mark(ArrivedOver(s, n), RearFrames(ArrivedOver(s, n), tail, invalid_len), "I"),
                     [QueueOver(s, n) EXCEPT ![Len(e_queue)].length = @ + n - invalid_len])

NewWriteEvent ==
  LET s == req.sector_nb
      n == req.length
  IN  /\ ~Continues(s) /\ ~Overlaps(s)
      /\ AcceptWrite(ArrivedOver(s, n),
                     Append(QueueOver(s, n), Entry("WRITE", s, n, sata_write_ptr, NoData)))

ENQUEUE_WRITE == MergeSequential \/ MergeOverlap \/ NewWriteEvent

\* CHECK_IO_DEPENDENCY_FOR_READ: the pending writes that hold sectors of a read.
Dependencies(s, n) ==
  {i \in Pending : e_queue[i].valid
                   /\ Overlap(s, n, e_queue[i].sector_nb, e_queue[i].length)}

\* The new read goes behind the other reads, with the frame its data is in.
InsertRead(buf) ==
  /\ e_queue' = Insert(e_queue, last_read_entry,
                       Entry("READ", req.sector_nb, req.length, buf,
                             IF Holds(req, watch) THEN latest ELSE NoData))
  /\ last_read_entry' = last_read_entry + 1
  /\ empty_read_buffer_frame' = empty_read_buffer_frame - req.length
  /\ write_buffer' = Dropped({f \in WFrame : wb_valid_array[f] = "0"})
  /\ req' = NoReq /\ dependency' = NoEntry
  /\ Enqueued
  /\ UNCHANGED <<mode, c_e_queue, wb_valid_array, ftl_write_ptr, sata_write_ptr,
                 write_limit_ptr, empty_write_buffer_frame, sata_read_ptr, flags, thread,
                 flushing, ghosts>>

\* ENQUEUE_READ of sectors that no pending write holds.
EnqueueRead ==
  /\ host = "enqueue" /\ req.io_type = "READ" /\ ~ThreadHolds
  /\ Dependencies(req.sector_nb, req.length) = {}
  /\ InsertRead(NULL)
  /\ UNCHANGED <<ftl_read_ptr, read_limit_ptr, read_buffer>>

LastDependency_First(s, n) == Min(Dependencies(s, n))
LastDependency(s, n) == Max(Dependencies(s, n))

\* Otherwise it flushes the queue up to the last of them ...
FlushForRead ==
  /\ host = "enqueue" /\ req.io_type = "READ" /\ ~ThreadHolds
  /\ Dependencies(req.sector_nb, req.length) # {}
  /\ LET i == LastDependency(req.sector_nb, req.length)
     IN  todo' = i /\ dependency' = e_queue[i]
  /\ host' = "flush"
  /\ UNCHANGED <<mode, queues, wbVars, rbVars, flags, req, thread, moving, ghosts>>

Covers(e, s, n) == e.sector_nb <= s /\ s + n <= e.sector_nb + e.length

\* ... and copies the data from the write buffer if that write has all of it.
CopyForRead ==
  /\ host = "flush" /\ todo = 0
  /\ Covers(dependency, req.sector_nb, req.length)
  /\ LET offset == req.sector_nb - dependency.sector_nb
     IN  read_buffer' = Filled(ftl_read_ptr,
           [i \in 0 .. req.length - 1 |->
              write_buffer[Nth(dependency.buf, offset + i, NotInvalid(wb_valid_array))]])
  /\ InsertRead(ftl_read_ptr)
  /\ ftl_read_ptr' = RAfter(ftl_read_ptr, req.length)
  /\ read_limit_ptr' = ftl_read_ptr'

FlushedForRead ==
  /\ host = "flush" /\ todo = 0
  /\ ~Covers(dependency, req.sector_nb, req.length)
  /\ InsertRead(NULL)
  /\ UNCHANGED <<ftl_read_ptr, read_limit_ptr, read_buffer>>
-----------------------------------------------------------------------------
(***************************************************************************)
(* SSD_READ, SSD_WRITE and SSD_TERM.                                       *)
(***************************************************************************)
\* Bound: once a failed write has made the ring overrun, which the full test
\* does not notice, the next write is not followed any further.
Followed == empty_write_buffer_frame >= 0

\* DEQUEUE_COMPLETED_READ under cq_lock, then EVENT_QUEUE_IS_FULL without a
\* lock.  What is in a flush or in the queue does not matter to either, so
\* that nothing is lost by taking them together.
Call(q, data, counter) ==
  LET full == IsLess(counter, q.length)
      raise(type) == full /\ mode # "none" /\ q.io_type = type
  IN  /\ host = "idle"
      /\ req' = [io_type |-> q.io_type, sector_nb |-> q.sector_nb, length |-> q.length,
                 data |-> data]
      /\ DEQUEUE_COMPLETED_READ
      /\ host' = IF ~full THEN "enqueue" ELSE IF mode = "none" THEN "secure" ELSE "spin"
      /\ todo' = IF full /\ mode = "none" THEN FlushLength(q.io_type) ELSE todo
      /\ r_queue_full' = (r_queue_full \/ raise("READ"))
      /\ w_queue_full' = (w_queue_full \/ raise("WRITE"))
      /\ UNCHANGED <<mode, e_queue, last_read_entry, wbVars, ftl_read_ptr, read_limit_ptr,
                     thread, moving, dependency, ghosts>>

SSD_WRITE(q, data) ==
  /\ q.io_type = "WRITE" /\ Followed
  /\ Call(q, data, empty_write_buffer_frame)

SSD_READ(q) ==
  /\ q.io_type = "READ"
  /\ Call(q, NoData, empty_read_buffer_frame + Frames(c_e_queue))

\* With SSD_THREAD_MODE_1 the host signals that there is something to do.
HostSignals ==
  /\ host = "signal"
  /\ thread' = IF thread = "asleep" THEN "lock" ELSE thread
  /\ host' = "idle"
  /\ UNCHANGED <<mode, queues, wbVars, rbVars, flags, req, flushing, dependency, ghosts>>

\* TERM_IO_BUFFER takes no lock.  In mode "1" it would run into the thread.
TERM_IO_BUFFER ==
  /\ host = "idle" /\ mode # "1"
  /\ todo' = Len(e_queue)
  /\ host' = "term"
  /\ UNCHANGED <<mode, queues, wbVars, rbVars, flags, req, thread, moving, dependency, ghosts>>

Terminated ==
  /\ host = "term" /\ todo = 0
  /\ host' = "closed"
  /\ UNCHANGED <<mode, queues, wbVars, rbVars, flags, req, thread, flushing, dependency, ghosts>>
-----------------------------------------------------------------------------
(***************************************************************************)
(* SSD_THREAD_MAIN_LOOP.                                                   *)
(***************************************************************************)
HasWork_Reads == IF mode = "1" THEN e_queue # <<>> ELSE r_queue_full

\* The thread takes eq_lock and tests whether there is work.
HasWork == IF mode = "1" THEN e_queue # <<>> ELSE r_queue_full \/ w_queue_full

ThreadLocks_Free == thread = "lock"
ThreadLocks == thread = "lock" /\ host # "flush"

ThreadDequeues ==
  /\ ThreadLocks /\ mode = "1" /\ HasWork
  /\ todo' = 1
  /\ thread' = "work"
  /\ UNCHANGED <<mode, queues, wbVars, rbVars, flags, host, req, moving, dependency, ghosts>>

ThreadWorked ==
  /\ thread = "work" /\ todo = 0
  /\ thread' = "lock"
  /\ UNCHANGED <<mode, queues, wbVars, rbVars, flags, host, req, flushing, dependency, ghosts>>

ThreadSecures ==
  /\ ThreadLocks /\ mode = "2" /\ HasWork
  /\ IF r_queue_full THEN SECURE_READ_BUFFER ELSE SECURE_WRITE_BUFFER
  /\ thread' = IF r_queue_full THEN "secure_r" ELSE "secure_w"
  /\ UNCHANGED <<mode, e_queue, last_read_entry, wbVars, ftl_read_ptr, read_limit_ptr,
                 flags, host, req, moving, dependency, ghosts>>

ThreadSecured ==
  /\ thread \in {"secure_r", "secure_w"}
  /\ Secured(IF thread = "secure_r" THEN "READ" ELSE "WRITE")
  /\ r_queue_full' = (r_queue_full /\ thread # "secure_r")
  /\ w_queue_full' = (w_queue_full /\ thread # "secure_w")
  /\ thread' = "lock"
  /\ UNCHANGED <<host, req>>

\* There is none, but pthread_cond_wait has not released eq_lock yet.
ThreadFindsNothing ==
  /\ ThreadLocks /\ ~HasWork
  /\ thread' = "towait"
  /\ UNCHANGED <<mode, queues, wbVars, rbVars, flags, host, req, flushing, dependency, ghosts>>

ThreadWaits ==
  /\ thread = "towait"
  /\ thread' = "asleep"
  /\ UNCHANGED <<mode, queues, wbVars, rbVars, flags, host, req, flushing, dependency, ghosts>>

\* pthread_cond_wait may return although nobody signalled.
SpuriousWakeup ==
  /\ thread = "asleep"
  /\ thread' = "lock"
  /\ UNCHANGED <<mode, queues, wbVars, rbVars, flags, host, req, flushing, dependency, ghosts>>

DEQUEUE_IO == DequeueRead \/ DequeueWrite \/ AppendCompleted

HostStep ==
  \/ HostSecured \/ SpinSignals \/ SpinEnds \/ ENQUEUE_WRITE \/ EnqueueRead
  \/ FlushForRead \/ CopyForRead \/ FlushedForRead \/ HostSignals \/ Terminated

ThreadStep ==
  \/ ThreadDequeues \/ ThreadWorked \/ ThreadSecures \/ ThreadSecured
  \/ ThreadFindsNothing \/ ThreadWaits

Request ==
  \/ \E q \in Requests, d \in Data \cup {NoData} :
       (d \in Data <=> Holds(q, watch)) /\ SSD_WRITE(q, d)
  \/ \E q \in Requests : SSD_READ(q)
  \/ TERM_IO_BUFFER

\* The process may end after TERM_IO_BUFFER.
Ended == host = "closed" /\ UNCHANGED vars

Step == HostStep \/ ThreadStep \/ DEQUEUE_IO

Next == Request \/ Step \/ SpuriousWakeup \/ Ended

Spec == Init /\ [][Next]_vars

\* Some thread that can run does run, and from some point on the thread only
\* wakes up when the host signals.
FairSpec == Spec /\ WF_vars(Step) /\ <>[][SpuriousWakeup => SpinSignals]_vars
-----------------------------------------------------------------------------
(***************************************************************************)
(* Properties.                                                             *)
(***************************************************************************)
\* The host, or the thread, is inside a flush.
HostInQueue   == host \in {"secure", "flush", "term"}
ThreadInQueue == thread \in {"work", "secure_r", "secure_w"}

Range1(entries) == {entries[i] : i \in 1 .. Len(entries)}

\* Every variable stays in the range the code's arithmetic gives it.
TypeOK ==
  /\ e_queue \in Seq(Entries) /\ c_e_queue \in Seq(Entries)
  /\ last_read_entry \in 0 .. Len(e_queue)
  /\ wb_valid_array \in [WFrame -> {"0", "V", "F", "I"}]
  /\ {ftl_write_ptr, sata_write_ptr, write_limit_ptr} \subseteq WFrame
  /\ {ftl_read_ptr, sata_read_ptr, read_limit_ptr} \subseteq RFrame
  /\ empty_write_buffer_frame <= WRITE_BUFFER_FRAME_NB
  /\ empty_read_buffer_frame \in 0 .. READ_BUFFER_FRAME_NB
  /\ r_queue_full \in BOOLEAN /\ w_queue_full \in BOOLEAN
  /\ todo \in 0 .. Len(e_queue) + 1
  /\ moving \in Entries \cup {NoEntry} /\ dependency \in Entries \cup {NoEntry}
  /\ write_buffer \in [WFrame -> Data \cup {NoData}]
  /\ read_buffer \in [RFrame -> Data \cup {NoData}]
  /\ {disk, latest} \subseteq Data \cup {NoData}

\* Two threads are never inside a flush at once, although TERM_IO_BUFFER
\* takes no lock; and the thread drains the completed reads, which it does
\* without cq_lock, only while the host spins.
Exclusive ==
  /\ ~(HostInQueue /\ ThreadInQueue)
  /\ thread = "secure_r" => host = "spin"

\* The thread never sleeps on work that nobody will wake it for: the test and
\* the wait are under eq_lock, but the flags are raised without it and the
\* host signals after it has released the lock.
SleepsSafely ==
  thread = "asleep" /\ HasWork => host \in {"signal", "spin"}

\* DEQUEUE_IO never finds the queue empty ("There is no event"): a flush
\* counts its calls before it makes them.
FlushCounted ==
  todo <= Len(e_queue) + (IF moving = NoEntry THEN 0 ELSE 1)

\* The reads are the first entries of the queue, last_read_entry is the last
\* of them, and a write at the tail is valid, so that a flush up to the tail
\* hands every frame back.
QueueOrder ==
  /\ \A i \in 1 .. Len(e_queue) : e_queue[i].io_type = "READ" <=> i <= last_read_entry
  /\ e_queue # <<>> => e_queue[Len(e_queue)].valid

\* The frames a request needs are free when it is put into the queue, although
\* the counter was read without the lock: nobody else takes frames.
RoomAtEnqueue ==
  host = "enqueue" /\ ~failed =>
    req.length <= IF req.io_type = "WRITE" THEN empty_write_buffer_frame
                                           ELSE empty_read_buffer_frame

ValidWrites == Writes(e_queue)
FramesOf(i) == FirstN(e_queue[i].buf, e_queue[i].length, Valid(wb_valid_array))

\* The frames marked 'V' are those of the valid writes of the queue, as many
\* for each as it is long and in the order of the queue, so that
\* INCREASE_WB_FTL_POINTER will find them; the counter is the number of frames
\* marked '0'.
WriteFrames ==
  ~failed =>
    /\ empty_write_buffer_frame = Cardinality({f \in WFrame : wb_valid_array[f] = "0"})
    /\ Valid(wb_valid_array) = UNION {FramesOf(i) : i \in ValidWrites}
    /\ \A i \in ValidWrites : Cardinality(FramesOf(i)) = e_queue[i].length
    /\ \A i, j \in ValidWrites : i < j =>
         \A f \in FramesOf(i), g \in FramesOf(j) :
           WDist(ftl_write_ptr, f) < WDist(ftl_write_ptr, g)

\* The completed reads, in order.
Served == IF moving = NoEntry THEN c_e_queue ELSE Append(c_e_queue, moving)

\* READ_DATA_FROM_BUFFER_TO_HOST finds every completed read at the pointer it
\* has got to ("sata pointer is different from entry pointer"), unless the
\* FTL refused one; the counter knows the frames of all reads.
CompletedInOrder ==
  /\ ~failed =>
       \A i \in 1 .. Len(Served) :
         Served[i].buf = RAfter(sata_read_ptr, Frames(SubSeq(Served, 1, i - 1)))
  /\ empty_read_buffer_frame = READ_BUFFER_FRAME_NB - Frames(Served)
                                 - Frames(SubSeq(e_queue, 1, last_read_entry))

\* What a read returns, from the write buffer or from the FTL, is what was
\* written last before it, whatever was written since and although it
\* overtakes writes.
ReadsLatest ==
  ~failed =>
    \A e \in Range1(Served) \cup Range1(SubSeq(e_queue, 1, last_read_entry)) :
      Holds(e, watch) /\ e.buf # NULL =>
        read_buffer[RAfter(e.buf, watch - e.sector_nb)] = e.want

\* Nothing the host wrote is lost: the newest contents of a sector are in the
\* frames of the last valid write that holds it or, if there is none, have
\* been given to the FTL; in particular after TERM_IO_BUFFER.
NothingLost ==
  ~failed =>
    LET holders == {i \in ValidWrites : Holds(e_queue[i], watch)}
        last == e_queue[Max(holders)]
    IN  latest = IF holders = {} THEN disk
                 ELSE write_buffer[Nth(last.buf, watch - last.sector_nb, Valid(wb_valid_array))]

\* SSD_READ and SSD_WRITE return.  The exception is SSD_THREAD_MODE_1, where
\* nothing lowers the flag that the host spins on.
HostReturns ==
  (host \notin {"idle", "closed"})
    ~> (host \in {"idle", "closed"} \/ (mode = "1" /\ host = "spin"))
=============================================================================
