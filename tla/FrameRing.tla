------------------------------ MODULE FrameRing ------------------------------
(***************************************************************************)
(* The data structures of the IO buffer: an event of the queue, the ring   *)
(* of frames behind the writes with the state of each frame (wb_valid_     *)
(* array: '0' free, 'V' valid, 'I' overwritten, 'F' given to the FTL), and *)
(* the frames that belong to the events.  FirmBuffer is the algorithm.     *)
(***************************************************************************)
EXTENDS Integers, Sequences, FiniteSets

CONSTANTS
  WRITE_BUFFER_FRAME_NB,
  Data, NoData             \* contents of the watched sector; nothing written

ASSUME RingAssumption ==
  WRITE_BUFFER_FRAME_NB \in Nat \ {0} /\ NoData \notin Data

WFrame == 0 .. WRITE_BUFFER_FRAME_NB - 1
NULL   == -1

Entry(type, sector, length, buf, want) ==
  [io_type |-> type, valid |-> TRUE, sector_nb |-> sector, length |-> length,
   buf |-> buf, want |-> want]

Entries ==
  [io_type : {"READ", "WRITE"}, valid : BOOLEAN, sector_nb : Nat, length : Nat \ {0},
   buf : Nat \cup {NULL}, want : Data \cup {NoData}]

\* Entries and requests are ranges of sectors.
Holds(e, s) == e.sector_nb <= s /\ s < e.sector_nb + e.length
-----------------------------------------------------------------------------
WAfter(f, n) == (f + n) % WRITE_BUFFER_FRAME_NB

\* How many frames f lies behind frame p, going round.
WDist(p, f) == (f - p) % WRITE_BUFFER_FRAME_NB

\* The frames from p on, up to but not including q.
Between(p, q) == {f \in WFrame : WDist(p, f) < WDist(p, q)}

\* Of the given frames, the n-th (from 0) that is met from p on, and the first n.
Rank(p, f, frames) == Cardinality(frames \cap Between(p, f))
Nth(p, n, frames) == CHOOSE f \in frames : Rank(p, f, frames) = n
FirstN(p, n, frames) == {f \in frames : Rank(p, f, frames) < n}

Valid(array)      == {f \in WFrame : array[f] = "V"}
NotInvalid(array) == {f \in WFrame : array[f] # "I"}

Mark(array, frames, state) == [f \in WFrame |-> IF f \in frames THEN state ELSE array[f]]

-----------------------------------------------------------------------------
\* The sectors of the entries, one for each frame, and their number.
Slots(entries)  == UNION {{i} \X (1 .. entries[i].length) : i \in DOMAIN entries}
Frames(entries) == Cardinality(Slots(entries))

\* The events whose frames the FTL will take.
Writes(entries) == {i \in 1 .. Len(entries) : entries[i].io_type = "WRITE" /\ entries[i].valid}
=============================================================================
