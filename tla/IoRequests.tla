----------------------------- MODULE IoRequests -----------------------------
(***************************************************************************)
(* The list of host requests whose latency is being measured.  A request   *)
(* enters it when the FTL accepts it; every page of it is counted once     *)
(* when its command is given to a flash register and once when the         *)
(* register has finished.  The request whose counts are both complete is   *)
(* averaged and freed.                                                     *)
(*                                                                         *)
(* The time stamps themselves are left out: what is kept of a request is   *)
(* what decides when it is freed.  An operator F_X is F with a mistake put *)
(* into it, to see that a property notices; nothing uses it.               *)
(***************************************************************************)
EXTENDS Lists

CONSTANT UINT_MAX          \* the largest unsigned int

ASSUME UintAssumption == UINT_MAX \in Nat \ {0}

\* -1, the number of no request, as the unsigned int it is compared with.
NoRequest == UINT_MAX

\* ALLOC_IO_REQUEST: a request of size pages at the end of the list.
ALLOC_IO_REQUEST(requests, nb, size) ==
  Append(requests, [request_nb |-> nb, request_size |-> size,
                    start_count |-> 0, end_count |-> 0])

INCREASE_IO_REQUEST_SEQ_NB_Stuck(nb) == nb
INCREASE_IO_REQUEST_SEQ_NB(nb) == IF nb = UINT_MAX THEN 0 ELSE nb + 1

\* The places of the requests with a given number.
Numbered(requests, nb) == {i \in 1 .. Len(requests) : requests[i].request_nb = nb}

\* LOOKUP_IO_REQUEST: the first of them.
LOOKUP_IO_REQUEST(requests, nb) ==
  CHOOSE i \in Numbered(requests, nb) : \A j \in Numbered(requests, nb) : i <= j

\* A request with one more page started, or ended.
CountStart(q) == [q EXCEPT !.start_count = @ + 1]
CountEnd(q)   == [q EXCEPT !.end_count = @ + 1]

Complete_Early(q) == q.start_count = q.request_size
Complete(q) == q.start_count = q.request_size /\ q.end_count = q.request_size

\* The counted request goes back into its place, or is freed.
Replace(requests, i, q) ==
  IF Complete(q) THEN Unlink(requests, i) ELSE [requests EXCEPT ![i] = q]

\* UPDATE_IO_REQUEST, with UPDATE_START_TIME and with UPDATE_END_TIME.  An
\* update of no request, or of one that is not in the list, does nothing.
Known(requests, nb) == nb # NoRequest /\ Numbered(requests, nb) # {}

UpdateStart(requests, nb) ==
  IF Known(requests, nb)
  THEN LET i == LOOKUP_IO_REQUEST(requests, nb)
       IN  Replace(requests, i, CountStart(requests[i]))
  ELSE requests

UpdateEnd(requests, nb) ==
  IF Known(requests, nb)
  THEN LET i == LOOKUP_IO_REQUEST(requests, nb)
       IN  Replace(requests, i, CountEnd(requests[i]))
  ELSE requests
=============================================================================
