---------------------------- MODULE LogicalDisk -----------------------------
(***************************************************************************)
(* What the FTL promises its caller: an array of logical pages.  A write   *)
(* request takes effect page by page in ascending order, each page at      *)
(* once; it may be cut short when the device has no free page, and then a  *)
(* prefix of it has been written.  A read returns what was last written to *)
(* each of its pages, or fails as a whole if one of them never was.  No    *)
(* other page ever changes, and a restart of the simulator changes none.   *)
(***************************************************************************)
EXTENDS Integers, Sequences

CONSTANTS
  LPN,              \* the logical pages
  HOST_PAGE_NB,     \* the host uses those below HOST_PAGE_NB
  MAX_REQ_PAGES,    \* bound: pages of one request
  Data, NoData

VARIABLES
  disk,      \* lpn -> contents
  next,      \* the next page the current request writes
  left,      \* the pages it has left to write, 0 when there is none
  data,      \* what it writes
  result     \* what the last read returned

diskVars == <<disk, next, left, data, result>>

Init ==
  /\ disk = [l \in LPN |-> NoData]
  /\ next = 0 /\ left = 0 /\ data = NoData
  /\ result = <<>>

Accept(l, n, d) ==
  /\ left = 0
  /\ l + n <= HOST_PAGE_NB
  /\ next' = l /\ left' = n /\ data' = d
  /\ result' = <<>>
  /\ UNCHANGED disk

Commit ==
  /\ left > 0
  /\ disk' = [disk EXCEPT ![next] = data]
  /\ left' = left - 1
  /\ next' = IF left = 1 THEN 0 ELSE next + 1
  /\ data' = IF left = 1 THEN NoData ELSE data
  /\ UNCHANGED result

Abort ==
  /\ left > 0
  /\ next' = 0 /\ left' = 0 /\ data' = NoData
  /\ UNCHANGED <<disk, result>>

Read(l, n) ==
  /\ left = 0
  /\ l + n <= HOST_PAGE_NB
  /\ result' = IF \E k \in l .. l + n - 1 : disk[k] = NoData
               THEN <<NoData>>
               ELSE [k \in 1 .. n |-> disk[l + k - 1]]
  /\ UNCHANGED <<disk, next, left, data>>

PowerCycle ==
  /\ left = 0
  /\ result' = <<>>
  /\ UNCHANGED <<disk, next, left, data>>

Next ==
  \/ \E l \in LPN, n \in 1 .. MAX_REQ_PAGES, d \in Data : Accept(l, n, d)
  \/ Commit
  \/ Abort
  \/ \E l \in LPN, n \in 1 .. MAX_REQ_PAGES : Read(l, n)
  \/ PowerCycle

Spec == Init /\ [][Next]_diskVars
=============================================================================
