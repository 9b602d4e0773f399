---------------------------- MODULE SectorSplit -----------------------------
(***************************************************************************)
(* How _FTL_READ and _FTL_WRITE cut a request of sectors into pages, and   *)
(* how ALLOC_IO_REQUEST counts the pages beforehand.                       *)
(*                                                                         *)
(* A write runs ALLOC_IO_REQUEST's loop and then its own; a read first     *)
(* looks whether all its pages are mapped.  The loops compute the same     *)
(* page boundaries three times over, and everything after them relies on   *)
(* their agreeing.  A page goes to the flash memory whole, or, when the    *)
(* request has only a part of it and it was written before, merged with    *)
(* its old contents.  Where the page is put is the business of PageMapFTL. *)
(*                                                                         *)
(* An operator F_X is F with a mistake put into it, to see that a property *)
(* notices; nothing uses it.                                               *)
(***************************************************************************)
EXTENDS Integers

CONSTANTS
  SECTORS_PER_PAGE,
  PAGE_MAPPING_ENTRY_NB,  \* logical pages of the device
  UINT_SIZE,              \* the number of values of an unsigned int
  MAX_LENGTH,             \* bound: sectors of one request
  Data, NoData

\* sector_nb is an int and not negative, so it is less than half of UINT_SIZE.
ASSUME SplitAssumption ==
  /\ SECTORS_PER_PAGE \in Nat \ {0} /\ PAGE_MAPPING_ENTRY_NB \in Nat \ {0}
  /\ UINT_SIZE \in Nat \ {0} /\ MAX_LENGTH \in Nat \ {0}
  /\ SECTORS_PER_PAGE * PAGE_MAPPING_ENTRY_NB < UINT_SIZE
  /\ 2 * MAX_LENGTH <= UINT_SIZE
  /\ NoData \notin Data

SECTOR_NB == SECTORS_PER_PAGE * PAGE_MAPPING_ENTRY_NB
Sector    == 0 .. SECTOR_NB - 1
LPN       == 0 .. PAGE_MAPPING_ENTRY_NB - 1
Offset    == 0 .. SECTORS_PER_PAGE - 1

VARIABLES
  pc, io_type, sector_nb, length, data,   \* the request
  lba, remain, left_skip,                 \* of the loop it is in
  io_page_nb,                             \* the pages ALLOC_IO_REQUEST counted
  page_nb,                                \* read_page_nb or write_page_nb
  mapped,                                 \* the logical pages with a ppn
  contents,                               \* lpn -> offset -> contents of the sector
  ret                                     \* what the last call returned

request == <<io_type, sector_nb, length, data>>
vars == <<pc, request, lba, remain, left_skip, io_page_nb, page_nb, mapped, contents, ret>>

Init ==
  /\ pc = "idle"
  /\ io_type = "none" /\ sector_nb = 0 /\ length = 0 /\ data = NoData
  /\ lba = 0 /\ remain = 0 /\ left_skip = 0
  /\ io_page_nb = 0 /\ page_nb = 0
  /\ mapped = {}
  /\ contents = [l \in LPN |-> [o \in Offset |-> NoData]]
  /\ ret = "SUCCESS"
-----------------------------------------------------------------------------
(***************************************************************************)
(* The body that the four loops share.                                     *)
(***************************************************************************)
right_skip_Early ==
  IF remain >= SECTORS_PER_PAGE - left_skip - 1 THEN 0
  ELSE (SECTORS_PER_PAGE - left_skip - remain) % UINT_SIZE

right_skip ==
  IF remain > SECTORS_PER_PAGE - left_skip THEN 0
  ELSE (SECTORS_PER_PAGE - left_skip - remain) % UINT_SIZE

sects == SECTORS_PER_PAGE - left_skip - right_skip
lpn   == lba \div SECTORS_PER_PAGE

\* The end of an iteration; ALLOC_IO_REQUEST has no lba to move.
Advance ==
  /\ remain' = (remain - sects) % UINT_SIZE
  /\ left_skip' = 0

\* A loop starts at the first sector of the request.
Start(s, n) ==
  /\ lba' = s
  /\ remain' = n
  /\ left_skip' = s % SECTORS_PER_PAGE

\* The locals are dead after the call.
Return(status) ==
  /\ pc' = "idle" /\ ret' = status
  /\ io_type' = "none" /\ sector_nb' = 0 /\ length' = 0 /\ data' = NoData
  /\ lba' = 0 /\ remain' = 0 /\ left_skip' = 0
  /\ io_page_nb' = 0 /\ page_nb' = 0
-----------------------------------------------------------------------------
(***************************************************************************)
(* The calls.                                                              *)
(***************************************************************************)
Exceeds_First(s, n) == s >= SECTOR_NB

\* int32_t + unsigned int is unsigned int.
Exceeds(s, n) == (s + n) % UINT_SIZE > SECTOR_NB

Refuse(s, n) ==
  /\ pc = "idle" /\ Exceeds(s, n)
  /\ Return("FAIL")
  /\ UNCHANGED <<mapped, contents>>

Accept(type, s, n, d, first) ==
  /\ pc = "idle" /\ ~Exceeds(s, n)
  /\ pc' = first
  /\ io_type' = type /\ sector_nb' = s /\ length' = n /\ data' = d
  /\ Start(s, n)
  /\ UNCHANGED <<io_page_nb, page_nb, mapped, contents, ret>>

_FTL_WRITE(s, n, d) == Accept("WRITE", s, n, d, "alloc")
_FTL_READ(s, n) == Accept("READ", s, n, NoData, "scan")

ScanPage_Unchecked ==
  /\ pc = "scan" /\ remain > 0
  /\ lba' = lba + sects
  /\ Advance
  /\ UNCHANGED <<pc, request, io_page_nb, page_nb, mapped, contents, ret>>

ScanPage_Continue ==
  pc = "scan" /\ remain > 0 /\ lpn \in mapped /\ UNCHANGED vars

\* The first loop of _FTL_READ: every page must be mapped.
ScanPage ==
  /\ pc = "scan" /\ remain > 0 /\ lpn \in mapped
  /\ lba' = lba + sects
  /\ Advance
  /\ UNCHANGED <<pc, request, io_page_nb, page_nb, mapped, contents, ret>>

NotMapped ==
  /\ pc = "scan" /\ remain > 0 /\ lpn \notin mapped
  /\ Return("FAIL")
  /\ UNCHANGED <<mapped, contents>>

Scanned ==
  /\ pc = "scan" /\ remain = 0
  /\ pc' = "alloc"
  /\ Start(sector_nb, length)
  /\ UNCHANGED <<request, io_page_nb, page_nb, mapped, contents, ret>>

ALLOC_IO_REQUEST_KeepSkip ==
  /\ pc = "alloc" /\ remain > 0
  /\ io_page_nb' = io_page_nb + 1
  /\ remain' = (remain - sects) % UINT_SIZE
  /\ UNCHANGED <<pc, request, lba, left_skip, page_nb, mapped, contents, ret>>

\* ALLOC_IO_REQUEST counts the pages.
ALLOC_IO_REQUEST ==
  /\ pc = "alloc" /\ remain > 0
  /\ io_page_nb' = io_page_nb + 1
  /\ Advance
  /\ UNCHANGED <<pc, request, lba, page_nb, mapped, contents, ret>>

Allocated ==
  /\ pc = "alloc" /\ remain = 0
  /\ pc' = IF io_type = "READ" THEN "read" ELSE "write"
  /\ Start(sector_nb, length)
  /\ UNCHANGED <<request, io_page_nb, page_nb, mapped, contents, ret>>

ReadPage ==
  /\ pc = "read" /\ remain > 0
  /\ page_nb' = page_nb + 1
  /\ lba' = lba + sects
  /\ Advance
  /\ UNCHANGED <<pc, request, io_page_nb, mapped, contents, ret>>

Partial_LeftOnly == left_skip # 0 /\ lpn \in mapped

\* SSD_PAGE_PARTIAL_WRITE or SSD_PAGE_WRITE?
Partial == (left_skip # 0 \/ right_skip # 0) /\ lpn \in mapped

NewContents_Short ==
  [o \in Offset |-> IF left_skip <= o /\ o < SECTORS_PER_PAGE - right_skip - 1 THEN data
                    ELSE IF Partial THEN contents[lpn][o] ELSE NoData]

NewContents ==
  [o \in Offset |-> IF left_skip <= o /\ o < SECTORS_PER_PAGE - right_skip THEN data
                    ELSE IF Partial THEN contents[lpn][o] ELSE NoData]

WritePage ==
  /\ pc = "write" /\ remain > 0
  /\ contents' = [contents EXCEPT ![lpn] = NewContents]
  /\ mapped' = mapped \cup {lpn}
  /\ page_nb' = page_nb + 1
  /\ lba' = lba + sects
  /\ Advance
  /\ UNCHANGED <<pc, request, io_page_nb, ret>>

\* GET_NEW_PAGE fails.
WriteFails ==
  /\ pc = "write" /\ remain > 0
  /\ Return("FAIL")
  /\ UNCHANGED <<mapped, contents>>

Done ==
  /\ pc \in {"read", "write"} /\ remain = 0
  /\ Return("SUCCESS")
  /\ UNCHANGED <<mapped, contents>>

Call ==
  \E s \in 0 .. (UINT_SIZE \div 2) - 1, n \in 1 .. MAX_LENGTH :
    \/ Refuse(s, n)
    \/ _FTL_READ(s, n)
    \/ \E d \in Data : _FTL_WRITE(s, n, d)

Step ==
  \/ ScanPage \/ NotMapped \/ Scanned \/ ALLOC_IO_REQUEST \/ Allocated
  \/ ReadPage \/ WritePage \/ WriteFails \/ Done

Next == Call \/ Step

Spec == Init /\ [][Next]_vars

\* The calling thread keeps running.
FairSpec == Spec /\ WF_vars(Step)
-----------------------------------------------------------------------------
(***************************************************************************)
(* Properties.                                                             *)
(***************************************************************************)
\* Every variable stays in the range the code's arithmetic gives it; neither
\* remain nor right_skip, which are unsigned, ever wraps below 0.
TypeOK ==
  /\ pc \in {"idle", "scan", "alloc", "read", "write"}
  /\ io_type \in {"none", "READ", "WRITE"} /\ data \in Data \cup {NoData}
  /\ sector_nb \in Nat /\ length \in 0 .. MAX_LENGTH
  /\ lba \in 0 .. SECTOR_NB /\ remain \in 0 .. length /\ left_skip \in Offset
  /\ io_page_nb \in Nat /\ page_nb \in Nat
  /\ mapped \subseteq LPN
  /\ contents \in [LPN -> [Offset -> Data \cup {NoData}]]
  /\ ret \in {"SUCCESS", "FAIL"}

\* A request that the check lets through ends within the device, although the
\* sum is computed in an unsigned int ("Exceed Sector number").
AcceptedInRange == pc # "idle" => sector_nb + length <= SECTOR_NB

\* The number of pages that hold a sector of s .. t - 1.
Spanned(s, t) ==
  IF s = t THEN 0 ELSE (t - 1) \div SECTORS_PER_PAGE - s \div SECTORS_PER_PAGE + 1

\* The three loops agree: the number of pages ALLOC_IO_REQUEST counts, which is
\* the size of the arrays of time stamps and the number of pages that complete
\* the request, is the number of pages the second loop issues; and it is the
\* number of pages the sectors span.
PagesAgree ==
  /\ pc \in {"read", "write"} =>
       /\ io_page_nb = Spanned(sector_nb, sector_nb + length)
       /\ page_nb = Spanned(sector_nb, lba)
  /\ pc \in {"read", "write"} /\ remain > 0 => page_nb < io_page_nb
  /\ pc \in {"read", "write"} /\ remain = 0 => page_nb = io_page_nb

\* The second loop of _FTL_READ never meets a page that the first did not find
\* mapped ("No Mapping info"): its ppn is used without a check.
ReadsMapped == pc = "read" /\ remain > 0 => lpn \in mapped

SectorData(s) == contents[s \div SECTORS_PER_PAGE][s % SECTORS_PER_PAGE]

\* A write reaches every sector of its range up to lba ...
WrittenSoFar == pc = "write" => \A s \in sector_nb .. lba - 1 : SectorData(s) = data

\* ... and no step of any call changes another sector of the device, those
\* that share a page with the range included.
OthersKept ==
  [][\A s \in Sector :
       SectorData(s)' # SectorData(s) =>
         s \in sector_nb .. sector_nb + length - 1 /\ SectorData(s)' = data]_vars

\* The loops end: every call returns.
CallReturns == (pc # "idle") ~> (pc = "idle")
=============================================================================
