------------------------- MODULE SectorSplitProofs --------------------------
(***************************************************************************)
(* The splitting of requests is right for every page size, device size and *)
(* width of unsigned int.                                                  *)
(***************************************************************************)
EXTENDS SectorSplit, TLAPS

USE ZenonT(2), SMTT(30), ZenonT(30)

\* The first sector of the request that the current loop has not passed.
Position == sector_nb + length - remain

\* Where a loop stands: left_skip is the offset of its position, and all
\* positions but the first are at the start of a page.
LoopAt ==
  /\ length >= 1 /\ sector_nb + length <= SECTOR_NB
  /\ remain > 0 => /\ left_skip = Position % SECTORS_PER_PAGE
                   /\ Position > sector_nb => left_skip = 0
  /\ pc # "alloc" => lba = Position

\* What the loops have counted.
Counted ==
  /\ pc \in {"idle", "scan"} => io_page_nb = 0
  /\ pc \in {"idle", "scan", "alloc"} => page_nb = 0
  /\ pc = "alloc" => io_page_nb = Spanned(sector_nb, Position)
  /\ pc \in {"read", "write"} =>
       /\ io_page_nb = Spanned(sector_nb, sector_nb + length)
       /\ page_nb = Spanned(sector_nb, Position)

MappedTo(t) == \A s \in sector_nb .. t - 1 : s \div SECTORS_PER_PAGE \in mapped

\* What the loops have seen of the mapping.
Seen ==
  /\ pc = "scan" => io_type = "READ" /\ MappedTo(Position)
  /\ pc = "alloc" /\ io_type = "READ" => MappedTo(sector_nb + length)
  /\ pc = "read" => MappedTo(sector_nb + length)

\* A page that is not mapped holds nothing.
Blank == \A l \in LPN \ mapped, o \in Offset : contents[l][o] = NoData

IInv == TypeOK /\ (pc # "idle" => LoopAt) /\ Counted /\ Seen /\ Blank /\ WrittenSoFar
-----------------------------------------------------------------------------
(***************************************************************************)
(* Arithmetic.                                                             *)
(***************************************************************************)
\* What the C division and remainder of nonnegative integers compute.
LEMMA DivMod ==
  ASSUME NEW a \in Nat, NEW d \in Nat \ {0}
  PROVE  /\ a \div d \in Nat
         /\ a % d \in 0 .. d - 1
         /\ a = d * (a \div d) + (a % d)
  BY SMT

\* Quotient and remainder are unique.
LEMMA DivUnique ==
  ASSUME NEW d \in Nat \ {0}, NEW q \in Nat, NEW r \in 0 .. d - 1
  PROVE  /\ (d * q + r) \div d = q
         /\ (d * q + r) % d = r
  BY SMT

\* The sizes of the device.
LEMMA Sizes ==
  /\ SECTORS_PER_PAGE \in Nat \ {0} /\ SECTOR_NB \in Nat \ {0}
  /\ SECTORS_PER_PAGE <= SECTOR_NB /\ SECTOR_NB < UINT_SIZE
  /\ UINT_SIZE \in Nat \ {0} /\ MAX_LENGTH \in Nat \ {0}
  /\ \A s \in Sector : s \div SECTORS_PER_PAGE \in LPN /\ s % SECTORS_PER_PAGE \in Offset
<1> DEFINE S == SECTORS_PER_PAGE
           P == PAGE_MAPPING_ENTRY_NB
<1>1. S \in Nat \ {0} /\ P \in Nat \ {0} /\ SECTOR_NB = S * P
  BY SplitAssumption DEF SECTOR_NB
<1> HIDE DEF S, P
<1>2. S * P \in Nat /\ S * P >= S
  BY <1>1
<1>3. ASSUME NEW s \in 0 .. S * P - 1
      PROVE  s \div S \in 0 .. P - 1 /\ s % S \in 0 .. S - 1
  <2> DEFINE q == s \div S
             r == s % S
  <2>1. q \in Nat /\ r \in 0 .. S - 1 /\ s = S * q + r /\ s \in Nat /\ s < S * P
    <3>1. s \in Nat /\ s < S * P
      BY <1>1, <1>2, <1>3
    <3> QED BY <3>1, <1>1, DivMod, Zenon
  <2> HIDE DEF q, r
  <2>2. q < P
    <3>1. SUFFICES ASSUME q >= P PROVE FALSE
      BY <2>1, <1>1
    <3>2. S * q >= S * P
      BY <3>1, <2>1, <1>1
    <3> QED BY <3>2, <2>1, <1>1, <1>2
  <2> QED BY <2>1, <2>2, <1>1 DEF q, r
<1> QED BY <1>1, <1>2, <1>3, SplitAssumption DEF S, P, Sector, LPN, Offset, SECTOR_NB

\* One iteration takes the sectors up to the end of the page or of the
\* request, at least one.
LEMMA Taken ==
  ASSUME remain \in Nat \ {0}, left_skip \in Offset
  PROVE  /\ sects = IF remain > SECTORS_PER_PAGE - left_skip
                    THEN SECTORS_PER_PAGE - left_skip ELSE remain
         /\ right_skip = SECTORS_PER_PAGE - left_skip - sects
         /\ sects \in 1 .. remain
         /\ right_skip \in Offset
<1>1. CASE remain > SECTORS_PER_PAGE - left_skip
  <2>1. right_skip = 0
    BY <1>1 DEF right_skip
  <2> QED BY <2>1, <1>1, Sizes DEF sects, Offset
<1>2. CASE ~(remain > SECTORS_PER_PAGE - left_skip)
  <2> DEFINE x == SECTORS_PER_PAGE - left_skip - remain
  <2>1. x \in 0 .. UINT_SIZE - 1 /\ x \in Offset
    BY <1>2, Sizes DEF Offset
  <2>2. x % UINT_SIZE = x
    BY <2>1, Sizes
  <2>3. right_skip = x
    BY <2>2, <1>2 DEF right_skip
  <2> QED BY <2>1, <2>3, <1>2, Sizes DEF sects, Offset
<1> QED BY <1>1, <1>2

\* All sectors from p on, up to the end of its page, are in one page.
LEMMA SamePage ==
  ASSUME NEW p \in Nat, NEW k \in Nat, k <= SECTORS_PER_PAGE - (p % SECTORS_PER_PAGE),
         NEW s \in p .. p + k - 1
  PROVE  /\ s \div SECTORS_PER_PAGE = p \div SECTORS_PER_PAGE
         /\ s % SECTORS_PER_PAGE = (p % SECTORS_PER_PAGE) + (s - p)
<1> DEFINE S == SECTORS_PER_PAGE
           q == p \div S
           r == p % S
<1>1. S \in Nat \ {0}
  BY Sizes
<1>2. q \in Nat /\ r \in 0 .. S - 1 /\ p = S * q + r
  BY <1>1, DivMod
<1>3. k <= S - r
  OBVIOUS
<1> HIDE DEF S, q, r
<1>4. r + (s - p) \in 0 .. S - 1 /\ s = S * q + (r + (s - p))
  BY <1>1, <1>2, <1>3
<1>5. (S * q + (r + (s - p))) \div S = q /\ (S * q + (r + (s - p))) % S = r + (s - p)
  BY <1>1, <1>2, <1>4, DivUnique, Zenon
<1> QED BY <1>4, <1>5 DEF S, q, r

\* The end of a page is the start of the next.
LEMMA PageEnd ==
  ASSUME NEW p \in Nat
  PROVE  (p + (SECTORS_PER_PAGE - (p % SECTORS_PER_PAGE))) % SECTORS_PER_PAGE = 0
<1> DEFINE S == SECTORS_PER_PAGE
           q == p \div S
           r == p % S
<1>1. S \in Nat \ {0}
  BY Sizes
<1>2. q \in Nat /\ r \in 0 .. S - 1 /\ p = S * q + r
  BY <1>1, DivMod, Zenon
<1> HIDE DEF S, q, r
<1>3. p + (S - r) = S * (q + 1) + 0
  BY <1>1, <1>2
<1>4. (S * (q + 1) + 0) % S = 0
  <2>1. q + 1 \in Nat /\ 0 \in 0 .. S - 1
    BY <1>1, <1>2
  <2> QED BY <1>1, <2>1, DivUnique, Zenon
<1> QED BY <1>3, <1>4 DEF S, q, r

\* A part of one page that follows page ends spans one page more.
LEMMA SpannedNext ==
  ASSUME NEW s \in Nat, NEW p \in Nat, s <= p, NEW k \in Nat \ {0},
         k <= SECTORS_PER_PAGE - (p % SECTORS_PER_PAGE),
         p > s => p % SECTORS_PER_PAGE = 0
  PROVE  Spanned(s, p + k) = Spanned(s, p) + 1
<1> DEFINE S == SECTORS_PER_PAGE
           q == p \div S
<1>1. S \in Nat \ {0}
  BY Sizes
<1>2. q \in Nat
  BY <1>1, DivMod
<1>3. (p + k - 1) \div S = q
  BY SamePage, p + k - 1 \in p .. p + k - 1
<1>4. s # p + k
  OBVIOUS
<1>5. s \div S \in Nat
  BY <1>1, DivMod
<1>6. CASE s = p
  BY <1>2, <1>3, <1>4, <1>6 DEF Spanned
<1>7. CASE p > s
  <2>1. p = S * q
    BY <1>7, <1>1, DivMod
  <2> HIDE DEF q, S
  <2>2. q >= 1
    BY <2>1, <1>7, <1>1, <1>2
  <2>3. q - 1 \in Nat /\ p - 1 = S * (q - 1) + (S - 1) /\ S - 1 \in 0 .. S - 1
    BY <2>1, <2>2, <1>1, <1>2
  <2>4. (S * (q - 1) + (S - 1)) \div S = q - 1
    BY <2>3, <1>1, DivUnique, Zenon
  <2>5. Spanned(s, p) = (p - 1) \div S - s \div S + 1
    BY <1>7 DEF Spanned, S
  <2>6. Spanned(s, p + k) = (p + k - 1) \div S - s \div S + 1
    BY <1>4 DEF Spanned, S
  <2> QED BY <2>3, <2>4, <2>5, <2>6, <1>2, <1>3, <1>5
<1> QED BY <1>6, <1>7
-----------------------------------------------------------------------------
(***************************************************************************)
(* Induction.                                                              *)
(***************************************************************************)
\* A loop in the middle of a request is at one of its sectors.
LEMMA AtSector ==
  ASSUME TypeOK, LoopAt, remain > 0
  PROVE  /\ Position \in Sector /\ sector_nb <= Position /\ sector_nb \in Nat
         /\ remain \in Nat \ {0} /\ length \in Nat /\ left_skip \in Offset
         /\ sects \in 1 .. remain
         /\ sects <= SECTORS_PER_PAGE - (Position % SECTORS_PER_PAGE)
         /\ right_skip = SECTORS_PER_PAGE - left_skip - sects
         /\ right_skip \in Offset
<1>1. /\ sector_nb \in Nat /\ length \in Nat /\ remain \in Nat \ {0} /\ remain <= length
      /\ left_skip \in Offset /\ sector_nb + length <= SECTOR_NB
      /\ left_skip = Position % SECTORS_PER_PAGE
  BY Sizes DEF TypeOK, LoopAt
<1>2. Position \in Sector /\ sector_nb <= Position
  BY <1>1, Sizes DEF Position, Sector
<1>3. /\ sects \in 1 .. remain /\ right_skip = SECTORS_PER_PAGE - left_skip - sects
      /\ right_skip \in Offset
      /\ sects = IF remain > SECTORS_PER_PAGE - left_skip
                 THEN SECTORS_PER_PAGE - left_skip ELSE remain
  BY <1>1, Taken
<1>4. sects <= SECTORS_PER_PAGE - left_skip
  BY <1>1, <1>3, Sizes DEF Offset
<1> QED BY <1>1, <1>2, <1>3, <1>4

\* One iteration of any of the loops moves the position to the start of the
\* next page or to the end of the request, one page further.
LEMMA Iteration ==
  ASSUME TypeOK, LoopAt, remain > 0, Advance, UNCHANGED request
  PROVE  /\ remain' = remain - sects
         /\ Position' = Position + sects
         /\ remain' > 0 => left_skip' = Position' % SECTORS_PER_PAGE
         /\ Spanned(sector_nb, Position)' = Spanned(sector_nb, Position) + 1
<1> DEFINE p == Position
           k == sects
<1>1. /\ p \in Nat /\ sector_nb <= p /\ sector_nb \in Nat /\ length \in Nat
      /\ remain \in Nat \ {0} /\ k \in 1 .. remain
      /\ k <= SECTORS_PER_PAGE - (p % SECTORS_PER_PAGE)
  BY AtSector, Sizes DEF Sector
<1>2. remain' = remain - k
  <2>1. remain - k \in 0 .. UINT_SIZE - 1
    BY <1>1, SplitAssumption DEF TypeOK
  <2>2. (remain - k) % UINT_SIZE = remain - k
    BY <2>1, Sizes
  <2> QED BY <2>2 DEF Advance
<1>3. Position' = p + k
  BY <1>1, <1>2 DEF Position, request
<1>4. remain' > 0 => (p + k) % SECTORS_PER_PAGE = 0
  <2> SUFFICES ASSUME remain' > 0
               PROVE  (p + k) % SECTORS_PER_PAGE = 0
    OBVIOUS
  <2>1. k = SECTORS_PER_PAGE - left_skip /\ left_skip = p % SECTORS_PER_PAGE
    BY <1>1, <1>2, Taken, Sizes DEF TypeOK, LoopAt
  <2> HIDE DEF p, k
  <2> QED BY <2>1, <1>1, PageEnd, Zenon
<1>5. p > sector_nb => p % SECTORS_PER_PAGE = 0
  BY DEF LoopAt
<1> HIDE DEF p, k
<1>6. Spanned(sector_nb, p + k) = Spanned(sector_nb, p) + 1
  BY <1>1, <1>5, SpannedNext
<1>7. Spanned(sector_nb, Position)' = Spanned(sector_nb, p + k)
  BY <1>3 DEF Spanned, request
<1> QED BY <1>2, <1>3, <1>4, <1>6, <1>7 DEF p, k, Advance

\* A call that returns leaves no loop behind.
LEMMA Returned ==
  ASSUME IInv, NEW status \in {"SUCCESS", "FAIL"}, Return(status), UNCHANGED <<mapped, contents>>
  PROVE  IInv'
<1>1. TypeOK'
  BY Sizes DEF IInv, TypeOK, Return, Offset
<1>2. Counted' /\ Seen' /\ WrittenSoFar' /\ pc' = "idle"
  BY DEF Return, Counted, Seen, WrittenSoFar
<1>3. Blank'
  BY DEF IInv, Blank
<1> QED BY <1>1, <1>2, <1>3 DEF IInv

\* A loop that starts is at the first sector.
LEMMA Started ==
  ASSUME NEW s \in Nat, NEW n \in 1 .. MAX_LENGTH, s + n <= SECTOR_NB, Start(s, n),
         sector_nb' = s, length' = n
  PROVE  /\ LoopAt' /\ Position' = s
         /\ lba' \in 0 .. SECTOR_NB /\ remain' \in 0 .. length' /\ left_skip' \in Offset
<1>1. s % SECTORS_PER_PAGE \in Offset
  BY Sizes, DivMod DEF Offset
<1>2. Position' = s
  BY Sizes DEF Position, Start
<1> QED BY <1>1, <1>2, Sizes DEF Start, LoopAt

\* An empty range spans no page, and all sectors of it are anything.
LEMMA Empty ==
  ASSUME NEW s \in Nat
  PROVE  Spanned(s, s) = 0 /\ s .. s - 1 = {}
  BY DEF Spanned

\* A request that the check lets through ends within the device.
LEMMA Accepted ==
  ASSUME NEW s \in 0 .. (UINT_SIZE \div 2) - 1, NEW n \in 1 .. MAX_LENGTH, ~Exceeds(s, n)
  PROVE  s \in Nat /\ s + n <= SECTOR_NB
<1>1. UINT_SIZE \div 2 \in Nat /\ 2 * (UINT_SIZE \div 2) <= UINT_SIZE
  BY Sizes
<1>2. s \in Nat /\ s + n \in 0 .. UINT_SIZE - 1
  BY <1>1, SplitAssumption
<1>3. (s + n) % UINT_SIZE = s + n
  BY <1>2, Sizes
<1> QED BY <1>2, <1>3, Sizes DEF Exceeds

\* The first loop of a call starts.
LEMMA AcceptPreserves ==
  ASSUME IInv, NEW type, NEW first, <<type, first>> \in {<<"READ", "scan">>, <<"WRITE", "alloc">>},
         NEW s \in 0 .. (UINT_SIZE \div 2) - 1, NEW n \in 1 .. MAX_LENGTH,
         NEW d \in Data \cup {NoData}, Accept(type, s, n, d, first)
  PROVE  IInv'
<1>1. s \in Nat /\ s + n <= SECTOR_NB /\ s .. s - 1 = {} /\ Spanned(s, s) = 0
  BY Accepted, Empty DEF Accept
<1>2. /\ LoopAt' /\ Position' = s
      /\ lba' \in 0 .. SECTOR_NB /\ remain' \in 0 .. length' /\ left_skip' \in Offset
  BY <1>1, Started DEF Accept
<1>3. /\ pc' = first /\ io_type' = type /\ sector_nb' = s /\ length' = n /\ data' = d /\ pc = "idle"
      /\ UNCHANGED <<io_page_nb, page_nb, mapped, contents, ret>>
      /\ (type = "READ" /\ first = "scan") \/ (type = "WRITE" /\ first = "alloc")
  BY DEF Accept
<1>4. TypeOK'
  BY <1>1, <1>2, <1>3 DEF IInv, TypeOK
<1>5. Counted'
  <2>1. Spanned(sector_nb, Position)' = Spanned(s, s)
    BY <1>2, <1>3 DEF Spanned
  <2> QED BY <2>1, <1>1, <1>3 DEF IInv, Counted
<1>6. Seen'
  BY <1>1, <1>2, <1>3 DEF Seen, MappedTo
<1>7. Blank' /\ WrittenSoFar'
  BY <1>3 DEF IInv, Blank, WrittenSoFar
<1> QED BY <1>2, <1>4, <1>5, <1>6, <1>7 DEF IInv

\* The page of a loop's position is the page of every sector it takes.
LEMMA PageTaken ==
  ASSUME TypeOK, LoopAt, remain > 0, lba = Position
  PROVE  /\ lpn \in LPN
         /\ \A s \in Position .. Position + sects - 1 :
              /\ s \div SECTORS_PER_PAGE = lpn
              /\ s % SECTORS_PER_PAGE = left_skip + (s - Position)
<1>1. /\ Position \in Sector /\ Position \in Nat /\ sects \in Nat
      /\ sects <= SECTORS_PER_PAGE - (Position % SECTORS_PER_PAGE)
  BY AtSector, Sizes DEF Sector
<1>2. lpn = Position \div SECTORS_PER_PAGE /\ lpn \in LPN
  BY <1>1, Sizes DEF lpn
<1>3. left_skip = Position % SECTORS_PER_PAGE
  BY DEF LoopAt
<1> QED BY <1>1, <1>2, <1>3, SamePage, Zenon

\* An iteration keeps the loop where it should be.
LEMMA Moved ==
  ASSUME TypeOK, LoopAt, remain > 0, Advance, UNCHANGED <<pc, request>>,
         lba' = IF pc = "alloc" THEN lba ELSE lba + sects
  PROVE  /\ LoopAt'
         /\ lba' \in 0 .. SECTOR_NB /\ remain' \in 0 .. length' /\ left_skip' \in Offset
<1>1. /\ remain' = remain - sects /\ Position' = Position + sects
      /\ remain' > 0 => left_skip' = Position' % SECTORS_PER_PAGE
      /\ left_skip' = 0
  BY Iteration DEF Advance
<1>2. /\ sector_nb \in Nat /\ length \in Nat /\ remain \in Nat \ {0} /\ sects \in 1 .. remain
      /\ remain <= length /\ lba \in 0 .. SECTOR_NB /\ sector_nb + length <= SECTOR_NB
      /\ length >= 1 /\ (pc # "alloc" => lba = Position)
  BY AtSector DEF TypeOK, LoopAt
<1>3. Position = sector_nb + length - remain /\ sector_nb' = sector_nb /\ length' = length /\ pc' = pc
  BY DEF Position, request
<1>4. lba' \in 0 .. SECTOR_NB /\ remain' \in 0 .. length' /\ left_skip' \in Offset
  BY <1>1, <1>2, <1>3, Sizes DEF Offset
<1>5. LoopAt'
  BY <1>1, <1>2, <1>3, Sizes DEF LoopAt
<1> QED BY <1>4, <1>5

LEMMA ScanPreserves ==
  ASSUME IInv, ScanPage \/ Scanned \/ NotMapped
  PROVE  IInv'
<1>1. CASE ScanPage
  <2>1. /\ TypeOK /\ LoopAt /\ remain > 0 /\ Advance /\ pc = "scan" /\ lpn \in mapped
        /\ UNCHANGED <<pc, request, io_page_nb, page_nb, mapped, contents, ret>>
        /\ lba' = lba + sects /\ lba = Position
    BY <1>1 DEF ScanPage, IInv, LoopAt
  <2>2. /\ LoopAt'
        /\ lba' \in 0 .. SECTOR_NB /\ remain' \in 0 .. length' /\ left_skip' \in Offset
    BY <2>1, Moved
  <2>3. TypeOK'
    BY <2>1, <2>2 DEF TypeOK, request
  <2>4. Counted' /\ Blank' /\ WrittenSoFar'
    BY <2>1 DEF IInv, Counted, Blank, WrittenSoFar
  <2>5. MappedTo(Position)'
    <3>1. Position' = Position + sects
      BY <2>1, Iteration
    <3>2. /\ Position \in Nat /\ sects \in Nat /\ sector_nb \in Nat
          /\ \A s \in Position .. Position + sects - 1 : s \div SECTORS_PER_PAGE = lpn
      BY <2>1, PageTaken, AtSector DEF Sector
    <3>3. \A s \in sector_nb .. Position - 1 : s \div SECTORS_PER_PAGE \in mapped
      BY <2>1 DEF IInv, Seen, MappedTo
    <3>4. ASSUME NEW s \in sector_nb .. Position + sects - 1
          PROVE  s \div SECTORS_PER_PAGE \in mapped
      <4>1. s \in sector_nb .. Position - 1 \/ s \in Position .. Position + sects - 1
        BY <3>2, <3>4
      <4> QED BY <4>1, <3>2, <3>3, <2>1
    <3>5. sector_nb' = sector_nb /\ mapped' = mapped
      BY <2>1 DEF request
    <3>6. \A s \in sector_nb' .. Position' - 1 : s \div SECTORS_PER_PAGE \in mapped'
      <4>1. sector_nb' .. Position' - 1 = sector_nb .. Position + sects - 1
        BY <3>1, <3>2, <3>5
      <4> QED BY <4>1, <3>4, <3>5, Zenon
    <3> QED BY <3>6 DEF MappedTo
  <2>6. Seen'
    BY <2>5, <2>1 DEF IInv, Seen, request
  <2> QED BY <2>2, <2>3, <2>4, <2>6 DEF IInv
<1>2. CASE Scanned
  <2>1. /\ TypeOK /\ LoopAt /\ remain = 0 /\ pc = "scan" /\ pc' = "alloc"
        /\ Start(sector_nb, length)
        /\ UNCHANGED <<request, io_page_nb, page_nb, mapped, contents, ret>>
    BY <1>2 DEF Scanned, IInv
  <2>2. /\ sector_nb \in Nat /\ length \in 1 .. MAX_LENGTH /\ sector_nb + length <= SECTOR_NB
        /\ sector_nb' = sector_nb /\ length' = length
    BY <2>1 DEF TypeOK, LoopAt, request
  <2>3. /\ LoopAt' /\ Position' = sector_nb
        /\ lba' \in 0 .. SECTOR_NB /\ remain' \in 0 .. length' /\ left_skip' \in Offset
    BY <2>1, <2>2, Started
  <2>4. TypeOK'
    BY <2>1, <2>3 DEF TypeOK, request
  <2>5. Counted'
    <3>1. Spanned(sector_nb, Position)' = Spanned(sector_nb, sector_nb)
      BY <2>2, <2>3 DEF Spanned
    <3>2. Spanned(sector_nb, sector_nb) = 0
      BY <2>2, Empty
    <3> QED BY <3>1, <3>2, <2>1 DEF IInv, Counted
  <2>6. Seen'
    <3>1. Position = sector_nb + length
      BY <2>1, <2>2 DEF Position
    <3>2. MappedTo(sector_nb + length)
      BY <3>1, <2>1 DEF IInv, Seen
    <3>3. MappedTo(sector_nb + length)'
      BY <3>2, <2>1, <2>2 DEF MappedTo
    <3> QED BY <3>3, <2>1 DEF Seen
  <2>7. Blank' /\ WrittenSoFar'
    BY <2>1 DEF IInv, Blank, WrittenSoFar
  <2> QED BY <2>3, <2>4, <2>5, <2>6, <2>7 DEF IInv
<1>3. CASE NotMapped
  BY <1>3, Returned DEF NotMapped
<1> QED BY <1>1, <1>2, <1>3

LEMMA AllocPreserves ==
  ASSUME IInv, ALLOC_IO_REQUEST \/ Allocated
  PROVE  IInv'
<1>1. CASE ALLOC_IO_REQUEST
  <2>1. /\ TypeOK /\ LoopAt /\ remain > 0 /\ Advance /\ pc = "alloc"
        /\ UNCHANGED <<pc, request, lba, page_nb, mapped, contents, ret>>
        /\ io_page_nb' = io_page_nb + 1
    BY <1>1 DEF ALLOC_IO_REQUEST, IInv
  <2>2. /\ LoopAt'
        /\ lba' \in 0 .. SECTOR_NB /\ remain' \in 0 .. length' /\ left_skip' \in Offset
    BY <2>1, Moved
  <2>3. TypeOK'
    BY <2>1, <2>2 DEF TypeOK, request
  <2>4. Counted'
    BY <2>1, Iteration DEF IInv, Counted
  <2>5. Seen' /\ Blank' /\ WrittenSoFar'
    BY <2>1 DEF IInv, Seen, MappedTo, Blank, WrittenSoFar, request
  <2> QED BY <2>2, <2>3, <2>4, <2>5 DEF IInv
<1>2. CASE Allocated
  <2>1. /\ TypeOK /\ LoopAt /\ remain = 0 /\ pc = "alloc"
        /\ pc' = (IF io_type = "READ" THEN "read" ELSE "write")
        /\ Start(sector_nb, length)
        /\ UNCHANGED <<request, io_page_nb, page_nb, mapped, contents, ret>>
    BY <1>2 DEF Allocated, IInv
  <2>2. /\ sector_nb \in Nat /\ length \in 1 .. MAX_LENGTH /\ sector_nb + length <= SECTOR_NB
        /\ sector_nb' = sector_nb /\ length' = length /\ io_type' = io_type
    BY <2>1 DEF TypeOK, LoopAt, request
  <2>3. /\ LoopAt' /\ Position' = sector_nb /\ lba' = sector_nb
        /\ lba' \in 0 .. SECTOR_NB /\ remain' \in 0 .. length' /\ left_skip' \in Offset
    BY <2>1, <2>2, Started DEF Start
  <2>4. TypeOK'
    BY <2>1, <2>3 DEF TypeOK, request
  <2>5. Counted'
    <3>1. Position = sector_nb + length
      BY <2>1, <2>2 DEF Position
    <3>2. /\ Spanned(sector_nb, Position)' = Spanned(sector_nb, sector_nb)
          /\ Spanned(sector_nb, sector_nb + length)' = Spanned(sector_nb, sector_nb + length)
      BY <2>2, <2>3 DEF Spanned
    <3> QED BY <3>1, <3>2, <2>1, <2>2, Empty DEF IInv, Counted
  <2>6. Seen'
    BY <2>1, <2>2 DEF IInv, Seen, MappedTo
  <2>7. Blank'
    BY <2>1 DEF IInv, Blank
  <2>8. WrittenSoFar'
    <3>1. sector_nb .. sector_nb - 1 = {}
      BY <2>2
    <3> QED BY <3>1, <2>2, <2>3 DEF WrittenSoFar
  <2> QED BY <2>3, <2>4, <2>5, <2>6, <2>7, <2>8 DEF IInv
<1> QED BY <1>1, <1>2

LEMMA ReadPreserves ==
  ASSUME IInv, ReadPage
  PROVE  IInv'
<1>1. /\ TypeOK /\ LoopAt /\ remain > 0 /\ Advance /\ pc = "read"
      /\ UNCHANGED <<pc, request, io_page_nb, mapped, contents, ret>>
      /\ page_nb' = page_nb + 1 /\ lba' = lba + sects
  BY DEF ReadPage, IInv
<1>2. /\ LoopAt'
      /\ lba' \in 0 .. SECTOR_NB /\ remain' \in 0 .. length' /\ left_skip' \in Offset
  BY <1>1, Moved
<1>3. TypeOK'
  BY <1>1, <1>2 DEF TypeOK, request
<1>4. Counted'
  <2>1. Spanned(sector_nb, sector_nb + length)' = Spanned(sector_nb, sector_nb + length)
    BY <1>1 DEF Spanned, request
  <2> QED BY <2>1, <1>1, Iteration DEF IInv, Counted
<1>5. Seen' /\ Blank' /\ WrittenSoFar'
  BY <1>1 DEF IInv, Seen, MappedTo, Blank, WrittenSoFar, request
<1> QED BY <1>2, <1>3, <1>4, <1>5 DEF IInv

\* What a page write does to the sectors.
LEMMA PageWritten ==
  ASSUME IInv, WritePage, NEW s \in Sector
  PROVE  IF s \in Position .. Position + sects - 1
         THEN SectorData(s)' = data
         ELSE SectorData(s)' = SectorData(s)
<1> DEFINE l == s \div SECTORS_PER_PAGE
           o == s % SECTORS_PER_PAGE
<1>1. /\ TypeOK /\ LoopAt /\ remain > 0 /\ lba = Position /\ Blank
      /\ contents' = [contents EXCEPT ![lpn] = NewContents]
  BY DEF WritePage, IInv, LoopAt
<1>2. l \in LPN /\ o \in Offset /\ s \in Nat /\ SECTORS_PER_PAGE \in Nat \ {0}
  <2>1. l \in LPN /\ o \in Offset
    BY Sizes, Zenon
  <2>2. SECTOR_NB \in Nat /\ SECTORS_PER_PAGE \in Nat \ {0}
    BY Sizes
  <2> QED BY <2>1, <2>2 DEF Sector
<1>3. /\ lpn \in LPN /\ Position \in Nat
      /\ \A t \in Position .. Position + sects - 1 :
           /\ t \div SECTORS_PER_PAGE = lpn
           /\ t % SECTORS_PER_PAGE = left_skip + (t - Position)
  BY <1>1, PageTaken, AtSector DEF Sector
<1>4. /\ sects \in Nat /\ left_skip \in Offset /\ right_skip \in Offset
      /\ right_skip = SECTORS_PER_PAGE - left_skip - sects /\ left_skip = Position % SECTORS_PER_PAGE
  BY <1>1, AtSector DEF LoopAt
<1>5. SectorData(s)' = IF l = lpn THEN NewContents[o] ELSE contents[l][o]
  BY <1>1, <1>2, <1>3 DEF SectorData, TypeOK
<1>6. SectorData(s) = contents[l][o]
  BY DEF SectorData
<1>7. NewContents[o] = IF left_skip <= o /\ o < SECTORS_PER_PAGE - right_skip THEN data
                       ELSE IF Partial THEN contents[lpn][o] ELSE NoData
  BY <1>2 DEF NewContents
<1>8. CASE s \in Position .. Position + sects - 1
  <2>1. l = lpn /\ o = left_skip + (s - Position)
    BY <1>3, <1>8
  <2> HIDE DEF l, o
  <2>2. left_skip <= o /\ o < SECTORS_PER_PAGE - right_skip
    BY <2>1, <1>2, <1>3, <1>4, <1>8 DEF Offset
  <2> QED BY <2>1, <2>2, <1>5, <1>7, <1>8
<1>9. CASE s \notin Position .. Position + sects - 1 /\ l # lpn
  BY <1>5, <1>6, <1>9
<1>10. CASE s \notin Position .. Position + sects - 1 /\ l = lpn
  <2>1. s = SECTORS_PER_PAGE * l + o /\ Position = SECTORS_PER_PAGE * lpn + left_skip
    BY <1>2, <1>3, <1>4, <1>1, DivMod DEF lpn
  <2>2. lpn \in Nat
    BY <1>3, SplitAssumption DEF LPN
  <2> HIDE DEF l, o
  <2>3. s - Position = o - left_skip
    BY <2>1, <2>2, <1>2, <1>4, <1>10 DEF Offset
  <2>4. ~(left_skip <= o /\ o < SECTORS_PER_PAGE - right_skip)
    BY <2>3, <1>2, <1>3, <1>4, <1>10 DEF Offset
  <2>5. NewContents[o] = IF Partial THEN contents[lpn][o] ELSE NoData
    BY <2>4, <1>7
  <2>6. left_skip # 0 \/ right_skip # 0
    <3>1. /\ o \in 0 .. SECTORS_PER_PAGE - 1 /\ SECTORS_PER_PAGE \in Nat
          /\ left_skip \in 0 .. SECTORS_PER_PAGE - 1
      BY <1>2, <1>4 DEF Offset
    <3> QED BY <3>1, <2>4
  <2>7. CASE lpn \in mapped
    BY <2>5, <2>6, <2>7, <1>5, <1>6, <1>10 DEF Partial
  <2>8. CASE lpn \notin mapped
    <3>1. contents[lpn][o] = NoData
      BY <2>8, <1>1, <1>2, <1>3 DEF Blank
    <3> QED BY <3>1, <2>5, <2>8, <1>5, <1>6, <1>10 DEF Partial
  <2> QED BY <2>7, <2>8
<1> QED BY <1>8, <1>9, <1>10

LEMMA WritePreserves ==
  ASSUME IInv, WritePage
  PROVE  IInv'
<1>1. /\ TypeOK /\ LoopAt /\ remain > 0 /\ Advance /\ pc = "write" /\ lba = Position
      /\ UNCHANGED <<pc, request, io_page_nb, ret>>
      /\ page_nb' = page_nb + 1 /\ lba' = lba + sects /\ mapped' = mapped \cup {lpn}
      /\ contents' = [contents EXCEPT ![lpn] = NewContents]
  BY DEF WritePage, IInv, LoopAt
<1>2. /\ LoopAt'
      /\ lba' \in 0 .. SECTOR_NB /\ remain' \in 0 .. length' /\ left_skip' \in Offset
  BY <1>1, Moved
<1>3. lpn \in LPN
  BY <1>1, PageTaken
<1>4. contents' \in [LPN -> [Offset -> Data \cup {NoData}]]
  <2>1. NewContents \in [Offset -> Data \cup {NoData}]
    BY <1>1, <1>3 DEF NewContents, TypeOK
  <2> QED BY <2>1, <1>1, <1>3 DEF TypeOK
<1>5. TypeOK'
  BY <1>1, <1>2, <1>3, <1>4 DEF TypeOK, request
<1>6. Counted'
  <2>1. Spanned(sector_nb, sector_nb + length)' = Spanned(sector_nb, sector_nb + length)
    BY <1>1 DEF Spanned, request
  <2> QED BY <2>1, <1>1, Iteration DEF IInv, Counted
<1>7. Seen'
  BY <1>1 DEF Seen
<1>8. Blank'
  BY <1>1, <1>3 DEF IInv, Blank, TypeOK
<1>9. WrittenSoFar'
  <2>1. /\ Position \in Nat /\ sects \in 1 .. remain /\ sector_nb \in Nat /\ remain \in Nat
        /\ length \in Nat /\ sector_nb + length <= SECTOR_NB
        /\ Position = sector_nb + length - remain
    BY <1>1, AtSector DEF Sector, LoopAt, Position
  <2>2. ASSUME NEW s \in sector_nb .. lba' - 1
        PROVE  SectorData(s)' = data
    <3>1. s \in Sector /\ (s \in sector_nb .. Position - 1 \/ s \in Position .. Position + sects - 1)
      <4>1. lba' = Position + sects /\ SECTOR_NB \in Nat
        BY <1>1, Sizes
      <4> QED BY <4>1, <2>1, <2>2 DEF Sector
    <3>2. CASE s \in Position .. Position + sects - 1
      BY <3>1, <3>2, PageWritten
    <3>3. CASE s \notin Position .. Position + sects - 1
      <4>1. SectorData(s) = data
        BY <3>1, <3>3, <1>1 DEF IInv, WrittenSoFar
      <4> QED BY <4>1, <3>1, <3>3, PageWritten
    <3> QED BY <3>2, <3>3
  <2>3. sector_nb' = sector_nb /\ data' = data
    BY <1>1 DEF request
  <2> QED BY <2>2, <2>3 DEF WrittenSoFar
<1> QED BY <1>2, <1>5, <1>6, <1>7, <1>8, <1>9 DEF IInv

LEMMA Initially == Init => IInv
<1> SUFFICES ASSUME Init PROVE IInv
  OBVIOUS
<1>1. TypeOK
  BY Sizes DEF Init, TypeOK, Offset
<1>2. Blank
  BY DEF Init, Blank
<1> QED BY <1>1, <1>2 DEF Init, IInv, Counted, Seen, WrittenSoFar

LEMMA Preserved == IInv /\ [Next]_vars => IInv'
<1> SUFFICES ASSUME IInv, [Next]_vars
             PROVE  IInv'
  OBVIOUS
<1>1. ASSUME NEW s \in 0 .. (UINT_SIZE \div 2) - 1, NEW n \in 1 .. MAX_LENGTH,
             Refuse(s, n)
      PROVE  IInv'
  BY <1>1, Returned DEF Refuse
<1>2. ASSUME NEW s \in 0 .. (UINT_SIZE \div 2) - 1, NEW n \in 1 .. MAX_LENGTH,
             _FTL_READ(s, n)
      PROVE  IInv'
  <2>1. Accept("READ", s, n, NoData, "scan")
    BY <1>2 DEF _FTL_READ
  <2> QED BY <2>1, AcceptPreserves
<1>3. ASSUME NEW s \in 0 .. (UINT_SIZE \div 2) - 1, NEW n \in 1 .. MAX_LENGTH, NEW d \in Data,
             _FTL_WRITE(s, n, d)
      PROVE  IInv'
  <2>1. Accept("WRITE", s, n, d, "alloc")
    BY <1>3 DEF _FTL_WRITE
  <2> QED BY <2>1, AcceptPreserves
<1>4. CASE ScanPage \/ Scanned \/ NotMapped
  BY <1>4, ScanPreserves
<1>5. CASE ALLOC_IO_REQUEST \/ Allocated
  BY <1>5, AllocPreserves
<1>6. CASE ReadPage
  BY <1>6, ReadPreserves
<1>7. CASE WritePage
  BY <1>7, WritePreserves
<1>8. CASE WriteFails
  BY <1>8, Returned DEF WriteFails
<1>9. CASE Done
  BY <1>9, Returned DEF Done
<1>10. CASE UNCHANGED vars
  <2>1. UNCHANGED <<pc, io_type, sector_nb, length, data, lba, remain, left_skip,
                    io_page_nb, page_nb, mapped, contents, ret>>
    BY <1>10 DEF vars, request
  <2>2. TypeOK' /\ (pc # "idle" => LoopAt)'
    BY <2>1 DEF IInv, TypeOK, LoopAt, Position
  <2>3. Counted' /\ Seen' /\ Blank' /\ WrittenSoFar'
    BY <2>1 DEF IInv, Counted, Seen, Blank, WrittenSoFar, MappedTo, Position, Spanned, SectorData
  <2> QED BY <2>2, <2>3 DEF IInv
<1> QED BY <1>1, <1>2, <1>3, <1>4, <1>5, <1>6, <1>7, <1>8, <1>9, <1>10 DEF Next, Call, Step

\* The inductive invariant of the splitting: where each loop of _FTL_READ,
\* _FTL_WRITE and ALLOC_IO_REQUEST stands, and what it has done so far.
THEOREM Invariance == Spec => []IInv
<1> QED BY Initially, Preserved, PTL DEF Spec
-----------------------------------------------------------------------------
(***************************************************************************)
(* The properties.                                                         *)
(***************************************************************************)
\* The loop counters stay in range: no unsigned subtraction of _FTL_READ,
\* _FTL_WRITE or ALLOC_IO_REQUEST wraps.
THEOREM TypeCorrect == Spec => []TypeOK
<1>1. IInv => TypeOK
  BY DEF IInv
<1> QED BY <1>1, Invariance, PTL

\* Every request the check of _FTL_READ or _FTL_WRITE lets through lies within
\* the device.
THEOREM InRange == Spec => []AcceptedInRange
<1>1. IInv => AcceptedInRange
  BY DEF IInv, LoopAt, AcceptedInRange
<1> QED BY <1>1, Invariance, PTL

\* A request spans no fewer pages than a beginning of it.
LEMMA SpannedGrows ==
  ASSUME NEW s \in Nat, NEW p \in Nat, NEW t \in Nat, s <= p, p < t,
         p > s => p % SECTORS_PER_PAGE = 0
  PROVE  Spanned(s, p) < Spanned(s, t)
<1> DEFINE S == SECTORS_PER_PAGE
           k == t - p
<1>1. S \in Nat \ {0}
  BY Sizes
<1>2. /\ (t - 1) \div S \in Nat /\ s \div S \in Nat /\ p \div S \in Nat
      /\ t - 1 = S * ((t - 1) \div S) + ((t - 1) % S) /\ (t - 1) % S \in 0 .. S - 1
      /\ p = S * (p \div S) + (p % S) /\ p % S \in 0 .. S - 1
  <2>1. t - 1 \in Nat
    OBVIOUS
  <2> QED BY <1>1, <2>1, DivMod, Zenon
<1>3. (t - 1) \div S >= p \div S
  <2> DEFINE q == p \div S
             u == (t - 1) \div S
             r == p % S
             v == (t - 1) % S
  <2>1. /\ q \in Nat /\ u \in Nat /\ r \in 0 .. S - 1 /\ v \in 0 .. S - 1
        /\ p = S * q + r /\ t - 1 = S * u + v
    BY <1>2
  <2> HIDE DEF S, q, u, r, v
  <2>2. SUFFICES ASSUME u < q PROVE FALSE
    BY <2>1 DEF S, q, u
  <2>3. S * u + S <= S * q
    <3>1. q >= u + 1
      BY <2>1, <2>2
    <3>2. S * q >= S * (u + 1)
      BY <3>1, <2>1, <1>1
    <3> QED BY <3>2, <2>1, <1>1
  <2> QED BY <2>1, <2>3, <1>1
<1>4. Spanned(s, t) = (t - 1) \div S - s \div S + 1
  BY DEF Spanned
<1>5. CASE s = p
  BY <1>2, <1>3, <1>4, <1>5 DEF Spanned
<1>6. CASE p > s
  <2>1. Spanned(s, p) = (p - 1) \div S - s \div S + 1
    BY <1>6 DEF Spanned
  <2>2. (p - 1) \div S = p \div S - 1
    <3> DEFINE q == p \div S
    <3>1. p = S * q /\ q \in Nat
      <4>1. p = S * q + (p % S) /\ p % S = 0 /\ q \in Nat
        BY <1>2, <1>6
      <4> HIDE DEF q, S
      <4> QED BY <4>1, <1>1
    <3> HIDE DEF q, S
    <3>2. q >= 1
      BY <3>1, <1>6, <1>1
    <3>3. q - 1 \in Nat /\ p - 1 = S * (q - 1) + (S - 1) /\ S - 1 \in 0 .. S - 1
      BY <3>1, <3>2, <1>1
    <3>4. (S * (q - 1) + (S - 1)) \div S = q - 1
      BY <3>3, <1>1, DivUnique, Zenon
    <3> QED BY <3>3, <3>4 DEF q
  <2> HIDE DEF S
  <2> QED BY <2>1, <2>2, <1>2, <1>3, <1>4
<1> QED BY <1>5, <1>6

\* The number of pages ALLOC_IO_REQUEST counts is the number that the loop of
\* _FTL_READ or _FTL_WRITE issues, for every page size and every request.
THEOREM Agreement == Spec => []PagesAgree
<1>1. ASSUME IInv PROVE PagesAgree
  <2> SUFFICES ASSUME pc \in {"read", "write"}
               PROVE  /\ io_page_nb = Spanned(sector_nb, sector_nb + length)
                      /\ page_nb = Spanned(sector_nb, lba)
                      /\ remain > 0 => page_nb < io_page_nb
                      /\ remain = 0 => page_nb = io_page_nb
    BY DEF PagesAgree
  <2>1. /\ io_page_nb = Spanned(sector_nb, sector_nb + length)
        /\ page_nb = Spanned(sector_nb, Position) /\ lba = Position
        /\ LoopAt /\ TypeOK
    BY <1>1 DEF IInv, Counted, LoopAt
  <2>2. ASSUME remain > 0 PROVE page_nb < io_page_nb
    <3>1. /\ Position \in Nat /\ sector_nb <= Position /\ sector_nb \in Nat
          /\ sector_nb + length \in Nat /\ Position < sector_nb + length
          /\ Position > sector_nb => Position % SECTORS_PER_PAGE = 0
      <4>1. /\ Position \in Sector /\ sector_nb <= Position /\ sector_nb \in Nat
            /\ remain \in Nat \ {0} /\ length \in Nat
        BY <2>1, <2>2, AtSector
      <4>2. Position > sector_nb => Position % SECTORS_PER_PAGE = 0
        BY <2>1, <2>2 DEF LoopAt
      <4> QED BY <4>1, <4>2 DEF Position, Sector
    <3> QED BY <3>1, <2>1, SpannedGrows
  <2>3. ASSUME remain = 0 PROVE page_nb = io_page_nb
    <3>1. Position = sector_nb + length
      BY <2>1, <2>3 DEF Position, TypeOK
    <3> QED BY <3>1, <2>1
  <2> QED BY <2>1, <2>2, <2>3
<1> QED BY <1>1, Invariance, PTL

\* The second loop of _FTL_READ never uses the ppn of a page that is not mapped.
THEOREM MappedRead == Spec => []ReadsMapped
<1>1. ASSUME IInv PROVE ReadsMapped
  <2> SUFFICES ASSUME pc = "read", remain > 0
               PROVE  lpn \in mapped
    BY DEF ReadsMapped
  <2>1. LoopAt /\ TypeOK /\ lba = Position /\ MappedTo(sector_nb + length)
    BY <1>1 DEF IInv, LoopAt, Seen
  <2>2. Position \in sector_nb .. (sector_nb + length) - 1
    <3>1. /\ Position \in Sector /\ sector_nb <= Position /\ sector_nb \in Nat
          /\ remain \in Nat \ {0} /\ length \in Nat
      BY <2>1, AtSector
    <3> QED BY <3>1 DEF Position, Sector
  <2> QED BY <2>1, <2>2 DEF MappedTo, lpn
<1> QED BY <1>1, Invariance, PTL

\* _FTL_WRITE has written every sector of its range up to lba.
THEOREM Written == Spec => []WrittenSoFar
<1>1. IInv => WrittenSoFar
  BY DEF IInv
<1> QED BY <1>1, Invariance, PTL

\* No step of _FTL_WRITE or _FTL_READ changes a sector outside its range: what
\* shares a page with the first or the last of them is kept.
THEOREM NeighboursKept == Spec => OthersKept
<1> DEFINE Kept == \A s \in Sector :
             SectorData(s)' # SectorData(s) =>
               s \in sector_nb .. sector_nb + length - 1 /\ SectorData(s)' = data
<1>1. ASSUME IInv, [Next]_vars PROVE [Kept]_vars
  <2>1. CASE WritePage
    <3>1. /\ Position \in Sector /\ sector_nb <= Position /\ sector_nb \in Nat
          /\ remain \in Nat \ {0} /\ length \in Nat /\ sects \in 1 .. remain
      BY <1>1, <2>1, AtSector DEF WritePage, IInv
    <3>2. \A s \in Position .. Position + sects - 1 : s \in sector_nb .. sector_nb + length - 1
      BY <3>1 DEF Position, Sector
    <3> QED BY <3>2, <1>1, <2>1, PageWritten
  <2>2. CASE UNCHANGED contents
    BY <2>2 DEF SectorData
  <2>3. WritePage \/ UNCHANGED contents \/ UNCHANGED vars
    BY <1>1 DEF Next, Call, Step, Refuse, _FTL_READ, _FTL_WRITE, Accept, ScanPage, NotMapped,
                Scanned, ALLOC_IO_REQUEST, Allocated, ReadPage, WriteFails, Done
  <2> QED BY <2>1, <2>2, <2>3
<1> QED BY <1>1, Invariance, PTL DEF Spec, OthersKept
=============================================================================
