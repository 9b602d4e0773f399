------------------------------- MODULE NandIO -------------------------------
(***************************************************************************)
(* The flash registers of the SSD and the latency bookkeeping of the host  *)
(* requests whose pages they hold.                                         *)
(*                                                                         *)
(* A command is recorded in the register of its plane and finishes lazily: *)
(* its delay is waited for when the register, or the channel it is on, is  *)
(* needed again.  Only then is the page counted as ended.                  *)
(*                                                                         *)
(* Time is abstracted to whether a stamp is set.  While a command checks   *)
(* its channel, any stamp of the channel may become due, and the loop over *)
(* SSD_CH_ACCESS goes on until none is.  The callers, _FTL_READ,           *)
(* _FTL_WRITE and GARBAGE_COLLECTION, use any registers: where a page lies *)
(* is the business of the mapping.                                         *)
(*                                                                         *)
(* An operator F_X is F with a mistake put into it, to see that a property *)
(* notices; nothing uses it.                                               *)
(***************************************************************************)
EXTENDS IoRequests, FiniteSets

CONSTANTS
  FLASH_NB, PLANES_PER_FLASH, CHANNEL_NB,
  IO_PARALLELISM,    \* 0: a command waits for all planes of its flash memory
  MAX_REQ_PAGES,     \* bound: pages of one request
  MAX_REQUESTS,      \* bound: request numbers used, so that they stay below -1
  MAX_FAILED         \* bound: write requests that find no free page

ASSUME NandAssumption ==
  /\ FLASH_NB \in Nat \ {0} /\ PLANES_PER_FLASH \in Nat \ {0}
  /\ CHANNEL_NB \in 1 .. FLASH_NB
  /\ IO_PARALLELISM \in {0, 1}
  /\ MAX_REQ_PAGES \in Nat
  /\ MAX_REQUESTS \in 0 .. UINT_MAX - 1
  /\ MAX_FAILED \in Nat

VARIABLES
  io_request,          \* the list of requests
  io_request_seq_nb,   \* the number of the current or the next request
  reg_io_cmd,          \* register -> command it holds
  reg_io_time,         \* register -> is its transfer still to be waited for?
  cell_io_time,        \* register -> is its cell operation?
  access_nb,           \* register -> request and offset of the page it holds
  call,                \* the host request being issued
  queue,               \* commands of the current SSD_PAGE_* call, in order
  drain,               \* registers the first of them has still to wait for
  due,                 \* registers whose transfer was due during its check
  failed               \* write requests that were cut short

regVars == <<reg_io_cmd, reg_io_time, cell_io_time, access_nb>>
vars == <<io_request, io_request_seq_nb, regVars, call, queue, drain, due, failed>>

Reg == 0 .. FLASH_NB * PLANES_PER_FLASH - 1
WAY_NB == FLASH_NB \div CHANNEL_NB

NoAccess == [request |-> NoRequest, offset |-> -1]
NoCall   == [type |-> "none", size |-> 0, offset |-> 0]

FlashOfReg(r) == r \div PLANES_PER_FLASH
ChannelOf(r)  == FlashOfReg(r) % CHANNEL_NB

\* The registers that SSD_CH_ACCESS visits for a channel.
ChannelRegs(channel) ==
  {channel * PLANES_PER_FLASH + i * CHANNEL_NB * PLANES_PER_FLASH + j :
     i \in 0 .. WAY_NB - 1, j \in 0 .. PLANES_PER_FLASH - 1}

\* A command: what it does, on which register, for which page of the host's
\* request (-1 when it is not the host's), and whether it checks the channel.
\* WAIT stands for SSD_REMAIN_IO_DELAY, which only waits for the register.
Command(cmd, r, offset, check) == [cmd |-> cmd, reg |-> r, offset |-> offset, check |-> check]

AccessRegs_OtherPlanes(c) == {r \in Reg : FlashOfReg(r) = FlashOfReg(c.reg)} \ {c.reg}

\* The registers that SSD_FLASH_ACCESS or SSD_REG_ACCESS looks at before c.
AccessRegs(c) ==
  IF IO_PARALLELISM = 0 /\ c.cmd # "WAIT"
  THEN {r \in Reg : FlashOfReg(r) = FlashOfReg(c.reg)}
  ELSE {c.reg}

\* SSD_IO_INIT and INIT_PERF_CHECKER.
Init ==
  /\ io_request = <<>> /\ io_request_seq_nb = 0
  /\ reg_io_cmd = [r \in Reg |-> "NOOP"]
  /\ reg_io_time = [r \in Reg |-> FALSE]
  /\ cell_io_time = [r \in Reg |-> FALSE]
  /\ access_nb = [r \in Reg |-> NoAccess]
  /\ call = NoCall
  /\ queue = <<>> /\ drain = {} /\ due = {} /\ failed = 0
-----------------------------------------------------------------------------
(***************************************************************************)
(* Finishing a command.                                                    *)
(***************************************************************************)
\* Register r becomes idle and the page it held, if it was the host's, ends.
Release(r) ==
  /\ reg_io_cmd' = [reg_io_cmd EXCEPT ![r] = "NOOP"]
  /\ access_nb' = [access_nb EXCEPT ![r].request = NoRequest]
  /\ io_request' = UpdateEnd(io_request, access_nb[r].request)

Hold == UNCHANGED <<reg_io_cmd, access_nb, io_request>>

\* A delay is only waited for when its stamp is set.
SSD_CELL_READ_DELAY(r) == cell_io_time' = [cell_io_time EXCEPT ![r] = FALSE]

SSD_REG_READ_DELAY(r) ==
  /\ reg_io_time' = [reg_io_time EXCEPT ![r] = FALSE]
  /\ IF reg_io_time[r] THEN Release(r) ELSE Hold

SSD_REG_WRITE_DELAY(r) == reg_io_time' = [reg_io_time EXCEPT ![r] = FALSE]

SSD_CELL_WRITE_DELAY(r) ==
  /\ cell_io_time' = [cell_io_time EXCEPT ![r] = FALSE]
  /\ IF cell_io_time[r] THEN Release(r) ELSE Hold

\* An erase is not the host's: no page ends.
SSD_BLOCK_ERASE_DELAY(r) ==
  /\ cell_io_time' = [cell_io_time EXCEPT ![r] = FALSE]
  /\ reg_io_cmd' = [reg_io_cmd EXCEPT ![r] = IF cell_io_time[r] THEN "NOOP" ELSE @]
  /\ UNCHANGED <<reg_io_time, access_nb, io_request>>

SSD_REG_ACCESS(r) ==
  \/ reg_io_cmd[r] = "NOOP" /\ UNCHANGED <<regVars, io_request>>
  \/ reg_io_cmd[r] = "READ" /\ SSD_CELL_READ_DELAY(r) /\ SSD_REG_READ_DELAY(r)
  \/ reg_io_cmd[r] = "WRITE" /\ SSD_REG_WRITE_DELAY(r) /\ SSD_CELL_WRITE_DELAY(r)
  \/ reg_io_cmd[r] = "ERASE" /\ SSD_BLOCK_ERASE_DELAY(r)

\* SSD_FLASH_ACCESS passes over another plane that works for the same request.
SameRequest_Any(r) == access_nb[r].request = io_request_seq_nb
SameRequest(r) == r # Head(queue).reg /\ access_nb[r].request = io_request_seq_nb

Skip(r) ==
  /\ SameRequest(r) /\ IO_PARALLELISM = 0
  /\ UNCHANGED <<regVars, io_request>>

Wait(r) ==
  /\ ~(SameRequest(r) /\ IO_PARALLELISM = 0)
  /\ SSD_REG_ACCESS(r)

\* The next register the first command of the queue has to wait for.
Access ==
  /\ drain # {}
  /\ LET r == CHOOSE q \in drain : \A p \in drain : q <= p
     IN  /\ Skip(r) \/ Wait(r)
         /\ drain' = drain \ {r}
  /\ UNCHANGED <<io_request_seq_nb, call, queue, due, failed>>

\* The first command of the queue is in its loop over SSD_CH_ACCESS.
Checking == queue # <<>> /\ drain = {} /\ Head(queue).check

\* The loop only looks at the stamps of these registers.
Transferring(r) == reg_io_time[r] /\ reg_io_cmd[r] \in {"READ", "WRITE"}

\* A stamp that the loop will see becomes due.
TimePasses(r) ==
  /\ Checking
  /\ r \in ChannelRegs(ChannelOf(Head(queue).reg)) \ due
  /\ Transferring(r)
  /\ due' = due \cup {r}
  /\ UNCHANGED <<io_request, io_request_seq_nb, regVars, call, queue, drain, failed>>

ChannelAccess_WriteKept(r) ==
  /\ Checking
  /\ r \in due /\ Transferring(r)
  /\ \/ reg_io_cmd[r] = "READ" /\ SSD_CELL_READ_DELAY(r) /\ SSD_REG_READ_DELAY(r)
     \/ reg_io_cmd[r] = "WRITE" /\ UNCHANGED <<regVars, io_request>>
  /\ UNCHANGED <<io_request_seq_nb, call, queue, drain, due, failed>>

\* SSD_CH_ACCESS finds it.
ChannelAccess(r) ==
  /\ Checking
  /\ r \in due /\ Transferring(r)
  /\ \/ reg_io_cmd[r] = "READ" /\ SSD_CELL_READ_DELAY(r) /\ SSD_REG_READ_DELAY(r)
     \/ reg_io_cmd[r] = "WRITE" /\ SSD_REG_WRITE_DELAY(r)
                                 /\ UNCHANGED cell_io_time /\ Hold
  /\ UNCHANGED <<io_request_seq_nb, call, queue, drain, due, failed>>

\* SSD_CH_ACCESS returns SUCCESS: it found nothing due.
ChannelFree == \A r \in due : ~Transferring(r)
-----------------------------------------------------------------------------
(***************************************************************************)
(* Recording a command.                                                    *)
(***************************************************************************)
\* The commands still to come, and the registers the first of them waits for.
Continue(commands) ==
  /\ queue' = commands
  /\ drain' = IF commands = <<>> THEN {} ELSE AccessRegs(Head(commands))
  /\ due' = {}

\* Only a page of the host is counted as started.
SSD_REG_RECORD(c) ==
  /\ reg_io_cmd' = [reg_io_cmd EXCEPT ![c.reg] = c.cmd]
  /\ reg_io_time' = [reg_io_time EXCEPT ![c.reg] = @ \/ c.cmd # "ERASE"]
  /\ IF c.offset = -1
     THEN /\ access_nb' = [access_nb EXCEPT ![c.reg] = NoAccess]
          /\ UNCHANGED io_request
     ELSE /\ access_nb' = [access_nb EXCEPT ![c.reg] =
                             [request |-> io_request_seq_nb, offset |-> c.offset]]
          /\ io_request' = UpdateStart(io_request, io_request_seq_nb)

SSD_CELL_RECORD_NotErase(c) ==
  cell_io_time' = [cell_io_time EXCEPT ![c.reg] = c.cmd # "ERASE"]
SSD_CELL_RECORD(c) == cell_io_time' = [cell_io_time EXCEPT ![c.reg] = TRUE]

\* The channel is free: the first command of the queue is recorded.
Record ==
  /\ queue # <<>> /\ drain = {} /\ ChannelFree
  /\ Head(queue).cmd # "WAIT"
  /\ SSD_REG_RECORD(Head(queue))
  /\ SSD_CELL_RECORD(Head(queue))
  /\ Continue(Tail(queue))
  /\ UNCHANGED <<io_request_seq_nb, call, failed>>

\* The wait between the two halves of SSD_PAGE_PARTIAL_WRITE is over.
Waited ==
  /\ queue # <<>> /\ drain = {}
  /\ Head(queue).cmd = "WAIT"
  /\ Continue(Tail(queue))
  /\ UNCHANGED <<io_request, io_request_seq_nb, regVars, call, failed>>
-----------------------------------------------------------------------------
(***************************************************************************)
(* The callers.                                                            *)
(***************************************************************************)
\* _FTL_READ and _FTL_WRITE accept a request of n pages ...
HostCall(type, n) ==
  /\ call = NoCall /\ queue = <<>>
  /\ io_request_seq_nb < MAX_REQUESTS
  /\ io_request' = ALLOC_IO_REQUEST(io_request, io_request_seq_nb, n)
  /\ call' = [type |-> type, size |-> n, offset |-> 0]
  /\ UNCHANGED <<io_request_seq_nb, regVars, queue, drain, due, failed>>

\* ... and issue the commands for one page after the other.
IssuePage(type, commands) ==
  /\ call.type = type /\ queue = <<>> /\ call.offset < call.size
  /\ call' = [call EXCEPT !.offset = @ + 1]
  /\ Continue(commands)
  /\ UNCHANGED <<io_request, io_request_seq_nb, regVars, failed>>

SSD_PAGE_READ(r) ==
  IssuePage("READ", <<Command("READ", r, call.offset, FALSE)>>)

SSD_PAGE_WRITE(r) ==
  IssuePage("WRITE", <<Command("WRITE", r, call.offset, TRUE)>>)

\* The second half does not check the channel: ret is still SUCCESS from the
\* first.  The read is recorded with type WRITE, so it is not the host's.
SSD_PAGE_PARTIAL_WRITE(old, new) ==
  IssuePage("WRITE", <<Command("READ", old, -1, TRUE), Command("WAIT", old, -1, FALSE),
                       Command("WRITE", new, call.offset, FALSE)>>)

\* GET_NEW_PAGE fails: _FTL_WRITE returns and does not count the request.
WriteFails ==
  /\ call.type = "WRITE" /\ queue = <<>> /\ call.offset < call.size
  /\ failed < MAX_FAILED
  /\ failed' = failed + 1
  /\ call' = NoCall
  /\ UNCHANGED <<io_request, io_request_seq_nb, regVars, queue, drain, due>>

EndCall ==
  /\ call # NoCall /\ queue = <<>> /\ call.offset = call.size
  /\ io_request_seq_nb' = INCREASE_IO_REQUEST_SEQ_NB(io_request_seq_nb)
  /\ call' = NoCall
  /\ UNCHANGED <<io_request, regVars, queue, drain, due, failed>>

\* The commands of GARBAGE_COLLECTION, which runs after the request is counted.
GcCommand(cmd, r) ==
  /\ call = NoCall /\ queue = <<>>
  /\ Continue(<<Command(cmd, r, -1, cmd = "WRITE")>>)
  /\ UNCHANGED <<io_request, io_request_seq_nb, regVars, call, failed>>

Host ==
  \/ \E type \in {"READ", "WRITE"}, n \in 1 .. MAX_REQ_PAGES : HostCall(type, n)
  \/ \E cmd \in {"READ", "WRITE", "ERASE"}, r \in Reg : GcCommand(cmd, r)

Issue ==
  \/ \E r \in Reg : SSD_PAGE_READ(r) \/ SSD_PAGE_WRITE(r)
  \/ \E old, new \in Reg : SSD_PAGE_PARTIAL_WRITE(old, new)
  \/ WriteFails
  \/ EndCall

Execute == Access \/ Record \/ Waited \/ \E r \in Reg : ChannelAccess(r)

Next == Host \/ Issue \/ Execute \/ \E r \in Reg : TimePasses(r)

Spec == Init /\ [][Next]_vars

\* The thread inside SSD_PAGE_* keeps running.
FairSpec == Spec /\ WF_vars(Execute)
-----------------------------------------------------------------------------
(***************************************************************************)
(* Properties.                                                             *)
(***************************************************************************)
\* The registers that hold a page of request nb.
Holding(nb) == {r \in Reg : access_nb[r].request = nb}

\* A register that holds a command has a stamp that will release it, and an
\* idle register has none: no command gets stuck in a register.
Releasable ==
  \A r \in Reg :
    CASE reg_io_cmd[r] = "NOOP"  -> ~reg_io_time[r] /\ ~cell_io_time[r]
      [] reg_io_cmd[r] = "READ"  -> reg_io_time[r] /\ cell_io_time[r]
      [] reg_io_cmd[r] = "WRITE" -> cell_io_time[r]
      [] reg_io_cmd[r] = "ERASE" -> cell_io_time[r] /\ ~reg_io_time[r]

\* As long as no write was cut short: the pages of a request that are started
\* and not ended are exactly those that lie in registers, each in one, and
\* the request is found under its number and no other.
PagesAccounted ==
  failed = 0 =>
    \A i \in 1 .. Len(io_request) :
      LET q == io_request[i]
      IN  /\ q.start_count - q.end_count = Cardinality(Holding(q.request_nb))
          /\ Numbered(io_request, q.request_nb) = {i}
          /\ \A r, s \in Holding(q.request_nb) :
               /\ access_nb[r].offset < q.request_size
               /\ access_nb[r].offset = access_nb[s].offset => r = s

\* The end of a page is never reported for a request that is no longer in
\* the list ("ERROR[UPDATE_IO_REQUEST] No such io request"), even after a
\* write was cut short.
NoLostEnd ==
  \A r \in Reg : access_nb[r].request # NoRequest =>
    Numbered(io_request, access_nb[r].request) # {}

\* The list does not grow without bound: beside the request being issued it
\* has at most one request per register, and two for every write that was
\* cut short (that write, and the next request, which gets the same number
\* and whose pages LOOKUP_IO_REQUEST counts on the write).
ListBounded ==
  Len(io_request) <= Cardinality({r \in Reg : access_nb[r].request # NoRequest})
                       + (IF call = NoCall THEN 0 ELSE 1) + 2 * failed

\* A command of the host is only put into an idle register: nothing that is
\* still being measured is overwritten.
RecordsOnlyIdle ==
  [][\A r \in Reg : access_nb'[r].request \notin {access_nb[r].request, NoRequest} =>
       reg_io_cmd[r] = "NOOP" /\ ~reg_io_time[r] /\ ~cell_io_time[r]]_vars

\* A command that the FTL issues returns: the loop over SSD_CH_ACCESS ends,
\* although transfers of the channel keep becoming due during it.
CommandReturns == (queue # <<>>) ~> (queue = <<>>)
=============================================================================
