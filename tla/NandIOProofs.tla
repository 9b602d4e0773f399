---------------------------- MODULE NandIOProofs ----------------------------
(***************************************************************************)
(* No command gets stuck in a flash register and none is recorded over     *)
(* another, for every geometry of the device and any number of requests.   *)
(* The latency bookkeeping of host requests is right for any number of     *)
(* writes that were cut short: no page ends for a request that is not in   *)
(* the list any more, and the list is bounded.                             *)
(***************************************************************************)
EXTENDS NandIO, SequenceTheorems, FiniteSetTheorems, WellFoundedInduction, TLAPS

USE ZenonT(2), SMTT(30), ZenonT(30)

Commands == [cmd : {"READ", "WRITE", "ERASE", "WAIT"}, reg : Reg, offset : Int, check : BOOLEAN]

Types ==
  /\ reg_io_cmd \in [Reg -> {"NOOP", "READ", "WRITE", "ERASE"}]
  /\ reg_io_time \in [Reg -> BOOLEAN] /\ cell_io_time \in [Reg -> BOOLEAN]
  /\ access_nb \in [Reg -> [request : Int, offset : Int]]
  /\ io_request_seq_nb \in Int
  /\ call \in [type : {"none", "READ", "WRITE"}, size : Int, offset : Int]
  /\ queue \in Seq(Commands)
  /\ drain \subseteq Reg

\* The register of the next command is idle once it has been waited for.
TargetIdle ==
  queue # <<>> /\ Head(queue).reg \notin drain => reg_io_cmd[Head(queue).reg] = "NOOP"

\* Releasable for one register, given what it holds.
Fits(cmd, reg_time, cell_time) ==
  /\ cmd = "NOOP"  => ~reg_time /\ ~cell_time
  /\ cmd = "READ"  => reg_time /\ cell_time
  /\ cmd = "WRITE" => cell_time
  /\ cmd = "ERASE" => cell_time /\ ~reg_time

AllFit == \A r \in Reg : Fits(reg_io_cmd[r], reg_io_time[r], cell_io_time[r])

IInv == Types /\ TargetIdle /\ AllFit
-----------------------------------------------------------------------------
LEMMA FitIsReleasable ==
  ASSUME Types
  PROVE  AllFit => Releasable
<1> SUFFICES ASSUME AllFit, NEW r \in Reg
             PROVE  CASE reg_io_cmd[r] = "NOOP"  -> ~reg_io_time[r] /\ ~cell_io_time[r]
                      [] reg_io_cmd[r] = "READ"  -> reg_io_time[r] /\ cell_io_time[r]
                      [] reg_io_cmd[r] = "WRITE" -> cell_io_time[r]
                      [] reg_io_cmd[r] = "ERASE" -> cell_io_time[r] /\ ~reg_io_time[r]
  BY Zenon DEF Releasable
<1>1. reg_io_cmd[r] \in {"NOOP", "READ", "WRITE", "ERASE"}
  BY DEF Types
<1>2. Fits(reg_io_cmd[r], reg_io_time[r], cell_io_time[r])
  BY DEF AllFit
<1> QED BY <1>1, <1>2, Zenon DEF Fits

LEMMA Numbers ==
  /\ UINT_MAX \in Nat /\ NoRequest \in Int
  /\ Reg \subseteq Nat
<1>1. FLASH_NB * PLANES_PER_FLASH \in Nat
  BY NandAssumption
<1> QED BY <1>1, UintAssumption DEF NoRequest, Reg

\* The register the loop over the planes comes to next.
LEMMA NextRegister ==
  ASSUME Types, drain # {}
  PROVE  (CHOOSE q \in drain : \A p \in drain : q <= p) \in drain
<1>1. drain \subseteq Nat
  BY Numbers DEF Types
<1>2. PICK q \in drain : \A p \in drain : ~(<<p, q>> \in OpToRel(<, Nat))
  BY <1>1, NatLessThanWellFounded, WFMin, Zenon
<1>3. \A p \in drain : q <= p
  <2>1. \A p \in drain : ~(p < q)
    BY <1>1, <1>2, Zenon DEF OpToRel
  <2> QED BY <2>1, <1>1
<1> QED BY <1>3, Zenon

\* A command waits for its own register, among others.
LEMMA OwnRegister ==
  ASSUME NEW c \in Commands
  PROVE  c.reg \in AccessRegs(c) /\ AccessRegs(c) \subseteq Reg
  BY DEF Commands, AccessRegs

\* The next commands are taken up.
LEMMA Continued ==
  ASSUME NEW commands \in Seq(Commands), Continue(commands)
  PROVE  queue' \in Seq(Commands) /\ drain' \subseteq Reg /\ TargetIdle'
<1>1. queue' = commands /\ drain' = IF commands = <<>> THEN {} ELSE AccessRegs(Head(commands))
  BY DEF Continue
<1>2. CASE commands = <<>>
  BY <1>1, <1>2 DEF TargetIdle
<1>3. CASE commands # <<>>
  <2>1. Head(commands) \in Commands
    BY <1>3, HeadTailProperties
  <2> QED BY <1>1, <1>3, <2>1, OwnRegister DEF TargetIdle
<1> QED BY <1>2, <1>3

\* Waiting for a register empties it, whatever it holds.
LEMMA Waiting ==
  ASSUME IInv, NEW r \in Reg, SSD_REG_ACCESS(r)
  PROVE  /\ reg_io_cmd' = [reg_io_cmd EXCEPT ![r] = "NOOP"]
         /\ reg_io_time' = [reg_io_time EXCEPT ![r] = FALSE]
         /\ cell_io_time' = [cell_io_time EXCEPT ![r] = FALSE]
         /\ \/ access_nb' = access_nb
            \/ access_nb' = [access_nb EXCEPT ![r].request = NoRequest]
<1>1. /\ Fits(reg_io_cmd[r], reg_io_time[r], cell_io_time[r])
      /\ reg_io_cmd \in [Reg -> {"NOOP", "READ", "WRITE", "ERASE"}]
      /\ reg_io_time \in [Reg -> BOOLEAN] /\ cell_io_time \in [Reg -> BOOLEAN]
  BY DEF IInv, AllFit, Types
<1>2. CASE reg_io_cmd[r] = "NOOP"
  <2>1. UNCHANGED <<reg_io_cmd, reg_io_time, cell_io_time, access_nb>>
    BY <1>2 DEF SSD_REG_ACCESS, regVars
  <2>2. reg_io_time[r] = FALSE /\ cell_io_time[r] = FALSE
    BY <1>1, <1>2 DEF Fits
  <2> QED BY <2>1, <2>2, <1>1, <1>2
<1>3. CASE reg_io_cmd[r] = "READ"
  <2>1. reg_io_time[r]
    BY <1>1, <1>3 DEF Fits
  <2> QED BY <2>1, <1>3 DEF SSD_REG_ACCESS, SSD_CELL_READ_DELAY, SSD_REG_READ_DELAY, Release
<1>4. CASE reg_io_cmd[r] = "WRITE"
  <2>1. cell_io_time[r]
    BY <1>1, <1>4 DEF Fits
  <2> QED BY <2>1, <1>4 DEF SSD_REG_ACCESS, SSD_REG_WRITE_DELAY, SSD_CELL_WRITE_DELAY, Release
<1>5. CASE reg_io_cmd[r] = "ERASE"
  <2>1. cell_io_time[r] /\ reg_io_time[r] = FALSE
    BY <1>1, <1>5 DEF Fits
  <2>2. /\ cell_io_time' = [cell_io_time EXCEPT ![r] = FALSE]
        /\ reg_io_cmd' = [reg_io_cmd EXCEPT ![r] = "NOOP"]
        /\ UNCHANGED <<reg_io_time, access_nb>>
    BY <2>1, <1>5 DEF SSD_REG_ACCESS, SSD_BLOCK_ERASE_DELAY
  <2>3. reg_io_time = [reg_io_time EXCEPT ![r] = FALSE]
    BY <2>1, <1>1
  <2> QED BY <2>2, <2>3
<1> QED BY <1>1, <1>2, <1>3, <1>4, <1>5

\* What Release leaves in access_nb.
LEMMA Forgotten ==
  ASSUME Types, NEW r \in Reg,
         access_nb' = access_nb \/ access_nb' = [access_nb EXCEPT ![r].request = NoRequest]
  PROVE  access_nb' \in [Reg -> [request : Int, offset : Int]]
<1>1. access_nb \in [Reg -> [request : Int, offset : Int]] /\ NoRequest \in Int
  BY Numbers DEF Types
<1>2. \A a \in [request : Int, offset : Int] :
        [a EXCEPT !.request = NoRequest] \in [request : Int, offset : Int]
  BY <1>1
<1> QED BY <1>1, <1>2

LEMMA AccessPreserves ==
  ASSUME IInv, Access
  PROVE  IInv'
<1> DEFINE next == CHOOSE q \in drain : \A p \in drain : q <= p
<1>1. PICK r \in Reg : /\ Skip(r) \/ Wait(r)
                       /\ drain' = drain \ {r}
  <2>1. next \in drain
    BY NextRegister DEF Access, IInv
  <2>2. (Skip(next) \/ Wait(next)) /\ drain' = drain \ {next}
    BY DEF Access
  <2> HIDE DEF next
  <2> QED BY <2>1, <2>2 DEF IInv, Types
<1>2. UNCHANGED <<io_request_seq_nb, call, queue>>
  BY DEF Access
<1>3. CASE Skip(r)
  <2>1. UNCHANGED <<reg_io_cmd, reg_io_time, cell_io_time, access_nb>> /\ r # Head(queue).reg
    BY <1>3 DEF Skip, SameRequest, regVars
  <2>2. Types'
    BY <2>1, <1>1, <1>2 DEF IInv, Types
  <2>3. TargetIdle' /\ AllFit'
    BY <2>1, <1>1, <1>2 DEF IInv, TargetIdle, AllFit
  <2> QED BY <2>2, <2>3 DEF IInv
<1>4. CASE Wait(r)
  <2>1. /\ reg_io_cmd' = [reg_io_cmd EXCEPT ![r] = "NOOP"]
        /\ reg_io_time' = [reg_io_time EXCEPT ![r] = FALSE]
        /\ cell_io_time' = [cell_io_time EXCEPT ![r] = FALSE]
        /\ \/ access_nb' = access_nb
           \/ access_nb' = [access_nb EXCEPT ![r].request = NoRequest]
    BY <1>4, Waiting DEF Wait
  <2>2. Types'
    <3>1. access_nb' \in [Reg -> [request : Int, offset : Int]]
      BY <2>1, Forgotten DEF IInv
    <3> QED BY <3>1, <2>1, <1>1, <1>2 DEF IInv, Types
  <2>3. AllFit'
    BY <2>1 DEF IInv, Types, AllFit, Fits
  <2>4. TargetIdle'
    BY <2>1, <1>1, <1>2 DEF IInv, Types, TargetIdle
  <2> QED BY <2>2, <2>3, <2>4 DEF IInv
<1> QED BY <1>1, <1>3, <1>4

LEMMA ChannelPreserves ==
  ASSUME IInv, NEW r \in Reg, ChannelAccess(r)
  PROVE  IInv'
<1>1. /\ UNCHANGED <<io_request_seq_nb, call, queue, drain>>
      /\ reg_io_time[r] /\ reg_io_time' = [reg_io_time EXCEPT ![r] = FALSE]
      /\ \/ /\ reg_io_cmd[r] = "READ" /\ cell_io_time' = [cell_io_time EXCEPT ![r] = FALSE]
            /\ reg_io_cmd' = [reg_io_cmd EXCEPT ![r] = "NOOP"]
            /\ access_nb' = [access_nb EXCEPT ![r].request = NoRequest]
         \/ reg_io_cmd[r] = "WRITE" /\ UNCHANGED <<cell_io_time, reg_io_cmd, access_nb>>
  BY DEF ChannelAccess, Transferring, SSD_CELL_READ_DELAY, SSD_REG_READ_DELAY, Release,
         SSD_REG_WRITE_DELAY, Hold
<1>2. Types'
  <2>1. access_nb' \in [Reg -> [request : Int, offset : Int]]
    BY <1>1, Forgotten DEF IInv
  <2> QED BY <2>1, <1>1, Zenon DEF IInv, Types
<1>3. AllFit'
  BY <1>1 DEF IInv, Types, AllFit, Fits
<1>4. TargetIdle'
  <2>1. queue # <<>> => Head(queue).reg \in Reg
    <3>1. queue # <<>> => Head(queue) \in Commands
      BY HeadTailProperties DEF IInv, Types
    <3> QED BY <3>1 DEF Commands
  <2> QED BY <2>1, <1>1 DEF IInv, Types, TargetIdle
<1> QED BY <1>2, <1>3, <1>4 DEF IInv

\* The register a command is recorded in is idle.
LEMMA RecordsIdle ==
  ASSUME IInv, queue # <<>>, drain = {}
  PROVE  /\ Head(queue) \in Commands /\ Tail(queue) \in Seq(Commands)
         /\ Head(queue).reg \in Reg
         /\ reg_io_cmd[Head(queue).reg] = "NOOP"
         /\ ~reg_io_time[Head(queue).reg] /\ ~cell_io_time[Head(queue).reg]
<1>1. Head(queue) \in Commands /\ Tail(queue) \in Seq(Commands)
  BY HeadTailProperties DEF IInv, Types
<1>2. Head(queue).reg \in Reg
  BY <1>1 DEF Commands
<1>3. reg_io_cmd[Head(queue).reg] = "NOOP"
  BY DEF IInv, TargetIdle
<1> QED BY <1>1, <1>2, <1>3 DEF IInv, AllFit, Fits

LEMMA RecordPreserves ==
  ASSUME IInv, Record
  PROVE  IInv'
<1> DEFINE c == Head(queue)
<1>1. /\ queue # <<>> /\ drain = {} /\ c.cmd # "WAIT" /\ SSD_REG_RECORD(c) /\ SSD_CELL_RECORD(c)
      /\ Continue(Tail(queue)) /\ UNCHANGED <<io_request_seq_nb, call>>
  BY DEF Record
<1>2. /\ c \in Commands /\ Tail(queue) \in Seq(Commands) /\ c.reg \in Reg
      /\ reg_io_cmd[c.reg] = "NOOP" /\ ~reg_io_time[c.reg] /\ ~cell_io_time[c.reg]
  BY <1>1, RecordsIdle
<1>3. queue' \in Seq(Commands) /\ drain' \subseteq Reg /\ TargetIdle'
  BY <1>1, <1>2, Continued, Zenon
<1> HIDE DEF c
<1>4. c.cmd \in {"READ", "WRITE", "ERASE"} /\ c.offset \in Int
  BY <1>1, <1>2 DEF Commands
<1>5. /\ reg_io_cmd' = [reg_io_cmd EXCEPT ![c.reg] = c.cmd]
      /\ reg_io_time' = [reg_io_time EXCEPT ![c.reg] = (c.cmd # "ERASE")]
      /\ cell_io_time' = [cell_io_time EXCEPT ![c.reg] = TRUE]
  <2>1. reg_io_time' = [reg_io_time EXCEPT ![c.reg] = reg_io_time[c.reg] \/ c.cmd # "ERASE"]
    BY <1>1 DEF SSD_REG_RECORD
  <2> QED BY <2>1, <1>1, <1>2, Zenon DEF SSD_REG_RECORD, SSD_CELL_RECORD
<1>6. \/ access_nb' = [access_nb EXCEPT ![c.reg] = NoAccess]
      \/ access_nb' = [access_nb EXCEPT ![c.reg] = [request |-> io_request_seq_nb, offset |-> c.offset]]
  BY <1>1 DEF SSD_REG_RECORD
<1>7. access_nb' \in [Reg -> [request : Int, offset : Int]]
  <2>1. /\ NoAccess \in [request : Int, offset : Int]
        /\ [request |-> io_request_seq_nb, offset |-> c.offset] \in [request : Int, offset : Int]
    BY <1>4, Numbers DEF NoAccess, IInv, Types
  <2> QED BY <2>1, <1>6 DEF IInv, Types
<1>8. Types'
  BY <1>1, <1>2, <1>3, <1>4, <1>5, <1>7, Zenon DEF IInv, Types
<1>9. AllFit'
  BY <1>2, <1>4, <1>5, Zenon DEF IInv, Types, AllFit, Fits
<1> QED BY <1>3, <1>8, <1>9 DEF IInv

\* The steps that only take up commands.
LEMMA CallPreserves ==
  ASSUME IInv, Host \/ Issue \/ Waited
  PROVE  IInv'
<1>1. ASSUME NEW commands \in Seq(Commands), Continue(commands),
             UNCHANGED <<io_request_seq_nb, regVars>>,
             call' \in [type : {"none", "READ", "WRITE"}, size : Int, offset : Int]
      PROVE  IInv'
  <2>1. queue' \in Seq(Commands) /\ drain' \subseteq Reg /\ TargetIdle'
    BY <1>1, Continued
  <2>2. UNCHANGED <<reg_io_cmd, reg_io_time, cell_io_time, access_nb, io_request_seq_nb>>
    BY <1>1 DEF regVars
  <2>3. Types'
    BY <2>1, <2>2, <1>1 DEF IInv, Types
  <2>4. AllFit'
    BY <2>2 DEF IInv, AllFit
  <2> QED BY <2>1, <2>3, <2>4 DEF IInv
<1>2. ASSUME UNCHANGED <<regVars, queue, drain>>, io_request_seq_nb' \in Int,
             call' \in [type : {"none", "READ", "WRITE"}, size : Int, offset : Int]
      PROVE  IInv'
  <2>1. UNCHANGED <<reg_io_cmd, reg_io_time, cell_io_time, access_nb, queue, drain>>
    BY <1>2 DEF regVars
  <2>2. Types'
    BY <2>1, <1>2 DEF IInv, Types
  <2>3. TargetIdle' /\ AllFit'
    BY <2>1 DEF IInv, TargetIdle, AllFit
  <2> QED BY <2>2, <2>3 DEF IInv
<1>3. NoCall \in [type : {"none", "READ", "WRITE"}, size : Int, offset : Int]
  BY DEF NoCall
<1>4. call \in [type : {"none", "READ", "WRITE"}, size : Int, offset : Int] /\ io_request_seq_nb \in Int
  BY DEF IInv, Types
<1>5. ASSUME NEW type \in {"READ", "WRITE"}, NEW n \in 1 .. MAX_REQ_PAGES, HostCall(type, n)
      PROVE  IInv'
  BY <1>2, <1>4, <1>5, NandAssumption DEF HostCall
<1>6. ASSUME NEW cmd \in {"READ", "WRITE", "ERASE"}, NEW r \in Reg, GcCommand(cmd, r)
      PROVE  IInv'
  <2>1. <<Command(cmd, r, -1, cmd = "WRITE")>> \in Seq(Commands)
    BY <1>6 DEF Command, Commands
  <2> QED BY <2>1, <1>1, <1>4, <1>6, Zenon DEF GcCommand
<1>7. ASSUME NEW type, NEW commands \in Seq(Commands), IssuePage(type, commands)
      PROVE  IInv'
  <2>1. call' \in [type : {"none", "READ", "WRITE"}, size : Int, offset : Int]
    BY <1>4, <1>7 DEF IssuePage
  <2> QED BY <2>1, <1>1, <1>7 DEF IssuePage
<1>8. call.offset \in Int
  BY <1>4
<1>9. ASSUME NEW r \in Reg, SSD_PAGE_READ(r)
      PROVE  IInv'
  <2>1. <<Command("READ", r, call.offset, FALSE)>> \in Seq(Commands)
    BY <1>8, <1>9 DEF Command, Commands
  <2> QED BY <2>1, <1>7, <1>9, Zenon DEF SSD_PAGE_READ
<1>10. ASSUME NEW r \in Reg, SSD_PAGE_WRITE(r)
       PROVE  IInv'
  <2>1. <<Command("WRITE", r, call.offset, TRUE)>> \in Seq(Commands)
    BY <1>8, <1>10 DEF Command, Commands
  <2> QED BY <2>1, <1>7, <1>10, Zenon DEF SSD_PAGE_WRITE
<1>11. ASSUME NEW old \in Reg, NEW new \in Reg, SSD_PAGE_PARTIAL_WRITE(old, new)
       PROVE  IInv'
  <2>1. /\ Command("READ", old, -1, TRUE) \in Commands
        /\ Command("WAIT", old, -1, FALSE) \in Commands
        /\ Command("WRITE", new, call.offset, FALSE) \in Commands
    BY <1>8, <1>11 DEF Command, Commands
  <2>2. \A a, b, c \in Commands : <<a, b, c>> \in Seq(Commands)
    OBVIOUS
  <2>3. <<Command("READ", old, -1, TRUE), Command("WAIT", old, -1, FALSE),
          Command("WRITE", new, call.offset, FALSE)>> \in Seq(Commands)
    BY <2>1, <2>2, Zenon
  <2> QED BY <2>3, <1>7, <1>11, Zenon DEF SSD_PAGE_PARTIAL_WRITE
<1>12. CASE WriteFails
  BY <1>2, <1>3, <1>4, <1>12 DEF WriteFails
<1>13. CASE EndCall
  <2>1. io_request_seq_nb' \in Int
    BY <1>4, <1>13, Numbers DEF EndCall, INCREASE_IO_REQUEST_SEQ_NB
  <2> QED BY <2>1, <1>2, <1>3, <1>13 DEF EndCall
<1>14. CASE Waited
  <2>1. Tail(queue) \in Seq(Commands) /\ Continue(Tail(queue))
    BY <1>14, HeadTailProperties DEF Waited, IInv, Types
  <2> QED BY <2>1, <1>1, <1>4, <1>14, Zenon DEF Waited
<1> QED BY <1>5, <1>6, <1>9, <1>10, <1>11, <1>12, <1>13, <1>14 DEF Host, Issue

LEMMA Initially == Init => IInv
<1> SUFFICES ASSUME Init PROVE IInv
  OBVIOUS
<1>1. Types
  <2>1. NoAccess \in [request : Int, offset : Int]
    BY Numbers DEF NoAccess
  <2>2. NoCall \in [type : {"none", "READ", "WRITE"}, size : Int, offset : Int]
    BY DEF NoCall
  <2> QED BY <2>1, <2>2, EmptySeq DEF Init, Types
<1>2. TargetIdle /\ AllFit
  BY DEF Init, TargetIdle, AllFit, Fits
<1> QED BY <1>1, <1>2 DEF IInv

LEMMA Preserved == IInv /\ [Next]_vars => IInv'
<1> SUFFICES ASSUME IInv, [Next]_vars
             PROVE  IInv'
  OBVIOUS
<1>1. ASSUME UNCHANGED <<io_request_seq_nb, regVars, call, queue, drain>>
      PROVE  IInv'
  <2>1. UNCHANGED <<reg_io_cmd, reg_io_time, cell_io_time, access_nb, io_request_seq_nb, call,
                    queue, drain>>
    BY <1>1 DEF regVars
  <2> QED BY <2>1 DEF IInv, Types, TargetIdle, AllFit
<1>2. CASE Host \/ Issue \/ Waited
  BY <1>2, CallPreserves
<1>3. CASE Access
  BY <1>3, AccessPreserves
<1>4. CASE Record
  BY <1>4, RecordPreserves
<1>5. ASSUME NEW r \in Reg, ChannelAccess(r)
      PROVE  IInv'
  BY <1>5, ChannelPreserves
<1>6. ASSUME NEW r \in Reg, TimePasses(r)
      PROVE  IInv'
  BY <1>1, <1>6 DEF TimePasses
<1>7. CASE UNCHANGED vars
  BY <1>1, <1>7 DEF vars
<1> QED BY <1>2, <1>3, <1>4, <1>5, <1>6, <1>7 DEF Next, Execute

\* The inductive invariant: what the stamps of a register say of what it
\* holds, and that the register of the next command is idle once
\* SSD_FLASH_ACCESS or SSD_REG_ACCESS has come past it.
THEOREM Invariance == Spec => []IInv
<1> QED BY Initially, Preserved, PTL DEF Spec

\* No command gets stuck in a register: one that SSD_REG_RECORD and
\* SSD_CELL_RECORD put there has the stamp that its SSD_*_DELAY looks at.
THEOREM NoneStuck == Spec => []Releasable
<1>1. IInv => Releasable
  BY FitIsReleasable DEF IInv
<1> QED BY <1>1, Invariance, PTL

\* SSD_REG_RECORD never puts a page of the host over a command that has not
\* been waited for.
THEOREM NothingOverwritten == Spec => RecordsOnlyIdle
<1> DEFINE Idle == \A r \in Reg :
             access_nb'[r].request \notin {access_nb[r].request, NoRequest} =>
               reg_io_cmd[r] = "NOOP" /\ ~reg_io_time[r] /\ ~cell_io_time[r]
<1>1. ASSUME IInv, [Next]_vars PROVE [Idle]_vars
  <2>1. access_nb \in [Reg -> [request : Int, offset : Int]]
    BY <1>1 DEF IInv, Types
  <2>2. CASE Record
    <3> DEFINE x == Head(queue).reg
    <3>1. x \in Reg /\ reg_io_cmd[x] = "NOOP" /\ ~reg_io_time[x] /\ ~cell_io_time[x]
      BY <1>1, <2>2, RecordsIdle DEF Record
    <3>2. PICK new : access_nb' = [access_nb EXCEPT ![x] = new]
      BY <2>2 DEF Record, SSD_REG_RECORD
    <3> HIDE DEF x
    <3> QED BY <3>1, <3>2, <2>1
  <2>3. ASSUME NEW r \in Reg,
               access_nb' = access_nb \/ access_nb' = [access_nb EXCEPT ![r].request = NoRequest]
        PROVE  Idle
    BY <2>1, <2>3
  <2>4. CASE UNCHANGED access_nb
    BY <2>4
  <2>5. CASE Access
    <3>1. PICK r \in Reg : Skip(r) \/ Wait(r)
      <4>1. (CHOOSE q \in drain : \A p \in drain : q <= p) \in Reg
        BY <1>1, <2>5, NextRegister DEF Access, IInv, Types
      <4> QED BY <4>1, <2>5 DEF Access
    <3> QED BY <3>1, <2>3, <1>1, Waiting DEF Skip, Wait, regVars
  <2>6. ASSUME NEW r \in Reg, ChannelAccess(r)
        PROVE  Idle
    BY <2>3, <2>6 DEF ChannelAccess, SSD_REG_READ_DELAY, Release, Hold
  <2>7. CASE Host \/ Issue \/ Waited \/ \E r \in Reg : TimePasses(r)
    <3>1. UNCHANGED access_nb
      BY <2>7, Zenon DEF Host, HostCall, GcCommand, Issue, SSD_PAGE_READ, SSD_PAGE_WRITE,
                  SSD_PAGE_PARTIAL_WRITE, IssuePage, WriteFails, EndCall, Waited, TimePasses, regVars
    <3> QED BY <3>1, <2>4
  <2> QED BY <1>1, <2>2, <2>5, <2>6, <2>7 DEF Next, Execute
<1> QED BY <1>1, Invariance, PTL DEF Spec, RecordsOnlyIdle

-----------------------------------------------------------------------------
IoRequest ==
  [request_nb : Nat, request_size : Nat \ {0}, start_count : Nat, end_count : Nat]

\* The i-th request is the one that LOOKUP_IO_REQUEST finds, or the only one,
\* of its number.
First(list, i) == \A j \in 1 .. i - 1 : list[j].request_nb # list[i].request_nb
Alone(list, i) == \A j \in 1 .. Len(list) : list[j].request_nb = list[i].request_nb => j = i

InCall == call # NoCall

\* The pages of the current call that were given to registers.
Issued == call.offset - (IF queue = <<>> THEN 0 ELSE 1)

Newest == io_request[Len(io_request)]

ListTypes ==
  /\ io_request \in Seq(IoRequest)
  /\ io_request_seq_nb \in 0 .. MAX_REQUESTS
  /\ InCall => /\ call \in [type : {"READ", "WRITE"}, size : Nat \ {0}, offset : Nat]
               /\ call.offset <= call.size /\ io_request_seq_nb < MAX_REQUESTS
  /\ \A r \in Reg : access_nb[r].request \in Nat
  /\ failed \in Nat

\* During a call of the host the last command of the queue is its next page,
\* all other commands are nobody's.
Queued ==
  /\ drain # {} => queue # <<>>
  /\ InCall /\ queue # <<>> => call.offset > 0
  /\ \A k \in 1 .. Len(queue) :
       IF InCall /\ k = Len(queue)
       THEN queue[k].offset = call.offset - 1 /\ queue[k].cmd \in {"READ", "WRITE"}
       ELSE queue[k].offset = -1 /\ (queue[k].cmd = "ERASE" => ~InCall)

IdleHoldsNone ==
  \A r \in Reg : reg_io_cmd[r] \in {"NOOP", "ERASE"} => access_nb[r].request = NoRequest

\* The first request of a number counts the pages that registers hold under
\* it; the others of that number have not been counted on.
CountOf(list, i, holding) ==
  IF First(list, i) THEN list[i].start_count = list[i].end_count + Cardinality(holding)
                    ELSE list[i].start_count = 0 /\ list[i].end_count = 0

Counted ==
  \A i \in 1 .. Len(io_request) :
    /\ io_request[i].request_nb <= io_request_seq_nb
    /\ ~Complete(io_request[i])
    /\ CountOf(io_request, i, Holding(io_request[i].request_nb))

\* The request of the current call is the newest.  Between calls the newest
\* may be a write that was cut short, and no page is counted on it.
Underway ==
  IF InCall
  THEN /\ io_request # <<>> /\ Newest.request_nb = io_request_seq_nb
       /\ Newest.request_size = call.size /\ Newest.start_count <= Issued
  ELSE \A i \in 1 .. Len(io_request) : io_request[i].request_nb = io_request_seq_nb =>
         Newest.request_nb = io_request_seq_nb /\ Newest.start_count < Newest.request_size

\* The requests, but for the current one, that need not have a page in a
\* register: each comes from a write that was cut short.
Odd(list, n) ==
  {i \in 1 .. n : ~(Alone(list, i) /\ list[i].start_count = list[i].request_size)}

Past(list, calling) == IF calling THEN Len(list) - 1 ELSE Len(list)

\* No write of the current number was cut short.
OnTrack ==
  IF InCall THEN First(io_request, Len(io_request)) /\ Newest.start_count = Issued
            ELSE \A i \in 1 .. Len(io_request) : io_request[i].request_nb # io_request_seq_nb

FewOdd ==
  Cardinality(Odd(io_request, Past(io_request, InCall))) + (IF OnTrack THEN 0 ELSE 1) <= 2 * failed

\* The pages in registers are different pages, within their requests.
Offsets ==
  failed = 0 =>
    /\ \A r, t \in Reg : access_nb[r] = access_nb[t] /\ access_nb[r].request # NoRequest => r = t
    /\ \A i \in 1 .. Len(io_request) : \A r \in Holding(io_request[i].request_nb) :
         access_nb[r].offset < io_request[i].request_size
    /\ InCall => \A r \in Holding(io_request_seq_nb) : access_nb[r].offset < Issued

LInv ==
  /\ ListTypes /\ Queued /\ IdleHoldsNone /\ Counted /\ Underway /\ FewOdd /\ Offsets
  /\ NoLostEnd
-----------------------------------------------------------------------------
(***************************************************************************)
(* The list.                                                               *)
(***************************************************************************)
LEMMA ListFacts ==
  ASSUME ListTypes
  PROVE  /\ Len(io_request) \in Nat
         /\ \A i \in 1 .. Len(io_request) :
              /\ io_request[i] \in IoRequest
              /\ io_request[i].request_nb \in Nat /\ io_request[i].request_size \in Nat \ {0}
              /\ io_request[i].start_count \in Nat /\ io_request[i].end_count \in Nat
<1>1. io_request \in [1 .. Len(io_request) -> IoRequest] /\ Len(io_request) \in Nat
  BY LenProperties DEF ListTypes
<1>2. ASSUME NEW i \in 1 .. Len(io_request)
      PROVE  io_request[i] \in IoRequest
  BY <1>1, <1>2, Zenon
<1> QED BY <1>1, <1>2 DEF IoRequest

LEMMA HoldingFinite ==
  ASSUME NEW nb
  PROVE  IsFiniteSet(Holding(nb)) /\ Cardinality(Holding(nb)) \in Nat
<1>1. FLASH_NB * PLANES_PER_FLASH - 1 \in Int
  BY NandAssumption
<1>2. IsFiniteSet(Reg)
  BY <1>1, FS_Interval DEF Reg
<1>3. Holding(nb) \in SUBSET Reg
  BY DEF Holding
<1> QED BY <1>2, <1>3, FS_Subset, FS_CardinalityType

\* LOOKUP_IO_REQUEST finds the first request of a number.
LEMMA Lookup ==
  ASSUME ListTypes, NEW nb \in Nat, Numbered(io_request, nb) # {}
  PROVE  /\ LOOKUP_IO_REQUEST(io_request, nb) \in 1 .. Len(io_request)
         /\ io_request[LOOKUP_IO_REQUEST(io_request, nb)].request_nb = nb
         /\ First(io_request, LOOKUP_IO_REQUEST(io_request, nb))
<1> DEFINE all == Numbered(io_request, nb)
<1>1. all \subseteq Nat /\ Len(io_request) \in Nat
  BY ListFacts DEF Numbered
<1>2. PICK i \in all : \A j \in all : ~(<<j, i>> \in OpToRel(<, Nat))
  BY <1>1, NatLessThanWellFounded, WFMin, Zenon
<1>3. \A j \in all : i <= j
  <2>1. \A j \in all : ~(j < i)
    BY <1>1, <1>2, Zenon DEF OpToRel
  <2> QED BY <2>1, <1>1
<1> DEFINE k == LOOKUP_IO_REQUEST(io_request, nb)
<1>4. k \in all /\ \A j \in all : k <= j
  BY <1>3, Zenon DEF LOOKUP_IO_REQUEST
<1> HIDE DEF k
<1>5. k \in 1 .. Len(io_request) /\ io_request[k].request_nb = nb
  BY <1>4 DEF Numbered
<1>6. ASSUME NEW j \in 1 .. k - 1
      PROVE  io_request[j].request_nb # io_request[k].request_nb
  <2>1. j \in 1 .. Len(io_request) /\ ~(k <= j)
    BY <1>1, <1>5, <1>6
  <2> QED BY <2>1, <1>4, <1>5 DEF Numbered
<1> QED BY <1>5, <1>6 DEF k, First

\* A list without its k-th entry.
LEMMA Unlinked ==
  ASSUME NEW S, NEW list \in Seq(S), NEW k \in 1 .. Len(list)
  PROVE  /\ Unlink(list, k) \in Seq(S) /\ Len(Unlink(list, k)) = Len(list) - 1
         /\ \A i \in 1 .. Len(list) - 1 :
              Unlink(list, k)[i] = IF i < k THEN list[i] ELSE list[i + 1]
<1> DEFINE n == Len(list)
           a == SubSeq(list, 1, k - 1)
           b == SubSeq(list, k + 1, n)
<1>1. n \in Nat /\ k \in 1 .. n
  BY LenProperties
<1>2. /\ a \in Seq(S) /\ Len(a) = k - 1
      /\ \A i \in 1 .. k - 1 : a[i] = list[i]
  BY <1>1, SubSeqProperties
<1>3. /\ b \in Seq(S) /\ Len(b) = n - k
      /\ \A i \in 1 .. n - k : b[i] = list[k + i]
  BY <1>1, SubSeqProperties
<1> HIDE DEF a, b
<1> DEFINE c == a \o b
<1>4. /\ c \in Seq(S) /\ Len(c) = Len(a) + Len(b)
      /\ \A i \in 1 .. Len(a) + Len(b) : c[i] = IF i <= Len(a) THEN a[i] ELSE b[i - Len(a)]
  BY <1>2, <1>3, ConcatProperties, Zenon
<1> HIDE DEF c
<1>5. Len(c) = n - 1 /\ Len(a) + Len(b) = n - 1
  BY <1>1, <1>2, <1>3, <1>4
<1>6. ASSUME NEW i \in 1 .. n - 1
      PROVE  c[i] = IF i < k THEN list[i] ELSE list[i + 1]
  <2>1. CASE i < k
    <3>1. i \in 1 .. k - 1 /\ i <= Len(a) /\ i \in 1 .. Len(a) + Len(b)
      BY <2>1, <1>1, <1>2, <1>5, <1>6
    <3> QED BY <3>1, <2>1, <1>2, <1>4, Zenon
  <2>2. CASE ~(i < k)
    <3>1. i - (k - 1) \in 1 .. n - k /\ k + (i - (k - 1)) = i + 1 /\ ~(i <= k - 1)
      BY <2>2, <1>1, <1>6
    <3>2. c[i] = b[i - (k - 1)]
      BY <3>1, <1>2, <1>4, <1>5, <1>6
    <3>3. b[i - (k - 1)] = list[k + (i - (k - 1))]
      BY <3>1, <1>3
    <3> QED BY <3>1, <3>2, <3>3, <2>2
  <2> QED BY <2>1, <2>2
<1>7. Unlink(list, k) = c
  BY DEF Unlink, a, b, c
<1> QED BY <1>4, <1>5, <1>6, <1>7

\* Where the entries of the shorter list come from.
Shift(k, i) == IF i < k THEN i ELSE i + 1

LEMMA Shifts ==
  ASSUME NEW n \in Nat, NEW k \in 1 .. n
  PROVE  /\ \A i \in 1 .. n - 1 : Shift(k, i) \in 1 .. n /\ Shift(k, i) # k
         /\ \A i, j \in 1 .. n - 1 : i < j <=> Shift(k, i) < Shift(k, j)
         /\ \A i, j \in 1 .. n - 1 : Shift(k, i) = Shift(k, j) => i = j
         /\ \A j \in 1 .. n : j # k => \E i \in 1 .. n - 1 : Shift(k, i) = j
<1>1. ASSUME NEW j \in 1 .. n, j # k
      PROVE  \E i \in 1 .. n - 1 : Shift(k, i) = j
  <2>1. CASE j < k
    BY <2>1, <1>1 DEF Shift
  <2>2. CASE j > k
    <3>1. j - 1 \in 1 .. n - 1 /\ Shift(k, j - 1) = j
      BY <2>2, <1>1 DEF Shift
    <3> QED BY <3>1
  <2> QED BY <2>1, <2>2, <1>1
<1> QED BY <1>1 DEF Shift

LEMMA UnlinkShifts ==
  ASSUME NEW S, NEW list \in Seq(S), NEW k \in 1 .. Len(list)
  PROVE  \A i \in 1 .. Len(list) - 1 : Unlink(list, k)[i] = list[Shift(k, i)]
  BY Unlinked DEF Shift

\* Without its k-th request a list has no more odd requests than before.
LEMMA UnlinkOdd ==
  ASSUME NEW list \in Seq(IoRequest), NEW k \in 1 .. Len(list),
         NEW n \in k .. Len(list)
  PROVE  /\ IsFiniteSet(Odd(list, n)) /\ IsFiniteSet(Odd(Unlink(list, k), n - 1))
         /\ Cardinality(Odd(Unlink(list, k), n - 1)) <= Cardinality(Odd(list, n))
<1> DEFINE new == Unlink(list, k)
           A == Odd(new, n - 1)
           B == Odd(list, n)
           f == [i \in A |-> Shift(k, i)]
           N == Len(list)
<1>1. N \in Nat /\ Len(new) = N - 1 /\ n \in Nat /\ k \in 1 .. n /\ k \in 1 .. N
  BY Unlinked, LenProperties
<1>2. \A i \in 1 .. N - 1 : new[i] = list[Shift(k, i)]
  BY UnlinkShifts
<1>3. ASSUME NEW i \in 1 .. N - 1, Alone(list, Shift(k, i))
      PROVE  Alone(new, i)
  <2> SUFFICES ASSUME NEW j \in 1 .. N - 1, new[j].request_nb = new[i].request_nb
               PROVE  j = i
    BY <1>1 DEF Alone
  <2>1. list[Shift(k, j)].request_nb = list[Shift(k, i)].request_nb
    BY <1>2, <1>3
  <2>2. Shift(k, j) \in 1 .. N
    BY <1>1, Shifts
  <2>3. Shift(k, j) = Shift(k, i)
    BY <2>1, <2>2, <1>3, Zenon DEF Alone
  <2>4. \A a, b \in 1 .. N - 1 : Shift(k, a) = Shift(k, b) => a = b
    BY <1>1, Shifts
  <2> QED BY <2>3, <2>4, <1>3
<1>4. ASSUME NEW i \in A
      PROVE  Shift(k, i) \in B
  <2>1. /\ i \in 1 .. n - 1 /\ i \in 1 .. N - 1
        /\ ~(Alone(new, i) /\ new[i].start_count = new[i].request_size)
    BY <1>1 DEF Odd
  <2>2. Shift(k, i) \in 1 .. n
    BY <2>1, <1>1, Shifts
  <2> QED BY <2>1, <2>2, <1>2, <1>3, Zenon DEF Odd
<1>5. IsFiniteSet(1 .. n) /\ B \in SUBSET (1 .. n)
  BY <1>1, FS_Interval DEF Odd
<1>6. IsFiniteSet(B)
  BY <1>5, FS_Subset
<1>7. \A i, j \in A : Shift(k, i) = Shift(k, j) => i = j
  <2>1. A \subseteq 1 .. n - 1
    BY DEF Odd
  <2> QED BY <2>1, <1>1, Shifts
<1> HIDE DEF A, B
<1>8. f \in Injection(A, B)
  BY <1>4, <1>7 DEF Injection, IsInjective
<1> QED BY <1>6, <1>8, FS_Injection, Zenon DEF A, B

LEMMA OddFinite ==
  ASSUME NEW list, NEW m \in Int
  PROVE  IsFiniteSet(Odd(list, m)) /\ Cardinality(Odd(list, m)) \in Nat
<1>1. IsFiniteSet(1 .. m)
  BY FS_Interval
<1>2. Odd(list, m) \in SUBSET (1 .. m)
  BY DEF Odd
<1> QED BY <1>1, <1>2, FS_Subset, FS_CardinalityType
-----------------------------------------------------------------------------
(***************************************************************************)
(* Steps that count nothing.                                               *)
(***************************************************************************)
\* The registers hold the same pages of the host as before.
SameHeld ==
  \A r \in Reg : /\ access_nb'[r].request = access_nb[r].request
                 /\ access_nb[r].request # NoRequest => access_nb'[r] = access_nb[r]

LEMMA HeldSame ==
  ASSUME SameHeld
  PROVE  \A nb : Holding(nb)' = Holding(nb)
  BY DEF SameHeld, Holding

\* The numbers in use are those of requests.
LEMMA NumbersUsed ==
  ASSUME ListTypes
  PROVE  /\ io_request_seq_nb \in Nat /\ io_request_seq_nb < NoRequest /\ NoRequest \in Nat
         /\ InCall => io_request_seq_nb + 1 < NoRequest
  BY NandAssumption, UintAssumption DEF ListTypes, NoRequest

LEMMA SameList ==
  ASSUME LInv, SameHeld, UNCHANGED <<io_request, io_request_seq_nb, failed>>,
         InCall' = InCall, call'.size = call.size, InCall => Issued' = Issued
  PROVE  Counted' /\ Underway' /\ FewOdd' /\ Offsets' /\ NoLostEnd'
<1>1. \A nb : Holding(nb)' = Holding(nb)
  BY HeldSame
<1>2. InCall' = InCall /\ Newest' = Newest
  BY DEF Newest
<1>3. Counted'
  BY <1>1 DEF LInv, Counted
<1>4. Underway'
  BY <1>2 DEF LInv, Underway
<1>5. OnTrack' <=> OnTrack
  <2>1. CASE InCall
    BY <2>1, <1>2 DEF OnTrack
  <2>2. CASE ~InCall
    BY <2>2, <1>2 DEF OnTrack
  <2> QED BY <2>1, <2>2
<1>6. FewOdd'
  BY <1>2, <1>5 DEF LInv, FewOdd
<1>7. Offsets'
  <2> SUFFICES ASSUME failed = 0
               PROVE  Offsets'
    BY DEF Offsets
  <2>1. /\ \A r, t \in Reg : access_nb[r] = access_nb[t] /\ access_nb[r].request # NoRequest => r = t
        /\ \A i \in 1 .. Len(io_request) : \A r \in Holding(io_request[i].request_nb) :
             access_nb[r].offset < io_request[i].request_size
        /\ InCall => \A r \in Holding(io_request_seq_nb) : access_nb[r].offset < Issued
    BY DEF LInv, Offsets
  <2>2. \A r, t \in Reg : access_nb'[r] = access_nb'[t] /\ access_nb'[r].request # NoRequest => r = t
    BY <2>1 DEF SameHeld
  <2>3. \A nb : nb # NoRequest => \A r \in Holding(nb) : access_nb'[r] = access_nb[r]
    BY DEF SameHeld, Holding
  <2>4. \A i \in 1 .. Len(io_request) : io_request[i].request_nb # NoRequest
    BY ListFacts, NumbersUsed DEF LInv, Counted
  <2>5. io_request_seq_nb # NoRequest
    BY NumbersUsed DEF LInv
  <2> QED BY <2>1, <2>2, <2>3, <2>4, <2>5, <1>1, <1>2 DEF Offsets
<1>8. NoLostEnd'
  BY DEF LInv, NoLostEnd, SameHeld
<1> QED BY <1>3, <1>4, <1>6, <1>7, <1>8
-----------------------------------------------------------------------------
(***************************************************************************)
(* Counting a page.                                                        *)
(***************************************************************************)
\* The request that is counted on is put back into its place.
LEMMA PutBack ==
  ASSUME ListTypes, NEW k \in 1 .. Len(io_request), NEW q \in IoRequest,
         q.request_nb = io_request[k].request_nb, q.request_size = io_request[k].request_size,
         io_request' = [io_request EXCEPT ![k] = q]
  PROVE  /\ io_request' \in Seq(IoRequest) /\ Len(io_request') = Len(io_request)
         /\ \A i \in 1 .. Len(io_request) :
              /\ io_request'[i] = IF i = k THEN q ELSE io_request[i]
              /\ io_request'[i].request_nb = io_request[i].request_nb
              /\ io_request'[i].request_size = io_request[i].request_size
              /\ First(io_request', i) <=> First(io_request, i)
              /\ Alone(io_request', i) <=> Alone(io_request, i)
<1> DEFINE n == Len(io_request)
<1>1. io_request \in [1 .. n -> IoRequest] /\ n \in Nat /\ DOMAIN io_request = 1 .. n
  BY LenProperties DEF ListTypes
<1>2. io_request' \in [1 .. n -> IoRequest]
  BY <1>1
<1>3. io_request' \in Seq(IoRequest) /\ Len(io_request') = n
  BY <1>1, <1>2
<1>4. \A i \in 1 .. n : /\ io_request'[i] = IF i = k THEN q ELSE io_request[i]
                        /\ io_request'[i].request_nb = io_request[i].request_nb
                        /\ io_request'[i].request_size = io_request[i].request_size
  BY <1>1
<1>5. ASSUME NEW i \in 1 .. n
      PROVE  /\ First(io_request', i) <=> First(io_request, i)
             /\ Alone(io_request', i) <=> Alone(io_request, i)
  <2>1. \A j \in 1 .. i - 1 : j \in 1 .. n
    BY <1>1, <1>5
  <2> QED BY <2>1, <1>3, <1>4, <1>5, Zenon DEF First, Alone
<1> QED BY <1>3, <1>4, <1>5, Zenon

\* Two requests of a number are not both the first of it.
LEMMA OneFirst ==
  ASSUME ListTypes, NEW i \in 1 .. Len(io_request), NEW k \in 1 .. Len(io_request),
         First(io_request, i), First(io_request, k),
         io_request[i].request_nb = io_request[k].request_nb
  PROVE  i = k
<1>1. Len(io_request) \in Nat
  BY ListFacts
<1>2. CASE i < k
  BY <1>1, <1>2 DEF First
<1>3. CASE k < i
  BY <1>1, <1>3 DEF First
<1> QED BY <1>1, <1>2, <1>3

\* A page of the k-th request, whose number is nb, ends: it becomes q.
PageEnd(k, q, nb) ==
  /\ io_request[k].request_nb = nb /\ First(io_request, k)
  /\ q \in IoRequest /\ q.request_nb = nb
  /\ q.request_size = io_request[k].request_size
  /\ q.start_count = io_request[k].start_count
  /\ q.start_count = q.end_count + Cardinality(Holding(nb)')
  /\ Complete(q) => Holding(nb)' = {}
  /\ \A m : m # nb /\ m # NoRequest => Holding(m)' = Holding(m)
  /\ \A m : m # NoRequest => Holding(m)' \subseteq Holding(m)
  /\ io_request' = IF Complete(q) THEN Unlink(io_request, k) ELSE [io_request EXCEPT ![k] = q]

\* UPDATE_IO_REQUEST when register r has finished a page of the host: what
\* it does to the counts.
LEMMA PageEnds ==
  ASSUME LInv, IInv, NEW r \in Reg, NEW CONSTANT nb, nb # NoRequest, nb = access_nb[r].request,
         access_nb' = [access_nb EXCEPT ![r].request = NoRequest],
         io_request' = UpdateEnd(io_request, nb)
  PROVE  \E k \in 1 .. Len(io_request) :
           PageEnd(k, CountEnd(io_request[k]), nb)
<1>1. ListTypes /\ nb \in Nat /\ nb # NoRequest
  BY DEF LInv, ListTypes
<1>2. Numbered(io_request, nb) # {}
  BY DEF LInv, NoLostEnd
<1> DEFINE k == LOOKUP_IO_REQUEST(io_request, nb)
           q == CountEnd(io_request[k])
<1>3. k \in 1 .. Len(io_request) /\ io_request[k].request_nb = nb /\ First(io_request, k)
  BY <1>1, <1>2, Lookup
<1>4. io_request' = IF Complete(q) THEN Unlink(io_request, k) ELSE [io_request EXCEPT ![k] = q]
  BY <1>1, <1>2, Zenon DEF UpdateEnd, Known, Replace
<1> HIDE DEF k
<1>5. io_request[k] \in IoRequest
  BY <1>1, <1>3, ListFacts
<1>6. /\ q \in IoRequest /\ q.request_nb = nb /\ q.request_size = io_request[k].request_size
      /\ q.start_count = io_request[k].start_count /\ q.end_count = io_request[k].end_count + 1
  BY <1>3, <1>5 DEF CountEnd, IoRequest
<1>7. access_nb \in [Reg -> [request : Int, offset : Int]]
  BY DEF IInv, Types
<1>8. \A p \in Reg : access_nb'[p].request = IF p = r THEN NoRequest ELSE access_nb[p].request
  BY <1>7
<1>9. Holding(nb)' = Holding(nb) \ {r} /\ r \in Holding(nb)
  BY <1>1, <1>8 DEF Holding
<1>10. \A m : m # nb /\ m # NoRequest => Holding(m)' = Holding(m)
  BY <1>8 DEF Holding
<1>11. IsFiniteSet(Holding(nb)) /\ Cardinality(Holding(nb)) \in Nat
  BY HoldingFinite
<1>12. /\ Cardinality(Holding(nb)') = Cardinality(Holding(nb)) - 1
       /\ IsFiniteSet(Holding(nb)')
  BY <1>9, <1>11, FS_RemoveElement
<1>13. io_request[k].start_count = io_request[k].end_count + Cardinality(Holding(nb))
  BY <1>3 DEF LInv, Counted, CountOf
<1>14. q.start_count = q.end_count + Cardinality(Holding(nb)')
  BY <1>5, <1>6, <1>11, <1>12, <1>13 DEF IoRequest
<1>15. Complete(q) => Holding(nb)' = {}
  <2>1. Complete(q) => Cardinality(Holding(nb)') = 0
    BY <1>6, <1>11, <1>12, <1>14 DEF Complete, IoRequest
  <2> QED BY <2>1, <1>12, FS_EmptySet
<1>16. \A m : m # NoRequest => Holding(m)' \subseteq Holding(m)
  BY <1>9, <1>10
<1> HIDE DEF q
<1> QED BY <1>3, <1>4, <1>6, <1>10, <1>14, <1>15, <1>16, Zenon DEF q, PageEnd

\* The request has more pages to come.
LEMMA EndKeeps ==
  ASSUME LInv, IInv, NEW r \in Reg, NEW CONSTANT nb, nb # NoRequest, nb = access_nb[r].request,
         access_nb' = [access_nb EXCEPT ![r].request = NoRequest],
         UNCHANGED <<io_request_seq_nb, call, queue, failed>>,
         NEW k \in 1 .. Len(io_request), NEW q \in IoRequest,
         io_request[k].request_nb = nb, First(io_request, k), q.request_nb = nb,
         q.request_size = io_request[k].request_size, q.start_count = io_request[k].start_count,
         q.start_count = q.end_count + Cardinality(Holding(nb)'), ~Complete(q),
         \A m : m # nb /\ m # NoRequest => Holding(m)' = Holding(m),
         \A m : m # NoRequest => Holding(m)' \subseteq Holding(m),
         io_request' = [io_request EXCEPT ![k] = q]
  PROVE  Counted' /\ Underway' /\ FewOdd' /\ Offsets' /\ NoLostEnd' /\ ListTypes'
<1> DEFINE n == Len(io_request)
<1>1. ListTypes /\ n \in Nat
  BY ListFacts DEF LInv
<1>2. /\ io_request' \in Seq(IoRequest) /\ Len(io_request') = n
      /\ \A i \in 1 .. n :
           /\ io_request'[i] = IF i = k THEN q ELSE io_request[i]
           /\ io_request'[i].request_nb = io_request[i].request_nb
           /\ io_request'[i].request_size = io_request[i].request_size
           /\ First(io_request', i) <=> First(io_request, i)
           /\ Alone(io_request', i) <=> Alone(io_request, i)
  BY <1>1, PutBack, Zenon
<1>3. \A i \in 1 .. n : io_request'[i].start_count = io_request[i].start_count
  BY <1>2, Zenon
<1>4. \A i \in 1 .. n : io_request[i].request_nb # NoRequest
  BY <1>1, ListFacts, NumbersUsed DEF LInv, Counted
<1>5. InCall' = InCall /\ Issued' = Issued
  BY DEF InCall, Issued
<1>6. io_request # <<>> <=> io_request' # <<>>
  BY <1>1, <1>2 DEF ListTypes
<1>7. n > 0 => /\ Newest'.request_nb = Newest.request_nb
               /\ Newest'.request_size = Newest.request_size
               /\ Newest'.start_count = Newest.start_count
  BY <1>1, <1>2, <1>3 DEF Newest
<1>8. access_nb \in [Reg -> [request : Int, offset : Int]]
  BY DEF IInv, Types
<1>9. \A p \in Reg : /\ access_nb'[p].request = IF p = r THEN NoRequest ELSE access_nb[p].request
                     /\ access_nb'[p].offset = access_nb[p].offset
                     /\ p # r => access_nb'[p] = access_nb[p]
  BY <1>8
<1>10. Counted'
  <2> SUFFICES ASSUME NEW i \in 1 .. n
               PROVE  /\ io_request'[i].request_nb <= io_request_seq_nb
                      /\ ~Complete(io_request'[i])
                      /\ CountOf(io_request', i, Holding(io_request[i].request_nb)')
    BY <1>2, Zenon DEF Counted
  <2>1. /\ io_request[i].request_nb <= io_request_seq_nb
        /\ ~Complete(io_request[i])
        /\ CountOf(io_request, i, Holding(io_request[i].request_nb))
    BY DEF LInv, Counted
  <2>2. CASE i = k
    BY <2>1, <2>2, <1>2, Zenon DEF CountOf
  <2>3. CASE i # k
    <3>1. First(io_request, i) => io_request[i].request_nb # nb
      BY <2>3, <1>1, OneFirst
    <3>2. First(io_request, i) => Holding(io_request[i].request_nb)' = Holding(io_request[i].request_nb)
      BY <3>1, <1>4
    <3> QED BY <2>1, <2>3, <3>2, <1>2, Zenon DEF CountOf
  <2> QED BY <2>2, <2>3
<1>11. Underway'
  <2>1. CASE InCall
    <3>1. /\ io_request # <<>> /\ Newest.request_nb = io_request_seq_nb
          /\ Newest.request_size = call.size /\ Newest.start_count <= Issued
      BY <2>1 DEF LInv, Underway
    <3> QED BY <2>1, <3>1, <1>1, <1>5, <1>6, <1>7 DEF Underway
  <2>2. CASE ~InCall
    <3>1. \A i \in 1 .. n : io_request[i].request_nb = io_request_seq_nb =>
            Newest.request_nb = io_request_seq_nb /\ Newest.start_count < Newest.request_size
      BY <2>2 DEF LInv, Underway
    <3>2. n > 0
      BY <1>1
    <3> QED BY <2>2, <3>1, <3>2, <1>2, <1>5, <1>7 DEF Underway
  <2> QED BY <2>1, <2>2
<1>12. \A m \in 0 .. n : Odd(io_request', m) = Odd(io_request, m)
  <2> SUFFICES ASSUME NEW m \in 0 .. n
               PROVE  Odd(io_request', m) = Odd(io_request, m)
    BY Zenon
  <2>1. \A i \in 1 .. m : i \in 1 .. n
    BY <1>1
  <2> QED BY <2>1, <1>2, <1>3, Zenon DEF Odd
<1>13. FewOdd'
  <2>1. OnTrack <=> OnTrack'
    <3>1. n > 0 /\ n \in 1 .. n
      BY <1>1
    <3>2. CASE InCall
      BY <3>1, <3>2, <1>2, <1>5, <1>7, Zenon DEF OnTrack
    <3>3. CASE ~InCall
      BY <3>3, <1>2, <1>5 DEF OnTrack
    <3> QED BY <3>2, <3>3
  <2>2. Past(io_request', InCall') = Past(io_request, InCall) /\ Past(io_request, InCall) \in 0 .. n
    BY <1>1, <1>2, <1>5 DEF Past
  <2>3. Odd(io_request', Past(io_request', InCall')) = Odd(io_request, Past(io_request, InCall))
    BY <2>2, <1>12, Zenon
  <2> QED BY <2>1, <2>3 DEF LInv, FewOdd
<1>14. Offsets'
  <2> SUFFICES ASSUME failed = 0
               PROVE  Offsets'
    BY DEF Offsets
  <2>1. /\ \A s, t \in Reg : access_nb[s] = access_nb[t] /\ access_nb[s].request # NoRequest => s = t
        /\ \A i \in 1 .. n : \A s \in Holding(io_request[i].request_nb) :
             access_nb[s].offset < io_request[i].request_size
        /\ InCall => \A s \in Holding(io_request_seq_nb) : access_nb[s].offset < Issued
    BY DEF LInv, Offsets
  <2>2. ASSUME NEW s \in Reg, NEW t \in Reg, access_nb'[s] = access_nb'[t],
               access_nb'[s].request # NoRequest
        PROVE  s = t
    <3>1. s # r /\ t # r
      BY <2>2, <1>9, Zenon
    <3>2. access_nb[s] = access_nb[t] /\ access_nb[s].request # NoRequest
      BY <2>2, <3>1, <1>9
    <3> QED BY <3>2, <2>1
  <2>3. \A m : \A s \in Holding(m) : s \in Reg
    BY DEF Holding
  <2>4. \A m : m # NoRequest => \A s \in Holding(m)' : s \in Holding(m) /\ access_nb'[s].offset = access_nb[s].offset
    BY <2>3, <1>9
  <2>5. \A i \in 1 .. n : \A s \in Holding(io_request[i].request_nb)' :
          access_nb'[s].offset < io_request'[i].request_size
    BY <2>1, <2>4, <1>2, <1>4
  <2>6. io_request_seq_nb # NoRequest
    BY <1>1, NumbersUsed
  <2>7. InCall' => \A s \in Holding(io_request_seq_nb)' : access_nb'[s].offset < Issued'
    BY <2>1, <2>4, <2>6, <1>5
  <2> QED BY <2>2, <2>5, <2>7, <1>2 DEF Offsets
<1>15. NoLostEnd'
  <2>1. \A m : Numbered(io_request', m) = Numbered(io_request, m)
    BY <1>2 DEF Numbered
  <2> QED BY <2>1, <1>9, Zenon DEF LInv, NoLostEnd
<1>16. ListTypes'
  <2>1. NoRequest \in Nat
    BY <1>1, NumbersUsed
  <2> QED BY <2>1, <1>1, <1>2, <1>5, <1>9 DEF ListTypes
<1> QED BY <1>10, <1>11, <1>13, <1>14, <1>15, <1>16

\* It was the last page of the request: the request leaves the list.
LEMMA EndFrees ==
  ASSUME LInv, IInv, NEW r \in Reg, NEW CONSTANT nb, nb # NoRequest, nb = access_nb[r].request,
         access_nb' = [access_nb EXCEPT ![r].request = NoRequest],
         queue # <<>>, UNCHANGED <<io_request_seq_nb, call, queue, failed>>,
         NEW k \in 1 .. Len(io_request), io_request[k].request_nb = nb, First(io_request, k),
         io_request[k].start_count = io_request[k].request_size,
         Holding(nb)' = {},
         \A m : m # nb /\ m # NoRequest => Holding(m)' = Holding(m),
         \A m : m # NoRequest => Holding(m)' \subseteq Holding(m),
         io_request' = Unlink(io_request, k)
  PROVE  Counted' /\ Underway' /\ FewOdd' /\ Offsets' /\ NoLostEnd' /\ ListTypes'
<1> DEFINE n == Len(io_request)
<1>1. ListTypes /\ n \in Nat /\ k \in 1 .. n /\ io_request \in Seq(IoRequest)
  BY ListFacts DEF LInv, ListTypes
<1>2. /\ io_request' \in Seq(IoRequest) /\ Len(io_request') = n - 1
      /\ \A i \in 1 .. n - 1 : io_request'[i] = io_request[Shift(k, i)]
  <2>1. /\ Unlink(io_request, k) \in Seq(IoRequest) /\ Len(Unlink(io_request, k)) = n - 1
    BY <1>1, Unlinked
  <2>2. \A i \in 1 .. n - 1 : Unlink(io_request, k)[i] = io_request[Shift(k, i)]
    BY <1>1, UnlinkShifts
  <2> QED BY <2>1, <2>2
<1>3. /\ \A i \in 1 .. n - 1 : Shift(k, i) \in 1 .. n /\ Shift(k, i) # k
      /\ \A i, j \in 1 .. n - 1 : i < j <=> Shift(k, i) < Shift(k, j)
      /\ \A j \in 1 .. n : j # k => \E i \in 1 .. n - 1 : Shift(k, i) = j
  BY <1>1, Shifts, Zenon
<1>4. \A i \in 1 .. n : io_request[i].request_nb # NoRequest
  BY <1>1, ListFacts, NumbersUsed DEF LInv, Counted
<1>5. InCall' = InCall /\ Issued' = Issued
  BY DEF InCall, Issued
<1>6. access_nb \in [Reg -> [request : Int, offset : Int]]
  BY DEF IInv, Types
<1>7. \A p \in Reg : /\ access_nb'[p].request = IF p = r THEN NoRequest ELSE access_nb[p].request
                     /\ access_nb'[p].offset = access_nb[p].offset
                     /\ p # r => access_nb'[p] = access_nb[p]
  BY <1>6
<1>8. ASSUME NEW i \in 1 .. n - 1
      PROVE  /\ First(io_request, Shift(k, i)) => First(io_request', i)
             /\ First(io_request', i) /\ io_request[Shift(k, i)].request_nb # nb
                  => First(io_request, Shift(k, i))
  <2>1. ASSUME First(io_request, Shift(k, i)), NEW j \in 1 .. i - 1
        PROVE  io_request'[j].request_nb # io_request'[i].request_nb
    <3>1. j \in 1 .. n - 1 /\ j < i
      BY <1>1, <1>8
    <3>2. Shift(k, j) \in 1 .. Shift(k, i) - 1
      BY <3>1, <1>1, <1>3
    <3> QED BY <2>1, <3>1, <3>2, <1>2 DEF First
  <2>2. ASSUME First(io_request', i), io_request[Shift(k, i)].request_nb # nb,
               NEW j \in 1 .. Shift(k, i) - 1
        PROVE  io_request[j].request_nb # io_request[Shift(k, i)].request_nb
    <3>1. Shift(k, i) \in 1 .. n
      BY <1>3
    <3>2. j \in 1 .. n /\ j < Shift(k, i)
      BY <3>1, <1>1
    <3>3. CASE j = k
      BY <3>3, <2>2
    <3>4. CASE j # k
      <4>1. PICK l \in 1 .. n - 1 : Shift(k, l) = j
        BY <3>2, <3>4, <1>3
      <4>2. l < i
        BY <4>1, <3>2, <1>3
      <4>3. l \in 1 .. i - 1
        BY <4>2, <1>1
      <4> QED BY <4>1, <4>3, <2>2, <1>2, Zenon DEF First
    <3> QED BY <3>3, <3>4
  <2> QED BY <2>1, <2>2 DEF First
<1>9. Counted'
  <2> SUFFICES ASSUME NEW i \in 1 .. n - 1
               PROVE  /\ io_request'[i].request_nb <= io_request_seq_nb
                      /\ ~Complete(io_request'[i])
                      /\ CountOf(io_request', i, Holding(io_request[i].request_nb)')
    BY <1>2 DEF Counted
  <2> DEFINE s == Shift(k, i)
  <2>1. s \in 1 .. n /\ s # k /\ io_request'[i] = io_request[s]
    BY <1>2, <1>3
  <2>2. /\ io_request[s].request_nb <= io_request_seq_nb
        /\ ~Complete(io_request[s])
        /\ CountOf(io_request, s, Holding(io_request[s].request_nb))
    BY <2>1 DEF LInv, Counted
  <2>3. First(io_request, s) => First(io_request', i)
    BY <1>8
  <2>4. First(io_request', i) /\ io_request[s].request_nb # nb => First(io_request, s)
    BY <1>8
  <2> HIDE DEF s
  <2>5. CASE io_request[s].request_nb = nb
    <3>1. ~First(io_request, s)
      BY <2>1, <2>5, <1>1, OneFirst
    <3>2. Cardinality(Holding(nb)') = 0
      BY FS_EmptySet
    <3>3. Holding(io_request[i].request_nb)' = Holding(nb)'
      BY <2>1, <2>5
    <3>4. io_request'[i].start_count = 0 /\ io_request'[i].end_count = 0
      BY <2>1, <2>2, <3>1 DEF CountOf
    <3>5. CountOf(io_request', i, Holding(io_request[i].request_nb)')
      BY <3>2, <3>3, <3>4 DEF CountOf
    <3> QED BY <2>1, <2>2, <3>5
  <2>6. CASE io_request[s].request_nb # nb
    <3>1. Holding(io_request[i].request_nb)' = Holding(io_request[s].request_nb)
      BY <2>1, <2>6, <1>4
    <3> QED BY <2>1, <2>2, <2>3, <2>4, <2>6, <3>1 DEF CountOf
  <2> QED BY <2>5, <2>6
<1>10. InCall => /\ io_request # <<>> /\ Newest.request_nb = io_request_seq_nb
                 /\ Newest.request_size = call.size /\ Newest.start_count <= Issued
                 /\ k # n
  <2> SUFFICES ASSUME InCall
               PROVE  /\ io_request # <<>> /\ Newest.request_nb = io_request_seq_nb
                      /\ Newest.request_size = call.size /\ Newest.start_count <= Issued
                      /\ k # n
    OBVIOUS
  <2>1. /\ io_request # <<>> /\ Newest.request_nb = io_request_seq_nb
        /\ Newest.request_size = call.size /\ Newest.start_count <= Issued
    BY DEF LInv, Underway
  <2>2. call.size \in Nat /\ call.offset \in Nat /\ call.offset <= call.size
    BY <1>1 DEF ListTypes
  <2>3. Issued < call.size
    BY <2>2 DEF Issued
  <2>4. Issued \in Int
    BY <2>2 DEF Issued
  <2>5. Newest.start_count \in Nat
    BY <2>1, <1>1, ListFacts DEF Newest
  <2>6. Newest.start_count # Newest.request_size
    BY <2>1, <2>2, <2>3, <2>4, <2>5
  <2> QED BY <2>1, <2>6 DEF Newest
<1>11. k # n => n - 1 \in 1 .. n - 1 /\ Shift(k, n - 1) = n /\ Newest' = Newest
  <2> SUFFICES ASSUME k # n
               PROVE  n - 1 \in 1 .. n - 1 /\ Shift(k, n - 1) = n /\ Newest' = Newest
    OBVIOUS
  <2>1. n - 1 \in 1 .. n - 1 /\ Shift(k, n - 1) = n
    BY <1>1 DEF Shift
  <2> QED BY <2>1, <1>2 DEF Newest
<1>12. Underway'
  <2>1. CASE InCall
    <3>1. io_request' # <<>>
      BY <2>1, <1>1, <1>2, <1>10, <1>11
    <3> QED BY <2>1, <3>1, <1>5, <1>10, <1>11 DEF Underway
  <2>2. CASE ~InCall
    <3> SUFFICES ASSUME NEW i \in 1 .. n - 1, io_request'[i].request_nb = io_request_seq_nb
                 PROVE  Newest'.request_nb = io_request_seq_nb
                          /\ Newest'.start_count < Newest'.request_size
      BY <2>2, <1>2, <1>5 DEF Underway
    <3>1. Newest.request_nb = io_request_seq_nb /\ Newest.start_count < Newest.request_size
      BY <2>2, <1>2, <1>3 DEF LInv, Underway
    <3>2. Newest.start_count # Newest.request_size
      <4>1. n \in 1 .. n
        BY <1>1
      <4> QED BY <3>1, <4>1, <1>1, ListFacts DEF Newest
    <3>3. k # n
      BY <3>2 DEF Newest
    <3> QED BY <3>1, <3>3, <1>11
  <2> QED BY <2>1, <2>2
<1>13. FewOdd'
  <2> DEFINE m == Past(io_request, InCall)
  <2>1. m \in k .. n /\ Past(io_request', InCall') = m - 1
    BY <1>1, <1>2, <1>5, <1>10 DEF Past
  <2>2. /\ IsFiniteSet(Odd(io_request, m)) /\ IsFiniteSet(Odd(Unlink(io_request, k), m - 1))
        /\ Cardinality(Odd(Unlink(io_request, k), m - 1)) <= Cardinality(Odd(io_request, m))
    BY <2>1, <1>1, UnlinkOdd
  <2>3. OnTrack => OnTrack'
    <3>1. CASE InCall
      BY <3>1, <1>2, <1>5, <1>8, <1>10, <1>11 DEF OnTrack
    <3>2. CASE ~InCall
      BY <3>2, <1>2, <1>3, <1>5 DEF OnTrack
    <3> QED BY <3>1, <3>2
  <2>4. Cardinality(Odd(io_request, m)) + (IF OnTrack THEN 0 ELSE 1) <= 2 * failed
    BY DEF LInv, FewOdd
  <2>5. Cardinality(Odd(io_request, m)) \in Nat /\ Cardinality(Odd(Unlink(io_request, k), m - 1)) \in Nat
    BY <2>2, FS_CardinalityType
  <2>6. failed \in Nat
    BY <1>1 DEF ListTypes
  <2> HIDE DEF m
  <2>7. Cardinality(Odd(Unlink(io_request, k), m - 1)) + (IF OnTrack' THEN 0 ELSE 1) <= 2 * failed
    BY <2>2, <2>3, <2>4, <2>5, <2>6
  <2> QED BY <2>1, <2>7 DEF FewOdd
<1>14. Offsets'
  <2> SUFFICES ASSUME failed = 0
               PROVE  Offsets'
    BY DEF Offsets
  <2>1. /\ \A s, t \in Reg : access_nb[s] = access_nb[t] /\ access_nb[s].request # NoRequest => s = t
        /\ \A i \in 1 .. n : \A s \in Holding(io_request[i].request_nb) :
             access_nb[s].offset < io_request[i].request_size
        /\ InCall => \A s \in Holding(io_request_seq_nb) : access_nb[s].offset < Issued
    BY DEF LInv, Offsets
  <2>2. ASSUME NEW s \in Reg, NEW t \in Reg, access_nb'[s] = access_nb'[t],
               access_nb'[s].request # NoRequest
        PROVE  s = t
    <3>1. s # r /\ t # r
      BY <2>2, <1>7, Zenon
    <3>2. access_nb[s] = access_nb[t] /\ access_nb[s].request # NoRequest
      BY <2>2, <3>1, <1>7
    <3> QED BY <3>2, <2>1
  <2>3. \A m : \A s \in Holding(m) : s \in Reg
    BY DEF Holding
  <2>4. \A m : m # NoRequest => \A s \in Holding(m)' : s \in Holding(m) /\ access_nb'[s].offset = access_nb[s].offset
    BY <2>3, <1>7
  <2>5. ASSUME NEW i \in 1 .. n - 1, NEW s \in Holding(io_request[i].request_nb)'
        PROVE  access_nb'[s].offset < io_request'[i].request_size
    <3>1. Shift(k, i) \in 1 .. n /\ io_request'[i] = io_request[Shift(k, i)]
      BY <1>2, <1>3
    <3>2. s \in Holding(io_request[Shift(k, i)].request_nb) /\ access_nb'[s].offset = access_nb[s].offset
      BY <3>1, <2>4, <2>5, <1>4
    <3> QED BY <3>1, <3>2, <2>1
  <2>6. io_request_seq_nb # NoRequest
    BY <1>1, NumbersUsed
  <2>7. InCall' => \A s \in Holding(io_request_seq_nb)' : access_nb'[s].offset < Issued'
    BY <2>1, <2>4, <2>6, <1>5
  <2> QED BY <2>2, <2>5, <2>7, <1>2, Zenon DEF Offsets
<1>15. NoLostEnd'
  <2> SUFFICES ASSUME NEW p \in Reg, access_nb'[p].request # NoRequest
               PROVE  Numbered(io_request', access_nb'[p].request) # {}
    BY DEF NoLostEnd
  <2>1. p # r /\ access_nb'[p].request = access_nb[p].request
    BY <1>7
  <2>2. access_nb[p].request # nb
    BY <2>1 DEF Holding
  <2>3. PICK j \in 1 .. n : io_request[j].request_nb = access_nb[p].request
    BY <2>1 DEF LInv, NoLostEnd, Numbered
  <2>4. PICK i \in 1 .. n - 1 : Shift(k, i) = j
    BY <2>2, <2>3, <1>3
  <2> QED BY <2>1, <2>3, <2>4, <1>2 DEF Numbered
<1>16. ListTypes'
  <2>1. NoRequest \in Nat
    BY <1>1, NumbersUsed
  <2> QED BY <2>1, <1>1, <1>2, <1>5, <1>7 DEF ListTypes
<1> QED BY <1>9, <1>12, <1>13, <1>14, <1>15, <1>16

\* Register r has finished, whatever it held.
LEMMA Ends ==
  ASSUME LInv, IInv, NEW r \in Reg, Release(r), queue # <<>>,
         UNCHANGED <<io_request_seq_nb, call, queue, failed>>, drain' \subseteq drain
  PROVE  LInv'
<1>1. access_nb \in [Reg -> [request : Int, offset : Int]] /\ reg_io_cmd \in [Reg -> {"NOOP", "READ", "WRITE", "ERASE"}]
  BY DEF IInv, Types
<1>2. /\ reg_io_cmd' = [reg_io_cmd EXCEPT ![r] = "NOOP"]
      /\ access_nb' = [access_nb EXCEPT ![r].request = NoRequest]
      /\ io_request' = UpdateEnd(io_request, access_nb[r].request)
  BY DEF Release
<1>3. IdleHoldsNone'
  BY <1>1, <1>2 DEF LInv, IdleHoldsNone
<1>4. Queued'
  BY DEF LInv, Queued, InCall
<1>5. CASE access_nb[r].request = NoRequest
  <2>1. SameHeld
    BY <1>1, <1>2, <1>5 DEF SameHeld
  <2>2. io_request' = io_request
    BY <1>2, <1>5 DEF UpdateEnd, Known
  <2>3. InCall => Issued' = Issued
    BY DEF Issued
  <2>4. ListTypes'
    BY <2>1, <2>2 DEF LInv, ListTypes, InCall, SameHeld
  <2> QED BY <2>1, <2>2, <2>3, <2>4, <1>3, <1>4, SameList DEF LInv, InCall
<1>6. ASSUME NEW CONSTANT nb, nb # NoRequest, nb = access_nb[r].request
      PROVE  Counted' /\ Underway' /\ FewOdd' /\ Offsets' /\ NoLostEnd' /\ ListTypes'
  <2>1. PICK k \in 1 .. Len(io_request) :
           PageEnd(k, CountEnd(io_request[k]), nb)
    <3>1. io_request' = UpdateEnd(io_request, nb) /\ access_nb' = [access_nb EXCEPT ![r].request = NoRequest]
      BY <1>2, <1>6
    <3> QED BY <3>1, <1>6, PageEnds, Zenon
  <2> DEFINE q == CountEnd(io_request[k])
  <2>2. CASE Complete(q)
    <3>1. io_request[k].start_count = io_request[k].request_size
      BY <2>1, <2>2 DEF Complete, PageEnd
    <3> QED BY <2>1, <2>2, <3>1, <1>2, <1>6, EndFrees, Zenon DEF PageEnd
  <2>3. CASE ~Complete(q)
    BY <2>1, <2>3, <1>2, <1>6, EndKeeps, Zenon DEF PageEnd
  <2> QED BY <2>2, <2>3
<1>7. access_nb[r].request # NoRequest =>
        Counted' /\ Underway' /\ FewOdd' /\ Offsets' /\ NoLostEnd' /\ ListTypes'
  BY <1>6
<1> QED BY <1>3, <1>4, <1>5, <1>7 DEF LInv
-----------------------------------------------------------------------------
(***************************************************************************)
(* What the other steps do to the list of requests.                        *)
(***************************************************************************)
\* A page of the host is given to register r: the request it is counted on.
PageStart(k, q, r) ==
  /\ k \in 1 .. Len(io_request)
  /\ io_request[k].request_nb = io_request_seq_nb /\ First(io_request, k)
  /\ q \in IoRequest /\ q.request_nb = io_request_seq_nb
  /\ q.request_size = io_request[k].request_size
  /\ q.start_count = io_request[k].start_count + 1
  /\ q.start_count = q.end_count + Cardinality(Holding(io_request_seq_nb) \cup {r})
  /\ ~Complete(q)
  /\ io_request' = [io_request EXCEPT ![k] = q]

LEMMA PageStarts ==
  ASSUME LInv, IInv, NEW r \in Reg, InCall, access_nb[r].request = NoRequest,
         io_request' = UpdateStart(io_request, io_request_seq_nb)
  PROVE  \E k \in 1 .. Len(io_request) : PageStart(k, CountStart(io_request[k]), r)
<1> DEFINE nb == io_request_seq_nb
<1>1. ListTypes /\ nb \in Nat /\ nb # NoRequest /\ Len(io_request) \in Nat
  BY ListFacts, NumbersUsed DEF LInv
<1>2. Numbered(io_request, nb) # {}
  <2>1. io_request # <<>> /\ Newest.request_nb = nb
    BY DEF LInv, Underway
  <2>2. Len(io_request) # 0
    BY <2>1, <1>1, EmptySeq DEF ListTypes
  <2> QED BY <2>1, <2>2, <1>1 DEF Newest, Numbered
<1> DEFINE k == LOOKUP_IO_REQUEST(io_request, nb)
           q == CountStart(io_request[k])
<1>3. k \in 1 .. Len(io_request) /\ io_request[k].request_nb = nb /\ First(io_request, k)
  BY <1>1, <1>2, Lookup
<1>4. io_request' = IF Complete(q) THEN Unlink(io_request, k) ELSE [io_request EXCEPT ![k] = q]
  BY <1>1, <1>2, Zenon DEF UpdateStart, Known, Replace
<1> HIDE DEF k
<1>5. io_request[k] \in IoRequest
  BY <1>1, <1>3, ListFacts
<1>6. /\ q \in IoRequest /\ q.request_nb = nb /\ q.request_size = io_request[k].request_size
      /\ q.start_count = io_request[k].start_count + 1 /\ q.end_count = io_request[k].end_count
  BY <1>3, <1>5 DEF CountStart, IoRequest
<1>7. r \notin Holding(nb)
  BY <1>1 DEF Holding
<1>8. IsFiniteSet(Holding(nb)) /\ Cardinality(Holding(nb)) \in Nat
  BY HoldingFinite
<1>9. Cardinality(Holding(nb) \cup {r}) = Cardinality(Holding(nb)) + 1
  BY <1>7, <1>8, FS_AddElement, Zenon
<1>10. io_request[k].start_count = io_request[k].end_count + Cardinality(Holding(nb))
  BY <1>3 DEF LInv, Counted, CountOf
<1>11. q.start_count = q.end_count + Cardinality(Holding(nb) \cup {r})
  BY <1>5, <1>6, <1>8, <1>9, <1>10 DEF IoRequest
<1>12. ~Complete(q)
  BY <1>6, <1>8, <1>9, <1>11 DEF Complete, IoRequest
<1> HIDE DEF q
<1>13. PageStart(k, q, r)
  BY <1>3, <1>4, <1>6, <1>11, <1>12 DEF PageStart
<1> QED BY <1>3, <1>13, Zenon DEF q

\* SSD_REG_RECORD of a page of the host, which is the last command of its call.
LEMMA Starts ==
  ASSUME LInv, IInv, NEW r \in Reg, InCall, reg_io_cmd[r] = "NOOP", queue # <<>>, queue' = <<>>,
         access_nb' = [access_nb EXCEPT ![r] = [request |-> io_request_seq_nb, offset |-> call.offset - 1]],
         io_request' = UpdateStart(io_request, io_request_seq_nb),
         UNCHANGED <<io_request_seq_nb, call, failed>>
  PROVE  Counted' /\ Underway' /\ FewOdd' /\ Offsets' /\ NoLostEnd' /\ ListTypes'
<1> DEFINE n == Len(io_request)
           nb == io_request_seq_nb
<1>1. /\ ListTypes /\ n \in Nat /\ nb \in Nat /\ nb # NoRequest
      /\ io_request \in Seq(IoRequest) /\ call.size \in Nat /\ call.offset \in Nat /\ call.offset <= call.size
  BY ListFacts, NumbersUsed DEF LInv, ListTypes
<1>2. access_nb[r].request = NoRequest
  BY DEF LInv, IdleHoldsNone
<1>3. PICK k \in 1 .. n : PageStart(k, CountStart(io_request[k]), r)
  BY <1>2, PageStarts
<1> DEFINE q == CountStart(io_request[k])
<1>4. /\ io_request[k].request_nb = nb /\ First(io_request, k)
      /\ q \in IoRequest /\ q.request_nb = nb /\ q.request_size = io_request[k].request_size
      /\ q.start_count = io_request[k].start_count + 1
      /\ q.start_count = q.end_count + Cardinality(Holding(nb) \cup {r})
      /\ ~Complete(q)
      /\ io_request' = [io_request EXCEPT ![k] = q]
  BY <1>3 DEF PageStart
<1> HIDE DEF q
<1>5. /\ io_request' \in Seq(IoRequest) /\ Len(io_request') = n
      /\ \A i \in 1 .. n :
           /\ io_request'[i] = IF i = k THEN q ELSE io_request[i]
           /\ io_request'[i].request_nb = io_request[i].request_nb
           /\ io_request'[i].request_size = io_request[i].request_size
           /\ First(io_request', i) <=> First(io_request, i)
           /\ Alone(io_request', i) <=> Alone(io_request, i)
  BY <1>1, <1>4, PutBack, Zenon
<1>6. \A i \in 1 .. n : io_request[i].request_nb # NoRequest
  BY <1>1, ListFacts, NumbersUsed DEF LInv, Counted
<1>7. access_nb \in [Reg -> [request : Int, offset : Int]]
  BY DEF IInv, Types
<1>8. /\ access_nb'[r] = [request |-> nb, offset |-> call.offset - 1]
      /\ \A p \in Reg : p # r => access_nb'[p] = access_nb[p]
  BY <1>7
<1>9. Holding(nb)' = Holding(nb) \cup {r}
  BY <1>8 DEF Holding
<1>10. \A m : m # nb /\ m # NoRequest => Holding(m)' = Holding(m)
  BY <1>2, <1>8 DEF Holding
<1>11. InCall' /\ Issued = call.offset - 1 /\ Issued' = Issued + 1 /\ Issued < call.size /\ Issued \in Int
  BY <1>1 DEF InCall, Issued
<1>12. /\ io_request # <<>> /\ Newest.request_nb = nb /\ Newest.request_size = call.size
       /\ Newest.start_count <= Issued
  BY DEF LInv, Underway
<1>13. n \in 1 .. n /\ Newest.start_count \in Nat
  <2>1. n # 0
    BY <1>1, <1>12, EmptySeq
  <2>2. n \in 1 .. n
    BY <2>1, <1>1
  <2> QED BY <2>2, <1>1, ListFacts DEF Newest
<1>14. /\ Newest'.request_nb = nb /\ Newest'.request_size = call.size
       /\ Newest'.start_count = IF k = n THEN Newest.start_count + 1 ELSE Newest.start_count
  BY <1>4, <1>5, <1>12, <1>13 DEF Newest
<1>15. Counted'
  <2> SUFFICES ASSUME NEW i \in 1 .. n
               PROVE  /\ io_request'[i].request_nb <= nb
                      /\ ~Complete(io_request'[i])
                      /\ CountOf(io_request', i, Holding(io_request[i].request_nb)')
    BY <1>5 DEF Counted
  <2>1. /\ io_request[i].request_nb <= nb
        /\ ~Complete(io_request[i])
        /\ CountOf(io_request, i, Holding(io_request[i].request_nb))
    BY DEF LInv, Counted
  <2>2. CASE i = k
    <3>1. Holding(io_request[i].request_nb)' = Holding(nb) \cup {r}
      BY <2>2, <1>4, <1>5, <1>9
    <3> QED BY <2>1, <2>2, <3>1, <1>4, <1>5, Zenon DEF CountOf
  <2>3. CASE i # k
    <3>1. First(io_request, i) => io_request[i].request_nb # nb
      BY <2>3, <1>1, <1>4, OneFirst
    <3>2. First(io_request, i) => Holding(io_request[i].request_nb)' = Holding(io_request[i].request_nb)
      BY <3>1, <1>5, <1>6, <1>10
    <3> QED BY <2>1, <2>3, <3>2, <1>5 DEF CountOf
  <2> QED BY <2>2, <2>3
<1>16. Underway'
  <2>1. io_request' # <<>>
    BY <1>5, <1>13
  <2>2. Newest'.start_count <= Issued'
    BY <1>11, <1>12, <1>13, <1>14
  <2> QED BY <2>1, <2>2, <1>11, <1>14 DEF Underway
<1>17. OnTrack => k = n
  BY <1>1, <1>4, <1>12, <1>13, OneFirst DEF OnTrack, Newest
<1>18. Cardinality(Odd(io_request, n - 1)) \in Nat /\ failed \in Nat
  BY <1>1, OddFinite DEF ListTypes
<1>19. Cardinality(Odd(io_request, n - 1)) + (IF OnTrack THEN 0 ELSE 1) <= 2 * failed
  BY DEF LInv, FewOdd, Past
<1>20. FewOdd'
  <2>1. OnTrack => OnTrack'
    BY <1>5, <1>11, <1>13, <1>14, <1>17 DEF OnTrack
  <2>2. Past(io_request', InCall') = n - 1
    BY <1>5, <1>11 DEF Past
  <2>3. Odd(io_request', n - 1) = Odd(io_request, n - 1)
    <3> SUFFICES ASSUME NEW i \in 1 .. n - 1
                 PROVE  i \in Odd(io_request', n - 1) <=> i \in Odd(io_request, n - 1)
      BY DEF Odd
    <3>1. i \in 1 .. n /\ i # n
      BY <1>1
    <3>2. CASE i = k
      <4>1. ~Alone(io_request, i)
        BY <3>1, <3>2, <1>4, <1>12, <1>13 DEF Alone, Newest
      <4> QED BY <3>1, <4>1, <1>5 DEF Odd
    <3>3. CASE i # k
      BY <3>1, <3>3, <1>5 DEF Odd
    <3> QED BY <3>2, <3>3
  <2>4. Cardinality(Odd(io_request, n - 1)) + (IF OnTrack' THEN 0 ELSE 1) <= 2 * failed
    BY <2>1, <1>18, <1>19
  <2> QED BY <2>2, <2>3, <2>4 DEF FewOdd
<1>21. Offsets'
  <2> SUFFICES ASSUME failed = 0
               PROVE  Offsets'
    BY DEF Offsets
  <2>1. /\ \A s, t \in Reg : access_nb[s] = access_nb[t] /\ access_nb[s].request # NoRequest => s = t
        /\ \A i \in 1 .. n : \A s \in Holding(io_request[i].request_nb) :
             access_nb[s].offset < io_request[i].request_size
        /\ \A s \in Holding(nb) : access_nb[s].offset < Issued
    BY DEF LInv, Offsets
  <2>2. OnTrack
    BY <1>18, <1>19
  <2>3. ASSUME NEW i \in 1 .. n, io_request[i].request_nb = nb
        PROVE  i = n
    <3>1. First(io_request, n)
      BY <2>2 DEF OnTrack
    <3> QED BY <2>3, <3>1, <1>1, <1>12 DEF First, Newest
  <2>4. \A s \in Reg : s # r /\ access_nb'[s].request = nb => access_nb'[s].offset < Issued
    BY <2>1, <1>8 DEF Holding
  <2>5. access_nb'[r].request = nb /\ access_nb'[r].offset = Issued
    BY <1>8, <1>11
  <2>6. \A s \in Reg : s # r => access_nb'[s] # access_nb'[r]
    BY <2>4, <2>5, <1>11
  <2>7. ASSUME NEW s \in Reg, NEW t \in Reg, access_nb'[s] = access_nb'[t],
               access_nb'[s].request # NoRequest
        PROVE  s = t
    <3>1. CASE s = r \/ t = r
      BY <3>1, <2>6, <2>7
    <3>2. CASE s # r /\ t # r
      BY <3>2, <2>1, <2>7, <1>8
    <3> QED BY <3>1, <3>2
  <2>8. ASSUME NEW i \in 1 .. n, NEW s \in Holding(io_request[i].request_nb)'
        PROVE  access_nb'[s].offset < io_request'[i].request_size
    <3>1. s \in Reg /\ access_nb'[s].request = io_request[i].request_nb
      BY <2>8, <1>5 DEF Holding
    <3>2. CASE s = r
      <4>1. i = n
        BY <3>1, <3>2, <2>3, <2>5
      <4> QED BY <3>2, <4>1, <2>5, <1>11, <1>14, <1>5 DEF Newest
    <3>3. CASE s # r
      <4>1. access_nb'[s] = access_nb[s] /\ s \in Holding(io_request[i].request_nb)
        BY <3>1, <3>3, <1>8 DEF Holding
      <4> QED BY <4>1, <2>1, <1>5
    <3> QED BY <3>2, <3>3
  <2>9. \A s \in Holding(nb)' : access_nb'[s].offset < Issued'
    <3> SUFFICES ASSUME NEW s \in Holding(nb)'
                 PROVE  access_nb'[s].offset < Issued'
      OBVIOUS
    <3>1. s \in Reg /\ access_nb'[s].request = nb
      BY DEF Holding
    <3>2. CASE s = r
      BY <3>2, <2>5, <1>11
    <3>3. CASE s # r
      <4>1. access_nb'[s].offset \in Int
        BY <3>1, <3>3, <1>7, <1>8
      <4> QED BY <3>1, <3>3, <4>1, <2>4, <1>11
    <3> QED BY <3>2, <3>3
  <2> QED BY <2>7, <2>8, <2>9, <1>5 DEF Offsets
<1>22. NoLostEnd'
  <2>1. \A m : Numbered(io_request', m) = Numbered(io_request, m)
    BY <1>5 DEF Numbered
  <2>2. Numbered(io_request, nb) # {}
    BY <1>4 DEF Numbered
  <2> QED BY <2>1, <2>2, <1>8 DEF LInv, NoLostEnd
<1>23. ListTypes'
  BY <1>1, <1>5, <1>8, <1>11 DEF ListTypes, InCall
<1> QED BY <1>15, <1>16, <1>20, <1>21, <1>22, <1>23
-----------------------------------------------------------------------------
(***************************************************************************)
(* The steps of the thread inside SSD_PAGE_*.                              *)
(***************************************************************************)
\* Steps that only change stamps, or set a register idle that held no page
\* of the host.
LEMMA Quiet ==
  ASSUME LInv, UNCHANGED <<io_request, io_request_seq_nb, call, queue, failed, access_nb>>,
         drain' \subseteq drain,
         \A r \in Reg : reg_io_cmd'[r] = reg_io_cmd[r] \/ reg_io_cmd[r] = "ERASE"
  PROVE  LInv'
<1>1. SameHeld /\ InCall' = InCall /\ Issued' = Issued
  BY DEF SameHeld, InCall, Issued
<1>2. Counted' /\ Underway' /\ FewOdd' /\ Offsets' /\ NoLostEnd'
  BY <1>1, SameList
<1>3. ListTypes'
  BY <1>1 DEF LInv, ListTypes
<1>4. Queued'
  BY <1>1 DEF LInv, Queued
<1>5. IdleHoldsNone'
  BY DEF LInv, IdleHoldsNone
<1> QED BY <1>2, <1>3, <1>4, <1>5 DEF LInv

LEMMA AccessLists ==
  ASSUME LInv, IInv, Access
  PROVE  LInv'
<1> DEFINE r == CHOOSE q \in drain : \A p \in drain : q <= p
<1>1. /\ drain # {} /\ (Skip(r) \/ Wait(r)) /\ drain' = drain \ {r}
      /\ UNCHANGED <<io_request_seq_nb, call, queue, failed>>
  BY DEF Access
<1>2. r \in Reg
  <2>1. Types /\ drain \subseteq Reg
    BY DEF IInv, Types
  <2> QED BY <2>1, <1>1, NextRegister
<1> HIDE DEF r
<1>3. queue # <<>> /\ drain' \subseteq drain
  BY <1>1 DEF LInv, Queued
<1>4. CASE Release(r)
  BY <1>1, <1>2, <1>3, <1>4, Ends
<1>5. CASE ~Release(r)
  <2>1. UNCHANGED <<io_request, access_nb>>
    BY <1>1, <1>5 DEF Skip, Wait, SSD_REG_ACCESS, regVars, SSD_REG_READ_DELAY, Hold,
                      SSD_CELL_WRITE_DELAY, SSD_BLOCK_ERASE_DELAY
  <2>2. reg_io_cmd' = reg_io_cmd \/ (reg_io_cmd[r] = "ERASE" /\ SSD_BLOCK_ERASE_DELAY(r))
    BY <1>1, <1>5 DEF Skip, Wait, SSD_REG_ACCESS, regVars, SSD_REG_READ_DELAY, Hold,
                      SSD_CELL_WRITE_DELAY
  <2>3. \A p \in Reg : reg_io_cmd'[p] = reg_io_cmd[p] \/ reg_io_cmd[p] = "ERASE"
    BY <2>2, <1>2 DEF SSD_BLOCK_ERASE_DELAY, IInv, Types
  <2> QED BY <2>1, <2>3, <1>1, <1>3, Quiet
<1> QED BY <1>4, <1>5

LEMMA ChannelLists ==
  ASSUME LInv, IInv, NEW r \in Reg, ChannelAccess(r) \/ TimePasses(r)
  PROVE  LInv'
<1>1. queue # <<>> /\ drain' \subseteq drain /\ UNCHANGED <<io_request_seq_nb, call, queue, failed>>
  BY DEF ChannelAccess, TimePasses, Checking
<1>2. CASE Release(r)
  BY <1>1, <1>2, Ends
<1>3. CASE ~Release(r)
  <2>1. UNCHANGED <<io_request, access_nb, reg_io_cmd>>
    BY <1>3 DEF ChannelAccess, TimePasses, SSD_REG_READ_DELAY, Hold, regVars
  <2> QED BY <2>1, <1>1, Quiet
<1> QED BY <1>2, <1>3

\* The next command of the queue.
LEMMA NextCommand ==
  ASSUME LInv, IInv, queue # <<>>, Continue(Tail(queue)), UNCHANGED call
  PROVE  /\ Queued' /\ InCall' = InCall
         /\ Head(queue).offset = -1 /\ InCall => Issued' = Issued
         /\ Head(queue).offset # -1 => /\ InCall /\ queue' = <<>>
                                       /\ Head(queue).offset = call.offset - 1
                                       /\ Head(queue).cmd \in {"READ", "WRITE"}
<1> DEFINE n == Len(queue)
<1>1. queue \in Seq(Commands) /\ n \in Nat /\ queue' = Tail(queue)
  BY LenProperties DEF IInv, Types, Continue
<1>2. n > 0 /\ Len(queue') = n - 1 /\ (queue' = <<>> <=> n = 1) /\ Head(queue) = queue[1]
  <2>1. n # 0 /\ Head(queue) = queue[1]
    BY <1>1
  <2>2. Len(queue') = n - 1 /\ queue' \in Seq(Commands)
    BY <1>1, HeadTailProperties
  <2>3. queue' = <<>> <=> Len(queue') = 0
    BY <2>2, EmptySeq
  <2> QED BY <2>1, <2>2, <2>3, <1>1
<1>3. \A k \in 1 .. n - 1 : queue'[k] = queue[k + 1]
  BY <1>1, HeadTailProperties
<1>4. InCall' = InCall
  BY DEF InCall
<1>5. /\ InCall => call.offset > 0 /\ call.offset \in Nat
      /\ \A k \in 1 .. n : IF InCall /\ k = n
                           THEN queue[k].offset = call.offset - 1 /\ queue[k].cmd \in {"READ", "WRITE"}
                           ELSE queue[k].offset = -1 /\ (queue[k].cmd = "ERASE" => ~InCall)
  BY DEF LInv, Queued, ListTypes
<1>6. Queued'
  <2>1. drain' # {} => queue' # <<>>
    BY <1>1 DEF Continue
  <2>2. ASSUME NEW k \in 1 .. n - 1
        PROVE  IF InCall /\ k = n - 1
               THEN queue'[k].offset = call.offset - 1 /\ queue'[k].cmd \in {"READ", "WRITE"}
               ELSE queue'[k].offset = -1 /\ (queue'[k].cmd = "ERASE" => ~InCall)
    <3>1. k + 1 \in 1 .. n /\ (k = n - 1 <=> k + 1 = n)
      BY <1>1, <2>2
    <3> QED BY <3>1, <1>3, <1>5
  <2> QED BY <2>1, <2>2, <1>2, <1>4, <1>5 DEF Queued
<1>7. 1 \in 1 .. n
  BY <1>1, <1>2
<1>8. Head(queue).offset = -1 /\ InCall => n # 1
  BY <1>2, <1>5, <1>7
<1>9. Head(queue).offset = -1 /\ InCall => Issued' = Issued
  BY <1>2, <1>8 DEF Issued
<1>10. Head(queue).offset # -1 => /\ InCall /\ n = 1
                                  /\ Head(queue).offset = call.offset - 1
                                  /\ Head(queue).cmd \in {"READ", "WRITE"}
  BY <1>2, <1>5, <1>7
<1> QED BY <1>2, <1>4, <1>6, <1>9, <1>10

LEMMA RecordLists ==
  ASSUME LInv, IInv, Record
  PROVE  LInv'
<1> DEFINE c == Head(queue)
<1>1. /\ queue # <<>> /\ drain = {} /\ SSD_REG_RECORD(c)
      /\ Continue(Tail(queue)) /\ UNCHANGED <<io_request_seq_nb, call, failed>>
  BY DEF Record
<1>2. c.reg \in Reg /\ reg_io_cmd[c.reg] = "NOOP"
  BY <1>1, RecordsIdle
<1>3. /\ Queued' /\ InCall' = InCall
      /\ c.offset = -1 /\ InCall => Issued' = Issued
      /\ c.offset # -1 => /\ InCall /\ queue' = <<>> /\ c.offset = call.offset - 1
                          /\ c.cmd \in {"READ", "WRITE"}
  BY <1>1, NextCommand
<1> HIDE DEF c
<1>4. access_nb[c.reg].request = NoRequest
  BY <1>2 DEF LInv, IdleHoldsNone
<1>5. /\ access_nb \in [Reg -> [request : Int, offset : Int]]
      /\ reg_io_cmd' = [reg_io_cmd EXCEPT ![c.reg] = c.cmd]
      /\ reg_io_cmd \in [Reg -> {"NOOP", "READ", "WRITE", "ERASE"}]
  BY <1>1 DEF IInv, Types, SSD_REG_RECORD
<1>6. CASE c.offset = -1
  <2>1. access_nb' = [access_nb EXCEPT ![c.reg] = NoAccess] /\ io_request' = io_request
    BY <1>1, <1>6 DEF SSD_REG_RECORD
  <2>2. SameHeld
    BY <2>1, <1>2, <1>4, <1>5 DEF SameHeld, NoAccess
  <2>3. Counted' /\ Underway' /\ FewOdd' /\ Offsets' /\ NoLostEnd'
    BY <2>1, <2>2, <1>1, <1>3, <1>6, SameList
  <2>4. ListTypes'
    BY <2>1, <2>2, <1>1, <1>3 DEF LInv, ListTypes, SameHeld
  <2>5. IdleHoldsNone'
    BY <2>2, <1>2, <1>4, <1>5 DEF LInv, IdleHoldsNone, SameHeld
  <2> QED BY <2>3, <2>4, <2>5, <1>3 DEF LInv
<1>7. CASE c.offset # -1
  <2>1. /\ access_nb' = [access_nb EXCEPT ![c.reg] = [request |-> io_request_seq_nb, offset |-> call.offset - 1]]
        /\ io_request' = UpdateStart(io_request, io_request_seq_nb)
    BY <1>1, <1>3, <1>7 DEF SSD_REG_RECORD
  <2>2. Counted' /\ Underway' /\ FewOdd' /\ Offsets' /\ NoLostEnd' /\ ListTypes'
    BY <2>1, <1>1, <1>2, <1>3, <1>7, Starts, Zenon
  <2>3. IdleHoldsNone'
    BY <2>1, <1>2, <1>3, <1>5, <1>7 DEF LInv, IdleHoldsNone
  <2> QED BY <2>2, <2>3, <1>3 DEF LInv
<1> QED BY <1>6, <1>7

LEMMA WaitedLists ==
  ASSUME LInv, IInv, Waited
  PROVE  LInv'
<1>1. /\ queue # <<>> /\ Continue(Tail(queue)) /\ Head(queue).cmd = "WAIT"
      /\ UNCHANGED <<io_request, io_request_seq_nb, reg_io_cmd, access_nb, call, failed>>
  BY DEF Waited, regVars
<1>2. Queued' /\ InCall' = InCall /\ (InCall => Issued' = Issued)
  BY <1>1, NextCommand
<1>3. SameHeld
  BY <1>1 DEF SameHeld
<1>4. Counted' /\ Underway' /\ FewOdd' /\ Offsets' /\ NoLostEnd'
  BY <1>1, <1>2, <1>3, SameList
<1>5. ListTypes' /\ IdleHoldsNone'
  BY <1>1, <1>2 DEF LInv, ListTypes, IdleHoldsNone
<1> QED BY <1>2, <1>4, <1>5 DEF LInv
-----------------------------------------------------------------------------
(***************************************************************************)
(* The steps of the callers.                                               *)
(***************************************************************************)
LEMMA HostCallLists ==
  ASSUME LInv, IInv, NEW type \in {"READ", "WRITE"}, NEW size \in 1 .. MAX_REQ_PAGES,
         HostCall(type, size)
  PROVE  LInv'
<1> DEFINE n == Len(io_request)
           nb == io_request_seq_nb
           q == [request_nb |-> nb, request_size |-> size, start_count |-> 0, end_count |-> 0]
<1>1. /\ ~InCall /\ queue = <<>> /\ nb < MAX_REQUESTS
      /\ io_request' = Append(io_request, q)
      /\ call' = [type |-> type, size |-> size, offset |-> 0]
      /\ UNCHANGED <<io_request_seq_nb, reg_io_cmd, access_nb, queue, drain, failed>>
  BY DEF HostCall, InCall, ALLOC_IO_REQUEST, regVars
<1>2. ListTypes /\ n \in Nat /\ nb \in Nat /\ nb # NoRequest /\ io_request \in Seq(IoRequest)
  BY ListFacts, NumbersUsed DEF LInv, ListTypes
<1>3. size \in Nat \ {0} /\ q \in IoRequest
  BY <1>2, NandAssumption DEF IoRequest
<1> HIDE DEF q
<1>4. /\ io_request' \in Seq(IoRequest) /\ Len(io_request') = n + 1
      /\ \A i \in 1 .. n : io_request'[i] = io_request[i]
      /\ io_request'[n + 1] = q
  BY <1>1, <1>2, <1>3, AppendProperties
<1>5. q.request_nb = nb /\ q.request_size = size /\ q.start_count = 0 /\ q.end_count = 0
  BY DEF q
<1>6. InCall' /\ Issued' = 0
  BY <1>1 DEF InCall, Issued, NoCall
<1>7. \A i \in 1 .. n : First(io_request', i) <=> First(io_request, i)
  <2> SUFFICES ASSUME NEW i \in 1 .. n
               PROVE  First(io_request', i) <=> First(io_request, i)
    OBVIOUS
  <2>1. \A j \in 1 .. i - 1 : j \in 1 .. n
    BY <1>2
  <2> QED BY <2>1, <1>4, Zenon DEF First
<1>8. \A m : Holding(m)' = Holding(m)
  BY <1>1 DEF Holding
<1>9. (\A i \in 1 .. n : io_request[i].request_nb # nb) => Holding(nb) = {}
  BY <1>2 DEF LInv, NoLostEnd, Numbered, Holding
<1>10. Counted'
  <2> SUFFICES ASSUME NEW i \in 1 .. n + 1
               PROVE  /\ io_request'[i].request_nb <= nb
                      /\ ~Complete(io_request'[i])
                      /\ CountOf(io_request', i, Holding(io_request[i].request_nb)')
    BY <1>1, <1>4 DEF Counted
  <2>1. CASE i \in 1 .. n
    <3>1. /\ io_request[i].request_nb <= nb
          /\ ~Complete(io_request[i])
          /\ CountOf(io_request, i, Holding(io_request[i].request_nb))
      BY <2>1 DEF LInv, Counted
    <3>2. Holding(io_request[i].request_nb)' = Holding(io_request[i].request_nb)
      BY <2>1, <1>4, <1>8
    <3> QED BY <2>1, <3>1, <3>2, <1>4, <1>7 DEF CountOf
  <2>2. CASE i = n + 1
    <3>1. io_request'[i] = q
      BY <2>2, <1>4
    <3>2. Holding(io_request[i].request_nb)' = Holding(nb)
      BY <3>1, <1>5, <1>8
    <3>3. First(io_request', i) => \A j \in 1 .. n : io_request[j].request_nb # nb
      <4> SUFFICES ASSUME First(io_request', n + 1), NEW j \in 1 .. n
                   PROVE  io_request[j].request_nb # nb
        BY <2>2
      <4>1. j \in 1 .. (n + 1) - 1
        BY <1>2
      <4> QED BY <4>1, <1>4, <1>5 DEF First
    <3>4. First(io_request', i) => Cardinality(Holding(nb)) = 0
      BY <3>3, <1>9, FS_EmptySet, Zenon
    <3>5. CountOf(io_request', i, Holding(io_request[i].request_nb)')
      BY <3>1, <3>2, <3>4, <1>5 DEF CountOf
    <3> QED BY <3>1, <3>5, <1>2, <1>3, <1>5 DEF Complete
  <2> QED BY <2>1, <2>2, <1>2
<1>11. Newest' = q
  BY <1>4 DEF Newest
<1>12. Underway'
  <2>1. io_request' # <<>>
    BY <1>2, <1>4
  <2> QED BY <2>1, <1>1, <1>5, <1>6, <1>11 DEF Underway
<1>13. OnTrack => \A i \in 1 .. n : io_request[i].request_nb # nb
  BY <1>1 DEF OnTrack
<1>14. FewOdd'
  <2>1. OnTrack => OnTrack'
    <3> SUFFICES ASSUME OnTrack
                 PROVE  First(io_request', n + 1) /\ Newest'.start_count = Issued'
      BY <1>4, <1>6 DEF OnTrack
    <3>1. \A j \in 1 .. (n + 1) - 1 : j \in 1 .. n
      BY <1>2
    <3> QED BY <3>1, <1>4, <1>5, <1>6, <1>11, <1>13 DEF First
  <2>2. Past(io_request', InCall') = n /\ Past(io_request, InCall) = n
    BY <1>1, <1>2, <1>4, <1>6 DEF Past
  <2>3. ASSUME NEW i \in Odd(io_request', n)
        PROVE  i \in Odd(io_request, n)
    <3> SUFFICES ASSUME Alone(io_request, i), io_request[i].start_count = io_request[i].request_size
                 PROVE  FALSE
      BY <2>3 DEF Odd
    <3>1. i \in 1 .. n /\ ~Alone(io_request', i)
      BY <2>3, <1>4 DEF Odd
    <3>2. PICK j \in 1 .. n + 1 : io_request'[j].request_nb = io_request'[i].request_nb /\ j # i
      BY <3>1, <1>4 DEF Alone
    <3>3. j = n + 1
      BY <3>1, <3>2, <1>2, <1>4 DEF Alone
    <3>4. io_request[i].request_nb = nb
      BY <3>1, <3>2, <3>3, <1>4, <1>5
    <3>5. Newest.request_nb = nb /\ Newest.start_count < Newest.request_size
      BY <3>1, <3>4, <1>1 DEF LInv, Underway
    <3>6. i = n
      BY <3>1, <3>4, <3>5, <1>2 DEF Alone, Newest
    <3> QED BY <3>1, <3>5, <3>6, <1>2, ListFacts DEF Newest
  <2>4. Cardinality(Odd(io_request', n)) <= Cardinality(Odd(io_request, n))
    <3>1. Odd(io_request', n) \in SUBSET Odd(io_request, n)
      BY <2>3
    <3> QED BY <3>1, <1>2, OddFinite, FS_Subset
  <2>5. /\ Cardinality(Odd(io_request', n)) \in Nat /\ Cardinality(Odd(io_request, n)) \in Nat
        /\ failed \in Nat
    BY <1>2, OddFinite DEF ListTypes
  <2>6. Cardinality(Odd(io_request, n)) + (IF OnTrack THEN 0 ELSE 1) <= 2 * failed
    BY <2>2 DEF LInv, FewOdd
  <2>7. Cardinality(Odd(io_request', n)) + (IF OnTrack' THEN 0 ELSE 1) <= 2 * failed
    BY <2>1, <2>4, <2>5, <2>6
  <2> QED BY <2>2, <2>7, <1>1 DEF FewOdd
<1>15. Offsets'
  <2> SUFFICES ASSUME failed = 0
               PROVE  Offsets'
    BY <1>1 DEF Offsets
  <2>1. /\ \A s, t \in Reg : access_nb[s] = access_nb[t] /\ access_nb[s].request # NoRequest => s = t
        /\ \A i \in 1 .. n : \A s \in Holding(io_request[i].request_nb) :
             access_nb[s].offset < io_request[i].request_size
    BY DEF LInv, Offsets
  <2>2. Holding(nb) = {}
    <3>1. Past(io_request, InCall) \in Int
      BY <1>2 DEF Past
    <3>2. Cardinality(Odd(io_request, Past(io_request, InCall))) \in Nat
      BY <3>1, OddFinite
    <3>3. OnTrack
      BY <3>2 DEF LInv, FewOdd
    <3> QED BY <3>3, <1>9, <1>13
  <2>3. ASSUME NEW i \in 1 .. n + 1, NEW s \in Holding(io_request[i].request_nb)'
        PROVE  access_nb[s].offset < io_request'[i].request_size
    <3>1. CASE i \in 1 .. n
      BY <2>1, <2>3, <3>1, <1>4, <1>8
    <3>2. CASE i = n + 1
      <4>1. Holding(io_request[i].request_nb)' = Holding(nb)
        BY <3>2, <1>4, <1>5, <1>8
      <4> QED BY <4>1, <2>2, <2>3
    <3> QED BY <3>1, <3>2, <1>2
  <2>4. Holding(nb)' = {}
    BY <2>2, <1>1 DEF Holding
  <2> QED BY <2>1, <2>3, <2>4, <1>1, <1>4 DEF Offsets
<1>16. NoLostEnd'
  <2> SUFFICES ASSUME NEW p \in Reg, access_nb[p].request # NoRequest
               PROVE  Numbered(io_request', access_nb[p].request) # {}
    BY <1>1 DEF NoLostEnd
  <2>1. PICK j \in 1 .. n : io_request[j].request_nb = access_nb[p].request
    BY DEF LInv, NoLostEnd, Numbered
  <2>2. j \in 1 .. n + 1
    BY <1>2
  <2> QED BY <2>1, <2>2, <1>4 DEF Numbered
<1>17. ListTypes'
  <2>1. InCall' => /\ call' \in [type : {"READ", "WRITE"}, size : Nat \ {0}, offset : Nat]
                   /\ call'.offset <= call'.size
    BY <1>1, <1>3
  <2> QED BY <2>1, <1>1, <1>2, <1>4 DEF ListTypes
<1>18. Queued' /\ IdleHoldsNone'
  BY <1>1 DEF LInv, Queued, IdleHoldsNone
<1> QED BY <1>10, <1>12, <1>14, <1>15, <1>16, <1>17, <1>18 DEF LInv

\* The newest request may be odd, once its call is over.
LEMMA OneMoreOdd ==
  ASSUME NEW list, NEW n \in Nat \ {0}
  PROVE  /\ Cardinality(Odd(list, n)) <= Cardinality(Odd(list, n - 1)) + 1
         /\ n \notin Odd(list, n) => Odd(list, n) = Odd(list, n - 1)
<1>1. Odd(list, n) \subseteq Odd(list, n - 1) \cup {n} /\ Odd(list, n - 1) \subseteq Odd(list, n)
  BY DEF Odd
<1>2. IsFiniteSet(Odd(list, n - 1)) /\ n \notin Odd(list, n - 1)
  BY OddFinite DEF Odd
<1>3. /\ IsFiniteSet(Odd(list, n - 1) \cup {n})
      /\ Cardinality(Odd(list, n - 1) \cup {n}) = Cardinality(Odd(list, n - 1)) + 1
  BY <1>2, FS_AddElement
<1>4. Cardinality(Odd(list, n)) <= Cardinality(Odd(list, n - 1) \cup {n})
  <2>1. Odd(list, n) \in SUBSET (Odd(list, n - 1) \cup {n})
    BY <1>1
  <2> QED BY <2>1, <1>3, FS_Subset
<1> QED BY <1>1, <1>3, <1>4

\* What is known of a call that has no command in the queue.
LEMMA InTheCall ==
  ASSUME LInv, InCall, queue = <<>>
  PROVE  /\ Len(io_request) \in Nat \ {0} /\ io_request_seq_nb \in Nat /\ failed \in Nat
         /\ io_request_seq_nb + 1 < NoRequest /\ NoRequest = UINT_MAX /\ NoRequest \in Nat
         /\ call.size \in Nat /\ call.offset \in Nat /\ Issued = call.offset
         /\ Newest.request_nb = io_request_seq_nb /\ Newest.request_size = call.size
         /\ Newest.start_count <= call.offset /\ Newest.start_count \in Nat
         /\ Cardinality(Odd(io_request, Len(io_request) - 1)) \in Nat
         /\ Cardinality(Odd(io_request, Len(io_request))) \in Nat
         /\ Cardinality(Odd(io_request, Len(io_request) - 1)) + (IF OnTrack THEN 0 ELSE 1) <= 2 * failed
         /\ Cardinality(Odd(io_request, Len(io_request))) <= Cardinality(Odd(io_request, Len(io_request) - 1)) + 1
<1> DEFINE n == Len(io_request)
<1>1. /\ ListTypes /\ n \in Nat /\ io_request \in Seq(IoRequest) /\ failed \in Nat
      /\ call.size \in Nat /\ call.offset \in Nat
  BY ListFacts DEF LInv, ListTypes
<1>2. Issued = call.offset
  BY <1>1 DEF Issued
<1>3. /\ io_request # <<>> /\ Newest.request_nb = io_request_seq_nb /\ Newest.request_size = call.size
      /\ Newest.start_count <= call.offset
  BY <1>2 DEF LInv, Underway
<1>4. n # 0
  BY <1>1, <1>3, EmptySeq
<1>5. n \in 1 .. n /\ n \in Nat \ {0} /\ n - 1 \in Int /\ n \in Int
  BY <1>1, <1>4
<1>6. Newest.start_count \in Nat
  BY <1>1, <1>5, ListFacts DEF Newest
<1>7. /\ Cardinality(Odd(io_request, n - 1)) \in Nat /\ Cardinality(Odd(io_request, n)) \in Nat
      /\ Cardinality(Odd(io_request, n)) <= Cardinality(Odd(io_request, n - 1)) + 1
  BY <1>5, OddFinite, OneMoreOdd
<1>8. Cardinality(Odd(io_request, n - 1)) + (IF OnTrack THEN 0 ELSE 1) <= 2 * failed
  BY DEF LInv, FewOdd, Past
<1>9. /\ io_request_seq_nb + 1 < NoRequest /\ io_request_seq_nb \in Nat
      /\ NoRequest = UINT_MAX /\ NoRequest \in Nat
  BY <1>1, NumbersUsed DEF NoRequest
<1> QED BY <1>1, <1>2, <1>3, <1>5, <1>6, <1>7, <1>8, <1>9

LEMMA WriteFailsLists ==
  ASSUME LInv, IInv, WriteFails
  PROVE  LInv'
<1> DEFINE n == Len(io_request)
<1>1. /\ InCall /\ queue = <<>> /\ call.offset < call.size /\ failed' = failed + 1 /\ ~InCall'
      /\ UNCHANGED <<io_request, io_request_seq_nb, reg_io_cmd, access_nb, queue, drain>>
  BY DEF WriteFails, InCall, NoCall, regVars
<1>2. /\ n \in Nat \ {0} /\ failed \in Nat /\ io_request_seq_nb \in Nat
      /\ call.size \in Nat /\ call.offset \in Nat
      /\ Newest.request_nb = io_request_seq_nb /\ Newest.request_size = call.size
      /\ Newest.start_count <= call.offset /\ Newest.start_count \in Nat
      /\ Cardinality(Odd(io_request, n - 1)) \in Nat
      /\ Cardinality(Odd(io_request, n)) \in Nat
      /\ Cardinality(Odd(io_request, n - 1)) + (IF OnTrack THEN 0 ELSE 1) <= 2 * failed
      /\ Cardinality(Odd(io_request, n)) <= Cardinality(Odd(io_request, n - 1)) + 1
  BY <1>1, InTheCall
<1>3. \A m : Holding(m)' = Holding(m)
  BY <1>1 DEF Holding
<1>4. Counted'
  BY <1>1, <1>3 DEF LInv, Counted
<1>5. Underway'
  <2>1. Newest' = Newest /\ Newest.start_count < Newest.request_size
    BY <1>1, <1>2 DEF Newest
  <2> QED BY <2>1, <1>1, <1>2 DEF Underway
<1>6. FewOdd'
  <2>1. Past(io_request', InCall') = n
    BY <1>1 DEF Past
  <2>2. Cardinality(Odd(io_request, n)) + (IF OnTrack' THEN 0 ELSE 1) <= 2 * failed'
    BY <1>1, <1>2
  <2> QED BY <2>1, <2>2, <1>1 DEF FewOdd
<1>7. Offsets'
  BY <1>1, <1>2 DEF Offsets
<1>8. NoLostEnd' /\ IdleHoldsNone' /\ Queued'
  BY <1>1 DEF LInv, NoLostEnd, IdleHoldsNone, Queued
<1>9. ListTypes'
  BY <1>1, <1>2 DEF LInv, ListTypes
<1> QED BY <1>4, <1>5, <1>6, <1>7, <1>8, <1>9 DEF LInv

LEMMA EndCallLists ==
  ASSUME LInv, IInv, EndCall
  PROVE  LInv'
<1> DEFINE n == Len(io_request)
           nb == io_request_seq_nb
<1>1. /\ InCall /\ queue = <<>> /\ call.offset = call.size /\ ~InCall'
      /\ io_request_seq_nb' = INCREASE_IO_REQUEST_SEQ_NB(nb)
      /\ UNCHANGED <<io_request, reg_io_cmd, access_nb, queue, drain, failed>>
  BY DEF EndCall, InCall, regVars
<1>2. /\ n \in Nat \ {0} /\ failed \in Nat /\ nb \in Nat
      /\ nb + 1 < NoRequest /\ NoRequest = UINT_MAX /\ NoRequest \in Nat
      /\ call.size \in Nat /\ call.offset \in Nat /\ Issued = call.offset
      /\ Newest.request_nb = nb /\ Newest.request_size = call.size
      /\ Cardinality(Odd(io_request, n - 1)) \in Nat
      /\ Cardinality(Odd(io_request, n)) \in Nat
      /\ Cardinality(Odd(io_request, n - 1)) + (IF OnTrack THEN 0 ELSE 1) <= 2 * failed
      /\ Cardinality(Odd(io_request, n)) <= Cardinality(Odd(io_request, n - 1)) + 1
  BY <1>1, InTheCall
<1>3. io_request_seq_nb' = nb + 1
  BY <1>1, <1>2 DEF INCREASE_IO_REQUEST_SEQ_NB
<1>4. \A m : Holding(m)' = Holding(m)
  BY <1>1 DEF Holding
<1>5. \A i \in 1 .. n : io_request[i].request_nb <= nb /\ io_request[i].request_nb \in Nat
  BY ListFacts DEF LInv, Counted
<1>6. Counted'
  <2>1. \A i \in 1 .. n : io_request[i].request_nb <= nb + 1
    BY <1>2, <1>5
  <2> QED BY <2>1, <1>1, <1>3, <1>4 DEF LInv, Counted
<1>7. \A i \in 1 .. n : io_request[i].request_nb # nb + 1
  BY <1>2, <1>5
<1>8. Underway'
  BY <1>1, <1>3, <1>7 DEF Underway
<1>9. FewOdd'
  <2>1. Past(io_request', InCall') = n
    BY <1>1 DEF Past
  <2>2. OnTrack'
    BY <1>1, <1>3, <1>7 DEF OnTrack
  <2>3. OnTrack => Odd(io_request, n) = Odd(io_request, n - 1)
    <3> SUFFICES ASSUME OnTrack
                 PROVE  n \notin Odd(io_request, n)
      BY <1>2, OneMoreOdd
    <3>1. First(io_request, n) /\ Newest.start_count = Newest.request_size
      BY <1>1, <1>2 DEF OnTrack
    <3>2. Alone(io_request, n)
      BY <3>1, <1>2 DEF First, Alone
    <3> QED BY <3>1, <3>2 DEF Odd, Newest
  <2>4. Cardinality(Odd(io_request, n)) <= 2 * failed
    BY <2>3, <1>2
  <2> QED BY <2>1, <2>2, <2>4, <1>1, <1>2 DEF FewOdd
<1>10. Offsets'
  BY <1>1, <1>4 DEF LInv, Offsets
<1>11. NoLostEnd' /\ IdleHoldsNone' /\ Queued'
  BY <1>1 DEF LInv, NoLostEnd, IdleHoldsNone, Queued
<1>12. ListTypes'
  <2>1. nb + 1 \in 0 .. MAX_REQUESTS
    BY <1>1, <1>2, NandAssumption DEF LInv, ListTypes
  <2> QED BY <2>1, <1>1, <1>3 DEF LInv, ListTypes
<1> QED BY <1>6, <1>8, <1>9, <1>10, <1>11, <1>12 DEF LInv

\* The commands of a call, or of the garbage collection, enter the queue.
LEMMA CommandsLists ==
  ASSUME LInv, IInv, NEW commands \in Seq(Commands), queue = <<>>, commands # <<>>,
         Continue(commands), InCall' = InCall, call'.size = call.size,
         InCall => call' = [call EXCEPT !.offset = @ + 1] /\ call.offset < call.size,
         \A k \in 1 .. Len(commands) :
           IF InCall /\ k = Len(commands)
           THEN commands[k].offset = call.offset /\ commands[k].cmd \in {"READ", "WRITE"}
           ELSE commands[k].offset = -1 /\ (commands[k].cmd = "ERASE" => ~InCall),
         UNCHANGED <<io_request, io_request_seq_nb, reg_io_cmd, access_nb, failed>>
  PROVE  LInv'
<1>1. queue' = commands
  BY DEF Continue
<1>2. InCall => /\ call \in [type : {"READ", "WRITE"}, size : Nat \ {0}, offset : Nat]
                /\ call.offset \in Nat /\ call'.offset = call.offset + 1 /\ call'.size = call.size
                /\ call' \in [type : {"READ", "WRITE"}, size : Nat \ {0}, offset : Nat]
  BY DEF LInv, ListTypes
<1>3. InCall => Issued' = Issued
  BY <1>1, <1>2 DEF Issued
<1>4. SameHeld
  BY DEF SameHeld
<1>5. Counted' /\ Underway' /\ FewOdd' /\ Offsets' /\ NoLostEnd'
  BY <1>3, <1>4, SameList
<1>6. ListTypes'
  BY <1>2 DEF LInv, ListTypes
<1>7. Queued'
  <2>1. InCall => call'.offset > 0 /\ call'.offset - 1 = call.offset
    BY <1>2
  <2> QED BY <2>1, <1>1 DEF Queued
<1>8. IdleHoldsNone'
  BY DEF LInv, IdleHoldsNone
<1> QED BY <1>5, <1>6, <1>7, <1>8 DEF LInv

LEMMA IssueLists ==
  ASSUME LInv, IInv, Issue
  PROVE  LInv'
<1>1. call \in [type : {"none", "READ", "WRITE"}, size : Int, offset : Int]
  BY DEF IInv, Types
<1>2. call.offset \in Int
  BY <1>1
<1>3. ASSUME NEW type \in {"READ", "WRITE"}, NEW commands \in Seq(Commands), commands # <<>>,
             IssuePage(type, commands),
             \A k \in 1 .. Len(commands) :
               IF k = Len(commands)
               THEN commands[k].offset = call.offset /\ commands[k].cmd \in {"READ", "WRITE"}
               ELSE commands[k].offset = -1 /\ commands[k].cmd # "ERASE"
      PROVE  LInv'
  <2>1. /\ call.type = type /\ queue = <<>> /\ call.offset < call.size
        /\ call' = [call EXCEPT !.offset = @ + 1] /\ Continue(commands)
        /\ UNCHANGED <<io_request, io_request_seq_nb, reg_io_cmd, access_nb, failed>>
    BY <1>3 DEF IssuePage, regVars
  <2>2. InCall /\ InCall' /\ call'.size = call.size
    BY <2>1, <1>1, <1>3 DEF InCall, NoCall
  <2> QED BY <2>1, <2>2, <1>3, CommandsLists
<1>4. ASSUME NEW r \in Reg, SSD_PAGE_READ(r)
      PROVE  LInv'
  <2> DEFINE c == Command("READ", r, call.offset, FALSE)
  <2>1. c \in Commands /\ c.offset = call.offset /\ c.cmd = "READ"
    BY <1>2, <1>4 DEF Command, Commands
  <2>2. IssuePage("READ", <<c>>)
    BY <1>4 DEF SSD_PAGE_READ
  <2> HIDE DEF c
  <2>3. <<c>> \in Seq(Commands) /\ <<c>> # <<>> /\ Len(<<c>>) = 1 /\ <<c>>[1] = c
    BY <2>1
  <2>4. \A k \in 1 .. 1 : IF k = 1 THEN <<c>>[k].offset = call.offset /\ <<c>>[k].cmd \in {"READ", "WRITE"}
                                   ELSE <<c>>[k].offset = -1 /\ <<c>>[k].cmd # "ERASE"
    BY <2>1, <2>3
  <2> QED BY <2>2, <2>3, <2>4, <1>3, Zenon
<1>5. ASSUME NEW r \in Reg, SSD_PAGE_WRITE(r)
      PROVE  LInv'
  <2> DEFINE c == Command("WRITE", r, call.offset, TRUE)
  <2>1. c \in Commands /\ c.offset = call.offset /\ c.cmd = "WRITE"
    BY <1>2, <1>5 DEF Command, Commands
  <2>2. IssuePage("WRITE", <<c>>)
    BY <1>5 DEF SSD_PAGE_WRITE
  <2> HIDE DEF c
  <2>3. <<c>> \in Seq(Commands) /\ <<c>> # <<>> /\ Len(<<c>>) = 1 /\ <<c>>[1] = c
    BY <2>1
  <2>4. \A k \in 1 .. 1 : IF k = 1 THEN <<c>>[k].offset = call.offset /\ <<c>>[k].cmd \in {"READ", "WRITE"}
                                   ELSE <<c>>[k].offset = -1 /\ <<c>>[k].cmd # "ERASE"
    BY <2>1, <2>3
  <2> QED BY <2>2, <2>3, <2>4, <1>3, Zenon
<1>6. ASSUME NEW old \in Reg, NEW new \in Reg, SSD_PAGE_PARTIAL_WRITE(old, new)
      PROVE  LInv'
  <2> DEFINE a == Command("READ", old, -1, TRUE)
             b == Command("WAIT", old, -1, FALSE)
             c == Command("WRITE", new, call.offset, FALSE)
  <2>1. /\ a \in Commands /\ a.offset = -1 /\ a.cmd # "ERASE"
        /\ b \in Commands /\ b.offset = -1 /\ b.cmd # "ERASE"
        /\ c \in Commands /\ c.offset = call.offset /\ c.cmd = "WRITE"
    BY <1>2, <1>6 DEF Command, Commands
  <2>2. IssuePage("WRITE", <<a, b, c>>)
    BY <1>6 DEF SSD_PAGE_PARTIAL_WRITE
  <2> HIDE DEF a, b, c
  <2>3. /\ <<a, b, c>> \in Seq(Commands) /\ <<a, b, c>> # <<>> /\ Len(<<a, b, c>>) = 3
        /\ <<a, b, c>>[1] = a /\ <<a, b, c>>[2] = b /\ <<a, b, c>>[3] = c
    BY <2>1
  <2>4. \A k \in 1 .. 3 : IF k = 3 THEN <<a, b, c>>[k].offset = call.offset /\ <<a, b, c>>[k].cmd \in {"READ", "WRITE"}
                                   ELSE <<a, b, c>>[k].offset = -1 /\ <<a, b, c>>[k].cmd # "ERASE"
    BY <2>1, <2>3
  <2> QED BY <2>2, <2>3, <2>4, <1>3, Zenon
<1> QED BY <1>4, <1>5, <1>6, WriteFailsLists, EndCallLists DEF Issue

LEMMA HostLists ==
  ASSUME LInv, IInv, Host
  PROVE  LInv'
<1>1. ASSUME NEW cmd \in {"READ", "WRITE", "ERASE"}, NEW r \in Reg, GcCommand(cmd, r)
      PROVE  LInv'
  <2> DEFINE c == Command(cmd, r, -1, cmd = "WRITE")
  <2>1. c \in Commands /\ c.offset = -1
    BY <1>1 DEF Command, Commands
  <2>2. /\ call = NoCall /\ queue = <<>> /\ Continue(<<c>>)
        /\ UNCHANGED <<io_request, io_request_seq_nb, reg_io_cmd, access_nb, call, failed>>
    BY <1>1 DEF GcCommand, regVars
  <2> HIDE DEF c
  <2>3. ~InCall /\ InCall' = InCall
    BY <2>2 DEF InCall
  <2>4. <<c>> \in Seq(Commands) /\ <<c>> # <<>> /\ Len(<<c>>) = 1 /\ <<c>>[1] = c
    BY <2>1
  <2>5. \A k \in 1 .. 1 : <<c>>[k].offset = -1
    BY <2>1, <2>4
  <2> QED BY <2>2, <2>3, <2>4, <2>5, CommandsLists, Zenon
<1> QED BY <1>1, HostCallLists DEF Host
-----------------------------------------------------------------------------
LEMMA ListsInitially == Init => LInv
<1> SUFFICES ASSUME Init PROVE LInv
  OBVIOUS
<1>1. /\ io_request = <<>> /\ io_request_seq_nb = 0 /\ ~InCall /\ queue = <<>> /\ drain = {}
      /\ failed = 0
      /\ \A r \in Reg : access_nb[r].request = NoRequest
  BY DEF Init, InCall, NoAccess
<1>2. NoRequest \in Nat /\ MAX_REQUESTS \in Nat
  BY UintAssumption, NandAssumption DEF NoRequest
<1>3. Len(io_request) = 0 /\ Len(queue) = 0
  BY <1>1
<1>4. ListTypes
  BY <1>1, <1>2, EmptySeq DEF ListTypes
<1>5. Queued /\ IdleHoldsNone /\ Counted /\ Underway /\ OnTrack
  BY <1>1, <1>3 DEF Queued, IdleHoldsNone, Counted, Underway, OnTrack
<1>6. FewOdd
  <2>1. Odd(io_request, Past(io_request, InCall)) = {}
    BY <1>1, <1>3 DEF Odd, Past
  <2> QED BY <2>1, <1>1, <1>5, FS_EmptySet DEF FewOdd
<1>7. Offsets /\ NoLostEnd
  BY <1>1, <1>3 DEF Offsets, NoLostEnd
<1> QED BY <1>4, <1>5, <1>6, <1>7 DEF LInv

LEMMA ListsPreserved == LInv /\ IInv /\ [Next]_vars => LInv'
<1> SUFFICES ASSUME LInv, IInv, [Next]_vars
             PROVE  LInv'
  OBVIOUS
<1>1. CASE UNCHANGED vars
  <2>1. UNCHANGED <<io_request, io_request_seq_nb, call, queue, failed, access_nb, reg_io_cmd, drain>>
    BY <1>1 DEF vars, regVars
  <2> QED BY <2>1, Quiet
<1>2. ASSUME NEW r \in Reg, ChannelAccess(r) \/ TimePasses(r)
      PROVE  LInv'
  BY <1>2, ChannelLists
<1> QED BY <1>1, <1>2, HostLists, IssueLists, AccessLists, RecordLists, WaitedLists DEF Next, Execute

\* The inductive invariant of the bookkeeping.  Among the requests of a
\* number the one that LOOKUP_IO_REQUEST finds counts what the registers
\* hold; the current call is the newest request; and each write that was cut
\* short accounts for at most two requests that no register works for.
THEOREM ListInvariance == Spec => []LInv
<1> QED BY ListsInitially, ListsPreserved, Invariance, PTL DEF Spec

\* UPDATE_IO_REQUEST always finds the request whose page has ended, even
\* after any number of writes that GET_NEW_PAGE cut short: its error branch
\* "No such io request" is never taken.
THEOREM EveryEndFound == Spec => []NoLostEnd
<1>1. LInv => NoLostEnd
  BY DEF LInv
<1> QED BY <1>1, ListInvariance, PTL

\* As long as no write was cut short, the pages of a request that are started
\* and not ended are those that lie in registers, each in one, and no other
\* request has its number.
THEOREM PagesAreAccounted == Spec => []PagesAccounted
<1> SUFFICES ASSUME LInv, IInv PROVE PagesAccounted
  BY ListInvariance, Invariance, PTL
<1> SUFFICES ASSUME failed = 0, NEW i \in 1 .. Len(io_request)
             PROVE  /\ io_request[i].start_count - io_request[i].end_count
                         = Cardinality(Holding(io_request[i].request_nb))
                    /\ Numbered(io_request, io_request[i].request_nb) = {i}
                    /\ \A r, s \in Holding(io_request[i].request_nb) :
                         /\ access_nb[r].offset < io_request[i].request_size
                         /\ access_nb[r].offset = access_nb[s].offset => r = s
  BY DEF PagesAccounted
<1> DEFINE n == Len(io_request)
           m == Past(io_request, InCall)
<1>1. ListTypes /\ n \in Nat /\ m \in Int
  BY ListFacts DEF LInv, Past
<1>2. IsFiniteSet(Odd(io_request, m)) /\ Cardinality(Odd(io_request, m)) \in Nat
  BY <1>1, OddFinite
<1>3. Cardinality(Odd(io_request, m)) = 0 /\ OnTrack
  BY <1>2 DEF LInv, FewOdd
<1>4. Odd(io_request, m) = {}
  BY <1>2, <1>3, FS_EmptySet
<1>5. \A j \in 1 .. m : Alone(io_request, j)
  BY <1>4 DEF Odd
<1>6. Alone(io_request, i)
  <2>1. CASE i \in 1 .. m
    BY <2>1, <1>5
  <2>2. CASE i \notin 1 .. m
    <3>1. InCall /\ i = n /\ m = n - 1
      BY <2>2, <1>1 DEF Past
    <3>2. First(io_request, n)
      BY <3>1, <1>3 DEF OnTrack
    <3> QED BY <3>1, <3>2, <1>1 DEF First, Alone
  <2> QED BY <2>1, <2>2
<1>7. First(io_request, i)
  BY <1>1, <1>6 DEF Alone, First
<1>8. io_request[i].start_count = io_request[i].end_count + Cardinality(Holding(io_request[i].request_nb))
  BY <1>7 DEF LInv, Counted, CountOf
<1>9. io_request[i].start_count - io_request[i].end_count = Cardinality(Holding(io_request[i].request_nb))
  BY <1>1, <1>8, ListFacts, HoldingFinite
<1>10. Numbered(io_request, io_request[i].request_nb) = {i}
  BY <1>6 DEF Numbered, Alone
<1>11. io_request[i].request_nb # NoRequest
  BY <1>1, ListFacts, NumbersUsed DEF LInv, Counted
<1>12. ASSUME NEW r \in Holding(io_request[i].request_nb), NEW s \in Holding(io_request[i].request_nb)
       PROVE  /\ access_nb[r].offset < io_request[i].request_size
              /\ access_nb[r].offset = access_nb[s].offset => r = s
  <2>1. r \in Reg /\ s \in Reg /\ access_nb[r].request = access_nb[s].request /\ access_nb[r].request # NoRequest
    BY <1>11, <1>12 DEF Holding
  <2>2. access_nb[r] \in [request : Int, offset : Int] /\ access_nb[s] \in [request : Int, offset : Int]
    BY <2>1 DEF IInv, Types
  <2>3. access_nb[r].offset = access_nb[s].offset => access_nb[r] = access_nb[s]
    BY <2>1, <2>2
  <2> QED BY <2>1, <2>3, <1>12 DEF LInv, Offsets
<1> QED BY <1>9, <1>10, <1>12

\* The list has at most one request per busy register, beside the current
\* one and two for every write that was cut short.
THEOREM ListIsBounded == Spec => []ListBounded
<1> SUFFICES ASSUME LInv, IInv PROVE ListBounded
  BY ListInvariance, Invariance, PTL
<1> DEFINE n == Len(io_request)
           m == Past(io_request, InCall)
           held == {r \in Reg : access_nb[r].request # NoRequest}
           odd == Odd(io_request, m)
           busy == (1 .. m) \ odd
           f == [i \in busy |-> CHOOSE r \in Reg : r \in Holding(io_request[i].request_nb)]
<1>1. ListTypes /\ n \in Nat /\ failed \in Nat
  BY ListFacts DEF LInv, ListTypes
<1>2. m \in Nat /\ m <= n /\ n = m + (IF call = NoCall THEN 0 ELSE 1)
  <2>1. InCall => n # 0
    BY <1>1, EmptySeq DEF LInv, Underway, ListTypes
  <2>2. CASE InCall
    BY <2>1, <2>2, <1>1 DEF Past, InCall
  <2>3. CASE ~InCall
    BY <2>3, <1>1 DEF Past, InCall
  <2> QED BY <2>2, <2>3
<1>3. IsFiniteSet(odd) /\ Cardinality(odd) \in Nat /\ odd \subseteq 1 .. m
  <2>1. m \in Int /\ odd \subseteq 1 .. m
    BY <1>2 DEF Odd
  <2> HIDE DEF m
  <2> QED BY <2>1, OddFinite
<1>4. IsFiniteSet(1 .. m) /\ Cardinality(1 .. m) = m
  BY <1>2, FS_Interval
<1>5. Cardinality(busy) = m - Cardinality(odd)
  <2>1. (1 .. m) \cap odd = odd
    BY <1>3
  <2> HIDE DEF m, odd
  <2>2. Cardinality((1 .. m) \ odd) = Cardinality(1 .. m) - Cardinality((1 .. m) \cap odd)
    BY <1>4, FS_Difference, Zenon
  <2> QED BY <2>1, <2>2, <1>4, Zenon
<1>6. IsFiniteSet(held)
  <2>1. FLASH_NB * PLANES_PER_FLASH - 1 \in Int
    BY NandAssumption
  <2>2. IsFiniteSet(Reg)
    BY <2>1, FS_Interval DEF Reg
  <2>3. held \in SUBSET Reg
    OBVIOUS
  <2> QED BY <2>2, <2>3, FS_Subset
<1>7. ASSUME NEW i \in busy
      PROVE  f[i] \in held /\ access_nb[f[i]].request = io_request[i].request_nb /\ Alone(io_request, i)
             /\ i \in 1 .. n
  <2>1. /\ i \in 1 .. n /\ Alone(io_request, i)
        /\ io_request[i].start_count = io_request[i].request_size
    BY <1>1, <1>2 DEF Odd
  <2>2. First(io_request, i)
    BY <2>1, <1>1 DEF Alone, First
  <2>3. /\ io_request[i].start_count
             = io_request[i].end_count + Cardinality(Holding(io_request[i].request_nb))
        /\ ~Complete(io_request[i])
    BY <2>1, <2>2 DEF LInv, Counted, CountOf
  <2>4. Holding(io_request[i].request_nb) # {}
    <3>1. Cardinality(Holding(io_request[i].request_nb)) # 0
      BY <2>1, <2>3, <1>1, ListFacts DEF Complete
    <3> QED BY <3>1, FS_EmptySet
  <2>5. io_request[i].request_nb # NoRequest
    BY <2>1, <1>1, ListFacts, NumbersUsed DEF LInv, Counted
  <2>6. \E r \in Reg : r \in Holding(io_request[i].request_nb)
    BY <2>4 DEF Holding
  <2>7. f[i] \in Holding(io_request[i].request_nb)
    BY <2>6, Zenon
  <2> HIDE DEF f
  <2> QED BY <2>1, <2>5, <2>7 DEF Holding
<1>8. f \in Injection(busy, held)
  <2>1. f \in [busy -> held]
    BY <1>7
  <2>2. ASSUME NEW i \in busy, NEW j \in busy, f[i] = f[j]
        PROVE  i = j
    BY <2>2, <1>7 DEF Alone
  <2> HIDE DEF f, busy, held
  <2> QED BY <2>1, <2>2 DEF Injection, IsInjective
<1> HIDE DEF f, busy, held, odd, m
<1>9. Cardinality(busy) <= Cardinality(held)
  BY <1>6, <1>8, FS_Injection
<1>10. Cardinality(odd) <= 2 * failed
  <2>1. Cardinality(odd) + (IF OnTrack THEN 0 ELSE 1) <= 2 * failed
    BY DEF LInv, FewOdd, odd, m
  <2> QED BY <2>1, <1>1, <1>3
<1>11. Cardinality(held) \in Nat
  BY <1>6, FS_CardinalityType
<1>12. n <= Cardinality(held) + (IF call = NoCall THEN 0 ELSE 1) + 2 * failed
  BY <1>1, <1>2, <1>3, <1>5, <1>9, <1>10, <1>11
<1> QED BY <1>12 DEF ListBounded, held
=============================================================================
