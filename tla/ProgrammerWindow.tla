-------------------------- MODULE ProgrammerWindow --------------------------
(***************************************************************************)
(* The programmer's main window: it programs and reads the chip chunk by   *)
(* chunk, and each answer brings the next chunk.  Nothing is repeated, and *)
(* any OK answer counts, whatever it answers.                              *)
(***************************************************************************)
EXTENDS IspBoard

CONSTANTS
  File,       \* the image opened
  RomRanges,  \* offsets and lengths typed for Read ROM and Erase Page
  MaxClicks   \* bound on the operator's clicks, in both windows

\* What is read fits the application area, as the file does: programmed, a
\* longer buffer would go round the end of the chip and over the boot loader.
ASSUME ProgrammerAssumption ==
  /\ File \in Seq(DataBytes) /\ IAP_ADDR_APP_START + Len(File) <= STC_ROM_SIZE
  /\ RomRanges \subseteq ChipAddresses \X (1 .. STC_ROM_SIZE)
  /\ \A r \in RomRanges : IAP_ADDR_APP_START + r[2] + PKT_DAT_MAX_LEN - 1 <= STC_ROM_SIZE
  /\ MaxClicks \in Nat

VARIABLES
  programmer,  \* the members of class programmer that take part, the button
               \* pressed last, and the line logged last since
  clicks

ProgrammerInit ==
  /\ programmer = [e2 |-> File, e2sent |-> 0, e2recv |-> 0, leReadOffset |-> 0,
                   leReadLen |-> 0, last |-> "", log |-> ""]
  /\ clicks = 0

-----------------------------------------------------------------------------
Min(a, b) == IF a < b THEN a ELSE b

\* The buffer with dat put at an offset, longer if need be.
Put(e2, at, dat) ==
  [k \in 1 .. (IF at + Len(dat) > Len(e2) THEN at + Len(dat) ELSE Len(e2)) |->
     IF k \in at + 1 .. at + Len(dat) THEN dat[k - at] ELSE e2[k]]

\* QByteArray::mid
Mid(e2, at, n) == SubSeq(e2, at + 1, Min(at + n, Len(e2)))

UnderWay(cmds, statuses) ==
  \/ \E k \in DOMAIN toBoard : toBoard[k].cmd \in cmds
  \/ \E k \in DOMAIN toPC : toPC[k].status \in statuses

\* Send puts packets on the line, and Parsed takes an answer from it.
Send(requests) == toBoard' = toBoard \o requests /\ UNCHANGED toPC

Parsed(status) == toPC # <<>> /\ Head(toPC).status = status
pkt == Head(toPC)
Handled(requests) == toPC' = Tail(toPC) /\ toBoard' = toBoard \o requests

-----------------------------------------------------------------------------
\* Mutant: e2sent grows before it is used as the address.
CountsFirst(p) ==
  LET bin == Mid(p.e2, p.e2sent, PKT_DAT_MAX_LEN)
  IN  Request("PROGRAM", p.e2sent + Len(bin), Len(bin), bin)

ProgramRequest(p) ==
  LET bin == Mid(p.e2, p.e2sent, PKT_DAT_MAX_LEN)
  IN  Request("PROGRAM", p.e2sent, Len(bin), bin)

AfterProgram(p) ==
  [p EXCEPT !.e2sent = @ + ProgramRequest(p).size, !.log = "Programming"]

\* A negative rest is, in size_t, more than any packet holds.
ReadRomSize(p) ==
  LET rest == p.leReadLen - (p.leReadOffset + p.e2recv)
  IN  IF rest < 0 THEN PKT_DAT_MAX_LEN ELSE Min(rest, PKT_DAT_MAX_LEN)

\* Mutant: the offset does not move on.
SameOffset(p) == Request("READ", p.leReadOffset, ReadRomSize(p), <<>>)

ReadRomRequest(p) == Request("READ", p.leReadOffset + p.e2recv, ReadRomSize(p), <<>>)

-----------------------------------------------------------------------------
\* The operator waits until the window has had its answers, or they are lost.
MayClick ==
  /\ clicks < MaxClicks /\ clicks' = clicks + 1
  /\ ~UnderWay({"CONNECT", "READ_LDR_VERSION", "READ", "PROGRAM", "ERASE_APP_AREA", "ERASE_PAGE"},
               {"OK", "LDR_VERSION", "ROM", "PROGRAM_FAILED", "ERASE_PAGE_FAILED"})

Clicked(button) == [programmer EXCEPT !.last = button, !.log = ""]

slotReadLdrVersion ==
  /\ MayClick /\ programmer' = Clicked("Connect")
  /\ Send(<<Request("CONNECT", 0, 0, <<>>)>>)

slotEraseAll ==
  /\ MayClick /\ programmer' = Clicked("Erase All")
  /\ Send(<<Request("ERASE_APP_AREA", 0, 0, <<>>)>>)

\* An operator who erases the boot loader's pages is left with none.
slotErasePage ==
  /\ MayClick /\ programmer' = Clicked("Erase Page")
  /\ \E range \in {r \in RomRanges : r[1] >= IAP_ADDR_APP_START} :
       Send(<<Request("ERASE_PAGE", range[1], 0, <<>>)>>)

slotProgram ==
  /\ MayClick
  /\ LET p == [Clicked("Program") EXCEPT !.e2sent = 0]
     IN  programmer' = AfterProgram(p) /\ Send(<<ProgramRequest(p)>>)

slotReadRom ==
  /\ MayClick
  /\ \E range \in RomRanges :
       LET p == [Clicked("Read ROM") EXCEPT !.e2recv = 0, !.leReadOffset = range[1],
                                            !.leReadLen = range[2]]
       IN  programmer' = p /\ Send(<<ReadRomRequest(p)>>)

ProgrammerClick ==
  /\ slotReadLdrVersion \/ slotEraseAll \/ slotErasePage \/ slotProgram \/ slotReadRom
  /\ UNCHANGED <<memories, counts>>

-----------------------------------------------------------------------------
\* programmer::slot_serial_parsed
MoreToProgram == 0 < programmer.e2sent /\ programmer.e2sent < Len(programmer.e2)

\* Two bytes come with the answer to CONNECT only.
OnOk ==
  /\ Parsed("OK")
  /\ programmer' = IF MoreToProgram THEN AfterProgram(programmer)
                   ELSE [programmer EXCEPT !.log = "OK"]
  /\ Handled((IF Len(pkt.dat) = 2 THEN <<Request("READ_LDR_VERSION", 0, 0, <<>>)>> ELSE <<>>)
             \o (IF MoreToProgram THEN <<ProgramRequest(programmer)>> ELSE <<>>))

OnFailed ==
  /\ Parsed("PROGRAM_FAILED") \/ Parsed("ERASE_PAGE_FAILED")
  /\ programmer' = [programmer EXCEPT !.log = "Failed"]
  /\ Handled(<<>>)

OnLdrVersion ==
  /\ Parsed("LDR_VERSION") /\ Handled(<<>>) /\ UNCHANGED programmer

OnRom ==
  /\ Parsed("ROM")
  /\ LET p == [programmer EXCEPT !.e2 = Put(@, programmer.e2recv, pkt.dat),
                                 !.e2recv = @ + Len(pkt.dat)]
     IN  /\ programmer' = p
         /\ Handled(IF p.e2recv < p.leReadLen THEN <<ReadRomRequest(p)>> ELSE <<>>)

ProgrammerParsed ==
  /\ OnOk \/ OnFailed \/ OnLdrVersion \/ OnRom
  /\ UNCHANGED <<memories, counts, clicks>>
=============================================================================
