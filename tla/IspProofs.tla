----------------------------- MODULE IspProofs ------------------------------
(***************************************************************************)
(* What the programmer's two windows report is so, for every size of file, *)
(* packet, page, sector and memory, every range typed and every number of  *)
(* clicks, losses and faults; and, in the second half, what the flash      *)
(* window counts as programmed.                                            *)
(***************************************************************************)
EXTENDS IspSession, TLAPS

-----------------------------------------------------------------------------
\* What the variables hold.

Byte == 0 .. Torn

MainCmds ==
  {"CONNECT", "READ_LDR_VERSION", "READ", "PROGRAM", "ERASE_APP_AREA", "ERASE_PAGE"}
MainStatuses == {"OK", "LDR_VERSION", "ROM", "PROGRAM_FAILED", "ERASE_PAGE_FAILED"}

FlashCmds ==
  {"READ_W25Q_SIZE", "ERASE_W25Q_ALL", "ERASE_W25Q_SECTOR", "READ_W25Q", "PROGRAM_W25Q"}
FlashStatuses ==
  {"W25Q_SIZE", "W25Q_ERASE_ALL_RES", "W25Q_ERASE_SECTOR_RES", "W25Q_DATA",
   "W25Q_PROGRAM_RES"}

Requests ==
  [cmd : MainCmds \cup FlashCmds, addr : Nat, size : Nat, dat : Seq(Byte)]
Replies == [status : MainStatuses \cup FlashStatuses, addr : Nat, dat : Seq(Byte)]

LineType == toBoard \in Seq(Requests) /\ toPC \in Seq(Replies)

MemoryType == chip \in [ChipAddresses -> Byte] /\ nor \in [NorAddresses -> Byte]

\* Names that the arithmetic of the proofs need not look into.
None       == ""
EraseAllName == "Erase All"
ErasePageName == "Erase Page"
ReadRomName   == "Read ROM"
ByMasterName == "By Master"
ByBackupName == "By Backup"
EraseSectorName == "Erase Sector"
ReadSizeName == "Read Size"

MainButtons == {None, "Connect", EraseAllName, ErasePageName, "Program", ReadRomName}
MainLogs    == {None, "Programming", "OK", "Failed"}

Programmers ==
  [e2 : Seq(Byte), e2sent : Nat, e2recv : Nat, leReadOffset : Nat, leReadLen : Nat,
   last : MainButtons, log : MainLogs]

ProgrammerType ==
  /\ programmer \in Programmers
  /\ programmer.e2sent <= Len(programmer.e2)
  /\ programmer.e2recv <= Len(programmer.e2)

ReadButtons  == {"Read", ByMasterName, ByBackupName}
FlashButtons ==
  {None, ReadSizeName, EraseAllName, EraseSectorName, "Generate", "Program", "Refused"}
    \cup ReadButtons
Checks == {None, "OK", "FAILED"}

Flashes ==
  [open : BOOLEAN, e2 : Seq(Byte), leOffset : Nat, e2send : Nat, e2sent : Nat,
   counted : Seq(Byte), e2recv : Nat, e2recvd : Nat, reading : BOOLEAN, last : FlashButtons,
   readingMaster : BOOLEAN, check : Checks]

FlashType ==
  /\ flash \in Flashes
  /\ flash.reading => flash.open /\ flash.e2recvd <= flash.e2recv
  /\ Len(flash.e2) <= NorSize

IspType == LineType /\ MemoryType /\ ProgrammerType /\ FlashType

LEMMA Names ==
  /\ {None, "Connect", EraseAllName, ErasePageName, "Program", ReadRomName} \subseteq MainButtons
  /\ {None, "Programming", "OK", "Failed"} \subseteq MainLogs
  /\ {None, ReadSizeName, EraseAllName, EraseSectorName, "Generate", "Program", "Refused"}
       \subseteq FlashButtons
  /\ "Read" \in ReadButtons /\ ByMasterName \in ReadButtons /\ ByBackupName \in ReadButtons
  /\ ReadButtons \subseteq FlashButtons
  /\ {None, "OK", "FAILED"} \subseteq Checks
BY DEF MainButtons, MainLogs, FlashButtons, ReadButtons, Checks

LEMMA NamesDiffer ==
  /\ ReadRomName \notin {None, "Connect", EraseAllName, ErasePageName, "Program"}
  /\ "Program" \notin {None, "Connect", EraseAllName, ErasePageName, ReadRomName}
  /\ "OK" # None
BY DEF None, EraseAllName, ErasePageName, ReadRomName

LEMMA Sizes ==
  /\ PKT_DAT_MAX_LEN \in Nat /\ PKT_DAT_MAX_LEN > 0
  /\ NorSize \in Nat /\ NorSize > 0
  /\ STC_ROM_SIZE \in Nat /\ IAP_ADDR_APP_START \in Nat /\ STC_ROM_SIZE > IAP_ADDR_APP_START
BY IspBoardAssumption

-----------------------------------------------------------------------------
\* How a step moves the packets on the line.

\* The board takes a request and answers it.
BoardTakes(answer) ==
  /\ toBoard # <<>>
  /\ Len(toBoard') = Len(toBoard) - 1
  /\ \A k \in 1 .. Len(toBoard') : toBoard'[k] = toBoard[k + 1]
  /\ Len(toPC') = Len(toPC) + 1
  /\ \A k \in 1 .. Len(toPC) : toPC'[k] = toPC[k]
  /\ toPC'[Len(toPC')] = answer

LEMMA AnswerMoves ==
  ASSUME LineType, toBoard # <<>>, NEW status, NEW addr, NEW dat, Answer(status, addr, dat)
  PROVE  /\ BoardTakes(Reply(status, addr, dat))
         /\ Reply(status, addr, dat) \in Replies => LineType'
BY DEF LineType, Answer, BoardTakes

\* A window takes an answer.
PcTakes ==
  /\ toPC # <<>>
  /\ Len(toPC') = Len(toPC) - 1
  /\ \A k \in 1 .. Len(toPC') : toPC'[k] = toPC[k + 1]

\* A window, or the timer, sends requests.
PcSends(requests) ==
  /\ Len(toBoard') = Len(toBoard) + Len(requests)
  /\ \A k \in 1 .. Len(toBoard) : toBoard'[k] = toBoard[k]
  /\ \A k \in 1 .. Len(requests) : toBoard'[Len(toBoard) + k] = requests[k]

LEMMA SendMoves ==
  ASSUME LineType, NEW requests \in Seq(Requests), Send(requests)
  PROVE  LineType' /\ PcSends(requests) /\ UNCHANGED toPC
BY DEF LineType, Send, PcSends

LEMMA HandledMoves ==
  ASSUME LineType, toPC # <<>>, NEW requests \in Seq(Requests), Handled(requests)
  PROVE  LineType' /\ PcSends(requests) /\ PcTakes
<1>1. toPC' \in Seq(Replies) /\ PcTakes BY DEF LineType, Handled, PcTakes
<1>2. toBoard' \in Seq(Requests) /\ PcSends(requests) BY DEF LineType, Handled, PcSends
<1>3. QED BY <1>1, <1>2 DEF LineType

\* A packet is lost.
LEMMA LoseMoves ==
  ASSUME LineType, Lose
  PROVE  /\ LineType'
         /\ \/ /\ UNCHANGED toPC /\ toBoard # <<>>
               /\ Len(toBoard') = Len(toBoard) - 1
               /\ \A k \in 1 .. Len(toBoard') : toBoard'[k] = toBoard[k + 1]
            \/ PcTakes /\ UNCHANGED toBoard
<1>1. CASE toBoard # <<>> /\ toBoard' = Tail(toBoard) /\ UNCHANGED toPC
  BY <1>1 DEF LineType
<1>2. CASE toPC # <<>> /\ toPC' = Tail(toPC) /\ UNCHANGED toBoard
  BY <1>2 DEF LineType, PcTakes
<1>3. QED BY <1>1, <1>2 DEF Lose

-----------------------------------------------------------------------------
\* What the operators of the model make.

LEMMA WrittenFacts ==
  ASSUME NEW D, NEW mem \in [D -> Byte], NEW addr \in Nat, NEW dat \in Seq(Byte), D \subseteq Int
  PROVE  /\ Written(mem, addr, dat) \in [D -> Byte]
         /\ \A a \in D : Written(mem, addr, dat)[a] =
              IF a \in addr .. addr + Len(dat) - 1
              THEN Programmed(mem[a], dat[a - addr + 1]) ELSE mem[a]
<1>1. \A a \in D, b \in Byte : Programmed(mem[a], b) \in Byte
  BY DEF Programmed, Byte, Torn, Blank
<1>2. \A a \in D : a \in addr .. addr + Len(dat) - 1 => dat[a - addr + 1] \in Byte OBVIOUS
<1>3. QED BY <1>1, <1>2 DEF Written

LEMMA ErasedFacts ==
  ASSUME NEW D, NEW mem \in [D -> Byte], NEW addr, NEW unit
  PROVE  Erased(mem, addr, unit) \in [D -> Byte]
BY DEF Erased, Byte, Torn, Blank

LEMMA ReadFacts ==
  ASSUME MemoryType, NEW addr \in Nat, NEW size \in Nat
  PROVE  /\ iap_read_bytes(addr, size) \in Seq(Byte)
         /\ Len(iap_read_bytes(addr, size)) = size
         /\ \A k \in 1 .. size : iap_read_bytes(addr, size)[k] = chip[(addr + k - 1) % STC_ROM_SIZE]
         /\ norflash_read(addr, size) \in Seq(Byte)
         /\ Len(norflash_read(addr, size)) = size
         /\ \A k \in 1 .. size : norflash_read(addr, size)[k] = nor[(addr + k - 1) % NorSize]
<1>1. \A a \in Nat : a % STC_ROM_SIZE \in ChipAddresses /\ a % NorSize \in NorAddresses
  BY Sizes DEF ChipAddresses, NorAddresses
<1>2. \A k \in 1 .. size : addr + k - 1 \in Nat OBVIOUS
<1>3. QED BY <1>1, <1>2 DEF MemoryType, iap_read_bytes, norflash_read

LEMMA MidFacts ==
  ASSUME NEW e2 \in Seq(Byte), NEW at \in Nat, NEW n \in Nat
  PROVE  /\ Mid(e2, at, n) \in Seq(Byte)
         /\ at <= Len(e2) => Len(Mid(e2, at, n)) = Min(n, Len(e2) - at)
         /\ \A k \in 1 .. Len(Mid(e2, at, n)) : at + k <= Len(e2) /\ Mid(e2, at, n)[k] = e2[at + k]
BY DEF Mid, Min

LEMMA PutFacts ==
  ASSUME NEW e2 \in Seq(Byte), NEW at \in Nat, NEW dat \in Seq(Byte), at <= Len(e2)
  PROVE  /\ Put(e2, at, dat) \in Seq(Byte)
         /\ Len(Put(e2, at, dat)) = IF at + Len(dat) > Len(e2) THEN at + Len(dat) ELSE Len(e2)
         /\ \A k \in 1 .. Len(Put(e2, at, dat)) :
              Put(e2, at, dat)[k] = IF k \in at + 1 .. at + Len(dat) THEN dat[k - at] ELSE e2[k]
BY DEF Put

-----------------------------------------------------------------------------
\* Every step keeps the types.

LEMMA HeadsType ==
  ASSUME LineType
  PROVE  /\ toBoard # <<>> => /\ rx = toBoard[1] /\ rx \in Requests
                              /\ rx.dat \in Seq(Byte) /\ rx.addr \in Nat /\ rx.size \in Nat
         /\ toPC # <<>> => /\ pkt = toPC[1] /\ pkt \in Replies
                           /\ pkt.dat \in Seq(Byte) /\ pkt.addr \in Nat
<1>1. toBoard # <<>> => rx = toBoard[1] /\ rx \in Requests BY DEF LineType, rx
<1>2. toPC # <<>> => pkt = toPC[1] /\ pkt \in Replies BY DEF LineType, pkt
<1>3. \A r \in Requests : r.dat \in Seq(Byte) /\ r.addr \in Nat /\ r.size \in Nat BY DEF Requests
<1>4. \A r \in Replies : r.dat \in Seq(Byte) /\ r.addr \in Nat BY DEF Replies
<1>5. QED BY <1>1, <1>2, <1>3, <1>4

LEMMA BoardType ==
  ASSUME IspType, isp_handle
  PROVE  LineType' /\ MemoryType'
<1> USE HeadsType DEF IspType, MemoryType, Rx
<1>1. CASE Connect \/ ReadLdrVersion \/ ReadW25QSize
  <2>1. <<Blank, Blank>> \in Seq(Byte) /\ <<>> \in Seq(Byte) BY DEF Byte, Blank, Torn
  <2>2. QED
    BY <1>1, <2>1, AnswerMoves
    DEF Connect, ReadLdrVersion, ReadW25QSize, memories, Reply, Replies, MainStatuses,
        FlashStatuses
<1>2. CASE ReadRom \/ ReadW25Q
  BY <1>2, ReadFacts, AnswerMoves
  DEF ReadRom, ReadW25Q, memories, Reply, Replies, MainStatuses, FlashStatuses
<1>3. CASE Program
  <2>1. LineType'
    <3>1. Reply("OK", 0, <<>>) \in Replies /\ Reply("PROGRAM_FAILED", 0, <<>>) \in Replies
      BY DEF Reply, Replies, MainStatuses
    <3>2. Answer("OK", 0, <<>>) \/ Answer("PROGRAM_FAILED", 0, <<>>) BY <1>3 DEF Program
    <3>3. QED BY <1>3, <3>1, <3>2, AnswerMoves DEF Program
  <2>2. \A n \in 0 .. Len(rx.dat) : SubSeq(rx.dat, 1, n) \in Seq(Byte) BY <1>3 DEF Program
  <2>3. \A dat \in Seq(Byte) :
          Written(chip, IAP_ADDR_APP_START + rx.addr, dat) \in [ChipAddresses -> Byte]
    <3>1. chip \in [ChipAddresses -> Byte] BY DEF IspType, MemoryType
    <3>2. ChipAddresses \subseteq Int BY Sizes DEF ChipAddresses
    <3>3. rx.addr \in Nat BY <1>3, HeadsType DEF Program, Rx, IspType
    <3>. HIDE DEF rx
    <3>4. IAP_ADDR_APP_START + rx.addr \in Nat BY <3>3, Sizes
    <3>5. QED BY <3>1, <3>2, <3>4, WrittenFacts, Zenon
  <2>4. \E dat \in Seq(Byte) : chip' = Written(chip, IAP_ADDR_APP_START + rx.addr, dat)
    <3>1. PICK good \in 0 .. Len(rx.dat) :
            \/ chip' = Written(chip, IAP_ADDR_APP_START + rx.addr, rx.dat)
            \/ good < Len(rx.dat)
               /\ chip' = Written(chip, IAP_ADDR_APP_START + rx.addr, SubSeq(rx.dat, 1, good + 1))
            \/ chip' = Written(chip, IAP_ADDR_APP_START + rx.addr, SubSeq(rx.dat, 1, good))
      BY <1>3 DEF Program
    <3>2. rx.dat \in Seq(Byte) /\ Len(rx.dat) \in Nat BY <1>3 DEF Program
    <3>3. good < Len(rx.dat) => good + 1 \in 0 .. Len(rx.dat) BY <3>2
    <3>4. QED BY <2>2, <3>1, <3>2, <3>3
  <2>5. QED BY <1>3, <2>1, <2>3, <2>4 DEF Program
<1>4. CASE EraseAppArea \/ ErasePage \/ EraseW25QAll \/ EraseW25QSector
  <2>1. Blank \in Byte BY DEF Byte, Blank, Torn
  <2>2. chip' \in [ChipAddresses -> Byte]
    BY <1>4, <2>1, ErasedFacts DEF EraseAppArea, ErasePage, EraseW25QAll, EraseW25QSector
  <2>3. nor' \in [NorAddresses -> Byte]
    BY <1>4, <2>1, ErasedFacts DEF EraseAppArea, ErasePage, EraseW25QAll, EraseW25QSector
  <2>4. LineType'
    <3>1. \A s \in MainStatuses \cup FlashStatuses, a \in Nat :
            Answer(s, a, <<>>) /\ toBoard # <<>> => LineType'
      <4>1. SUFFICES ASSUME NEW s \in MainStatuses \cup FlashStatuses, NEW a \in Nat,
                            Answer(s, a, <<>>), toBoard # <<>>
                     PROVE  LineType'
        OBVIOUS
      <4>2. Reply(s, a, <<>>) \in Replies BY DEF Reply, Replies
      <4>3. QED BY <4>1, <4>2, AnswerMoves
    <3>2. toBoard # <<>> /\ rx.addr \in Nat
      BY <1>4 DEF EraseAppArea, ErasePage, EraseW25QAll, EraseW25QSector
    <3>3. \E s \in MainStatuses \cup FlashStatuses, a \in Nat : Answer(s, a, <<>>)
      BY <1>4, <3>2 DEF EraseAppArea, ErasePage, EraseW25QAll, EraseW25QSector, MainStatuses,
                        FlashStatuses
    <3>4. QED BY <3>1, <3>2, <3>3
  <2>5. QED BY <2>2, <2>3, <2>4
<1>5. CASE ProgramW25Q
  <2>1. nor' \in [NorAddresses -> Byte]
    <3>1. NorAddresses \subseteq Int BY Sizes DEF NorAddresses
    <3>2. rx.dat \in Seq(Byte) /\ rx.addr \in Nat BY <1>5 DEF ProgramW25Q
    <3>3. Written(nor, rx.addr, rx.dat) \in [NorAddresses -> Byte] BY <3>1, <3>2, WrittenFacts
    <3>4. QED BY <1>5, <3>3 DEF ProgramW25Q
  <2>2. [k \in 1 .. rx.size |-> nor'[(rx.addr + k - 1) % NorSize]] \in Seq(Byte)
    <3>1. \A a \in Nat : a % NorSize \in NorAddresses BY Sizes DEF NorAddresses
    <3>2. \A k \in 1 .. rx.size : nor'[(rx.addr + k - 1) % NorSize] \in Byte
      BY <1>5, <2>1, <3>1 DEF ProgramW25Q
    <3>3. QED BY <1>5, <3>2 DEF ProgramW25Q
  <2>3. LineType'
    BY <1>5, <2>2, AnswerMoves DEF ProgramW25Q, Reply, Replies, FlashStatuses
  <2>4. QED BY <1>5, <2>1, <2>3 DEF ProgramW25Q
<1>6. QED BY <1>1, <1>2, <1>3, <1>4, <1>5 DEF isp_handle

LEMMA MainRequestFacts ==
  ASSUME NEW p \in Programmers, p.e2sent <= Len(p.e2)
  PROVE  /\ ProgramRequest(p) \in Requests
         /\ ProgramRequest(p).cmd = "PROGRAM" /\ ProgramRequest(p).addr = p.e2sent
         /\ ProgramRequest(p).dat = Mid(p.e2, p.e2sent, PKT_DAT_MAX_LEN)
         /\ ProgramRequest(p).size = Len(ProgramRequest(p).dat)
         /\ p.e2sent + ProgramRequest(p).size <= Len(p.e2)
         /\ ProgramRequest(p).size <= PKT_DAT_MAX_LEN
         /\ ReadRomRequest(p) \in Requests /\ ReadRomRequest(p).cmd = "READ"
         /\ ReadRomRequest(p).addr = p.leReadOffset + p.e2recv
         /\ ReadRomRequest(p).size <= PKT_DAT_MAX_LEN
<1>0. p.e2 \in Seq(Byte) /\ p.e2sent \in Nat /\ p.e2recv \in Nat /\ p.leReadOffset \in Nat
      /\ p.leReadLen \in Nat
  BY DEF Programmers
<1> DEFINE bin == Mid(p.e2, p.e2sent, PKT_DAT_MAX_LEN)
<1>1. bin \in Seq(Byte) /\ Len(bin) = Min(PKT_DAT_MAX_LEN, Len(p.e2) - p.e2sent) /\ Len(bin) \in Nat
  <2>1. bin \in Seq(Byte) /\ Len(bin) = Min(PKT_DAT_MAX_LEN, Len(p.e2) - p.e2sent)
    BY <1>0, MidFacts, Sizes
  <2>2. QED BY <2>1
<1>2. ProgramRequest(p) = [cmd |-> "PROGRAM", addr |-> p.e2sent, size |-> Len(bin), dat |-> bin]
  BY DEF ProgramRequest, Request
<1>3. ReadRomSize(p) \in Nat /\ ReadRomSize(p) <= PKT_DAT_MAX_LEN
  BY <1>0, Sizes DEF ReadRomSize, Min
<1>4. ReadRomRequest(p) = [cmd |-> "READ", addr |-> p.leReadOffset + p.e2recv,
                           size |-> ReadRomSize(p), dat |-> <<>>]
  BY DEF ReadRomRequest, Request
<1>5. p.leReadOffset + p.e2recv \in Nat BY <1>0
<1>6. ProgramRequest(p) \in Requests BY <1>0, <1>1, <1>2 DEF Requests, MainCmds
<1>7. ReadRomRequest(p) \in Requests BY <1>3, <1>4, <1>5 DEF Requests, MainCmds
<1>8. p.e2sent + Len(bin) <= Len(p.e2) /\ Len(bin) <= PKT_DAT_MAX_LEN BY <1>0, <1>1, Sizes DEF Min
<1> HIDE DEF bin
<1>9. QED BY <1>2, <1>3, <1>4, <1>6, <1>7, <1>8 DEF bin

-----------------------------------------------------------------------------
\* What a button or an answer of the main window does.

LEMMA ProgrammerClickMoves ==
  ASSUME IspType, ProgrammerClick
  PROVE  /\ ProgrammerType' /\ LineType' /\ UNCHANGED toPC
         /\ programmer'.log # "OK" /\ programmer'.e2 = programmer.e2
         /\ \E r \in Requests :
              /\ PcSends(<<r>>) /\ r.cmd \in MainCmds
              /\ programmer'.last # ReadRomName => r.cmd # "READ"
              /\ programmer'.last = "Program" =>
                   /\ r.cmd = "PROGRAM" /\ r.addr = 0
                   /\ r.dat = Mid(programmer.e2, 0, PKT_DAT_MAX_LEN)
                   /\ programmer'.e2sent = Len(r.dat)
              /\ programmer'.last = ReadRomName =>
                   /\ r = ReadRomRequest(programmer') /\ programmer'.e2recv = 0
                   /\ <<programmer'.leReadOffset, programmer'.leReadLen>> \in RomRanges
<1>1. programmer \in Programmers BY DEF IspType, ProgrammerType
<1>2. ASSUME NEW r \in Requests, Send(<<r>>)
      PROVE  LineType' /\ UNCHANGED toPC /\ PcSends(<<r>>)
  <2>1. <<r>> \in Seq(Requests) OBVIOUS
  <2>2. QED BY <1>2, <2>1, SendMoves DEF IspType
<1>3. CASE slotReadLdrVersion \/ slotEraseAll \/ slotErasePage
  <2>1. PICK r \in Requests : Send(<<r>>) /\ r.cmd \in MainCmds /\ r.cmd # "READ"
    <3>1. \A range \in RomRanges : range[1] \in Nat
      BY ProgrammerAssumption, Sizes DEF ChipAddresses
    <3>2. \A c \in MainCmds, a \in Nat : Request(c, a, 0, <<>>) \in Requests
                                         /\ Request(c, a, 0, <<>>).cmd = c
      BY DEF Request, Requests
    <3>3. \E c \in MainCmds \ {"READ"}, a \in Nat : Send(<<Request(c, a, 0, <<>>)>>)
      BY <1>3, <3>1 DEF slotReadLdrVersion, slotEraseAll, slotErasePage, MainCmds
    <3>4. QED BY <3>2, <3>3
  <2>2. \E b \in {"Connect", EraseAllName, ErasePageName} : programmer' = Clicked(b)
    BY <1>3 DEF slotReadLdrVersion, slotEraseAll, slotErasePage, EraseAllName, ErasePageName
  <2>3. /\ programmer' \in Programmers /\ programmer'.log = None
        /\ programmer'.last \notin {"Program", ReadRomName}
        /\ programmer'.e2 = programmer.e2 /\ programmer'.e2sent = programmer.e2sent
        /\ programmer'.e2recv = programmer.e2recv
    <3>1. PICK b \in {"Connect", EraseAllName, ErasePageName} :
            programmer' = [programmer EXCEPT !.last = b, !.log = None]
      BY <2>2 DEF Clicked, None
    <3>2. b \in MainButtons /\ None \in MainLogs /\ b \notin {"Program", ReadRomName}
      BY Names, NamesDiffer
    <3>3. QED BY <1>1, <3>1, <3>2 DEF Programmers
  <2>4. ProgrammerType' BY <2>3 DEF IspType, ProgrammerType
  <2>5. QED BY <1>2, <2>1, <2>3, <2>4, NamesDiffer
<1>4. CASE slotProgram
  <2> DEFINE p == [Clicked("Program") EXCEPT !.e2sent = 0]
             r == ProgramRequest(p)
  <2>1. p \in Programmers /\ p.e2 = programmer.e2 /\ p.e2sent = 0 /\ p.last = "Program"
        /\ p.e2recv = programmer.e2recv
    <3>1. p = [[programmer EXCEPT !.last = "Program", !.log = None] EXCEPT !.e2sent = 0]
      BY DEF Clicked, None
    <3>2. QED BY <1>1, <3>1, Names DEF Programmers
  <2>2. /\ r \in Requests /\ r.cmd = "PROGRAM" /\ r.addr = 0 /\ r.size = Len(r.dat)
        /\ r.dat = Mid(programmer.e2, 0, PKT_DAT_MAX_LEN) /\ r.size <= Len(programmer.e2)
        /\ r.size \in Nat
    <3>1. r \in Requests /\ r.cmd = "PROGRAM" /\ r.addr = p.e2sent /\ r.size = Len(r.dat)
          /\ r.dat = Mid(p.e2, p.e2sent, PKT_DAT_MAX_LEN) /\ p.e2sent + r.size <= Len(p.e2)
      <4>1. p.e2sent <= Len(p.e2) BY <2>1
      <4>2. QED BY <2>1, <4>1, MainRequestFacts
    <3>2. r.size \in Nat BY <3>1 DEF Requests
    <3>3. QED BY <2>1, <3>1, <3>2
  <2>3. programmer' = AfterProgram(p) /\ Send(<<r>>) BY <1>4 DEF slotProgram
  <2>4. AfterProgram(p) = [p EXCEPT !.e2sent = @ + r.size, !.log = "Programming"]
    BY DEF AfterProgram
  <2> HIDE DEF p, r
  <2>5. /\ programmer' \in Programmers /\ programmer'.e2sent = r.size /\ programmer'.log = "Programming"
        /\ programmer'.e2 = programmer.e2 /\ programmer'.last = "Program"
        /\ programmer'.e2recv = programmer.e2recv
    <3>1. programmer' = [p EXCEPT !.e2sent = p.e2sent + r.size, !.log = "Programming"]
      BY <2>3, <2>4
    <3>2. p.e2sent + r.size = r.size BY <2>1, <2>2
    <3>3. QED BY <2>1, <2>2, <3>1, <3>2, Names DEF Programmers
  <2>6. ProgrammerType' BY <2>2, <2>5 DEF IspType, ProgrammerType
  <2>7. QED BY <1>2, <2>2, <2>3, <2>5, <2>6, NamesDiffer DEF MainCmds
<1>5. CASE slotReadRom
  <2>1. PICK range \in RomRanges :
          LET p == [Clicked(ReadRomName) EXCEPT !.e2recv = 0, !.leReadOffset = range[1],
                                               !.leReadLen = range[2]]
          IN  programmer' = p /\ Send(<<ReadRomRequest(p)>>)
    BY <1>5 DEF slotReadRom, ReadRomName
  <2>2. range[1] \in Nat /\ range[2] \in Nat /\ <<range[1], range[2]>> \in RomRanges
    BY ProgrammerAssumption, Sizes DEF ChipAddresses
  <2>3. /\ programmer' \in Programmers /\ programmer'.log = None /\ programmer'.e2 = programmer.e2
        /\ programmer'.e2sent = programmer.e2sent /\ programmer'.e2recv = 0
        /\ programmer'.leReadOffset = range[1] /\ programmer'.leReadLen = range[2]
        /\ programmer'.last = ReadRomName
    <3>1. programmer' = [[programmer EXCEPT !.last = ReadRomName, !.log = None]
                           EXCEPT !.e2recv = 0, !.leReadOffset = range[1], !.leReadLen = range[2]]
      BY <2>1 DEF Clicked, None
    <3>2. QED BY <1>1, <2>2, <3>1, Names DEF Programmers
  <2>4. ProgrammerType'
    <3>1. Len(programmer.e2) >= 0
      <4>1. programmer.e2 \in Seq(Byte) BY <1>1 DEF Programmers
      <4>2. QED BY <4>1
    <3>2. programmer.e2sent <= Len(programmer.e2) BY DEF IspType, ProgrammerType
    <3>3. QED BY <2>3, <3>1, <3>2 DEF ProgrammerType
  <2>5. ReadRomRequest(programmer') \in Requests /\ ReadRomRequest(programmer').cmd = "READ"
    BY <2>3, <2>4, MainRequestFacts DEF ProgrammerType
  <2>6. Send(<<ReadRomRequest(programmer')>>) BY <2>1
  <2>7. QED BY <1>2, <2>2, <2>3, <2>4, <2>5, <2>6, NamesDiffer DEF MainCmds
<1>6. QED BY <1>3, <1>4, <1>5 DEF ProgrammerClick

\* An answer that the main window handles.
LEMMA ParsedMoves ==
  ASSUME IspType, NEW status, Parsed(status)
  PROVE  /\ toPC # <<>> /\ pkt = toPC[1] /\ pkt \in Replies /\ pkt.status = status
         /\ pkt.dat \in Seq(Byte) /\ pkt.addr \in Nat
         /\ \A requests \in Seq(Requests) :
              Handled(requests) => LineType' /\ PcTakes /\ PcSends(requests)
<1>1. toPC # <<>> BY DEF Parsed
<1>2. pkt.status = status BY DEF Parsed, pkt
<1>3. \A requests \in Seq(Requests) :
        Handled(requests) => LineType' /\ PcTakes /\ PcSends(requests)
  BY <1>1, HandledMoves DEF IspType
<1>4. QED BY <1>1, <1>2, <1>3, HeadsType DEF IspType

LEMMA OnOkMoves ==
  ASSUME IspType, OnOk
  PROVE  /\ ProgrammerType' /\ LineType' /\ PcTakes
         /\ programmer'.last = programmer.last /\ programmer'.e2 = programmer.e2
         /\ \E requests \in Seq(Requests) :
              /\ PcSends(requests) /\ \A k \in 1 .. Len(requests) : requests[k].cmd \in MainCmds
              /\ \A k \in 1 .. Len(requests) : requests[k].cmd # "READ"
              /\ MoreToProgram =>
                   \E r \in Requests :
                     /\ r.cmd = "PROGRAM" /\ r.addr = programmer.e2sent
                     /\ r.dat = Mid(programmer.e2, programmer.e2sent, PKT_DAT_MAX_LEN)
                     /\ programmer'.e2sent = programmer.e2sent + Len(r.dat)
                     /\ programmer'.log = "Programming"
                     /\ Len(pkt.dat) # 2 => requests = <<r>>
              /\ ~MoreToProgram /\ Len(pkt.dat) # 2 => requests = <<>>
              /\ ~MoreToProgram => programmer'.e2sent = programmer.e2sent
<1>1. /\ programmer \in Programmers /\ programmer.e2sent <= Len(programmer.e2)
      /\ programmer.e2recv <= Len(programmer.e2)
  BY DEF IspType, ProgrammerType
<1> DEFINE version == Request("READ_LDR_VERSION", 0, 0, <<>>)
           r == ProgramRequest(programmer)
           requests == (IF Len(pkt.dat) = 2 THEN <<version>> ELSE <<>>)
                       \o (IF MoreToProgram THEN <<r>> ELSE <<>>)
<1>2. version \in Requests /\ version.cmd = "READ_LDR_VERSION"
  BY DEF Request, Requests, MainCmds
<1>3. /\ r \in Requests /\ r.cmd = "PROGRAM" /\ r.addr = programmer.e2sent
      /\ r.dat = Mid(programmer.e2, programmer.e2sent, PKT_DAT_MAX_LEN)
      /\ r.size = Len(r.dat) /\ programmer.e2sent + r.size <= Len(programmer.e2)
  BY <1>1, MainRequestFacts
<1>4. AfterProgram(programmer) =
        [programmer EXCEPT !.e2sent = programmer.e2sent + r.size, !.log = "Programming"]
  BY DEF AfterProgram
<1>5. programmer' = (IF MoreToProgram THEN AfterProgram(programmer)
                     ELSE [programmer EXCEPT !.log = "OK"])
      /\ Handled(requests)
  BY DEF OnOk
<1> HIDE DEF version, r
<1>6. /\ requests \in Seq(Requests)
      /\ \A k \in 1 .. Len(requests) : requests[k] \in {version, r}
      /\ Len(pkt.dat) # 2 => requests = IF MoreToProgram THEN <<r>> ELSE <<>>
  <2>1. CASE MoreToProgram /\ Len(pkt.dat) = 2
    <3>1. requests = <<version>> \o <<r>> BY <2>1
    <3>2. <<version>> \in Seq(Requests) /\ <<r>> \in Seq(Requests) BY <1>2, <1>3
    <3>3. requests \in Seq(Requests) /\ Len(requests) = 2
          /\ requests[1] = version /\ requests[2] = r
      BY <3>1, <3>2
    <3>4. QED BY <2>1, <3>3
  <2>2. CASE MoreToProgram /\ Len(pkt.dat) # 2
    <3>1. requests = <<>> \o <<r>> BY <2>2
    <3>2. requests = <<r>> BY <3>1
    <3>3. QED BY <1>2, <1>3, <2>2, <3>2
  <2>3. CASE ~MoreToProgram /\ Len(pkt.dat) = 2
    <3>1. requests = <<version>> \o <<>> BY <2>3
    <3>2. requests = <<version>> BY <3>1
    <3>3. QED BY <1>2, <1>3, <2>3, <3>2
  <2>4. CASE ~MoreToProgram /\ Len(pkt.dat) # 2
    <3>1. requests = <<>> \o <<>> BY <2>4
    <3>2. requests = <<>> BY <3>1
    <3>3. QED BY <2>4, <3>2
  <2>5. QED BY <2>1, <2>2, <2>3, <2>4
<1> HIDE DEF requests
<1>7. LineType' /\ PcTakes /\ PcSends(requests)
  BY <1>5, <1>6, ParsedMoves DEF OnOk
<1>8. r.size \in Nat BY <1>3 DEF Requests
<1>9. /\ programmer' \in Programmers /\ programmer'.e2 = programmer.e2
      /\ programmer'.last = programmer.last /\ programmer'.e2recv = programmer.e2recv
      /\ MoreToProgram => programmer'.e2sent = programmer.e2sent + Len(r.dat)
                          /\ programmer'.log = "Programming"
      /\ ~MoreToProgram => programmer'.e2sent = programmer.e2sent
  <2>1. CASE MoreToProgram
    <3>1. programmer' =
            [programmer EXCEPT !.e2sent = programmer.e2sent + r.size, !.log = "Programming"]
      BY <1>4, <1>5, <2>1
    <3>2. programmer.e2sent + r.size \in Nat
      <4>1. programmer.e2sent \in Nat BY <1>1 DEF Programmers
      <4>2. QED BY <1>8, <4>1
    <3>3. QED BY <1>1, <1>3, <2>1, <3>1, <3>2, Names DEF Programmers
  <2>2. CASE ~MoreToProgram
    <3>1. programmer' = [programmer EXCEPT !.log = "OK"] BY <1>5, <2>2
    <3>2. QED BY <1>1, <2>2, <3>1, Names DEF Programmers
  <2>3. QED BY <2>1, <2>2
<1>10. ProgrammerType' BY <1>1, <1>3, <1>9 DEF ProgrammerType
<1>11. QED BY <1>2, <1>3, <1>6, <1>7, <1>9, <1>10 DEF MainCmds

LEMMA OnFailedMoves ==
  ASSUME IspType, OnFailed \/ OnLdrVersion
  PROVE  /\ ProgrammerType' /\ LineType' /\ PcTakes /\ PcSends(<<>>)
         /\ programmer'.last = programmer.last /\ programmer'.e2 = programmer.e2
         /\ programmer'.e2sent = programmer.e2sent /\ programmer'.e2recv = programmer.e2recv
         /\ programmer'.log = programmer.log \/ programmer'.log = "Failed"
<1>1. programmer' \in {programmer, [programmer EXCEPT !.log = "Failed"]} /\ Handled(<<>>)
  BY DEF OnFailed, OnLdrVersion
<1>2. <<>> \in Seq(Requests) OBVIOUS
<1>3. LineType' /\ PcTakes /\ PcSends(<<>>)
  BY <1>1, <1>2, ParsedMoves DEF OnFailed, OnLdrVersion
<1>4. programmer \in Programmers BY DEF IspType, ProgrammerType
<1>5. programmer' \in Programmers BY <1>1, <1>4, Names DEF Programmers
<1>6. QED BY <1>1, <1>3, <1>4, <1>5 DEF IspType, ProgrammerType, Programmers

LEMMA OnRomMoves ==
  ASSUME IspType, OnRom
  PROVE  /\ ProgrammerType' /\ LineType' /\ PcTakes
         /\ programmer' = [programmer EXCEPT
                             !.e2 = Put(programmer.e2, programmer.e2recv, pkt.dat),
                             !.e2recv = programmer.e2recv + Len(pkt.dat)]
         /\ programmer'.e2recv = programmer.e2recv + Len(pkt.dat)
         /\ programmer'.last = programmer.last
         /\ IF programmer'.e2recv < programmer.leReadLen
            THEN PcSends(<<ReadRomRequest(programmer')>>)
            ELSE PcSends(<<>>)
<1>1. /\ programmer \in Programmers /\ programmer.e2sent <= Len(programmer.e2)
      /\ programmer.e2recv <= Len(programmer.e2)
  BY DEF IspType, ProgrammerType
<1>2. /\ pkt.dat \in Seq(Byte)
      /\ \A requests \in Seq(Requests) :
           Handled(requests) => LineType' /\ PcTakes /\ PcSends(requests)
  BY ParsedMoves DEF OnRom
<1> DEFINE p == [programmer EXCEPT !.e2 = Put(@, programmer.e2recv, pkt.dat),
                                   !.e2recv = @ + Len(pkt.dat)]
<1>3. programmer' = p /\ Handled(IF p.e2recv < p.leReadLen THEN <<ReadRomRequest(p)>> ELSE <<>>)
  BY DEF OnRom
<1>4. p = [programmer EXCEPT !.e2 = Put(programmer.e2, programmer.e2recv, pkt.dat),
                             !.e2recv = programmer.e2recv + Len(pkt.dat)]
  BY <1>1 DEF Programmers
<1> HIDE DEF p
<1> DEFINE e2 == Put(programmer.e2, programmer.e2recv, pkt.dat)
<1>5. programmer.e2 \in Seq(Byte) /\ programmer.e2recv \in Nat /\ Len(pkt.dat) \in Nat
      /\ programmer.e2sent \in Nat
  <2>1. Len(pkt.dat) \in Nat BY <1>2
  <2>2. QED BY <1>1, <2>1 DEF Programmers
<1>6. e2 \in Seq(Byte) /\ Len(e2) >= programmer.e2recv + Len(pkt.dat)
      /\ Len(e2) >= Len(programmer.e2)
  BY <1>1, <1>2, <1>5, PutFacts
<1> HIDE DEF e2
<1>7. p = [programmer EXCEPT !.e2 = e2, !.e2recv = programmer.e2recv + Len(pkt.dat)]
  BY <1>4 DEF e2
<1>8. /\ p \in Programmers /\ p.e2 = e2 /\ p.e2recv = programmer.e2recv + Len(pkt.dat)
      /\ p.e2sent = programmer.e2sent /\ p.last = programmer.last
      /\ p.leReadLen = programmer.leReadLen
  <2>1. programmer.e2recv + Len(pkt.dat) \in Nat BY <1>5
  <2>2. QED BY <1>1, <1>6, <1>7, <2>1 DEF Programmers
<1>9. p.e2sent <= Len(p.e2) /\ p.e2recv <= Len(p.e2)
  BY <1>1, <1>5, <1>6, <1>8
<1>10. ProgrammerType' BY <1>3, <1>8, <1>9 DEF ProgrammerType
<1>11. ReadRomRequest(p) \in Requests BY <1>8, <1>9, MainRequestFacts
<1>12. <<ReadRomRequest(p)>> \in Seq(Requests) /\ <<>> \in Seq(Requests) BY <1>11
<1>13. QED BY <1>2, <1>3, <1>4, <1>8, <1>10, <1>12

-----------------------------------------------------------------------------
\* What a button or an answer of the flash window does.

LEMMA FlashRequestFacts ==
  ASSUME NEW f \in Flashes
  PROVE  /\ f.e2sent <= f.e2send =>
              /\ ProgramFlash(f) \in Requests /\ ProgramFlash(f).cmd = "PROGRAM_W25Q"
              /\ ProgramFlash(f).addr = f.leOffset + f.e2sent
              /\ ProgramFlash(f).size = Min(f.e2send - f.e2sent, PKT_DAT_MAX_LEN)
              /\ ProgramFlash(f).dat = Mid(f.e2, f.leOffset + f.e2sent, ProgramFlash(f).size)
         /\ f.e2recvd <= f.e2recv =>
              /\ ReadFlash(f) \in Requests /\ ReadFlash(f).cmd = "READ_W25Q"
              /\ ReadFlash(f).addr = f.leOffset + f.e2recvd
              /\ ReadFlash(f).size = Min(f.e2recv - f.e2recvd, PKT_DAT_MAX_LEN)
<1>1. /\ f.e2 \in Seq(Byte) /\ f.leOffset \in Nat /\ f.e2send \in Nat /\ f.e2sent \in Nat
      /\ f.e2recv \in Nat /\ f.e2recvd \in Nat
  BY DEF Flashes
<1>2. ASSUME f.e2sent <= f.e2send
      PROVE  /\ ProgramFlash(f) \in Requests /\ ProgramFlash(f).cmd = "PROGRAM_W25Q"
             /\ ProgramFlash(f).addr = f.leOffset + f.e2sent
             /\ ProgramFlash(f).size = Min(f.e2send - f.e2sent, PKT_DAT_MAX_LEN)
             /\ ProgramFlash(f).dat = Mid(f.e2, f.leOffset + f.e2sent, ProgramFlash(f).size)
  <2> DEFINE size == Min(f.e2send - f.e2sent, PKT_DAT_MAX_LEN)
             at   == f.leOffset + f.e2sent
  <2>1. size \in Nat /\ at \in Nat BY <1>1, <1>2, Sizes DEF Min
  <2>2. Mid(f.e2, at, size) \in Seq(Byte) BY <1>1, <2>1, MidFacts
  <2>3. ProgramFlash(f) = [cmd |-> "PROGRAM_W25Q", addr |-> at, size |-> size,
                           dat |-> Mid(f.e2, at, size)]
    BY DEF ProgramFlash, Request
  <2> HIDE DEF size, at
  <2>4. QED BY <2>1, <2>2, <2>3 DEF Requests, FlashCmds, size, at
<1>3. ASSUME f.e2recvd <= f.e2recv
      PROVE  /\ ReadFlash(f) \in Requests /\ ReadFlash(f).cmd = "READ_W25Q"
             /\ ReadFlash(f).addr = f.leOffset + f.e2recvd
             /\ ReadFlash(f).size = Min(f.e2recv - f.e2recvd, PKT_DAT_MAX_LEN)
  <2> DEFINE size == Min(f.e2recv - f.e2recvd, PKT_DAT_MAX_LEN)
             at   == f.leOffset + f.e2recvd
  <2>1. size \in Nat /\ at \in Nat BY <1>1, <1>3, Sizes DEF Min
  <2>2. ReadFlash(f) = [cmd |-> "READ_W25Q", addr |-> at, size |-> size, dat |-> <<>>]
    BY DEF ReadFlash, Request
  <2> HIDE DEF size, at
  <2>3. QED BY <2>1, <2>2 DEF Requests, FlashCmds, size, at
<1>4. QED BY <1>2, <1>3

LEMMA OpenedType ==
  ASSUME NEW isOpen \in BOOLEAN
  PROVE  /\ Opened(isOpen) \in Flashes /\ ~Opened(isOpen).reading /\ Opened(isOpen).last = None
         /\ Opened(isOpen).open = isOpen
         /\ Opened(isOpen).e2 = AllBlank(FLASH_EMPTY_SIZE)
         /\ Len(Opened(isOpen).e2) = FLASH_EMPTY_SIZE /\ FLASH_EMPTY_SIZE <= NorSize
         /\ \A n \in Nat : AllBlank(n) \in Seq(Byte) /\ Len(AllBlank(n)) = n
<1>1. \A n \in Nat : AllBlank(n) \in Seq(Byte) /\ Len(AllBlank(n)) = n
  BY DEF AllBlank, Byte, Blank, Torn
<1>2. FLASH_EMPTY_SIZE \in Nat /\ FLASH_EMPTY_SIZE <= NorSize BY FlashWindowAssumption, Sizes
<1>3. Opened(isOpen) =
        [open |-> isOpen, e2 |-> AllBlank(FLASH_EMPTY_SIZE), leOffset |-> 0, e2send |-> 0,
         e2sent |-> 0, counted |-> <<>>, e2recv |-> 0, e2recvd |-> 0, reading |-> FALSE, last |-> None,
         readingMaster |-> TRUE, check |-> None]
  BY DEF Opened, None
<1>4. QED BY <1>1, <1>2, <1>3, Names DEF Flashes

\* Buttons send at most one request, and only to the NOR flash.
FlashSends ==
  \E requests \in Seq(Requests) :
    PcSends(requests) /\ \A k \in 1 .. Len(requests) : requests[k].cmd \in FlashCmds

LEMMA FlashSendMoves ==
  ASSUME LineType
  PROVE  /\ UNCHANGED line => LineType' /\ FlashSends /\ UNCHANGED toPC
         /\ \A r \in Requests :
              Send(<<r>>) => /\ LineType' /\ UNCHANGED toPC /\ PcSends(<<r>>)
                             /\ r.cmd \in FlashCmds => FlashSends
<1>1. ASSUME UNCHANGED line PROVE LineType' /\ FlashSends /\ UNCHANGED toPC
  <2>1. <<>> \in Seq(Requests) /\ Len(<<>>) = 0 OBVIOUS
  <2>2. PcSends(<<>>) BY <1>1 DEF PcSends, line, LineType
  <2>3. \A k \in 1 .. Len(<<>>) : <<>>[k].cmd \in FlashCmds BY <2>1
  <2>4. FlashSends BY <2>1, <2>2, <2>3 DEF FlashSends
  <2>5. QED BY <1>1, <2>4 DEF line, LineType
<1>2. ASSUME NEW r \in Requests, Send(<<r>>)
      PROVE  /\ LineType' /\ UNCHANGED toPC /\ PcSends(<<r>>)
             /\ r.cmd \in FlashCmds => FlashSends
  <2>1. <<r>> \in Seq(Requests) /\ Len(<<r>>) = 1 /\ <<r>>[1] = r OBVIOUS
  <2>2. LineType' /\ PcSends(<<r>>) /\ UNCHANGED toPC BY <1>2, <2>1, SendMoves
  <2>3. r.cmd \in FlashCmds => \A k \in 1 .. Len(<<r>>) : <<r>>[k].cmd \in FlashCmds BY <2>1
  <2>4. r.cmd \in FlashCmds => FlashSends BY <2>1, <2>2, <2>3 DEF FlashSends
  <2>5. QED BY <2>2, <2>4
<1>3. QED BY <1>1, <1>2

\* Buttons that start a read: by its end the window will have asked for n
\* bytes from the offset on.
StartsRead(button, offset, n) ==
  /\ flash'.last = button /\ flash'.leOffset = offset /\ flash'.e2recv = n
  /\ flash'.e2recvd = 0 /\ flash'.reading /\ flash'.check = None /\ flash'.e2 = flash.e2
  /\ flash'.open /\ flash' \in Flashes
  /\ ReadFlash(flash') \in Requests /\ PcSends(<<ReadFlash(flash')>>)

LEMMA ReadingMakes ==
  ASSUME NEW button \in ReadButtons, NEW offset \in Nat, NEW n \in Nat, flash \in Flashes,
         \/ flash' = Reading(button, offset, n)
         \/ \E b \in BOOLEAN :
              flash' = [Reading(button, offset, n) EXCEPT !.readingMaster = b]
  PROVE  /\ flash' \in Flashes /\ flash'.last = button /\ flash'.leOffset = offset
         /\ flash'.e2recv = n /\ flash'.e2recvd = 0 /\ flash'.reading = TRUE
         /\ flash'.check = None /\ flash'.e2 = flash.e2 /\ flash'.open = flash.open
         /\ ReadFlash(flash') \in Requests /\ ReadFlash(flash').cmd = "READ_W25Q"
<1> DEFINE g == Reading(button, offset, n)
<1>1. g = [flash EXCEPT !.last = button, !.leOffset = offset, !.check = None,
                        !.e2recv = n, !.e2recvd = 0, !.reading = TRUE]
  <2>1. Pressed(button, offset) = [flash EXCEPT !.last = button, !.leOffset = offset, !.check = None]
    BY DEF Pressed, None
  <2>2. QED BY <2>1 DEF Reading, Flashes
<1>2. flash' = g \/ \E b \in BOOLEAN : flash' = [g EXCEPT !.readingMaster = b] OBVIOUS
<1> HIDE DEF g
<1>3. /\ g \in Flashes /\ g.last = button /\ g.leOffset = offset /\ g.e2recv = n
      /\ g.e2recvd = 0 /\ g.reading = TRUE /\ g.check = None /\ g.e2 = flash.e2
      /\ g.open = flash.open
  BY <1>1, Names DEF Flashes
<1>4. /\ flash' \in Flashes /\ flash'.last = button /\ flash'.leOffset = offset
      /\ flash'.e2recv = n /\ flash'.e2recvd = 0 /\ flash'.reading = TRUE
      /\ flash'.check = None /\ flash'.e2 = flash.e2 /\ flash'.open = flash.open
  BY <1>2, <1>3 DEF Flashes
<1>5. flash'.e2recvd <= flash'.e2recv BY <1>4
<1>6. QED BY <1>4, <1>5, FlashRequestFacts

LEMMA ReadingMoves ==
  ASSUME IspType, flash.open, NEW button \in ReadButtons,
         NEW offset \in Nat, NEW n \in Nat, Send(<<ReadFlash(flash')>>),
         \/ flash' = Reading(button, offset, n)
         \/ \E b \in BOOLEAN :
              flash' = [Reading(button, offset, n) EXCEPT !.readingMaster = b]
  PROVE  /\ StartsRead(button, offset, n) /\ LineType' /\ FlashSends
         /\ UNCHANGED toPC
<1>1. flash \in Flashes BY DEF IspType, FlashType
<1>3. /\ flash' \in Flashes /\ flash'.last = button /\ flash'.leOffset = offset
      /\ flash'.e2recv = n /\ flash'.e2recvd = 0 /\ flash'.reading = TRUE /\ flash'.check = None
      /\ flash'.e2 = flash.e2 /\ flash'.open = flash.open
      /\ ReadFlash(flash') \in Requests /\ ReadFlash(flash').cmd = "READ_W25Q"
  BY <1>1, ReadingMakes
<1>4. LineType' /\ UNCHANGED toPC /\ PcSends(<<ReadFlash(flash')>>) /\ FlashSends
  BY <1>3, FlashSendMoves DEF IspType, FlashCmds
<1>5. QED BY <1>3, <1>4 DEF StartsRead

\* The record whose button is pressed is shown, and says how much to read.
LEMMA ShownInfoFacts ==
  ASSUME NEW f \in Flashes, Len(f.e2) = NorSize, NEW byMaster \in BOOLEAN,
         NEW offset \in AppAddresses
  PROVE  ShownInfo(f, byMaster, offset).size \in Nat /\ offset \in Nat
<1>1. f.e2 \in Seq(Byte) BY DEF Flashes
<1>2. /\ NORFLASH_OTA_MASTER_ADDR \in NorAddresses /\ NORFLASH_OTA_BACKUP_ADDR \in NorAddresses
      /\ offset \in NorAddresses
  BY FlashWindowAssumption
<1>3. \A a \in NorAddresses : f.e2[a + 1] \in 0 .. 256
  <2>1. \A a \in NorAddresses : a + 1 \in 1 .. Len(f.e2) BY Sizes DEF NorAddresses
  <2>2. \A k \in 1 .. Len(f.e2) : f.e2[k] \in Byte BY <1>1
  <2>3. Byte = 0 .. 256 BY DEF Byte, Torn
  <2>4. QED BY <2>1, <2>2, <2>3
<1>4. \A r \in 0 .. 256 : AppInfo(r, offset).size \in Nat BY FlashWindowAssumption
<1>5. /\ f.e2[NORFLASH_OTA_MASTER_ADDR + 1] \in 0 .. 256
      /\ f.e2[NORFLASH_OTA_BACKUP_ADDR + 1] \in 0 .. 256
  BY <1>2, <1>3
<1>6. offset \in Nat BY <1>2, Sizes DEF NorAddresses
<1>7. CASE byMaster
  <2>1. ShownInfo(f, byMaster, offset) = AppInfo(f.e2[NORFLASH_OTA_MASTER_ADDR + 1], offset)
    BY <1>7 DEF ShownInfo
  <2>2. QED BY <1>4, <1>5, <1>6, <2>1
<1>8. CASE ~byMaster
  <2>1. ShownInfo(f, byMaster, offset) = AppInfo(f.e2[NORFLASH_OTA_BACKUP_ADDR + 1], offset)
    BY <1>8 DEF ShownInfo
  <2>2. QED BY <1>4, <1>5, <1>6, <2>1
<1>9. QED BY <1>7, <1>8

LEMMA FlashReadMoves ==
  ASSUME IspType, FlashRead
  PROVE  /\ \E offset, size \in Nat : StartsRead("Read", offset, size)
         /\ LineType' /\ FlashSends /\ UNCHANGED toPC
<1>1. PICK range \in NorRanges \cup
          {NORFLASH_OTA_MASTER_ADDR, NORFLASH_OTA_BACKUP_ADDR} \X {OtaInfoSize} :
        flash' = Reading("Read", range[1], range[2]) /\ Send(<<ReadFlash(flash')>>)
  BY DEF FlashRead
<1>2. range[1] \in Nat /\ range[2] \in Nat
  BY FlashWindowAssumption, Sizes DEF NorAddresses
<1>3. flash.open BY DEF FlashRead, ClickInFlash
<1>4. QED BY <1>1, <1>2, <1>3, ReadingMoves, Names

\* The two records' buttons.
ByRecord(byMaster) == IF byMaster THEN ByMasterName ELSE ByBackupName

LEMMA ReadAppMoves ==
  ASSUME IspType, ReadAppAndCalcCrc32
  PROVE  /\ \E byMaster \in BOOLEAN, offset \in AppAddresses :
              /\ StartsRead(ByRecord(byMaster), offset, ShownInfo(flash, byMaster, offset).size)
              /\ flash'.readingMaster = byMaster /\ Len(flash.e2) = NorSize
         /\ LineType' /\ FlashSends /\ UNCHANGED toPC
<1>1. flash \in Flashes BY DEF IspType, FlashType
<1>2. PICK byMaster \in BOOLEAN, offset \in AppAddresses :
        /\ flash' = [Reading(ByRecord(byMaster), offset, ShownInfo(flash, byMaster, offset).size)
                       EXCEPT !.readingMaster = byMaster]
        /\ Send(<<ReadFlash(flash')>>)
  BY DEF ReadAppAndCalcCrc32, ByRecord, ByMasterName, ByBackupName
<1>3. Len(flash.e2) = NorSize /\ flash.open BY DEF ReadAppAndCalcCrc32, ClickInFlash
<1>4. ShownInfo(flash, byMaster, offset).size \in Nat /\ offset \in Nat
  BY <1>1, <1>3, ShownInfoFacts
<1>5. flash'.readingMaster = byMaster BY <1>1, <1>2 DEF Reading, Pressed, Flashes
<1>6. ByRecord(byMaster) \in ReadButtons BY DEF ByRecord, ReadButtons
<1>7. QED BY <1>2, <1>3, <1>4, <1>5, <1>6, ReadingMoves

\* Opening and closing, and the buttons that send one command.
LEMMA OpenMoves ==
  ASSUME IspType, slotOpenFlash \/ CloseFlash
  PROVE  /\ FlashType' /\ LineType' /\ FlashSends /\ UNCHANGED toPC
         /\ \E isOpen \in BOOLEAN : flash' = Opened(isOpen)
         /\ UNCHANGED toBoard \/ \E r \in Requests : r.cmd = "READ_W25Q_SIZE" /\ PcSends(<<r>>)
<1>1. PICK isOpen \in BOOLEAN : flash' = Opened(isOpen) BY DEF slotOpenFlash, CloseFlash
<1>2. flash' \in Flashes /\ ~flash'.reading /\ Len(flash'.e2) <= NorSize
  BY <1>1, OpenedType
<1>3. FlashType' BY <1>2 DEF FlashType
<1> DEFINE r == Request("READ_W25Q_SIZE", 0, 0, <<>>)
<1>4. r \in Requests /\ r.cmd = "READ_W25Q_SIZE" BY DEF Request, Requests, FlashCmds
<1>5. UNCHANGED line \/ Send(<<r>>) BY DEF slotOpenFlash, CloseFlash
<1> HIDE DEF r
<1>6. LineType BY DEF IspType
<1>7. CASE UNCHANGED line BY <1>1, <1>3, <1>6, <1>7, FlashSendMoves DEF line
<1>8. CASE Send(<<r>>)
  BY <1>1, <1>3, <1>4, <1>6, <1>8, FlashSendMoves DEF FlashCmds
<1>9. QED BY <1>5, <1>7, <1>8

LEMMA PressedFacts ==
  ASSUME NEW button \in FlashButtons, NEW offset \in Nat, flash \in Flashes
  PROVE  /\ Pressed(button, offset) =
              [flash EXCEPT !.last = button, !.leOffset = offset, !.check = None]
         /\ Pressed(button, offset) \in Flashes
         /\ Pressed(button, offset).last = button /\ Pressed(button, offset).e2 = flash.e2
         /\ Pressed(button, offset).leOffset = offset
         /\ Pressed(button, offset).open = flash.open
         /\ Pressed(button, offset).reading = flash.reading
         /\ Pressed(button, offset).e2recvd = flash.e2recvd
         /\ Pressed(button, offset).e2recv = flash.e2recv
<1>1. Pressed(button, offset) =
        [flash EXCEPT !.last = button, !.leOffset = offset, !.check = None]
  BY DEF Pressed, None
<1>2. QED BY <1>1, Names DEF Flashes

LEMMA RangeFacts ==
  ASSUME NEW range \in NorRanges
  PROVE  range[1] \in Nat /\ range[2] \in Nat /\ range[1] < NorSize /\ range[2] > 0
BY FlashWindowAssumption, Sizes DEF NorAddresses

EraseCmds == {"ERASE_W25Q_ALL", "ERASE_W25Q_SECTOR"}

LEMMA CommandMoves ==
  ASSUME IspType, slotReadFlashSize \/ FlashEraseAll \/ FlashEraseSector
  PROVE  /\ FlashType' /\ LineType' /\ FlashSends /\ UNCHANGED toPC
         /\ flash'.last \in {ReadSizeName, EraseAllName, EraseSectorName}
         /\ flash'.e2 = flash.e2 /\ ~flash'.reading
         /\ \E r \in Requests : r.cmd \in EraseCmds \cup {"READ_W25Q_SIZE"} /\ PcSends(<<r>>)
<1>1. flash \in Flashes /\ LineType /\ Len(flash.e2) <= NorSize BY DEF IspType, FlashType
<1>2. PICK button \in {ReadSizeName, EraseAllName, EraseSectorName}, offset \in Nat,
           addr \in Nat, cmd \in EraseCmds \cup {"READ_W25Q_SIZE"} :
        flash' = Pressed(button, offset) /\ Send(<<Request(cmd, addr, 0, <<>>)>>)
  <2>1. CASE FlashEraseAll
    <3>1. flash.leOffset \in Nat BY <1>1 DEF Flashes
    <3>2. QED BY <2>1, <3>1 DEF FlashEraseAll, EraseAllName, EraseCmds
  <2>2. CASE FlashEraseSector
    BY <2>2, RangeFacts DEF FlashEraseSector, EraseSectorName, EraseCmds
  <2>3. CASE slotReadFlashSize
    <3>1. flash.leOffset \in Nat BY <1>1 DEF Flashes
    <3>2. QED BY <2>3, <3>1 DEF slotReadFlashSize, ReadSizeName
  <2>4. QED BY <2>1, <2>2, <2>3
<1>3. button \in FlashButtons BY Names
<1>4. ~flash.reading BY DEF slotReadFlashSize, FlashEraseAll, FlashEraseSector, ClickInFlash
<1>5. FlashType' /\ flash'.last = button /\ flash'.e2 = flash.e2 /\ ~flash'.reading
  BY <1>1, <1>2, <1>3, <1>4, PressedFacts DEF FlashType
<1> DEFINE r == Request(cmd, addr, 0, <<>>)
<1>6. r \in Requests /\ r.cmd = cmd /\ r.cmd \in FlashCmds
  BY <1>2 DEF Request, Requests, FlashCmds, EraseCmds
<1> HIDE DEF r
<1>7. LineType' /\ UNCHANGED toPC /\ PcSends(<<r>>) /\ FlashSends
  BY <1>1, <1>2, <1>6, FlashSendMoves DEF r
<1>8. QED BY <1>2, <1>5, <1>6, <1>7

LEMMA GenerateMoves ==
  ASSUME IspType, generateData
  PROVE  /\ FlashType' /\ LineType' /\ FlashSends /\ UNCHANGED line
         /\ flash'.last = "Generate" /\ ~flash'.reading
         /\ Len(flash'.e2) = Len(flash.e2)
<1>1. flash \in Flashes /\ LineType /\ Len(flash.e2) <= NorSize BY DEF IspType, FlashType
<1>2. PICK range \in NorRanges :
        flash' = [Pressed("Generate", range[1]) EXCEPT
                    !.e2 = [k \in DOMAIN flash.e2 |->
                              IF k \in range[1] + 1 .. range[1] + range[2]
                              THEN (k - range[1] - 1) % 256 ELSE flash.e2[k]]]
  BY DEF generateData
<1>3. ~flash.reading /\ UNCHANGED line BY DEF generateData, ClickInFlash
<1> DEFINE e2 == [k \in DOMAIN flash.e2 |->
                    IF k \in range[1] + 1 .. range[1] + range[2]
                    THEN (k - range[1] - 1) % 256 ELSE flash.e2[k]]
<1>4. e2 \in Seq(Byte) /\ Len(e2) = Len(flash.e2)
  <2>1. flash.e2 \in Seq(Byte) BY <1>1 DEF Flashes
  <2>2. \A k \in DOMAIN flash.e2 :
          (IF k \in range[1] + 1 .. range[1] + range[2] THEN (k - range[1] - 1) % 256
           ELSE flash.e2[k]) \in Byte
    <3>1. \A i \in Int : i % 256 \in Byte BY DEF Byte, Torn
    <3>2. \A k \in DOMAIN flash.e2 : k - range[1] - 1 \in Int BY <2>1, RangeFacts
    <3>3. \A k \in DOMAIN flash.e2 : flash.e2[k] \in Byte BY <2>1
    <3>4. QED BY <3>1, <3>2, <3>3
  <2>3. QED BY <2>1, <2>2
<1> HIDE DEF e2
<1>5. flash' = [Pressed("Generate", range[1]) EXCEPT !.e2 = e2] BY <1>2 DEF e2
<1>6. /\ Pressed("Generate", range[1]) \in Flashes
      /\ Pressed("Generate", range[1]).last = "Generate"
      /\ Pressed("Generate", range[1]).reading = flash.reading
  BY <1>1, RangeFacts, PressedFacts, Names
<1>7. flash' \in Flashes /\ flash'.last = "Generate" /\ ~flash'.reading /\ flash'.e2 = e2
  BY <1>3, <1>4, <1>5, <1>6 DEF Flashes
<1>8. FlashType' BY <1>1, <1>4, <1>7 DEF FlashType
<1>9. QED BY <1>1, <1>3, <1>4, <1>7, <1>8, FlashSendMoves

LEMMA FlashProgramMoves ==
  ASSUME IspType, FlashProgram
  PROVE  /\ FlashType' /\ LineType' /\ FlashSends /\ UNCHANGED toPC
         /\ flash'.e2 = flash.e2 /\ flash'.open /\ ~flash'.reading
         /\ \/ flash'.last = "Refused" /\ UNCHANGED line
            \/ /\ flash'.last = "Program" /\ flash'.e2sent = 0 /\ flash'.counted = <<>>
               /\ flash'.leOffset + flash'.e2send <= Len(flash.e2)
               /\ <<flash'.leOffset, flash'.e2send>> \in NorRanges
               /\ ProgramFlash(flash') \in Requests
               /\ PcSends(<<ProgramFlash(flash')>>)
<1>1. flash \in Flashes /\ LineType /\ Len(flash.e2) <= NorSize BY DEF IspType, FlashType
<1>2. PICK range \in NorRanges :
        LET f == [Pressed("Program", range[1]) EXCEPT !.e2send = range[2]]
        IN  IF Len(f.e2) < range[1] + range[2]
            THEN flash' = [f EXCEPT !.last = "Refused"] /\ UNCHANGED line
            ELSE LET g == [f EXCEPT !.e2sent = 0, !.counted = <<>>]
                 IN  flash' = g /\ Send(<<ProgramFlash(g)>>)
  BY DEF FlashProgram
<1>3. range[1] \in Nat /\ range[2] \in Nat /\ <<range[1], range[2]>> \in NorRanges
  BY RangeFacts, FlashWindowAssumption
<1>4. flash.open /\ ~flash.reading BY DEF FlashProgram, ClickInFlash
<1> DEFINE f == [Pressed("Program", range[1]) EXCEPT !.e2send = range[2]]
<1>5. /\ f \in Flashes /\ f.last = "Program" /\ f.e2 = flash.e2 /\ f.open = flash.open
      /\ f.reading = flash.reading /\ f.leOffset = range[1] /\ f.e2send = range[2]
  <2>0. "Program" \in FlashButtons /\ range[1] \in Nat BY <1>3, Names
  <2>1. /\ Pressed("Program", range[1]) \in Flashes
        /\ Pressed("Program", range[1]).last = "Program"
        /\ Pressed("Program", range[1]).e2 = flash.e2
        /\ Pressed("Program", range[1]).open = flash.open
        /\ Pressed("Program", range[1]).reading = flash.reading
        /\ Pressed("Program", range[1]).leOffset = range[1]
    BY <1>1, <2>0, PressedFacts
  <2>2. QED BY <1>3, <2>1 DEF Flashes
<1>6. \/ flash' = [f EXCEPT !.last = "Refused"] /\ UNCHANGED line
      \/ /\ range[1] + range[2] <= Len(flash.e2)
         /\ flash' = [f EXCEPT !.e2sent = 0, !.counted = <<>>] /\ Send(<<ProgramFlash(flash')>>)
  <2>1. Len(flash.e2) \in Nat
    <3>1. flash.e2 \in Seq(Byte) BY <1>1 DEF Flashes
    <3>2. QED BY <3>1
  <2>2. QED BY <1>2, <1>3, <1>5, <2>1
<1> HIDE DEF f
<1>7. CASE flash' = [f EXCEPT !.last = "Refused"] /\ UNCHANGED line
  <2>1. /\ flash' \in Flashes /\ flash'.last = "Refused" /\ flash'.e2 = flash.e2
        /\ flash'.open = flash.open /\ flash'.reading = flash.reading
    BY <1>5, <1>7, Names DEF Flashes
  <2>2. FlashType' BY <1>1, <1>4, <2>1 DEF FlashType
  <2>3. QED BY <1>1, <1>4, <1>7, <2>1, <2>2, FlashSendMoves
<1>8. CASE /\ range[1] + range[2] <= Len(flash.e2)
           /\ flash' = [f EXCEPT !.e2sent = 0, !.counted = <<>>] /\ Send(<<ProgramFlash(flash')>>)
  <2>0. PICK none \in Seq(Byte) : none = <<>>
    <3>1. <<>> \in Seq(Byte) OBVIOUS
    <3>2. QED BY <3>1
  <2>7. flash' = [f EXCEPT !.e2sent = 0, !.counted = none] BY <1>8, <2>0
  <2>8. /\ flash' \in Flashes /\ flash'.last = "Program" /\ flash'.e2 = flash.e2
        /\ flash'.open = flash.open /\ flash'.reading = flash.reading
        /\ flash'.leOffset = range[1] /\ flash'.e2send = range[2] /\ flash'.e2sent = 0
        /\ flash'.counted = none
    BY <1>5, <2>7 DEF Flashes
  <2>1. /\ flash' \in Flashes /\ flash'.last = "Program" /\ flash'.e2 = flash.e2
        /\ flash'.open = flash.open /\ flash'.reading = flash.reading
        /\ flash'.leOffset = range[1] /\ flash'.e2send = range[2] /\ flash'.e2sent = 0
        /\ flash'.counted = <<>>
    BY <2>0, <2>8
  <2>2. FlashType' BY <1>1, <1>4, <2>1 DEF FlashType
  <2>3. flash'.e2sent <= flash'.e2send BY <1>3, <2>1
  <2>4. ProgramFlash(flash') \in Requests /\ ProgramFlash(flash').cmd = "PROGRAM_W25Q"
    BY <2>1, <2>3, FlashRequestFacts
  <2>5. LineType' /\ FlashSends /\ UNCHANGED toPC /\ PcSends(<<ProgramFlash(flash')>>)
    BY <1>1, <1>8, <2>4, FlashSendMoves DEF FlashCmds
  <2>6. QED BY <1>3, <1>4, <1>8, <2>1, <2>2, <2>4, <2>5
<1>9. QED BY <1>6, <1>7, <1>8

\* The timer asks again.
LEMMA TimerMoves ==
  ASSUME IspType, timerEvent
  PROVE  /\ FlashType' /\ LineType' /\ FlashSends /\ UNCHANGED toPC
         /\ UNCHANGED flash /\ flash.reading /\ ~UnderWay({"READ_W25Q"}, {"W25Q_DATA"})
         /\ ReadFlash(flash) \in Requests /\ PcSends(<<ReadFlash(flash)>>)
<1>1. flash \in Flashes /\ LineType /\ flash.e2recvd <= flash.e2recv
  BY DEF IspType, FlashType, timerEvent
<1>2. ReadFlash(flash) \in Requests /\ ReadFlash(flash).cmd \in FlashCmds
  BY <1>1, FlashRequestFacts DEF FlashCmds
<1>3. PICK r \in Requests : r = ReadFlash(flash) BY <1>2
<1>4. Send(<<r>>) /\ UNCHANGED flash BY <1>3 DEF timerEvent
<1>5. LineType' /\ FlashSends /\ UNCHANGED toPC /\ PcSends(<<r>>)
  BY <1>1, <1>2, <1>3, <1>4, FlashSendMoves
<1>6. FlashType' BY <1>4 DEF IspType, FlashType
<1>7. QED BY <1>2, <1>3, <1>4, <1>5, <1>6 DEF timerEvent

\* What the flash window does with an answer.
LEMMA OnSizeMoves ==
  ASSUME IspType, OnSize
  PROVE  /\ FlashType' /\ LineType' /\ PcTakes /\ PcSends(<<>>)
         /\ toPC[1].status = "W25Q_SIZE"
         /\ \/ UNCHANGED flash /\ ~flash.open
            \/ flash.open /\ flash' = [flash EXCEPT !.e2 = AllBlank(NorSize)]
<1>1. flash \in Flashes BY DEF IspType, FlashType
<1>2. <<>> \in Seq(Requests) OBVIOUS
<1>3. LineType' /\ PcTakes /\ PcSends(<<>>) /\ toPC[1].status = "W25Q_SIZE"
  BY <1>2, ParsedMoves DEF OnSize
<1>4. \/ UNCHANGED flash /\ ~flash.open
      \/ flash.open /\ flash' = [flash EXCEPT !.e2 = AllBlank(NorSize)]
  BY DEF OnSize
<1>5. FlashType'
  <2>1. CASE UNCHANGED flash BY <2>1 DEF IspType, FlashType
  <2>2. CASE flash' = [flash EXCEPT !.e2 = AllBlank(NorSize)]
    <3>1. AllBlank(NorSize) \in Seq(Byte) /\ Len(AllBlank(NorSize)) = NorSize
      BY Sizes, OpenedType
    <3>2. /\ flash' \in Flashes /\ Len(flash'.e2) = NorSize /\ flash'.reading = flash.reading
          /\ flash'.open = flash.open /\ flash'.e2recv = flash.e2recv
          /\ flash'.e2recvd = flash.e2recvd
      BY <1>1, <2>2, <3>1 DEF Flashes
    <3>3. QED BY <3>2, Sizes DEF IspType, FlashType
  <2>3. QED BY <1>4, <2>1, <2>2
<1>6. QED BY <1>3, <1>4, <1>5

LEMMA OnErasedMoves ==
  ASSUME IspType, OnErased
  PROVE  /\ FlashType' /\ LineType' /\ PcTakes /\ PcSends(<<>>) /\ UNCHANGED flash
         /\ toPC[1].status \in {"W25Q_ERASE_ALL_RES", "W25Q_ERASE_SECTOR_RES"}
<1>1. <<>> \in Seq(Requests) OBVIOUS
<1>2. LineType' /\ PcTakes /\ PcSends(<<>>)
      /\ toPC[1].status \in {"W25Q_ERASE_ALL_RES", "W25Q_ERASE_SECTOR_RES"}
  BY <1>1, ParsedMoves DEF OnErased
<1>3. UNCHANGED flash BY DEF OnErased
<1>4. QED BY <1>2, <1>3 DEF IspType, FlashType

\* The end of a read.
LEMMA ReadOverFacts ==
  ASSUME NEW f \in Flashes
  PROVE  /\ ReadOver(f) \in Flashes /\ ~ReadOver(f).reading
         /\ ReadOver(f).open = f.open /\ ReadOver(f).e2 = f.e2 /\ ReadOver(f).last = f.last
         /\ ReadOver(f).leOffset = f.leOffset /\ ReadOver(f).e2recv = f.e2recv
         /\ ReadOver(f).e2recvd = f.e2recvd /\ ReadOver(f).readingMaster = f.readingMaster
         /\ ReadOver(f).e2send = f.e2send /\ ReadOver(f).e2sent = f.e2sent
         /\ ReadOver(f).counted = f.counted
         /\ \/ ReadOver(f).check = f.check
            \/ /\ ~(f.leOffset + ExpectedInfo(f).size > Len(f.e2))
               /\ ReadOver(f).check =
                    IF Crc(Mid(f.e2, f.leOffset, ExpectedInfo(f).size)) = ExpectedInfo(f).crc
                    THEN "OK" ELSE "FAILED"
               /\ f.leOffset \in AppAddresses
<1> DEFINE stopped == [f EXCEPT !.reading = FALSE]
           info == ExpectedInfo(f)
           check == IF Crc(Mid(f.e2, f.leOffset, info.size)) = info.crc THEN "OK" ELSE "FAILED"
<1>1. \/ ReadOver(f) = stopped
      \/ /\ f.leOffset \in AppAddresses /\ ~(f.leOffset + info.size > Len(f.e2))
         /\ ReadOver(f) = [stopped EXCEPT !.check = check]
  BY DEF ReadOver
<1>2. check \in Checks BY Names
<1>3. stopped \in Flashes BY DEF Flashes
<1> HIDE DEF check, info
<1>4. CASE ReadOver(f) = stopped BY <1>3, <1>4 DEF Flashes
<1>5. CASE /\ f.leOffset \in AppAddresses /\ ~(f.leOffset + info.size > Len(f.e2))
           /\ ReadOver(f) = [stopped EXCEPT !.check = check]
  <2>1. ReadOver(f) = [f EXCEPT !.reading = FALSE, !.check = check] BY <1>3, <1>5 DEF Flashes
  <2> HIDE DEF stopped
  <2>2. /\ ReadOver(f) \in Flashes /\ ~ReadOver(f).reading
        /\ ReadOver(f).open = f.open /\ ReadOver(f).e2 = f.e2 /\ ReadOver(f).last = f.last
        /\ ReadOver(f).leOffset = f.leOffset /\ ReadOver(f).e2recv = f.e2recv
        /\ ReadOver(f).e2recvd = f.e2recvd /\ ReadOver(f).readingMaster = f.readingMaster
        /\ ReadOver(f).e2send = f.e2send /\ ReadOver(f).e2sent = f.e2sent
        /\ ReadOver(f).counted = f.counted
        /\ ReadOver(f).check = check
    BY <1>2, <2>1 DEF Flashes
  <2>3. QED BY <1>5, <2>2 DEF check, info
<1>6. QED BY <1>1, <1>4, <1>5

\* The flash window with the bytes of an answer put in place and counted.
Filled(f, dat, addr) ==
  [f EXCEPT !.e2 = Put(f.e2, addr, dat), !.e2recvd = f.e2recvd + Len(dat)]

LEMMA FilledFacts ==
  ASSUME NEW f \in Flashes, NEW dat \in Seq(Byte), NEW addr \in Nat, addr <= Len(f.e2)
  PROVE  /\ Filled(f, dat, addr) \in Flashes
         /\ Filled(f, dat, addr).e2 = Put(f.e2, addr, dat)
         /\ Filled(f, dat, addr).e2recvd = f.e2recvd + Len(dat)
         /\ Filled(f, dat, addr).open = f.open /\ Filled(f, dat, addr).last = f.last
         /\ Filled(f, dat, addr).leOffset = f.leOffset
         /\ Filled(f, dat, addr).e2recv = f.e2recv
         /\ Filled(f, dat, addr).reading = f.reading
         /\ Filled(f, dat, addr).readingMaster = f.readingMaster
         /\ Filled(f, dat, addr).check = f.check
         /\ Filled(f, dat, addr).e2send = f.e2send /\ Filled(f, dat, addr).e2sent = f.e2sent
         /\ Filled(f, dat, addr).counted = f.counted
<1>1. f.e2 \in Seq(Byte) /\ f.e2recvd \in Nat BY DEF Flashes
<1>2. Put(f.e2, addr, dat) \in Seq(Byte) BY <1>1, PutFacts
<1>3. Len(dat) \in Nat OBVIOUS
<1>4. f.e2recvd + Len(dat) \in Nat BY <1>1, <1>3
<1> DEFINE e2 == Put(f.e2, addr, dat)
           n == f.e2recvd + Len(dat)
<1>5. Filled(f, dat, addr) = [f EXCEPT !.e2 = e2, !.e2recvd = n] BY DEF Filled
<1>6. e2 \in Seq(Byte) /\ n \in Nat BY <1>2, <1>4
<1> HIDE DEF e2, n
<1>7. /\ Filled(f, dat, addr) \in Flashes
      /\ Filled(f, dat, addr).e2 = e2 /\ Filled(f, dat, addr).e2recvd = n
      /\ Filled(f, dat, addr).open = f.open /\ Filled(f, dat, addr).last = f.last
      /\ Filled(f, dat, addr).leOffset = f.leOffset
      /\ Filled(f, dat, addr).e2recv = f.e2recv
      /\ Filled(f, dat, addr).reading = f.reading
      /\ Filled(f, dat, addr).readingMaster = f.readingMaster
      /\ Filled(f, dat, addr).check = f.check
      /\ Filled(f, dat, addr).e2send = f.e2send /\ Filled(f, dat, addr).e2sent = f.e2sent
      /\ Filled(f, dat, addr).counted = f.counted
  BY <1>5, <1>6 DEF Flashes
<1>8. QED BY <1>7 DEF e2, n

LEMMA OnDataMoves ==
  ASSUME IspType, OnData
  PROVE  /\ FlashType' /\ LineType' /\ PcTakes /\ toPC[1].status = "W25Q_DATA"
         /\ \/ UNCHANGED flash /\ PcSends(<<>>)
            \/ \E f \in Flashes :
                 /\ flash.open /\ toPC[1].addr + Len(toPC[1].dat) <= Len(flash.e2)
                 /\ f = Filled(flash, toPC[1].dat, toPC[1].addr)
                 /\ \/ /\ f.e2recvd < f.e2recv /\ flash' = f
                       /\ PcSends(<<ReadFlash(flash')>>) /\ ReadFlash(flash') \in Requests
                    \/ ~(f.e2recvd < f.e2recv) /\ flash' = ReadOver(f) /\ PcSends(<<>>)
<1>1. /\ flash \in Flashes /\ Len(flash.e2) <= NorSize
      /\ flash.e2 \in Seq(Byte)
  BY DEF IspType, FlashType, Flashes
<1>2. /\ pkt = toPC[1] /\ pkt.status = "W25Q_DATA" /\ pkt.dat \in Seq(Byte) /\ pkt.addr \in Nat
      /\ \A requests \in Seq(Requests) :
           Handled(requests) => LineType' /\ PcTakes /\ PcSends(requests)
  BY ParsedMoves DEF OnData
<1>3. <<>> \in Seq(Requests) OBVIOUS
<1> DEFINE f == Filled(flash, pkt.dat, pkt.addr)
<1>4. [flash EXCEPT !.e2 = Put(@, pkt.addr, pkt.dat), !.e2recvd = @ + Len(pkt.dat)] = f
  BY DEF Filled
<1>5. CASE ~flash.open \/ pkt.addr + Len(pkt.dat) > Len(flash.e2)
  <2>1. UNCHANGED flash /\ Handled(<<>>) BY <1>5 DEF OnData
  <2>2. QED BY <1>2, <1>3, <2>1 DEF IspType, FlashType
<1>6. CASE ~(~flash.open \/ pkt.addr + Len(pkt.dat) > Len(flash.e2))
  <2>1. /\ f.e2recvd < f.e2recv => flash' = f /\ Handled(<<ReadFlash(f)>>)
        /\ ~(f.e2recvd < f.e2recv) => flash' = ReadOver(f) /\ Handled(<<>>)
    BY <1>4, <1>6 DEF OnData, GoesOn
  <2>2. pkt.addr + Len(pkt.dat) <= Len(flash.e2) /\ pkt.addr <= Len(flash.e2) /\ flash.open
    <3>1. Len(pkt.dat) \in Nat /\ Len(flash.e2) \in Nat BY <1>1, <1>2
    <3>2. QED BY <1>2, <1>6, <3>1
  <2>3. /\ f \in Flashes /\ f.open = flash.open /\ f.e2recv \in Nat /\ f.e2recvd \in Nat
        /\ f.e2 = Put(flash.e2, pkt.addr, pkt.dat)
    <3>1. /\ f \in Flashes /\ f.open = flash.open /\ f.e2 = Put(flash.e2, pkt.addr, pkt.dat)
      BY <1>1, <1>2, <2>2, FilledFacts
    <3>2. QED BY <3>1 DEF Flashes
  <2> HIDE DEF f
  <2>4. Len(f.e2) = Len(flash.e2) BY <1>1, <1>2, <2>2, <2>3, PutFacts
  <2>5. CASE f.e2recvd < f.e2recv
    <3>1. ReadFlash(f) \in Requests BY <2>3, <2>5, FlashRequestFacts
    <3>2. flash' = f BY <2>1, <2>5
    <3>3. <<ReadFlash(f)>> \in Seq(Requests) BY <3>1
    <3>4. LineType' /\ PcTakes /\ PcSends(<<ReadFlash(f)>>) BY <1>2, <2>1, <2>5, <3>3
    <3>5. FlashType'
      <4>1. flash'.open BY <2>2, <2>3, <3>2
      <4>2. flash'.e2recvd <= flash'.e2recv BY <2>3, <2>5, <3>2
      <4>3. flash' \in Flashes /\ Len(flash'.e2) <= NorSize BY <1>1, <2>3, <2>4, <3>2
      <4>4. QED BY <4>1, <4>2, <4>3 DEF FlashType
    <3>6. QED BY <1>2, <2>2, <2>3, <2>5, <3>1, <3>2, <3>4, <3>5 DEF f
  <2>6. CASE ~(f.e2recvd < f.e2recv)
    <3>1. flash' = ReadOver(f) BY <2>1, <2>6
    <3>2. flash' \in Flashes /\ ~flash'.reading /\ flash'.e2 = f.e2
      BY <2>3, <3>1, ReadOverFacts
    <3>3. FlashType' BY <1>1, <2>4, <3>2 DEF FlashType
    <3>4. LineType' /\ PcTakes /\ PcSends(<<>>) BY <1>2, <1>3, <2>1, <2>6
    <3>5. QED BY <1>2, <2>2, <2>3, <2>6, <3>1, <3>3, <3>4 DEF f
  <2>7. QED BY <2>5, <2>6
<1>7. QED BY <1>5, <1>6

\* A program that goes on has had its answer confirmed by address and bytes.
LEMMA OnProgrammedMoves ==
  ASSUME IspType, OnProgrammed
  PROVE  /\ FlashType' /\ LineType' /\ PcTakes /\ toPC[1].status = "W25Q_PROGRAM_RES"
         /\ \/ UNCHANGED flash /\ PcSends(<<>>)
            \/ /\ flash.open /\ toPC[1].addr = flash.leOffset + flash.e2sent
               /\ toPC[1].dat = Mid(flash.e2, toPC[1].addr, Len(toPC[1].dat))
               /\ flash'.e2sent = flash.e2sent + Len(toPC[1].dat)
               /\ flash'.counted = flash.counted \o toPC[1].dat
               /\ flash' = [flash EXCEPT !.e2sent = flash'.e2sent, !.counted = flash'.counted]
               /\ \/ ~(flash'.e2sent < flash.e2send) /\ PcSends(<<>>)
                  \/ /\ flash'.e2sent < flash.e2send
                     /\ PcSends(<<ProgramFlash(flash')>>) /\ ProgramFlash(flash') \in Requests
<1>1. flash \in Flashes /\ Len(flash.e2) <= NorSize BY DEF IspType, FlashType
<1>2. /\ pkt = toPC[1] /\ pkt.status = "W25Q_PROGRAM_RES" /\ pkt.dat \in Seq(Byte)
      /\ \A requests \in Seq(Requests) :
           Handled(requests) => LineType' /\ PcTakes /\ PcSends(requests)
  BY ParsedMoves DEF OnProgrammed
<1>3. <<>> \in Seq(Requests) OBVIOUS
<1>4. CASE UNCHANGED flash /\ Handled(<<>>)
  BY <1>2, <1>3, <1>4 DEF IspType, FlashType
<1>5. CASE ~(UNCHANGED flash /\ Handled(<<>>))
  <2>1. /\ flash.open /\ Expected /\ Verified
        /\ flash' = [flash EXCEPT !.e2sent = flash.e2sent + Len(pkt.dat),
                                  !.counted = flash.counted \o pkt.dat]
        /\ Handled(IF flash'.e2sent < flash'.e2send THEN <<ProgramFlash(flash')>> ELSE <<>>)
    BY <1>1, <1>5 DEF OnProgrammed, Verified
  <2>2. flash.e2sent + Len(pkt.dat) \in Nat
    <3>1. Len(pkt.dat) \in Nat BY <1>2
    <3>2. flash.e2sent \in Nat BY <1>1 DEF Flashes
    <3>3. QED BY <3>1, <3>2
  <2>10. flash.counted \o pkt.dat \in Seq(Byte) BY <1>1, <1>2 DEF Flashes
  <2>3. /\ flash' \in Flashes /\ flash'.e2sent = flash.e2sent + Len(pkt.dat)
        /\ flash'.counted = flash.counted \o pkt.dat
        /\ flash'.e2send = flash.e2send /\ flash'.e2 = flash.e2 /\ flash'.open = flash.open
        /\ flash'.reading = flash.reading /\ flash'.e2recv = flash.e2recv
        /\ flash'.e2recvd = flash.e2recvd
    BY <1>1, <2>1, <2>2, <2>10 DEF Flashes
  <2>4. FlashType' BY <2>3 DEF IspType, FlashType
  <2>5. flash'.e2sent \in Nat /\ flash'.e2send \in Nat BY <2>3 DEF Flashes
  <2>6. toPC[1].addr = flash.leOffset + flash.e2sent
        /\ toPC[1].dat = Mid(flash.e2, toPC[1].addr, Len(toPC[1].dat))
    BY <1>2, <2>1 DEF Expected, Verified
  <2>7. CASE flash'.e2sent < flash'.e2send
    <3>1. ProgramFlash(flash') \in Requests BY <2>3, <2>5, <2>7, FlashRequestFacts
    <3>2. <<ProgramFlash(flash')>> \in Seq(Requests) BY <3>1
    <3>3. LineType' /\ PcTakes /\ PcSends(<<ProgramFlash(flash')>>)
      BY <1>2, <2>1, <2>7, <3>2
    <3>4. QED BY <1>2, <2>1, <2>3, <2>4, <2>6, <2>7, <3>1, <3>3
  <2>8. CASE ~(flash'.e2sent < flash'.e2send)
    <3>1. LineType' /\ PcTakes /\ PcSends(<<>>) BY <1>2, <1>3, <2>1, <2>8
    <3>2. QED BY <1>2, <2>1, <2>3, <2>4, <2>6, <2>8, <3>1
  <2>9. QED BY <2>7, <2>8
<1>6. QED BY <1>4, <1>5

-----------------------------------------------------------------------------
\* Every step keeps the types, and the two windows keep to themselves.

LEMMA FlashClickMoves ==
  ASSUME IspType, FlashClick
  PROVE  /\ FlashType' /\ LineType' /\ FlashSends /\ UNCHANGED toPC
         /\ UNCHANGED <<memories, programmer>>
<1>1. CASE slotOpenFlash \/ CloseFlash BY <1>1, OpenMoves DEF FlashClick
<1>2. CASE slotReadFlashSize \/ FlashEraseAll \/ FlashEraseSector
  BY <1>2, CommandMoves DEF FlashClick
<1>3. CASE generateData BY <1>3, GenerateMoves DEF FlashClick, line
<1>4. CASE FlashProgram BY <1>4, FlashProgramMoves DEF FlashClick
<1>5. CASE FlashRead \/ ReadAppAndCalcCrc32
  <2>1. /\ LineType' /\ FlashSends /\ UNCHANGED toPC
        /\ \E button, offset, n : StartsRead(button, offset, n) /\ n \in Nat
    <3>1. CASE FlashRead BY <3>1, FlashReadMoves
    <3>2. CASE ReadAppAndCalcCrc32
      <4>1. PICK byMaster \in BOOLEAN, offset \in AppAddresses :
              StartsRead(ByRecord(byMaster), offset, ShownInfo(flash, byMaster, offset).size)
              /\ Len(flash.e2) = NorSize
        BY <3>2, ReadAppMoves
      <4>2. ShownInfo(flash, byMaster, offset).size \in Nat
        BY <4>1, ShownInfoFacts DEF IspType, FlashType
      <4>3. LineType' /\ FlashSends /\ UNCHANGED toPC BY <3>2, ReadAppMoves
      <4>4. QED BY <4>1, <4>2, <4>3
    <3>3. QED BY <1>5, <3>1, <3>2
  <2>2. PICK button, offset, n : StartsRead(button, offset, n) /\ n \in Nat BY <2>1
  <2>3. FlashType'
    <3>1. flash' \in Flashes /\ flash'.open BY <2>2 DEF StartsRead
    <3>2. flash'.e2recvd <= flash'.e2recv BY <2>2 DEF StartsRead
    <3>3. Len(flash'.e2) <= NorSize BY <2>2 DEF StartsRead, IspType, FlashType
    <3>4. QED BY <3>1, <3>2, <3>3 DEF FlashType
  <2>4. QED BY <2>1, <2>3 DEF FlashClick
<1>6. QED BY <1>1, <1>2, <1>3, <1>4, <1>5 DEF FlashClick

\* What the flash window sends when it handles an answer.
LEMMA FlashParsedMoves ==
  ASSUME IspType, FlashParsed
  PROVE  /\ FlashType' /\ LineType' /\ PcTakes /\ UNCHANGED <<memories, programmer>>
         /\ toPC[1].status \in FlashStatuses /\ FlashSends
<1>1. UNCHANGED <<memories, programmer>> BY DEF FlashParsed
<1>2. PcSends(<<>>) => FlashSends
  <2>1. <<>> \in Seq(Requests) /\ Len(<<>>) = 0 OBVIOUS
  <2>2. \A k \in 1 .. Len(<<>>) : <<>>[k].cmd \in FlashCmds BY <2>1
  <2>3. QED BY <2>1, <2>2 DEF FlashSends
<1>3. \A r \in Requests : PcSends(<<r>>) /\ r.cmd \in FlashCmds => FlashSends
  <2>1. SUFFICES ASSUME NEW r \in Requests, PcSends(<<r>>), r.cmd \in FlashCmds PROVE FlashSends
    OBVIOUS
  <2>2. <<r>> \in Seq(Requests) /\ Len(<<r>>) = 1 /\ <<r>>[1] = r OBVIOUS
  <2>3. \A k \in 1 .. Len(<<r>>) : <<r>>[k].cmd \in FlashCmds BY <2>1, <2>2
  <2>4. QED BY <2>1, <2>2, <2>3, Zenon DEF FlashSends
<1>4. CASE OnSize \/ OnErased
  BY <1>1, <1>2, <1>4, OnSizeMoves, OnErasedMoves DEF FlashStatuses
<1>5. CASE OnData
  <2>1. FlashType' /\ LineType' /\ PcTakes /\ toPC[1].status = "W25Q_DATA" BY <1>5, OnDataMoves
  <2>2. CASE PcSends(<<>>) BY <1>1, <1>2, <2>1, <2>2 DEF FlashStatuses
  <2>3. CASE ~PcSends(<<>>)
    <3>1. PICK r \in Requests : r = ReadFlash(flash') /\ PcSends(<<r>>)
      BY <1>5, <2>3, OnDataMoves
    <3>2. r.cmd \in FlashCmds BY <3>1 DEF ReadFlash, Request, FlashCmds
    <3>3. QED BY <1>1, <1>3, <2>1, <3>1, <3>2 DEF FlashStatuses
  <2>4. QED BY <2>2, <2>3
<1>6. CASE OnProgrammed
  <2>1. FlashType' /\ LineType' /\ PcTakes /\ toPC[1].status = "W25Q_PROGRAM_RES"
    BY <1>6, OnProgrammedMoves
  <2>2. CASE PcSends(<<>>) BY <1>1, <1>2, <2>1, <2>2 DEF FlashStatuses
  <2>3. CASE ~PcSends(<<>>)
    <3>1. PICK r \in Requests : r = ProgramFlash(flash') /\ PcSends(<<r>>)
      BY <1>6, <2>3, OnProgrammedMoves
    <3>2. r.cmd \in FlashCmds BY <3>1 DEF ProgramFlash, Request, FlashCmds
    <3>3. QED BY <1>1, <1>3, <2>1, <3>1, <3>2 DEF FlashStatuses
  <2>4. QED BY <2>2, <2>3
<1>7. QED BY <1>4, <1>5, <1>6 DEF FlashParsed

LEMMA InitType ==
  ASSUME Init PROVE IspType
<1>1. LineType BY DEF Init, BoardInit, LineType
<1>2. MemoryType
  <2>1. \A b \in OldBytes : b \in Byte BY IspBoardAssumption DEF Byte, Torn
  <2>2. Blank \in Byte BY DEF Byte, Blank, Torn
  <2>3. QED BY <2>1, <2>2 DEF Init, BoardInit, MemoryType
<1>3. ProgrammerType
  <2>1. File \in Seq(Byte)
    <3>1. DataBytes \subseteq Byte BY IspBoardAssumption DEF Byte, Torn
    <3>2. File \in Seq(DataBytes) BY ProgrammerAssumption
    <3>3. QED BY <3>1, <3>2
  <2>2. programmer = [e2 |-> File, e2sent |-> 0, e2recv |-> 0, leReadOffset |-> 0,
                      leReadLen |-> 0, last |-> None, log |-> None]
    BY DEF Init, ProgrammerInit, None
  <2>3. Len(File) \in Nat BY <2>1
  <2>4. QED BY <2>1, <2>2, <2>3, Names DEF ProgrammerType, Programmers
<1>4. FlashType
  <2>1. flash = Opened(FALSE) BY DEF Init, FlashInit
  <2>2. QED BY <2>1, OpenedType DEF FlashType
<1>5. QED BY <1>1, <1>2, <1>3, <1>4 DEF IspType

LEMMA NextType ==
  ASSUME IspType, [Next]_vars PROVE IspType'
<1>1. CASE Board
  <2>1. LineType' /\ MemoryType' BY <1>1, BoardType DEF Board
  <2>2. QED BY <1>1, <2>1 DEF Board, IspType, ProgrammerType, FlashType
<1>2. CASE Operator
  <2>1. CASE ProgrammerClick /\ UNCHANGED flash
    BY <2>1, ProgrammerClickMoves DEF IspType, FlashType, MemoryType, ProgrammerClick, memories
  <2>2. CASE FlashClick
    BY <2>2, FlashClickMoves DEF IspType, ProgrammerType, MemoryType, memories
  <2>3. QED BY <1>2, <2>1, <2>2 DEF Operator
<1>3. CASE Answers
  <2>1. CASE ProgrammerParsed /\ UNCHANGED flash
    <3>1. LineType' /\ ProgrammerType'
      BY <2>1, OnOkMoves, OnFailedMoves, OnRomMoves DEF ProgrammerParsed
    <3>2. QED BY <2>1, <3>1 DEF IspType, FlashType, MemoryType, ProgrammerParsed, memories
  <2>2. CASE FlashParsed
    BY <2>2, FlashParsedMoves DEF IspType, ProgrammerType, MemoryType, memories
  <2>3. QED BY <1>3, <2>1, <2>2 DEF Answers
<1>4. CASE timerEvent
  BY <1>4, TimerMoves DEF timerEvent, IspType, ProgrammerType, MemoryType, memories
<1>5. CASE Line
  <2>1. LineType' BY <1>5, LoseMoves DEF Line, IspType
  <2>2. QED BY <1>5, <2>1 DEF Line, Lose, IspType, ProgrammerType, FlashType, MemoryType, memories
<1>6. CASE UNCHANGED vars
  BY <1>6 DEF vars, memories, line, IspType, LineType, MemoryType, ProgrammerType, FlashType
<1>7. QED BY <1>1, <1>2, <1>3, <1>4, <1>5, <1>6 DEF Next

\* The variables hold what they may hold.
THEOREM IspTypes == Spec => []IspType
<1>1. Init => IspType BY InitType
<1>2. IspType /\ [Next]_vars => IspType' BY NextType
<1>3. QED BY <1>1, <1>2, PTL DEF Spec

-----------------------------------------------------------------------------
\* One exchange at a time: of the requests with some names and the answers
\* with some, nothing is under way, one request, or one answer.

ToBoard == {toBoard[k] : k \in 1 .. Len(toBoard)}
ToPC    == {toPC[k] : k \in 1 .. Len(toPC)}

NoRequest(C) == \A k \in 1 .. Len(toBoard) : toBoard[k].cmd \notin C
NoAnswer(S)  == \A k \in 1 .. Len(toPC) : toPC[k].status \notin S

Quiet(C, S) == NoRequest(C) /\ NoAnswer(S)

Asked(C, S, r) ==
  /\ r.cmd \in C /\ NoAnswer(S)
  /\ \E i \in 1 .. Len(toBoard) :
       toBoard[i] = r /\ \A k \in 1 .. Len(toBoard) : toBoard[k].cmd \in C => k = i

Answered(C, S, a) ==
  /\ a.status \in S /\ NoRequest(C)
  /\ \E i \in 1 .. Len(toPC) :
       toPC[i] = a /\ \A k \in 1 .. Len(toPC) : toPC[k].status \in S => k = i

LEMMA BoardExchange ==
  ASSUME LineType, NEW C, NEW S, NEW answer, BoardTakes(answer),
         toBoard[1].cmd \in C <=> answer.status \in S
  PROVE  /\ Quiet(C, S) => Quiet(C, S)'
         /\ \A r : Asked(C, S, r) =>
              \/ Asked(C, S, r)' /\ toBoard[1].cmd \notin C
              \/ Answered(C, S, answer)' /\ r = toBoard[1]
         /\ \A a : Answered(C, S, a) => Answered(C, S, a)' /\ toBoard[1].cmd \notin C
<1>1. /\ Len(toBoard) \in Nat /\ Len(toBoard) > 0 /\ Len(toBoard') = Len(toBoard) - 1
      /\ \A k \in 1 .. Len(toBoard') : toBoard'[k] = toBoard[k + 1]
      /\ Len(toPC) \in Nat /\ Len(toPC') = Len(toPC) + 1
      /\ \A k \in 1 .. Len(toPC) : toPC'[k] = toPC[k]
      /\ toPC'[Len(toPC')] = answer
  BY DEF LineType, BoardTakes
<1>0. /\ 1 \in 1 .. Len(toBoard)
      /\ \A k \in 1 .. Len(toBoard') : toBoard'[k].cmd \in C =>
           k + 1 \in 1 .. Len(toBoard) /\ toBoard[k + 1].cmd \in C /\ k + 1 # 1
      /\ \A k \in 1 .. Len(toPC') : toPC'[k].status \in S =>
           \/ k \in 1 .. Len(toPC) /\ toPC[k].status \in S
           \/ k = Len(toPC') /\ answer.status \in S
  <2>1. \A k \in 1 .. Len(toBoard') : k + 1 \in 1 .. Len(toBoard) /\ k + 1 # 1 BY <1>1
  <2>2. \A k \in 1 .. Len(toPC') : k \in 1 .. Len(toPC) \/ k = Len(toPC') BY <1>1
  <2>3. QED BY <1>1, <2>1, <2>2
<1>2. Quiet(C, S) => Quiet(C, S)' BY <1>0 DEF Quiet, NoRequest, NoAnswer
<1>3. ASSUME NEW r, Asked(C, S, r)
      PROVE  \/ Asked(C, S, r)' /\ toBoard[1].cmd \notin C
             \/ Answered(C, S, answer)' /\ r = toBoard[1]
  <2>1. PICK i \in 1 .. Len(toBoard) :
          toBoard[i] = r /\ \A k \in 1 .. Len(toBoard) : toBoard[k].cmd \in C => k = i
    BY <1>3 DEF Asked
  <2>2. CASE i = 1
    <3>1. answer.status \in S BY <1>3, <2>1, <2>2 DEF Asked
    <3>2. NoRequest(C)' BY <1>0, <2>1, <2>2 DEF NoRequest
    <3>3. \A k \in 1 .. Len(toPC') : toPC'[k].status \in S => k = Len(toPC')
      BY <1>0, <1>3 DEF Asked, NoAnswer
    <3>4. QED BY <1>1, <2>1, <2>2, <3>1, <3>2, <3>3 DEF Answered
  <2>3. CASE i # 1
    <3>1. toBoard[1].cmd \notin C BY <1>0, <2>1, <2>3
    <3>2. NoAnswer(S)' BY <1>0, <1>3, <3>1 DEF Asked, NoAnswer
    <3>3. i - 1 \in 1 .. Len(toBoard') /\ toBoard'[i - 1] = r
      <4>1. i - 1 \in 1 .. Len(toBoard') /\ i - 1 + 1 = i BY <1>1, <2>3
      <4>2. QED BY <1>1, <2>1, <4>1
    <3>4. \A k \in 1 .. Len(toBoard') : toBoard'[k].cmd \in C => k = i - 1
      <4>1. \A k \in 1 .. Len(toBoard') : toBoard'[k].cmd \in C => k + 1 = i BY <1>0, <2>1
      <4>2. QED BY <4>1
    <3>5. QED BY <1>3, <3>1, <3>2, <3>3, <3>4 DEF Asked
  <2>4. QED BY <2>2, <2>3
<1>4. ASSUME NEW a, Answered(C, S, a)
      PROVE  Answered(C, S, a)' /\ toBoard[1].cmd \notin C
  <2>1. toBoard[1].cmd \notin C /\ NoRequest(C)' BY <1>0, <1>4 DEF Answered, NoRequest
  <2>2. PICK i \in 1 .. Len(toPC) :
          toPC[i] = a /\ \A k \in 1 .. Len(toPC) : toPC[k].status \in S => k = i
    BY <1>4 DEF Answered
  <2>3. i \in 1 .. Len(toPC') /\ toPC'[i] = a BY <1>1, <2>2
  <2>4. \A k \in 1 .. Len(toPC') : toPC'[k].status \in S => k = i BY <1>0, <2>1, <2>2
  <2>5. QED BY <1>4, <2>1, <2>3, <2>4 DEF Answered
<1>5. QED BY <1>2, <1>3, <1>4

LEMMA SendExchange ==
  ASSUME LineType, NEW C, NEW S, NEW requests \in Seq(Requests), PcSends(requests),
         UNCHANGED toPC
  PROVE  /\ (\A k \in 1 .. Len(requests) : requests[k].cmd \notin C) =>
              /\ Quiet(C, S) => Quiet(C, S)'
              /\ \A r : Asked(C, S, r) => Asked(C, S, r)'
              /\ \A a : Answered(C, S, a) => Answered(C, S, a)'
         /\ \A r : Quiet(C, S) /\ requests = <<r>> /\ r.cmd \in C => Asked(C, S, r)'
<1>1. /\ Len(toBoard) \in Nat /\ Len(requests) \in Nat
      /\ Len(toBoard') = Len(toBoard) + Len(requests)
      /\ \A k \in 1 .. Len(toBoard) : toBoard'[k] = toBoard[k]
      /\ \A k \in 1 .. Len(requests) : toBoard'[Len(toBoard) + k] = requests[k]
  BY DEF LineType, PcSends
<1>2. \A k \in 1 .. Len(toBoard') :
        k \in 1 .. Len(toBoard) \/ (\E j \in 1 .. Len(requests) : k = Len(toBoard) + j)
  <2>1. SUFFICES ASSUME NEW k \in 1 .. Len(toBoard'), k \notin 1 .. Len(toBoard)
                 PROVE  \E j \in 1 .. Len(requests) : k = Len(toBoard) + j
    OBVIOUS
  <2>2. k - Len(toBoard) \in 1 .. Len(requests) /\ k = Len(toBoard) + (k - Len(toBoard))
    BY <1>1, <2>1
  <2>3. QED BY <2>2
<1>3. NoAnswer(S) => NoAnswer(S)' BY DEF NoAnswer
<1>4. ASSUME \A k \in 1 .. Len(requests) : requests[k].cmd \notin C
      PROVE  /\ NoRequest(C) => NoRequest(C)'
             /\ \A r : Asked(C, S, r) => Asked(C, S, r)'
             /\ \A a : Answered(C, S, a) => Answered(C, S, a)'
  <2>1. \A k \in 1 .. Len(toBoard') : toBoard'[k].cmd \in C =>
          k \in 1 .. Len(toBoard) /\ toBoard[k].cmd \in C
    BY <1>1, <1>2, <1>4
  <2>2. NoRequest(C) => NoRequest(C)' BY <2>1 DEF NoRequest
  <2>3. \A r : Asked(C, S, r) => Asked(C, S, r)'
    <3>1. SUFFICES ASSUME NEW r, Asked(C, S, r) PROVE Asked(C, S, r)' OBVIOUS
    <3>2. PICK i \in 1 .. Len(toBoard) :
            toBoard[i] = r /\ \A k \in 1 .. Len(toBoard) : toBoard[k].cmd \in C => k = i
      BY <3>1 DEF Asked
    <3>3. i \in 1 .. Len(toBoard') /\ toBoard'[i] = r BY <1>1, <3>2
    <3>4. \A k \in 1 .. Len(toBoard') : toBoard'[k].cmd \in C => k = i BY <2>1, <3>2
    <3>5. QED BY <1>3, <3>1, <3>3, <3>4 DEF Asked
  <2>4. \A a : Answered(C, S, a) => Answered(C, S, a)' BY <2>2 DEF Answered
  <2>5. QED BY <2>2, <2>3, <2>4
<1>5. ASSUME NEW r, Quiet(C, S), requests = <<r>>, r.cmd \in C PROVE Asked(C, S, r)'
  <2>1. Len(requests) = 1 /\ requests[1] = r BY <1>5
  <2>2. Len(toBoard') = Len(toBoard) + 1 /\ toBoard'[Len(toBoard')] = r BY <1>1, <2>1
  <2>3. \A k \in 1 .. Len(toBoard') : toBoard'[k].cmd \in C => k = Len(toBoard')
    BY <1>1, <1>5, <2>2 DEF Quiet, NoRequest
  <2>4. Len(toBoard') \in 1 .. Len(toBoard') BY <1>1, <2>2
  <2>5. QED BY <1>3, <1>5, <2>2, <2>3, <2>4 DEF Asked, Quiet
<1>6. QED BY <1>3, <1>4, <1>5 DEF Quiet

LEMMA TakeExchange ==
  ASSUME LineType, NEW C, NEW S, NEW requests \in Seq(Requests), PcSends(requests), PcTakes
  PROVE  /\ (\A k \in 1 .. Len(requests) : requests[k].cmd \notin C) /\ toPC[1].status \notin S =>
              /\ Quiet(C, S) => Quiet(C, S)'
              /\ \A r : Asked(C, S, r) => Asked(C, S, r)'
              /\ \A a : Answered(C, S, a) => Answered(C, S, a)'
         /\ toPC[1].status \in S =>
              /\ ~Quiet(C, S) /\ \A r : ~Asked(C, S, r)
              /\ \A a : Answered(C, S, a) =>
                   /\ a = toPC[1]
                   /\ (\A k \in 1 .. Len(requests) : requests[k].cmd \notin C) => Quiet(C, S)'
                   /\ \A r : requests = <<r>> /\ r.cmd \in C => Asked(C, S, r)'
<1>1. /\ Len(toBoard) \in Nat /\ Len(requests) \in Nat
      /\ Len(toBoard') = Len(toBoard) + Len(requests)
      /\ \A k \in 1 .. Len(toBoard) : toBoard'[k] = toBoard[k]
      /\ \A k \in 1 .. Len(requests) : toBoard'[Len(toBoard) + k] = requests[k]
      /\ Len(toPC) \in Nat /\ Len(toPC) > 0 /\ Len(toPC') = Len(toPC) - 1
      /\ \A k \in 1 .. Len(toPC') : toPC'[k] = toPC[k + 1]
  BY DEF LineType, PcSends, PcTakes
<1>2. \A k \in 1 .. Len(toBoard') :
        k \in 1 .. Len(toBoard) \/ (\E j \in 1 .. Len(requests) : k = Len(toBoard) + j)
  <2>1. SUFFICES ASSUME NEW k \in 1 .. Len(toBoard'), k \notin 1 .. Len(toBoard)
                 PROVE  \E j \in 1 .. Len(requests) : k = Len(toBoard) + j
    OBVIOUS
  <2>2. k - Len(toBoard) \in 1 .. Len(requests) /\ k = Len(toBoard) + (k - Len(toBoard))
    BY <1>1, <2>1
  <2>3. QED BY <2>2
<1>0. /\ 1 \in 1 .. Len(toPC)
      /\ \A k \in 1 .. Len(toPC') : toPC'[k].status \in S =>
           k + 1 \in 1 .. Len(toPC) /\ toPC[k + 1].status \in S /\ k + 1 # 1
  <2>1. \A k \in 1 .. Len(toPC') : k + 1 \in 1 .. Len(toPC) /\ k + 1 # 1 BY <1>1
  <2>2. QED BY <1>1, <2>1
<1>3. NoAnswer(S) => NoAnswer(S)' /\ toPC[1].status \notin S BY <1>0 DEF NoAnswer
<1>4. ASSUME \A k \in 1 .. Len(requests) : requests[k].cmd \notin C
      PROVE  NoRequest(C) => NoRequest(C)'
  BY <1>1, <1>2, <1>4 DEF NoRequest
<1>5. ASSUME \A k \in 1 .. Len(requests) : requests[k].cmd \notin C, toPC[1].status \notin S
      PROVE  /\ \A r : Asked(C, S, r) => Asked(C, S, r)'
             /\ \A a : Answered(C, S, a) => Answered(C, S, a)'
  <2>1. ASSUME NEW r, Asked(C, S, r) PROVE Asked(C, S, r)'
    <3>1. \A k \in 1 .. Len(toBoard') : toBoard'[k].cmd \in C =>
            k \in 1 .. Len(toBoard) /\ toBoard[k].cmd \in C
      BY <1>1, <1>2, <1>5
    <3>2. PICK i \in 1 .. Len(toBoard) :
            toBoard[i] = r /\ \A k \in 1 .. Len(toBoard) : toBoard[k].cmd \in C => k = i
      BY <2>1 DEF Asked
    <3>3. i \in 1 .. Len(toBoard') /\ toBoard'[i] = r BY <1>1, <3>2
    <3>4. \A k \in 1 .. Len(toBoard') : toBoard'[k].cmd \in C => k = i BY <3>1, <3>2
    <3>5. QED BY <1>3, <2>1, <3>3, <3>4 DEF Asked
  <2>2. ASSUME NEW a, Answered(C, S, a) PROVE Answered(C, S, a)'
    <3>1. PICK i \in 1 .. Len(toPC) :
            toPC[i] = a /\ \A k \in 1 .. Len(toPC) : toPC[k].status \in S => k = i
      BY <2>2 DEF Answered
    <3>2. i # 1 BY <1>5, <2>2, <3>1 DEF Answered
    <3>3. i - 1 \in 1 .. Len(toPC') /\ toPC'[i - 1] = a
      <4>1. i - 1 \in 1 .. Len(toPC') /\ i - 1 + 1 = i BY <1>1, <3>2
      <4>2. QED BY <1>1, <3>1, <4>1
    <3>4. \A k \in 1 .. Len(toPC') : toPC'[k].status \in S => k = i - 1
      <4>1. \A k \in 1 .. Len(toPC') : toPC'[k].status \in S => k + 1 = i BY <1>0, <3>1
      <4>2. QED BY <4>1
    <3>5. QED BY <1>4, <1>5, <2>2, <3>3, <3>4 DEF Answered
  <2>3. QED BY <2>1, <2>2
<1>6. ASSUME NEW a, Answered(C, S, a), toPC[1].status \in S
      PROVE  /\ a = toPC[1] /\ NoAnswer(S)' /\ NoRequest(C)
             /\ \A r : requests = <<r>> /\ r.cmd \in C => Asked(C, S, r)'
  <2>1. PICK i \in 1 .. Len(toPC) :
          toPC[i] = a /\ \A k \in 1 .. Len(toPC) : toPC[k].status \in S => k = i
    BY <1>6 DEF Answered
  <2>2. i = 1 BY <1>0, <1>6, <2>1
  <2>3. NoAnswer(S)' BY <1>0, <2>1, <2>2 DEF NoAnswer
  <2>4. ASSUME NEW r, requests = <<r>>, r.cmd \in C PROVE Asked(C, S, r)'
    <3>1. Len(requests) = 1 /\ requests[1] = r BY <2>4
    <3>2. Len(toBoard') = Len(toBoard) + 1 /\ toBoard'[Len(toBoard')] = r BY <1>1, <3>1
    <3>3. \A k \in 1 .. Len(toBoard') : toBoard'[k].cmd \in C => k = Len(toBoard')
      BY <1>1, <1>6, <3>2 DEF Answered, NoRequest
    <3>4. Len(toBoard') \in 1 .. Len(toBoard') BY <1>1, <3>2
    <3>5. QED BY <2>3, <2>4, <3>2, <3>3, <3>4 DEF Asked
  <2>5. QED BY <1>6, <2>1, <2>2, <2>3, <2>4 DEF Answered
<1>7. QED BY <1>3, <1>4, <1>5, <1>6 DEF Quiet, Asked

LEMMA LoseExchange ==
  ASSUME LineType, NEW C, NEW S, Lose
  PROVE  /\ Quiet(C, S) => Quiet(C, S)'
         /\ \A r : Asked(C, S, r) => Asked(C, S, r)' \/ Quiet(C, S)'
         /\ \A a : Answered(C, S, a) => Answered(C, S, a)' \/ Quiet(C, S)'
<1>1. CASE /\ UNCHANGED toPC /\ toBoard # <<>> /\ Len(toBoard') = Len(toBoard) - 1
           /\ \A k \in 1 .. Len(toBoard') : toBoard'[k] = toBoard[k + 1]
  <2>1. Len(toBoard) \in Nat /\ Len(toBoard) > 0 BY <1>1 DEF LineType
  <2>0. \A k \in 1 .. Len(toBoard') : toBoard'[k].cmd \in C =>
           k + 1 \in 1 .. Len(toBoard) /\ toBoard[k + 1].cmd \in C /\ k + 1 # 1
    <3>1. \A k \in 1 .. Len(toBoard') : k + 1 \in 1 .. Len(toBoard) /\ k + 1 # 1 BY <1>1, <2>1
    <3>2. QED BY <1>1, <3>1
  <2>2. NoRequest(C) => NoRequest(C)' BY <2>0 DEF NoRequest
  <2>3. NoAnswer(S) => NoAnswer(S)' BY <1>1 DEF NoAnswer
  <2>4. ASSUME NEW r, Asked(C, S, r) PROVE Asked(C, S, r)' \/ Quiet(C, S)'
    <3>1. PICK i \in 1 .. Len(toBoard) :
            toBoard[i] = r /\ \A k \in 1 .. Len(toBoard) : toBoard[k].cmd \in C => k = i
      BY <2>4 DEF Asked
    <3>2. CASE i = 1
      <4>1. NoRequest(C)' BY <2>0, <3>1, <3>2 DEF NoRequest
      <4>2. QED BY <2>3, <2>4, <4>1 DEF Asked, Quiet
    <3>3. CASE i # 1
      <4>1. i - 1 \in 1 .. Len(toBoard') /\ toBoard'[i - 1] = r
        <5>1. i - 1 \in 1 .. Len(toBoard') /\ i - 1 + 1 = i BY <1>1, <2>1, <3>3
        <5>2. QED BY <1>1, <3>1, <5>1
      <4>2. \A k \in 1 .. Len(toBoard') : toBoard'[k].cmd \in C => k = i - 1
        <5>1. \A k \in 1 .. Len(toBoard') : toBoard'[k].cmd \in C => k + 1 = i BY <2>0, <3>1
        <5>2. QED BY <5>1
      <4>3. QED BY <2>3, <2>4, <4>1, <4>2 DEF Asked
    <3>4. QED BY <3>2, <3>3
  <2>5. \A a : Answered(C, S, a) => Answered(C, S, a)' BY <1>1, <2>2 DEF Answered
  <2>6. QED BY <2>2, <2>3, <2>4, <2>5 DEF Quiet
<1>2. CASE PcTakes /\ UNCHANGED toBoard
  <2>1. /\ Len(toPC) \in Nat /\ Len(toPC) > 0 /\ Len(toPC') = Len(toPC) - 1
        /\ \A k \in 1 .. Len(toPC') : toPC'[k] = toPC[k + 1]
    BY <1>2 DEF LineType, PcTakes
  <2>0. \A k \in 1 .. Len(toPC') : toPC'[k].status \in S =>
           k + 1 \in 1 .. Len(toPC) /\ toPC[k + 1].status \in S /\ k + 1 # 1
    <3>1. \A k \in 1 .. Len(toPC') : k + 1 \in 1 .. Len(toPC) /\ k + 1 # 1 BY <2>1
    <3>2. QED BY <2>1, <3>1
  <2>2. NoRequest(C) => NoRequest(C)' BY <1>2 DEF NoRequest
  <2>3. NoAnswer(S) => NoAnswer(S)' BY <2>0 DEF NoAnswer
  <2>4. ASSUME NEW a, Answered(C, S, a) PROVE Answered(C, S, a)' \/ Quiet(C, S)'
    <3>1. PICK i \in 1 .. Len(toPC) :
            toPC[i] = a /\ \A k \in 1 .. Len(toPC) : toPC[k].status \in S => k = i
      BY <2>4 DEF Answered
    <3>2. CASE i = 1
      <4>1. NoAnswer(S)' BY <2>0, <3>1, <3>2 DEF NoAnswer
      <4>2. QED BY <2>2, <2>4, <4>1 DEF Answered, Quiet
    <3>3. CASE i # 1
      <4>1. i - 1 \in 1 .. Len(toPC') /\ toPC'[i - 1] = a
        <5>1. i - 1 \in 1 .. Len(toPC') /\ i - 1 + 1 = i BY <2>1, <3>3
        <5>2. QED BY <2>1, <3>1, <5>1
      <4>2. \A k \in 1 .. Len(toPC') : toPC'[k].status \in S => k = i - 1
        <5>1. \A k \in 1 .. Len(toPC') : toPC'[k].status \in S => k + 1 = i BY <2>0, <3>1
        <5>2. QED BY <5>1
      <4>3. QED BY <2>2, <2>4, <4>1, <4>2 DEF Answered
    <3>4. QED BY <3>2, <3>3
  <2>5. \A r : Asked(C, S, r) => Asked(C, S, r)' BY <1>2, <2>3 DEF Asked
  <2>6. QED BY <2>2, <2>3, <2>4, <2>5 DEF Quiet
<1>3. QED BY <1>1, <1>2, LoseMoves

-----------------------------------------------------------------------------
\* The main window.  Program and Read ROM have one exchange going at a time,
\* and whatever is under way continues what the window has counted so far.

\* The chip holds the first n bytes of the buffer.
ChipHolds(n) ==
  \A k \in 1 .. n : chip[IAP_ADDR_APP_START + k - 1] = programmer.e2[k]

\* The chunk on its way to the board ends where the window has counted to.
ChunkAsked(r) ==
  /\ r.cmd = "PROGRAM" /\ r.addr + Len(r.dat) = programmer.e2sent
  /\ \A k \in 1 .. Len(r.dat) : r.dat[k] = programmer.e2[r.addr + k]
  /\ ChipHolds(r.addr)

ChunkAnswered(a) ==
  \/ a.status = "PROGRAM_FAILED"
  \/ a.status = "OK" /\ a.dat = <<>> /\ ChipHolds(programmer.e2sent)

Programs ==
  /\ programmer.e2sent = 0 => Len(programmer.e2) = 0
  /\ \/ /\ Quiet(MainCmds, MainStatuses)
        /\ programmer.log = "OK" => ChipHolds(Len(programmer.e2))
     \/ /\ programmer.log # "OK"
        /\ \/ \E r \in ToBoard : Asked(MainCmds, MainStatuses, r) /\ ChunkAsked(r)
           \/ \E a \in ToPC : Answered(MainCmds, MainStatuses, a) /\ ChunkAnswered(a)

\* What is read next.
RomAsked(r) ==
  /\ r.cmd = "READ" /\ r.addr = programmer.leReadOffset + programmer.e2recv
  /\ r.size <= PKT_DAT_MAX_LEN

RomAnswered(a) ==
  /\ a.status = "ROM" /\ Len(a.dat) <= PKT_DAT_MAX_LEN
  /\ \A k \in 1 .. Len(a.dat) :
       a.dat[k] = chip[(programmer.leReadOffset + programmer.e2recv + k - 1) % STC_ROM_SIZE]

RomShown ==
  \A k \in 1 .. programmer.e2recv :
    programmer.e2[k] = chip[(programmer.leReadOffset + k - 1) % STC_ROM_SIZE]

ReadsRom ==
  /\ <<programmer.leReadOffset, programmer.leReadLen>> \in RomRanges
  /\ RomShown
  /\ \/ Quiet(MainCmds, MainStatuses)
     \/ /\ programmer.e2recv < programmer.leReadLen
        /\ \/ \E r \in ToBoard : Asked(MainCmds, MainStatuses, r) /\ RomAsked(r)
           \/ \E a \in ToPC : Answered(MainCmds, MainStatuses, a) /\ RomAnswered(a)

MainInv ==
  /\ IAP_ADDR_APP_START + Len(programmer.e2) <= STC_ROM_SIZE
  /\ programmer.last # ReadRomName => Quiet({"READ"}, {"ROM"})
  /\ programmer.last = "Program" => Programs
  /\ programmer.last = ReadRomName => ReadsRom

-----------------------------------------------------------------------------
\* The flash window.  A read has one exchange going at a time, asks for what
\* follows the bytes it has, and shows the bytes it has counted.

FlashShown ==
  \A k \in 1 .. flash.e2recvd :
    /\ flash.leOffset + k <= Len(flash.e2)
    /\ flash.e2[flash.leOffset + k] = nor[flash.leOffset + k - 1]

DataAnswered(a) ==
  /\ a.status = "W25Q_DATA" /\ a.addr = flash.leOffset + flash.e2recvd
  /\ Len(a.dat) <= flash.e2recv - flash.e2recvd
  /\ \A k \in 1 .. Len(a.dat) : a.dat[k] = nor[(a.addr + k - 1) % NorSize]

ReadsFlash ==
  /\ flash.open /\ flash.e2recvd <= flash.e2recv /\ FlashShown
  /\ \/ Quiet(FlashCmds, FlashStatuses)
     \/ /\ flash.reading
        /\ \/ Asked(FlashCmds, FlashStatuses, ReadFlash(flash))
           \/ \E a \in ToPC : Answered(FlashCmds, FlashStatuses, a) /\ DataAnswered(a)
  /\ ~flash.reading => flash.e2recvd = flash.e2recv
  /\ flash.reading => flash.check = None

\* The check that a record deserves.
CheckDeserved ==
  flash.check = None \/
    LET info == ExpectedInfo(flash)
    IN  (flash.check = "OK") =
          (Crc([k \in 1 .. info.size |-> nor[flash.leOffset + k - 1]]) = info.crc)

ReadsApp ==
  /\ flash.readingMaster = (flash.last = ByMasterName)
  /\ Len(flash.e2) = NorSize /\ flash.leOffset \in AppAddresses
  /\ flash.e2recv = ExpectedInfo(flash).size
  /\ CheckDeserved

FlashInv ==
  /\ flash.last \in ReadButtons => ReadsFlash
  /\ flash.last \in {ByMasterName, ByBackupName} => ReadsApp

-----------------------------------------------------------------------------
\* What the board does with a request.

ChipChanges == {"PROGRAM", "ERASE_APP_AREA", "ERASE_PAGE"}
NorChanges  == {"ERASE_W25Q_ALL", "ERASE_W25Q_SECTOR", "PROGRAM_W25Q"}

\* A chunk that the board reports programmed is in the chip.
ChunkProgrammed(r, a) ==
  \/ a.status = "PROGRAM_FAILED"
  \/ /\ a.status = "OK" /\ a.dat = <<>>
     /\ \A k \in 1 .. Len(r.dat) : chip'[IAP_ADDR_APP_START + r.addr + k - 1] = r.dat[k]
     /\ \A c \in ChipAddresses : c < IAP_ADDR_APP_START + r.addr => chip'[c] = chip[c]

BoardDoes(r, a) ==
  /\ BoardTakes(a)
  /\ r.cmd \in MainCmds <=> a.status \in MainStatuses
  /\ r.cmd \in FlashCmds <=> a.status \in FlashStatuses
  /\ r.cmd \notin ChipChanges => UNCHANGED chip
  /\ r.cmd \notin NorChanges => UNCHANGED nor
  /\ r.cmd = "READ" <=> a.status = "ROM"
  /\ r.cmd = "READ" => a.dat = iap_read_bytes(r.addr, r.size)
  /\ r.cmd = "PROGRAM" /\ IAP_ADDR_APP_START + r.addr + Len(r.dat) <= STC_ROM_SIZE =>
       ChunkProgrammed(r, a)
  /\ r.cmd = "READ_W25Q" =>
       a.status = "W25Q_DATA" /\ a.addr = r.addr /\ a.dat = norflash_read(r.addr, r.size)

LEMMA WrittenWhole ==
  ASSUME MemoryType, NEW addr \in Nat, NEW dat \in Seq(Byte), addr + Len(dat) <= STC_ROM_SIZE,
         WriteChecks(addr, dat)
  PROVE  /\ \A k \in 1 .. Len(dat) : Written(chip, addr, dat)[addr + k - 1] = dat[k]
         /\ \A c \in ChipAddresses : c < addr => Written(chip, addr, dat)[c] = chip[c]
<1>1. \A k \in 1 .. Len(dat) : Programmed(chip[addr + k - 1], dat[k]) = dat[k]
  BY DEF WriteChecks
<1>2. \A c \in ChipAddresses :
        Written(chip, addr, dat)[c] =
          IF c \in addr .. addr + Len(dat) - 1
          THEN Programmed(chip[c], dat[c - addr + 1]) ELSE chip[c]
  BY DEF Written, MemoryType
<1>3. ASSUME NEW k \in 1 .. Len(dat) PROVE Written(chip, addr, dat)[addr + k - 1] = dat[k]
  <2>1. Len(dat) \in Nat OBVIOUS
  <2>2. addr + k - 1 \in ChipAddresses BY <2>1, Sizes DEF ChipAddresses
  <2>3. addr + k - 1 \in addr .. addr + Len(dat) - 1 /\ (addr + k - 1) - addr + 1 = k
    BY <2>1
  <2>4. QED BY <1>1, <1>2, <2>2, <2>3
<1>4. \A c \in ChipAddresses : c < addr => Written(chip, addr, dat)[c] = chip[c]
  <2>1. \A c \in ChipAddresses : c \in Int BY Sizes DEF ChipAddresses
  <2>2. QED BY <1>2, <2>1
<1>5. QED BY <1>3, <1>4

LEMMA ProgramDoes ==
  ASSUME IspType, Program
  PROVE  \E a \in Replies :
           /\ BoardTakes(a) /\ a.status \in {"OK", "PROGRAM_FAILED"}
           /\ IAP_ADDR_APP_START + rx.addr + Len(rx.dat) <= STC_ROM_SIZE =>
                ChunkProgrammed(rx, a)
<1>1. /\ toBoard # <<>> /\ rx.dat \in Seq(Byte) /\ rx.addr \in Nat /\ LineType
      /\ chip \in [ChipAddresses -> Byte]
  BY HeadsType DEF Program, Rx, IspType, MemoryType
<1>2. PICK good \in 0 .. Len(rx.dat) :
        /\ WriteChecks(IAP_ADDR_APP_START + rx.addr, SubSeq(rx.dat, 1, good))
        /\ \/ /\ good = Len(rx.dat) /\ Answer("OK", 0, <<>>)
              /\ chip' = Written(chip, IAP_ADDR_APP_START + rx.addr, rx.dat)
           \/ Answer("PROGRAM_FAILED", 0, <<>>)
  BY DEF Program
<1>3. /\ Reply("OK", 0, <<>>) \in Replies /\ Reply("PROGRAM_FAILED", 0, <<>>) \in Replies
      /\ Reply("OK", 0, <<>>).status = "OK" /\ Reply("OK", 0, <<>>).dat = <<>>
      /\ Reply("PROGRAM_FAILED", 0, <<>>).status = "PROGRAM_FAILED"
  BY DEF Reply, Replies, MainStatuses
<1>4. CASE Answer("PROGRAM_FAILED", 0, <<>>)
  BY <1>1, <1>3, <1>4, AnswerMoves DEF ChunkProgrammed
<1>5. CASE /\ good = Len(rx.dat) /\ Answer("OK", 0, <<>>)
           /\ chip' = Written(chip, IAP_ADDR_APP_START + rx.addr, rx.dat)
  <2>1. BoardTakes(Reply("OK", 0, <<>>)) BY <1>1, <1>5, AnswerMoves
  <2>2. ASSUME IAP_ADDR_APP_START + rx.addr + Len(rx.dat) <= STC_ROM_SIZE
        PROVE  /\ \A k \in 1 .. Len(rx.dat) :
                    chip'[IAP_ADDR_APP_START + rx.addr + k - 1] = rx.dat[k]
               /\ \A c \in ChipAddresses : c < IAP_ADDR_APP_START + rx.addr => chip'[c] = chip[c]
    <3>1. PICK addr \in Nat, dat \in Seq(Byte) :
            addr = IAP_ADDR_APP_START + rx.addr /\ dat = rx.dat
      BY <1>1, Sizes
    <3>2. SubSeq(rx.dat, 1, good) = rx.dat BY <1>1, <1>5
    <3>3. WriteChecks(addr, dat) /\ addr + Len(dat) <= STC_ROM_SIZE
      BY <1>2, <2>2, <3>1, <3>2
    <3>4. chip' = Written(chip, addr, dat) BY <1>5, <3>1
    <3>5. MemoryType BY DEF IspType
    <3>6. /\ \A k \in 1 .. Len(dat) : Written(chip, addr, dat)[addr + k - 1] = dat[k]
          /\ \A c \in ChipAddresses : c < addr => Written(chip, addr, dat)[c] = chip[c]
      BY <3>3, <3>5, WrittenWhole
    <3>7. QED BY <3>1, <3>4, <3>6
  <2>3. QED BY <1>3, <2>1, <2>2 DEF ChunkProgrammed
<1>6. QED BY <1>2, <1>4, <1>5

LEMMA BoardEffects ==
  ASSUME IspType, isp_handle
  PROVE  toBoard # <<>> /\ toBoard[1] \in Requests /\ \E a \in Replies : BoardDoes(toBoard[1], a)
<1>1. toBoard # <<>> /\ rx = toBoard[1] /\ rx \in Requests /\ LineType
      /\ rx.addr \in Nat /\ rx.size \in Nat
  BY HeadsType DEF IspType, isp_handle, Connect, ReadLdrVersion, ReadRom, Program, EraseAppArea,
     ErasePage, ReadW25QSize, EraseW25QAll, EraseW25QSector, ReadW25Q, ProgramW25Q, Rx
<1>2. \A s, n, d : Reply(s, n, d) = [status |-> s, addr |-> n, dat |-> d] BY DEF Reply
<1>3. \A s \in MainStatuses \cup FlashStatuses, n \in Nat, d \in Seq(Byte) :
        Answer(s, n, d) => /\ Reply(s, n, d) \in Replies /\ BoardTakes(Reply(s, n, d))
                           /\ Reply(s, n, d).status = s /\ Reply(s, n, d).addr = n
                           /\ Reply(s, n, d).dat = d
  <2>1. SUFFICES ASSUME NEW s \in MainStatuses \cup FlashStatuses, NEW n \in Nat,
                        NEW d \in Seq(Byte), Answer(s, n, d)
                 PROVE  /\ Reply(s, n, d) \in Replies /\ BoardTakes(Reply(s, n, d))
                        /\ Reply(s, n, d).status = s /\ Reply(s, n, d).addr = n
                        /\ Reply(s, n, d).dat = d
    OBVIOUS
  <2>2. BoardTakes(Reply(s, n, d)) BY <1>1, <2>1, AnswerMoves
  <2>3. QED BY <1>2, <2>2 DEF Replies
<1>0. <<>> \in Seq(Byte) OBVIOUS
<1>4. <<>> \in Seq(Byte) /\ <<Blank, Blank>> \in Seq(Byte) /\ 0 \in Nat
  BY DEF Byte, Blank, Torn
<1>5. CASE Connect \/ ReadLdrVersion
  <2>1. PICK s \in {"OK", "LDR_VERSION"}, d \in Seq(Byte) :
          /\ Answer(s, 0, d) /\ UNCHANGED memories
          /\ rx.cmd \in {"CONNECT", "READ_LDR_VERSION"}
    BY <1>1, <1>4, <1>5 DEF Connect, ReadLdrVersion, Rx, rx
  <2>2. s \in MainStatuses BY DEF MainStatuses
  <2>3. /\ Reply(s, 0, d) \in Replies /\ BoardTakes(Reply(s, 0, d)) /\ Reply(s, 0, d).status = s
    BY <1>3, <1>4, <2>1, <2>2
  <2>4. BoardDoes(rx, Reply(s, 0, d))
    BY <2>1, <2>3 DEF BoardDoes, memories, MainCmds, MainStatuses, FlashCmds, FlashStatuses
  <2>5. QED BY <1>1, <2>3, <2>4
<1>6. CASE ReadRom
  <2> DEFINE d == iap_read_bytes(rx.addr, rx.size)
  <2>1. Answer("ROM", 0, d) /\ UNCHANGED memories /\ rx.cmd = "READ"
    BY <1>6 DEF ReadRom, Rx, rx
  <2>2. d \in Seq(Byte) BY <1>1, ReadFacts DEF IspType
  <2> HIDE DEF d
  <2>3. "ROM" \in MainStatuses BY DEF MainStatuses
  <2>4. /\ Reply("ROM", 0, d) \in Replies /\ BoardTakes(Reply("ROM", 0, d))
        /\ Reply("ROM", 0, d).status = "ROM" /\ Reply("ROM", 0, d).dat = d
    BY <1>3, <1>4, <2>1, <2>2, <2>3
  <2>5. BoardDoes(rx, Reply("ROM", 0, d))
    BY <2>1, <2>4 DEF BoardDoes, memories, MainCmds, MainStatuses, FlashCmds, FlashStatuses, d
  <2>6. QED BY <1>1, <2>4, <2>5
<1>7. CASE Program
  <2>1. rx.cmd = "PROGRAM" /\ UNCHANGED nor BY <1>7 DEF Program, Rx, rx
  <2>2. PICK a \in Replies :
          /\ BoardTakes(a) /\ a.status \in {"OK", "PROGRAM_FAILED"}
          /\ IAP_ADDR_APP_START + rx.addr + Len(rx.dat) <= STC_ROM_SIZE =>
               ChunkProgrammed(rx, a)
    BY <1>7, ProgramDoes
  <2>3. BoardDoes(rx, a)
    BY <2>1, <2>2 DEF BoardDoes, MainCmds, MainStatuses, FlashCmds, FlashStatuses, ChipChanges
  <2>4. QED BY <1>1, <2>3
<1>8. CASE EraseAppArea \/ ErasePage
  <2>1. PICK s \in {"OK", "PROGRAM_FAILED", "ERASE_PAGE_FAILED"} :
          /\ Answer(s, 0, <<>>) /\ UNCHANGED nor
          /\ rx.cmd \in {"ERASE_APP_AREA", "ERASE_PAGE"}
    BY <1>8 DEF EraseAppArea, ErasePage, Rx, rx
  <2>2. s \in MainStatuses BY DEF MainStatuses
  <2>3. /\ Reply(s, 0, <<>>) \in Replies /\ BoardTakes(Reply(s, 0, <<>>))
        /\ Reply(s, 0, <<>>).status = s
    <3>1. PICK d \in Seq(Byte) : d = <<>> BY <1>0
    <3>2. Answer(s, 0, d) BY <2>1, <3>1
    <3>3. /\ Reply(s, 0, d) \in Replies /\ BoardTakes(Reply(s, 0, d)) /\ Reply(s, 0, d).status = s
      BY <1>3, <1>4, <2>2, <3>2
    <3>4. QED BY <3>1, <3>3
  <2>4. BoardDoes(rx, Reply(s, 0, <<>>))
    BY <2>1, <2>3
    DEF BoardDoes, ChipChanges, MainCmds, MainStatuses, FlashCmds, FlashStatuses
  <2>5. QED BY <1>1, <2>3, <2>4
<1>9. CASE ReadW25QSize \/ EraseW25QAll \/ EraseW25QSector
  <2>1. PICK s \in {"W25Q_SIZE", "W25Q_ERASE_ALL_RES", "W25Q_ERASE_SECTOR_RES"}, n \in Nat :
          /\ Answer(s, n, <<>>) /\ UNCHANGED chip
          /\ rx.cmd \in {"READ_W25Q_SIZE", "ERASE_W25Q_ALL", "ERASE_W25Q_SECTOR"}
          /\ rx.cmd = "READ_W25Q_SIZE" => UNCHANGED nor
    BY <1>1, <1>4, <1>9
    DEF ReadW25QSize, EraseW25QAll, EraseW25QSector, Rx, rx, memories
  <2>2. s \in FlashStatuses BY DEF FlashStatuses
  <2>3. /\ Reply(s, n, <<>>) \in Replies /\ BoardTakes(Reply(s, n, <<>>))
        /\ Reply(s, n, <<>>).status = s
    <3>1. PICK d \in Seq(Byte) : d = <<>> BY <1>0
    <3>2. Answer(s, n, d) BY <2>1, <3>1
    <3>3. /\ Reply(s, n, d) \in Replies /\ BoardTakes(Reply(s, n, d)) /\ Reply(s, n, d).status = s
      BY <1>3, <1>4, <2>2, <3>2
    <3>4. QED BY <3>1, <3>3
  <2>4. BoardDoes(rx, Reply(s, n, <<>>))
    BY <2>1, <2>3
    DEF BoardDoes, NorChanges, MainCmds, MainStatuses, FlashCmds, FlashStatuses
  <2>5. QED BY <1>1, <2>3, <2>4
<1>10. CASE ReadW25Q
  <2> DEFINE d == norflash_read(rx.addr, rx.size)
  <2>1. Answer("W25Q_DATA", rx.addr, d) /\ UNCHANGED memories /\ rx.cmd = "READ_W25Q"
    BY <1>10 DEF ReadW25Q, Rx, rx
  <2>2. d \in Seq(Byte) BY <1>1, ReadFacts DEF IspType
  <2>3. PICK n \in Nat : n = rx.addr BY <1>1
  <2> HIDE DEF d
  <2>4. "W25Q_DATA" \in FlashStatuses BY DEF FlashStatuses
  <2>5. /\ Reply("W25Q_DATA", n, d) \in Replies /\ BoardTakes(Reply("W25Q_DATA", n, d))
        /\ Reply("W25Q_DATA", n, d).status = "W25Q_DATA" /\ Reply("W25Q_DATA", n, d).addr = n
        /\ Reply("W25Q_DATA", n, d).dat = d
    BY <1>3, <2>1, <2>2, <2>3, <2>4
  <2>6. BoardDoes(rx, Reply("W25Q_DATA", n, d))
    BY <2>1, <2>3, <2>5
    DEF BoardDoes, memories, MainCmds, MainStatuses, FlashCmds, FlashStatuses, d
  <2>7. QED BY <1>1, <2>5, <2>6
<1>11. CASE ProgramW25Q
  <2> DEFINE d == [k \in 1 .. rx.size |-> nor'[(rx.addr + k - 1) % NorSize]]
  <2>1. Answer("W25Q_PROGRAM_RES", rx.addr, d) /\ UNCHANGED chip /\ rx.cmd = "PROGRAM_W25Q"
    BY <1>11 DEF ProgramW25Q, Rx, rx
  <2>2. d \in Seq(Byte)
    <3>1. nor' \in [NorAddresses -> Byte]
      <4>1. isp_handle OBVIOUS
      <4>2. QED BY <4>1, BoardType DEF MemoryType
    <3>2. \A n \in Nat : n % NorSize \in NorAddresses BY Sizes DEF NorAddresses
    <3>3. \A k \in 1 .. rx.size : nor'[(rx.addr + k - 1) % NorSize] \in Byte
      <4>1. \A k \in 1 .. rx.size : rx.addr + k - 1 \in Nat BY <1>1
      <4>2. QED BY <3>1, <3>2, <4>1
    <3>4. QED BY <1>1, <3>3
  <2>3. PICK n \in Nat : n = rx.addr BY <1>1
  <2> HIDE DEF d
  <2>4. "W25Q_PROGRAM_RES" \in FlashStatuses BY DEF FlashStatuses
  <2>5. /\ Reply("W25Q_PROGRAM_RES", n, d) \in Replies
        /\ BoardTakes(Reply("W25Q_PROGRAM_RES", n, d))
        /\ Reply("W25Q_PROGRAM_RES", n, d).status = "W25Q_PROGRAM_RES"
    BY <1>3, <2>1, <2>2, <2>3, <2>4
  <2>6. BoardDoes(rx, Reply("W25Q_PROGRAM_RES", n, d))
    BY <2>1, <2>5
    DEF BoardDoes, NorChanges, MainCmds, MainStatuses, FlashCmds, FlashStatuses
  <2>7. QED BY <1>1, <2>5, <2>6
<1>12. QED BY <1>5, <1>6, <1>7, <1>8, <1>9, <1>10, <1>11 DEF isp_handle

-----------------------------------------------------------------------------
\* The main window's invariant is inductive.

\* A step that may lose what is under way, and changes nothing else of it.
Kept(C, S) ==
  /\ Quiet(C, S) => Quiet(C, S)'
  /\ \A r : Asked(C, S, r) => Asked(C, S, r)' \/ Quiet(C, S)'
  /\ \A a : Answered(C, S, a) => Answered(C, S, a)' \/ Quiet(C, S)'

LEMMA UnderWayPackets ==
  ASSUME NEW C, NEW S
  PROVE  /\ \A r : Asked(C, S, r) => r \in ToBoard
         /\ \A a : Answered(C, S, a) => a \in ToPC
         /\ \A r : Asked(C, S, r)' => r \in ToBoard'
         /\ \A a : Answered(C, S, a)' => a \in ToPC'
<1>1. \A r : Asked(C, S, r) => r \in ToBoard BY DEF Asked, ToBoard
<1>2. \A a : Answered(C, S, a) => a \in ToPC BY DEF Answered, ToPC
<1>3. \A r : Asked(C, S, r)' => r \in ToBoard' BY DEF Asked, ToBoard
<1>4. \A a : Answered(C, S, a)' => a \in ToPC' BY DEF Answered, ToPC
<1>5. QED BY <1>1, <1>2, <1>3, <1>4

LEMMA MainStays ==
  ASSUME MainInv, UNCHANGED <<programmer, chip>>, Kept(MainCmds, MainStatuses),
         Kept({"READ"}, {"ROM"})
  PROVE  MainInv'
<1>1. ASSUME programmer.last # ReadRomName PROVE Quiet({"READ"}, {"ROM"})'
  BY <1>1 DEF MainInv, Kept
<1>2. ASSUME Programs PROVE Programs'
  <2>1. \A n : ChipHolds(n) => ChipHolds(n)' BY DEF ChipHolds
  <2>2. CASE Quiet(MainCmds, MainStatuses)
    <3>1. Quiet(MainCmds, MainStatuses)' BY <2>2 DEF Kept
    <3>2. programmer.log = "OK" => ChipHolds(Len(programmer.e2))
      <4>1. ~(\E r \in ToBoard : Asked(MainCmds, MainStatuses, r))
        BY <2>2 DEF Asked, Quiet, NoRequest
      <4>2. ~(\E a \in ToPC : Answered(MainCmds, MainStatuses, a))
        BY <2>2 DEF Answered, Quiet, NoAnswer
      <4>3. QED BY <1>2, <4>1, <4>2 DEF Programs
    <3>3. (programmer.log = "OK" => ChipHolds(Len(programmer.e2)))'
      BY <2>1, <3>2 DEF ChipHolds
    <3>4. QED BY <1>2, <3>1, <3>3 DEF Programs
  <2>3. CASE \E r \in ToBoard : Asked(MainCmds, MainStatuses, r) /\ ChunkAsked(r)
    <3>1. PICK r \in ToBoard : Asked(MainCmds, MainStatuses, r) /\ ChunkAsked(r) BY <2>3
    <3>2. ChunkAsked(r)' BY <2>1, <3>1 DEF ChunkAsked, ChipHolds
    <3>3. programmer.log # "OK"
      <4>1. ~Quiet(MainCmds, MainStatuses) BY <3>1 DEF Asked, Quiet, NoRequest
      <4>2. QED BY <1>2, <4>1 DEF Programs
    <3>4. Asked(MainCmds, MainStatuses, r)' \/ Quiet(MainCmds, MainStatuses)' BY <3>1 DEF Kept
    <3>5. Asked(MainCmds, MainStatuses, r)' => r \in ToBoard' BY UnderWayPackets
    <3>6. QED BY <1>2, <3>2, <3>3, <3>4, <3>5 DEF Programs
  <2>4. CASE \E a \in ToPC : Answered(MainCmds, MainStatuses, a) /\ ChunkAnswered(a)
    <3>1. PICK a \in ToPC : Answered(MainCmds, MainStatuses, a) /\ ChunkAnswered(a) BY <2>4
    <3>2. ChunkAnswered(a)' BY <2>1, <3>1 DEF ChunkAnswered, ChipHolds
    <3>3. programmer.log # "OK"
      <4>1. ~Quiet(MainCmds, MainStatuses) BY <3>1 DEF Answered, Quiet, NoAnswer
      <4>2. QED BY <1>2, <4>1 DEF Programs
    <3>4. Answered(MainCmds, MainStatuses, a)' \/ Quiet(MainCmds, MainStatuses)' BY <3>1 DEF Kept
    <3>5. Answered(MainCmds, MainStatuses, a)' => a \in ToPC' BY UnderWayPackets
    <3>6. QED BY <1>2, <3>2, <3>3, <3>4, <3>5 DEF Programs
  <2>5. QED BY <1>2, <2>2, <2>3, <2>4 DEF Programs
<1>3. ASSUME ReadsRom PROVE ReadsRom'
  <2>1. RomShown' BY <1>3 DEF ReadsRom, RomShown
  <2>2. CASE Quiet(MainCmds, MainStatuses)
    BY <1>3, <2>1, <2>2 DEF ReadsRom, Kept
  <2>3. CASE \E r \in ToBoard : Asked(MainCmds, MainStatuses, r) /\ RomAsked(r)
    <3>1. PICK r \in ToBoard : Asked(MainCmds, MainStatuses, r) /\ RomAsked(r) BY <2>3
    <3>2. RomAsked(r)' BY <3>1 DEF RomAsked
    <3>3. programmer.e2recv < programmer.leReadLen
      <4>1. ~Quiet(MainCmds, MainStatuses) BY <3>1 DEF Asked, Quiet, NoRequest
      <4>2. QED BY <1>3, <4>1 DEF ReadsRom
    <3>4. Asked(MainCmds, MainStatuses, r)' \/ Quiet(MainCmds, MainStatuses)' BY <3>1 DEF Kept
    <3>5. Asked(MainCmds, MainStatuses, r)' => r \in ToBoard' BY UnderWayPackets
    <3>6. QED BY <1>3, <2>1, <3>2, <3>3, <3>4, <3>5 DEF ReadsRom
  <2>4. CASE \E a \in ToPC : Answered(MainCmds, MainStatuses, a) /\ RomAnswered(a)
    <3>1. PICK a \in ToPC : Answered(MainCmds, MainStatuses, a) /\ RomAnswered(a) BY <2>4
    <3>2. RomAnswered(a)' BY <3>1 DEF RomAnswered
    <3>3. programmer.e2recv < programmer.leReadLen
      <4>1. ~Quiet(MainCmds, MainStatuses) BY <3>1 DEF Answered, Quiet, NoAnswer
      <4>2. QED BY <1>3, <4>1 DEF ReadsRom
    <3>4. Answered(MainCmds, MainStatuses, a)' \/ Quiet(MainCmds, MainStatuses)' BY <3>1 DEF Kept
    <3>5. Answered(MainCmds, MainStatuses, a)' => a \in ToPC' BY UnderWayPackets
    <3>6. QED BY <1>3, <2>1, <3>2, <3>3, <3>4, <3>5 DEF ReadsRom
  <2>5. QED BY <1>3, <2>2, <2>3, <2>4 DEF ReadsRom
<1>4. QED BY <1>1, <1>2, <1>3 DEF MainInv

LEMMA BoardKeepsMain ==
  ASSUME IspType, MainInv, isp_handle, UNCHANGED programmer
  PROVE  MainInv'
<1>1. toBoard # <<>> /\ toBoard[1] \in Requests /\ LineType BY BoardEffects DEF IspType
<1>2. PICK a \in Replies : BoardDoes(toBoard[1], a) BY BoardEffects
<1>3. PICK r1 \in Requests : r1 = toBoard[1] BY <1>1
<1>4. /\ BoardTakes(a)
      /\ r1.cmd \in MainCmds <=> a.status \in MainStatuses
      /\ r1.cmd \notin ChipChanges => UNCHANGED chip
      /\ r1.cmd = "READ" <=> a.status = "ROM"
  BY <1>2, <1>3 DEF BoardDoes
<1>5. /\ Quiet(MainCmds, MainStatuses) => Quiet(MainCmds, MainStatuses)'
      /\ \A r : Asked(MainCmds, MainStatuses, r) =>
           \/ Asked(MainCmds, MainStatuses, r)' /\ r1.cmd \notin MainCmds
           \/ Answered(MainCmds, MainStatuses, a)' /\ r = r1
      /\ \A b : Answered(MainCmds, MainStatuses, b) =>
           Answered(MainCmds, MainStatuses, b)' /\ r1.cmd \notin MainCmds
  <2>1. BoardTakes(a) /\ (toBoard[1].cmd \in MainCmds <=> a.status \in MainStatuses)
    BY <1>3, <1>4
  <2>2. LineType BY <1>1
  <2>3. /\ Quiet(MainCmds, MainStatuses) => Quiet(MainCmds, MainStatuses)'
        /\ \A r : Asked(MainCmds, MainStatuses, r) =>
             \/ Asked(MainCmds, MainStatuses, r)' /\ toBoard[1].cmd \notin MainCmds
             \/ Answered(MainCmds, MainStatuses, a)' /\ r = toBoard[1]
        /\ \A b : Answered(MainCmds, MainStatuses, b) =>
             Answered(MainCmds, MainStatuses, b)' /\ toBoard[1].cmd \notin MainCmds
    BY <2>1, <2>2, BoardExchange
  <2>4. QED BY <1>3, <2>3
<1>6. /\ Quiet({"READ"}, {"ROM"}) => Quiet({"READ"}, {"ROM"})'
      /\ \A r : Asked({"READ"}, {"ROM"}, r) =>
           \/ Asked({"READ"}, {"ROM"}, r)' /\ r1.cmd \notin {"READ"}
           \/ Answered({"READ"}, {"ROM"}, a)' /\ r = r1
      /\ \A b : Answered({"READ"}, {"ROM"}, b) =>
           Answered({"READ"}, {"ROM"}, b)' /\ r1.cmd \notin {"READ"}
  <2>1. BoardTakes(a) /\ (toBoard[1].cmd \in {"READ"} <=> a.status \in {"ROM"})
    BY <1>3, <1>4
  <2>2. LineType BY <1>1
  <2>3. /\ Quiet({"READ"}, {"ROM"}) => Quiet({"READ"}, {"ROM"})'
        /\ \A r : Asked({"READ"}, {"ROM"}, r) =>
             \/ Asked({"READ"}, {"ROM"}, r)' /\ toBoard[1].cmd \notin {"READ"}
             \/ Answered({"READ"}, {"ROM"}, a)' /\ r = toBoard[1]
        /\ \A b : Answered({"READ"}, {"ROM"}, b) =>
             Answered({"READ"}, {"ROM"}, b)' /\ toBoard[1].cmd \notin {"READ"}
    BY <2>1, <2>2, BoardExchange
  <2>4. QED BY <1>3, <2>3
<1>7. CASE r1.cmd \notin MainCmds
  <2>1. UNCHANGED chip /\ r1.cmd # "READ" BY <1>4, <1>7 DEF MainCmds, ChipChanges
  <2>2. Kept(MainCmds, MainStatuses)
    <3>1. \A r : Asked(MainCmds, MainStatuses, r) => r.cmd \in MainCmds BY DEF Asked
    <3>2. QED BY <1>5, <1>7, <3>1 DEF Kept
  <2>3. Kept({"READ"}, {"ROM"})
    <3>1. \A r : Asked({"READ"}, {"ROM"}, r) => r.cmd = "READ" BY DEF Asked
    <3>2. QED BY <1>6, <2>1, <3>1 DEF Kept
  <2>4. QED BY <2>1, <2>2, <2>3, MainStays
<1>8. CASE r1.cmd \in MainCmds
  <2>1. ~Quiet(MainCmds, MainStatuses)
    <3>1. 1 \in 1 .. Len(toBoard) BY <1>1 DEF LineType
    <3>2. QED BY <1>3, <1>8, <3>1 DEF Quiet, NoRequest
  <2>2. \A b : ~Answered(MainCmds, MainStatuses, b) BY <1>5, <1>8
  <2>3. \A r : Asked(MainCmds, MainStatuses, r) => Answered(MainCmds, MainStatuses, a)' /\ r = r1
    BY <1>5, <1>8
  <2>4. Answered(MainCmds, MainStatuses, a)' => a \in ToPC' BY UnderWayPackets
  <2>5. /\ programmer.e2 \in Seq(Byte) /\ programmer.e2sent \in Nat /\ programmer.e2recv \in Nat
        /\ programmer.e2sent <= Len(programmer.e2) /\ programmer.leReadOffset \in Nat
        /\ Len(programmer.e2) \in Nat
    <3>1. /\ programmer.e2 \in Seq(Byte) /\ programmer.e2sent \in Nat
          /\ programmer.e2recv \in Nat
          /\ programmer.e2sent <= Len(programmer.e2) /\ programmer.leReadOffset \in Nat
      BY DEF IspType, ProgrammerType, Programmers
    <3>2. Len(programmer.e2) \in Nat BY <3>1
    <3>3. QED BY <3>1, <3>2
  <2>6. ASSUME Programs PROVE Programs'
    <3>1. PICK r \in ToBoard : Asked(MainCmds, MainStatuses, r) /\ ChunkAsked(r)
      BY <2>1, <2>2, <2>6 DEF Programs
    <3>2. Answered(MainCmds, MainStatuses, a)' /\ r = r1 BY <2>3, <3>1
    <3>3. programmer.log # "OK" BY <2>1, <2>6 DEF Programs
    <3>4. /\ r1.cmd = "PROGRAM" /\ r1.addr + Len(r1.dat) = programmer.e2sent
          /\ \A k \in 1 .. Len(r1.dat) : r1.dat[k] = programmer.e2[r1.addr + k]
          /\ ChipHolds(r1.addr) /\ r1.addr \in Nat /\ Len(r1.dat) \in Nat
      <4>1. r1.addr \in Nat /\ r1.dat \in Seq(Byte) BY DEF Requests
      <4>2. Len(r1.dat) \in Nat BY <4>1
      <4>3. QED BY <3>1, <3>2, <4>1, <4>2 DEF ChunkAsked
    <3>5. IAP_ADDR_APP_START + programmer.e2sent <= STC_ROM_SIZE
      BY <2>5, Sizes DEF MainInv
    <3>6. ChunkProgrammed(r1, a)
      <4>1. IAP_ADDR_APP_START + r1.addr + Len(r1.dat) <= STC_ROM_SIZE
        BY <3>4, <3>5, Sizes
      <4>2. QED BY <1>2, <1>3, <3>4, <4>1 DEF BoardDoes
    <3>7. ChunkAnswered(a)'
      <4>1. CASE a.status = "PROGRAM_FAILED" BY <4>1 DEF ChunkAnswered
      <4>2. CASE /\ a.status = "OK" /\ a.dat = <<>>
                 /\ \A k \in 1 .. Len(r1.dat) :
                      chip'[IAP_ADDR_APP_START + r1.addr + k - 1] = r1.dat[k]
                 /\ \A c \in ChipAddresses :
                      c < IAP_ADDR_APP_START + r1.addr => chip'[c] = chip[c]
        <5>1. ASSUME NEW k \in 1 .. programmer.e2sent
              PROVE  chip'[IAP_ADDR_APP_START + k - 1] = programmer.e2[k]
          <6>1. CASE k <= r1.addr
            <7>1. k \in 1 .. r1.addr BY <3>4, <6>1
            <7>2. chip[IAP_ADDR_APP_START + k - 1] = programmer.e2[k]
              BY <3>4, <7>1 DEF ChipHolds
            <7>3. /\ IAP_ADDR_APP_START + k - 1 \in ChipAddresses
                  /\ IAP_ADDR_APP_START + k - 1 < IAP_ADDR_APP_START + r1.addr
              BY <2>5, <3>4, <3>5, <7>1, Sizes DEF ChipAddresses
            <7>4. QED BY <4>2, <7>2, <7>3
          <6>2. CASE k > r1.addr
            <7>1. PICK j \in 1 .. Len(r1.dat) : j = k - r1.addr BY <2>5, <3>4, <6>2
            <7>2. k = r1.addr + j BY <3>4, <7>1
            <7>3. IAP_ADDR_APP_START + r1.addr + j - 1 = IAP_ADDR_APP_START + k - 1
              BY <3>4, <7>2, Sizes
            <7>4. chip'[IAP_ADDR_APP_START + r1.addr + j - 1] = r1.dat[j] BY <4>2
            <7>5. r1.dat[j] = programmer.e2[k] BY <3>4, <7>2
            <7>6. QED BY <7>3, <7>4, <7>5
          <6>3. QED BY <3>4, <6>1, <6>2
        <5>2. QED BY <4>2, <5>1 DEF ChunkAnswered, ChipHolds
      <4>3. QED BY <3>6, <4>1, <4>2 DEF ChunkProgrammed
    <3>8. QED BY <2>4, <2>6, <3>2, <3>3, <3>7 DEF Programs
  <2>7. ASSUME ReadsRom PROVE ReadsRom'
    <3>1. PICK r \in ToBoard : Asked(MainCmds, MainStatuses, r) /\ RomAsked(r)
      BY <2>1, <2>2, <2>7 DEF ReadsRom
    <3>2. Answered(MainCmds, MainStatuses, a)' /\ r = r1 BY <2>3, <3>1
    <3>3. programmer.e2recv < programmer.leReadLen BY <2>1, <2>7 DEF ReadsRom
    <3>4. /\ r1.cmd = "READ" /\ r1.addr = programmer.leReadOffset + programmer.e2recv
          /\ r1.size <= PKT_DAT_MAX_LEN /\ r1.addr \in Nat /\ r1.size \in Nat
      BY <3>1, <3>2 DEF RomAsked, Requests
    <3>5. UNCHANGED chip BY <1>4, <3>4 DEF ChipChanges
    <3>6. a.status = "ROM" /\ a.dat = iap_read_bytes(r1.addr, r1.size)
      BY <1>2, <1>3, <3>4 DEF BoardDoes
    <3>7. /\ Len(a.dat) = r1.size
          /\ \A k \in 1 .. r1.size : a.dat[k] = chip[(r1.addr + k - 1) % STC_ROM_SIZE]
      BY <3>4, <3>6, ReadFacts DEF IspType
    <3>8. RomAnswered(a)' BY <3>4, <3>5, <3>6, <3>7 DEF RomAnswered
    <3>9. RomShown' BY <2>7, <3>5 DEF ReadsRom, RomShown
    <3>10. QED BY <2>4, <2>7, <3>2, <3>3, <3>8, <3>9 DEF ReadsRom
  <2>8. QED BY <1>6, <2>6, <2>7 DEF MainInv
<1>9. QED BY <1>7, <1>8

LEMMA ClickKeepsMain ==
  ASSUME IspType, MainInv, ProgrammerClick
  PROVE  MainInv'
<1>1. /\ ProgrammerType' /\ LineType /\ UNCHANGED toPC /\ UNCHANGED chip
      /\ programmer'.log # "OK" /\ programmer'.e2 = programmer.e2
  BY ProgrammerClickMoves DEF IspType, ProgrammerClick, memories
<1>2. PICK r \in Requests :
        /\ PcSends(<<r>>) /\ r.cmd \in MainCmds
        /\ programmer'.last # ReadRomName => r.cmd # "READ"
        /\ programmer'.last = "Program" =>
             /\ r.cmd = "PROGRAM" /\ r.addr = 0
             /\ r.dat = Mid(programmer.e2, 0, PKT_DAT_MAX_LEN)
             /\ programmer'.e2sent = Len(r.dat)
        /\ programmer'.last = ReadRomName =>
             /\ r = ReadRomRequest(programmer') /\ programmer'.e2recv = 0
             /\ <<programmer'.leReadOffset, programmer'.leReadLen>> \in RomRanges
  BY ProgrammerClickMoves
<1>3. Quiet(MainCmds, MainStatuses) /\ Quiet({"READ"}, {"ROM"})
  <2>1. ~UnderWay(MainCmds, MainStatuses)
    BY DEF ProgrammerClick, slotReadLdrVersion, slotEraseAll, slotErasePage, slotProgram,
       slotReadRom, MayClick, MainCmds, MainStatuses
  <2>2. DOMAIN toBoard = 1 .. Len(toBoard) /\ DOMAIN toPC = 1 .. Len(toPC)
    BY <1>1 DEF LineType
  <2>3. Quiet(MainCmds, MainStatuses)
    BY <2>1, <2>2 DEF UnderWay, Quiet, NoRequest, NoAnswer
  <2>4. "READ" \in MainCmds /\ "ROM" \in MainStatuses BY DEF MainCmds, MainStatuses
  <2>5. QED BY <2>3, <2>4 DEF Quiet, NoRequest, NoAnswer
<1>4. <<r>> \in Seq(Requests) /\ Len(<<r>>) = 1 /\ <<r>>[1] = r OBVIOUS
<1>5. Asked(MainCmds, MainStatuses, r)' /\ r \in ToBoard'
  <2>1. LineType /\ r.cmd \in MainCmds /\ PcSends(<<r>>) /\ UNCHANGED toPC BY <1>1, <1>2
  <2>2. Asked(MainCmds, MainStatuses, r)' BY <1>3, <1>4, <2>1, SendExchange, Zenon
  <2>3. QED BY <2>2, UnderWayPackets
<1>6. /\ programmer.e2 \in Seq(Byte) /\ Len(programmer.e2) \in Nat
      /\ programmer' \in Programmers /\ programmer'.e2sent <= Len(programmer'.e2)
  <2>1. programmer.e2 \in Seq(Byte) BY DEF IspType, ProgrammerType, Programmers
  <2>2. Len(programmer.e2) \in Nat BY <2>1
  <2>3. QED BY <1>1, <2>1, <2>2 DEF ProgrammerType
<1>7. (programmer.last # ReadRomName => Quiet({"READ"}, {"ROM"}))'
  <2>1. SUFFICES ASSUME programmer'.last # ReadRomName PROVE Quiet({"READ"}, {"ROM"})'
    OBVIOUS
  <2>2. \A k \in 1 .. Len(<<r>>) : <<r>>[k].cmd \notin {"READ"} BY <1>2, <1>4, <2>1
  <2>3. QED BY <1>1, <1>2, <1>3, <1>4, <2>2, SendExchange
<1>8. (programmer.last = "Program" => Programs)'
  <2>1. SUFFICES ASSUME programmer'.last = "Program" PROVE Programs'
    OBVIOUS
  <2>2. /\ r.cmd = "PROGRAM" /\ r.addr = 0 /\ r.dat = Mid(programmer.e2, 0, PKT_DAT_MAX_LEN)
        /\ programmer'.e2sent = Len(r.dat)
    BY <1>2, <2>1
  <2>3. /\ Len(r.dat) = Min(PKT_DAT_MAX_LEN, Len(programmer.e2) - 0)
        /\ \A k \in 1 .. Len(r.dat) : r.dat[k] = programmer.e2[0 + k]
    BY <1>6, <2>2, MidFacts, Sizes
  <2>4. Len(r.dat) = 0 => Len(programmer.e2) = 0 BY <1>6, <2>3, Sizes DEF Min
  <2>5. ChunkAsked(r)'
    <3>1. ChipHolds(0)' BY DEF ChipHolds
    <3>2. r.addr + Len(r.dat) = programmer'.e2sent
      <4>1. Len(r.dat) \in Nat
        <5>1. r.dat \in Seq(Byte) BY DEF Requests
        <5>2. QED BY <5>1
      <4>2. QED BY <2>2, <4>1
    <3>3. \A k \in 1 .. Len(r.dat) : r.dat[k] = programmer'.e2[r.addr + k]
      BY <1>1, <2>2, <2>3
    <3>4. QED BY <2>2, <3>1, <3>2, <3>3 DEF ChunkAsked
  <2>6. QED BY <1>1, <1>5, <2>2, <2>4, <2>5 DEF Programs
<1>9. (programmer.last = ReadRomName => ReadsRom)'
  <2>1. SUFFICES ASSUME programmer'.last = ReadRomName PROVE ReadsRom'
    OBVIOUS
  <2>2. /\ r = ReadRomRequest(programmer') /\ programmer'.e2recv = 0
        /\ <<programmer'.leReadOffset, programmer'.leReadLen>> \in RomRanges
    BY <1>2, <2>1
  <2>3. 0 < programmer'.leReadLen BY <2>2, ProgrammerAssumption, Sizes
  <2>4. RomAsked(r)' BY <1>6, <2>2, MainRequestFacts DEF RomAsked
  <2>5. RomShown' BY <2>2 DEF RomShown
  <2>6. QED BY <1>5, <2>2, <2>3, <2>4, <2>5 DEF ReadsRom
<1>10. QED BY <1>1, <1>7, <1>8, <1>9 DEF MainInv

\* What MainInv says when an answer of the main window's is at the head.
LEMMA MainHead ==
  ASSUME IspType, MainInv, toPC # <<>>, toPC[1].status \in MainStatuses,
         NEW requests \in Seq(Requests), PcSends(requests), PcTakes
  PROVE  /\ programmer.last = "Program" =>
              Programs /\ ChunkAnswered(toPC[1]) /\ programmer.log # "OK"
         /\ programmer.last = ReadRomName =>
              /\ ReadsRom /\ RomAnswered(toPC[1]) /\ programmer.e2recv < programmer.leReadLen
         /\ toPC[1].status = "ROM" => programmer.last = ReadRomName
         /\ programmer.last \in {"Program", ReadRomName} =>
              /\ requests = <<>> => Quiet(MainCmds, MainStatuses)'
              /\ \A r : requests = <<r>> /\ r.cmd \in MainCmds => Asked(MainCmds, MainStatuses, r)'
         /\ /\ toPC[1].status # "ROM"
            /\ \A k \in 1 .. Len(requests) : requests[k].cmd # "READ"
            => (programmer.last # ReadRomName => Quiet({"READ"}, {"ROM"})')
<1>1. /\ ~Quiet(MainCmds, MainStatuses) /\ \A r : ~Asked(MainCmds, MainStatuses, r)
      /\ \A a : Answered(MainCmds, MainStatuses, a) =>
           /\ a = toPC[1]
           /\ (\A k \in 1 .. Len(requests) : requests[k].cmd \notin MainCmds)
                => Quiet(MainCmds, MainStatuses)'
           /\ \A r : requests = <<r>> /\ r.cmd \in MainCmds => Asked(MainCmds, MainStatuses, r)'
  BY TakeExchange DEF IspType
<1>2. requests = <<>> => \A k \in 1 .. Len(requests) : requests[k].cmd \notin MainCmds
  <2>1. Len(<<>>) = 0 OBVIOUS
  <2>2. QED BY <2>1
<1>3. ASSUME programmer.last = "Program"
      PROVE  /\ Programs /\ ChunkAnswered(toPC[1]) /\ programmer.log # "OK"
             /\ Answered(MainCmds, MainStatuses, toPC[1])
  BY <1>1, <1>3 DEF MainInv, Programs
<1>4. ASSUME programmer.last = ReadRomName
      PROVE  /\ ReadsRom /\ RomAnswered(toPC[1]) /\ programmer.e2recv < programmer.leReadLen
             /\ Answered(MainCmds, MainStatuses, toPC[1])
  BY <1>1, <1>4 DEF MainInv, ReadsRom
<1>5. toPC[1].status = "ROM" => programmer.last = ReadRomName
  <2>1. 1 \in 1 .. Len(toPC) BY DEF IspType, LineType
  <2>2. QED BY <2>1 DEF MainInv, Quiet, NoAnswer
<1>6. ASSUME toPC[1].status # "ROM", \A k \in 1 .. Len(requests) : requests[k].cmd # "READ",
             programmer.last # ReadRomName
      PROVE  Quiet({"READ"}, {"ROM"})'
  <2>1. Quiet({"READ"}, {"ROM"}) BY <1>6 DEF MainInv
  <2>2. /\ \A k \in 1 .. Len(requests) : requests[k].cmd \notin {"READ"}
        /\ toPC[1].status \notin {"ROM"}
    BY <1>6
  <2>3. QED BY <2>1, <2>2, TakeExchange DEF IspType
<1>7. QED BY <1>1, <1>2, <1>3, <1>4, <1>5, <1>6

LEMMA OkKeepsMain ==
  ASSUME IspType, MainInv, OnOk, UNCHANGED memories
  PROVE  MainInv'
<1>1. /\ toPC # <<>> /\ pkt = toPC[1] /\ toPC[1].status = "OK" /\ UNCHANGED chip
  BY ParsedMoves DEF OnOk, memories
<1>2. /\ PcTakes /\ programmer'.last = programmer.last /\ programmer'.e2 = programmer.e2
  BY OnOkMoves
<1>3. PICK requests \in Seq(Requests) :
        /\ PcSends(requests)
        /\ \A k \in 1 .. Len(requests) : requests[k].cmd # "READ"
        /\ MoreToProgram =>
             \E r \in Requests :
               /\ r.cmd = "PROGRAM" /\ r.addr = programmer.e2sent
               /\ r.dat = Mid(programmer.e2, programmer.e2sent, PKT_DAT_MAX_LEN)
               /\ programmer'.e2sent = programmer.e2sent + Len(r.dat)
               /\ programmer'.log = "Programming"
               /\ Len(pkt.dat) # 2 => requests = <<r>>
        /\ ~MoreToProgram /\ Len(pkt.dat) # 2 => requests = <<>>
        /\ ~MoreToProgram => programmer'.e2sent = programmer.e2sent
  BY OnOkMoves
<1>4. "OK" \in MainStatuses /\ "OK" # "ROM" BY DEF MainStatuses
<1>5. (programmer.last # ReadRomName => Quiet({"READ"}, {"ROM"}))'
  BY <1>1, <1>2, <1>3, <1>4, MainHead
<1>6. programmer.last # ReadRomName
  BY <1>1, <1>2, <1>3, <1>4, MainHead DEF RomAnswered
<1>7. (programmer.last = "Program" => Programs)'
  <2>1. SUFFICES ASSUME programmer.last = "Program" PROVE Programs'
    BY <1>2
  <2>2. Programs /\ ChunkAnswered(toPC[1]) /\ programmer.log # "OK"
    BY <1>1, <1>2, <1>3, <1>4, <2>1, MainHead
  <2>3. pkt.dat = <<>> /\ ChipHolds(programmer.e2sent) BY <1>1, <2>2 DEF ChunkAnswered
  <2>4. Len(pkt.dat) # 2
    <3>1. Len(<<>>) = 0 OBVIOUS
    <3>2. QED BY <2>3, <3>1
  <2>5. /\ programmer.e2 \in Seq(Byte) /\ programmer.e2sent \in Nat
        /\ programmer.e2sent <= Len(programmer.e2) /\ Len(programmer.e2) \in Nat
    <3>1. /\ programmer.e2 \in Seq(Byte) /\ programmer.e2sent \in Nat
          /\ programmer.e2sent <= Len(programmer.e2)
      BY DEF IspType, ProgrammerType, Programmers
    <3>2. Len(programmer.e2) \in Nat BY <3>1
    <3>3. QED BY <3>1, <3>2
  <2>6. \A n : ChipHolds(n) => ChipHolds(n)' BY <1>1, <1>2 DEF ChipHolds
  <2>7. CASE MoreToProgram
    <3>1. PICK r \in Requests :
            /\ r.cmd = "PROGRAM" /\ r.addr = programmer.e2sent
            /\ r.dat = Mid(programmer.e2, programmer.e2sent, PKT_DAT_MAX_LEN)
            /\ programmer'.e2sent = programmer.e2sent + Len(r.dat)
            /\ programmer'.log = "Programming" /\ requests = <<r>>
      BY <1>3, <2>4, <2>7
    <3>2. Asked(MainCmds, MainStatuses, r)'
      <4>1. r.cmd \in MainCmds BY <3>1 DEF MainCmds
      <4>2. QED BY <1>1, <1>2, <1>3, <1>4, <2>1, <3>1, <4>1, MainHead
    <3>3. r \in ToBoard' BY <3>2, UnderWayPackets
    <3>4. Len(r.dat) \in Nat
      <4>1. r.dat \in Seq(Byte) BY DEF Requests
      <4>2. QED BY <4>1
    <3>5. \A k \in 1 .. Len(r.dat) : r.dat[k] = programmer.e2[r.addr + k]
      BY <2>5, <3>1, MidFacts, Sizes
    <3>6. ChunkAsked(r)'
      BY <1>2, <2>3, <2>6, <3>1, <3>5 DEF ChunkAsked
    <3>7. programmer'.e2sent # 0 BY <2>5, <2>7, <3>1, <3>4 DEF MoreToProgram
    <3>8. programmer'.log # "OK" BY <3>1
    <3>9. QED BY <3>2, <3>3, <3>6, <3>7, <3>8 DEF Programs
  <2>8. CASE ~MoreToProgram
    <3>1. requests = <<>> /\ programmer'.e2sent = programmer.e2sent BY <1>3, <2>4, <2>8
    <3>2. Quiet(MainCmds, MainStatuses)' BY <1>1, <1>2, <1>3, <1>4, <2>1, <3>1, MainHead
    <3>3. programmer.e2sent = Len(programmer.e2) BY <2>2, <2>5, <2>8 DEF Programs, MoreToProgram
    <3>4. ChipHolds(Len(programmer.e2))' BY <1>1, <1>2, <2>3, <3>3 DEF ChipHolds
    <3>5. (programmer.e2sent = 0 => Len(programmer.e2) = 0)' BY <1>2, <2>2, <3>1 DEF Programs
    <3>6. QED BY <3>2, <3>4, <3>5 DEF Programs
  <2>9. QED BY <2>7, <2>8
<1>8. QED BY <1>2, <1>5, <1>6, <1>7 DEF MainInv

LEMMA FailedKeepsMain ==
  ASSUME IspType, MainInv, OnFailed \/ OnLdrVersion, UNCHANGED memories
  PROVE  MainInv'
<1>1. /\ toPC # <<>> /\ UNCHANGED chip
      /\ toPC[1].status \in {"PROGRAM_FAILED", "ERASE_PAGE_FAILED", "LDR_VERSION"}
  BY ParsedMoves DEF OnFailed, OnLdrVersion, memories
<1>2. /\ PcTakes /\ PcSends(<<>>)
      /\ programmer'.last = programmer.last /\ programmer'.e2 = programmer.e2
      /\ programmer'.e2sent = programmer.e2sent
      /\ programmer'.log = programmer.log \/ programmer'.log = "Failed"
  BY OnFailedMoves
<1>3. PICK requests \in Seq(Requests) : requests = <<>>
  <2>1. <<>> \in Seq(Requests) OBVIOUS
  <2>2. QED BY <2>1
<1>4. PcSends(requests) /\ Len(requests) = 0 BY <1>2, <1>3
<1>5. toPC[1].status \in MainStatuses /\ toPC[1].status # "ROM" BY <1>1 DEF MainStatuses
<1>6. \A k \in 1 .. Len(requests) : requests[k].cmd # "READ" BY <1>4
<1>7. (programmer.last # ReadRomName => Quiet({"READ"}, {"ROM"}))'
  BY <1>1, <1>2, <1>4, <1>5, <1>6, MainHead
<1>8. programmer.last # ReadRomName
  BY <1>1, <1>2, <1>4, <1>5, MainHead DEF RomAnswered
<1>9. (programmer.last = "Program" => Programs)'
  <2>1. SUFFICES ASSUME programmer.last = "Program" PROVE Programs'
    BY <1>2
  <2>2. Programs /\ programmer.log # "OK" /\ Quiet(MainCmds, MainStatuses)'
    BY <1>1, <1>2, <1>3, <1>4, <1>5, <2>1, MainHead
  <2>3. programmer'.log # "OK" BY <1>2, <2>2
  <2>4. QED BY <1>2, <2>2, <2>3 DEF Programs
<1>10. QED BY <1>2, <1>7, <1>8, <1>9 DEF MainInv

LEMMA RomKeepsMain ==
  ASSUME IspType, MainInv, OnRom, UNCHANGED memories
  PROVE  MainInv'
<1>1. /\ toPC # <<>> /\ pkt = toPC[1] /\ toPC[1].status = "ROM" /\ UNCHANGED chip
      /\ toPC[1].dat \in Seq(Byte)
  BY ParsedMoves DEF OnRom, memories
<1>2. /\ PcTakes /\ ProgrammerType'
      /\ programmer' = [programmer EXCEPT
                          !.e2 = Put(programmer.e2, programmer.e2recv, pkt.dat),
                          !.e2recv = programmer.e2recv + Len(pkt.dat)]
      /\ programmer'.e2recv = programmer.e2recv + Len(pkt.dat)
      /\ programmer'.last = programmer.last
      /\ IF programmer'.e2recv < programmer.leReadLen
         THEN PcSends(<<ReadRomRequest(programmer')>>) ELSE PcSends(<<>>)
  BY OnRomMoves
<1>3. /\ programmer \in Programmers /\ programmer.e2recv <= Len(programmer.e2)
      /\ programmer.e2 \in Seq(Byte) /\ programmer.e2recv \in Nat /\ programmer.leReadLen \in Nat
      /\ programmer.leReadOffset \in Nat
  BY DEF IspType, ProgrammerType, Programmers
<1>4. PICK dat \in Seq(Byte) : dat = toPC[1].dat BY <1>1
<1>5. PICK e2 \in Seq(Byte) : e2 = Put(programmer.e2, programmer.e2recv, dat)
  BY <1>3, PutFacts
<1>6. /\ Len(e2) = IF programmer.e2recv + Len(dat) > Len(programmer.e2)
                   THEN programmer.e2recv + Len(dat) ELSE Len(programmer.e2)
      /\ \A k \in 1 .. Len(e2) :
           e2[k] = IF k \in programmer.e2recv + 1 .. programmer.e2recv + Len(dat)
                   THEN dat[k - programmer.e2recv] ELSE programmer.e2[k]
  BY <1>3, <1>5, PutFacts
<1>7. Len(dat) \in Nat /\ Len(programmer.e2) \in Nat /\ Len(e2) \in Nat
  <2>1. Len(dat) \in Nat OBVIOUS
  <2>2. Len(programmer.e2) \in Nat BY <1>3
  <2>3. Len(e2) \in Nat OBVIOUS
  <2>4. QED BY <2>1, <2>2, <2>3
<1>8. programmer' = [programmer EXCEPT !.e2 = e2, !.e2recv = programmer.e2recv + Len(dat)]
  BY <1>1, <1>2, <1>4, <1>5
<1>9. /\ programmer'.e2 = e2 /\ programmer'.e2recv = programmer.e2recv + Len(dat)
      /\ programmer'.leReadOffset = programmer.leReadOffset
      /\ programmer'.leReadLen = programmer.leReadLen /\ programmer'.last = programmer.last
      /\ programmer' \in Programmers /\ programmer'.e2sent <= Len(programmer'.e2)
  <2>1. programmer' \in Programmers /\ programmer'.e2sent <= Len(programmer'.e2)
    BY <1>2 DEF ProgrammerType
  <2>2. QED BY <1>3, <1>8, <2>1 DEF Programmers
<1>10. PICK requests \in Seq(Requests) :
         /\ PcSends(requests)
         /\ programmer'.e2recv < programmer.leReadLen =>
              \E r \in Requests : r = ReadRomRequest(programmer') /\ requests = <<r>>
         /\ ~(programmer'.e2recv < programmer.leReadLen) => requests = <<>>
  <2>1. CASE programmer'.e2recv < programmer.leReadLen
    <3>1. PICK r \in Requests : r = ReadRomRequest(programmer') BY <1>9, MainRequestFacts
    <3>2. <<r>> \in Seq(Requests) /\ PcSends(<<r>>) BY <1>2, <2>1, <3>1
    <3>3. QED BY <2>1, <3>1, <3>2
  <2>2. CASE ~(programmer'.e2recv < programmer.leReadLen)
    <3>1. <<>> \in Seq(Requests) OBVIOUS
    <3>2. QED BY <1>2, <2>2, <3>1
  <2>3. QED BY <2>1, <2>2
<1>11. toPC[1].status \in MainStatuses BY <1>1 DEF MainStatuses
<1>12. /\ programmer.last = ReadRomName /\ ReadsRom /\ RomAnswered(toPC[1])
       /\ programmer.e2recv < programmer.leReadLen
       /\ requests = <<>> => Quiet(MainCmds, MainStatuses)'
       /\ \A r : requests = <<r>> /\ r.cmd \in MainCmds => Asked(MainCmds, MainStatuses, r)'
  <2>1. programmer.last = ReadRomName BY <1>1, <1>2, <1>10, <1>11, MainHead
  <2>2. QED BY <1>1, <1>2, <1>10, <1>11, <2>1, MainHead
<1>13. /\ Len(dat) <= PKT_DAT_MAX_LEN
       /\ \A k \in 1 .. Len(dat) :
            dat[k] = chip[(programmer.leReadOffset + programmer.e2recv + k - 1) % STC_ROM_SIZE]
  BY <1>4, <1>12 DEF RomAnswered
<1>14. (IAP_ADDR_APP_START + Len(programmer.e2) <= STC_ROM_SIZE)'
  <2>1. PICK range \in RomRanges :
          range = <<programmer.leReadOffset, programmer.leReadLen>>
    BY <1>12 DEF ReadsRom
  <2>2. range[2] = programmer.leReadLen BY <2>1
  <2>3. IAP_ADDR_APP_START + programmer.leReadLen + PKT_DAT_MAX_LEN - 1 <= STC_ROM_SIZE
    BY <2>2, ProgrammerAssumption
  <2>4. IAP_ADDR_APP_START + Len(programmer.e2) <= STC_ROM_SIZE BY DEF MainInv
  <2>5. programmer.e2recv + Len(dat) <= programmer.leReadLen + PKT_DAT_MAX_LEN - 1
    BY <1>3, <1>7, <1>12, <1>13, Sizes
  <2>6. \/ Len(e2) = programmer.e2recv + Len(dat)
        \/ Len(e2) = Len(programmer.e2)
    BY <1>6
  <2>7. IAP_ADDR_APP_START + Len(e2) <= STC_ROM_SIZE
    BY <1>3, <1>7, <2>3, <2>4, <2>5, <2>6, Sizes
  <2>8. QED BY <1>9, <2>7
<1>15. RomShown'
  <2>1. SUFFICES ASSUME NEW k \in 1 .. programmer.e2recv + Len(dat)
                 PROVE  e2[k] = chip[(programmer.leReadOffset + k - 1) % STC_ROM_SIZE]
    BY <1>1, <1>9 DEF RomShown
  <2>2. k \in 1 .. Len(e2) BY <1>3, <1>6, <1>7
  <2>0. k \in Nat /\ 1 <= k /\ k <= programmer.e2recv + Len(dat) BY <1>3, <1>7, <2>1
  <2>3. CASE k <= programmer.e2recv
    <3>1. k \in 1 .. programmer.e2recv
          /\ k \notin programmer.e2recv + 1 .. programmer.e2recv + Len(dat)
      BY <1>3, <1>7, <2>3
    <3>2. e2[k] = programmer.e2[k] BY <1>6, <2>2, <3>1
    <3>3. QED BY <1>12, <3>1, <3>2 DEF ReadsRom, RomShown
  <2>4. CASE k > programmer.e2recv
    <3>0. k - programmer.e2recv \in 1 .. Len(dat)
          /\ programmer.e2recv + (k - programmer.e2recv) = k
      BY <1>3, <1>7, <2>0, <2>4
    <3>1. PICK j \in 1 .. Len(dat) : j = k - programmer.e2recv BY <3>0
    <3>2. k \in programmer.e2recv + 1 .. programmer.e2recv + Len(dat) BY <1>3, <1>7, <2>4
    <3>3. e2[k] = dat[j] BY <1>6, <2>2, <3>1, <3>2
    <3>4. programmer.leReadOffset + programmer.e2recv + j - 1 = programmer.leReadOffset + k - 1
      BY <1>3, <2>0, <3>1
    <3>5. QED BY <1>13, <3>3, <3>4
  <2>5. QED BY <1>3, <2>3, <2>4
<1>16. ReadsRom'
  <2>1. (<<programmer.leReadOffset, programmer.leReadLen>> \in RomRanges)'
    BY <1>9, <1>12 DEF ReadsRom
  <2>2. CASE programmer'.e2recv < programmer.leReadLen
    <3>1. PICK r \in Requests : r = ReadRomRequest(programmer') /\ requests = <<r>>
      BY <1>10, <2>2
    <3>2. r.cmd = "READ" /\ RomAsked(r)' BY <1>9, <3>1, MainRequestFacts DEF RomAsked
    <3>3. Asked(MainCmds, MainStatuses, r)' BY <1>12, <3>1, <3>2 DEF MainCmds
    <3>4. r \in ToBoard' BY <3>3, UnderWayPackets
    <3>5. (programmer.e2recv < programmer.leReadLen)' BY <1>9, <2>2
    <3>6. QED BY <1>15, <2>1, <3>2, <3>3, <3>4, <3>5 DEF ReadsRom
  <2>3. CASE ~(programmer'.e2recv < programmer.leReadLen)
    BY <1>10, <1>12, <1>15, <2>1, <2>3 DEF ReadsRom
  <2>4. QED BY <2>2, <2>3
<1>17. QED BY <1>9, <1>12, <1>14, <1>16, NamesDiffer DEF MainInv

\* The flash window leaves what is the main window's alone.
LEMMA FlashSendsKeep ==
  ASSUME IspType, FlashSends, UNCHANGED toPC
  PROVE  Kept(MainCmds, MainStatuses) /\ Kept({"READ"}, {"ROM"})
<1>1. PICK requests \in Seq(Requests) :
        PcSends(requests) /\ \A k \in 1 .. Len(requests) : requests[k].cmd \in FlashCmds
  BY DEF FlashSends
<1>2. \A k \in 1 .. Len(requests) :
        requests[k].cmd \notin MainCmds /\ requests[k].cmd \notin {"READ"}
  <2>1. \A c \in FlashCmds : c \notin MainCmds /\ c # "READ" BY DEF FlashCmds, MainCmds
  <2>2. QED BY <1>1, <2>1
<1>3. Kept(MainCmds, MainStatuses) BY <1>1, <1>2, SendExchange DEF IspType, Kept
<1>4. Kept({"READ"}, {"ROM"}) BY <1>1, <1>2, SendExchange DEF IspType, Kept
<1>5. QED BY <1>3, <1>4

LEMMA FlashTakesKeep ==
  ASSUME IspType, FlashSends, PcTakes, toPC[1].status \in FlashStatuses
  PROVE  Kept(MainCmds, MainStatuses) /\ Kept({"READ"}, {"ROM"})
<1>1. PICK requests \in Seq(Requests) :
        PcSends(requests) /\ \A k \in 1 .. Len(requests) : requests[k].cmd \in FlashCmds
  BY DEF FlashSends
<1>2. \A k \in 1 .. Len(requests) :
        requests[k].cmd \notin MainCmds /\ requests[k].cmd \notin {"READ"}
  <2>1. \A c \in FlashCmds : c \notin MainCmds /\ c # "READ" BY DEF FlashCmds, MainCmds
  <2>2. QED BY <1>1, <2>1
<1>3. toPC[1].status \notin MainStatuses /\ toPC[1].status \notin {"ROM"}
  BY DEF FlashStatuses, MainStatuses
<1>4. Kept(MainCmds, MainStatuses) BY <1>1, <1>2, <1>3, TakeExchange DEF IspType, Kept
<1>5. Kept({"READ"}, {"ROM"}) BY <1>1, <1>2, <1>3, TakeExchange DEF IspType, Kept
<1>6. QED BY <1>4, <1>5

LEMMA InitMain ==
  ASSUME Init PROVE MainInv
<1>1. programmer.e2 = File /\ programmer.last = None
  BY DEF Init, ProgrammerInit, None
<1>2. toBoard = <<>> /\ toPC = <<>> BY DEF Init, BoardInit
<1>3. Quiet({"READ"}, {"ROM"}) BY <1>2 DEF Quiet, NoRequest, NoAnswer
<1>4. IAP_ADDR_APP_START + Len(File) <= STC_ROM_SIZE BY ProgrammerAssumption
<1>5. QED BY <1>1, <1>3, <1>4, NamesDiffer DEF MainInv

LEMMA NextMain ==
  ASSUME IspType, MainInv, [Next]_vars PROVE MainInv'
<1>1. CASE Board BY <1>1, BoardKeepsMain DEF Board
<1>2. CASE Operator
  <2>1. CASE ProgrammerClick BY <2>1, ClickKeepsMain
  <2>2. CASE FlashClick
    <3>1. UNCHANGED <<memories, programmer>> /\ FlashSends /\ UNCHANGED toPC
      BY <2>2, FlashClickMoves
    <3>2. QED BY <3>1, FlashSendsKeep, MainStays DEF memories
  <2>3. QED BY <1>2, <2>1, <2>2 DEF Operator
<1>3. CASE Answers
  <2>1. CASE ProgrammerParsed
    BY <2>1, OkKeepsMain, FailedKeepsMain, RomKeepsMain DEF ProgrammerParsed
  <2>2. CASE FlashParsed
    <3>1. /\ UNCHANGED <<memories, programmer>> /\ FlashSends /\ PcTakes
          /\ toPC[1].status \in FlashStatuses
      BY <2>2, FlashParsedMoves
    <3>2. QED BY <3>1, FlashTakesKeep, MainStays DEF memories
  <2>3. QED BY <1>3, <2>1, <2>2 DEF Answers
<1>4. CASE timerEvent
  <2>1. FlashSends /\ UNCHANGED toPC BY <1>4, TimerMoves
  <2>2. UNCHANGED <<programmer, chip>> BY <1>4 DEF timerEvent, memories
  <2>3. QED BY <2>1, <2>2, FlashSendsKeep, MainStays
<1>5. CASE Line
  <2>1. Kept(MainCmds, MainStatuses) /\ Kept({"READ"}, {"ROM"})
    BY <1>5, LoseExchange DEF IspType, Kept, Line
  <2>2. UNCHANGED <<programmer, chip>> BY <1>5 DEF Line, Lose, memories
  <2>3. QED BY <2>1, <2>2, MainStays
<1>6. CASE UNCHANGED vars
  <2>1. UNCHANGED <<programmer, chip, toBoard, toPC>> BY <1>6 DEF vars, memories, line
  <2>2. Kept(MainCmds, MainStatuses) /\ Kept({"READ"}, {"ROM"})
    BY <2>1 DEF Kept, Quiet, Asked, Answered, NoRequest, NoAnswer
  <2>3. QED BY <2>1, <2>2, MainStays
<1>7. QED BY <1>1, <1>2, <1>3, <1>4, <1>5, <1>6 DEF Next

\* "OK" after Program is no less than the whole file in the chip, for every
\* size of file and packet, every loss and every failure of the on-chip flash:
\* one chunk is under way at a time, and only its own answer brings the next.
THEOREM ProgramsWholeFile == Spec => []OkMeansProgrammed
<1>1. Init => IspType /\ MainInv BY InitType, InitMain
<1>2. IspType /\ MainInv /\ [Next]_vars => (IspType /\ MainInv)' BY NextType, NextMain
<1>3. IspType /\ MainInv => OkMeansProgrammed
  <2>1. SUFFICES ASSUME IspType, MainInv, programmer.last = "Program", programmer.log = "OK"
                 PROVE  \A k \in DOMAIN programmer.e2 :
                          chip[IAP_ADDR_APP_START + k - 1] = programmer.e2[k]
    BY DEF OkMeansProgrammed
  <2>2. ChipHolds(Len(programmer.e2)) BY <2>1 DEF MainInv, Programs
  <2>3. DOMAIN programmer.e2 = 1 .. Len(programmer.e2)
    <3>1. programmer.e2 \in Seq(Byte) BY <2>1 DEF IspType, ProgrammerType, Programmers
    <3>2. QED BY <3>1
  <2>4. QED BY <2>2, <2>3 DEF ChipHolds
<1>4. QED BY <1>1, <1>2, <1>3, PTL DEF Spec

\* Read ROM shows what the chip holds, byte for byte, also past the length
\* asked for and round the end of the chip.
THEOREM ReadsWhatIsThere == Spec => []RomShowsChip
<1>1. Init => IspType /\ MainInv BY InitType, InitMain
<1>2. IspType /\ MainInv /\ [Next]_vars => (IspType /\ MainInv)' BY NextType, NextMain
<1>3. IspType /\ MainInv => RomShowsChip
  BY DEF MainInv, ReadsRom, RomShown, RomShowsChip, ReadRomName
<1>4. QED BY <1>1, <1>2, <1>3, PTL DEF Spec

-----------------------------------------------------------------------------
\* The flash window's invariant is inductive.

LEMMA FlashNames ==
  /\ \A b \in {None, ReadSizeName, EraseAllName, EraseSectorName, "Generate", "Program",
              "Refused"} : b \notin ReadButtons
  /\ ByMasterName # ByBackupName /\ "Read" \notin {ByMasterName, ByBackupName}
  /\ {ByMasterName, ByBackupName} \subseteq ReadButtons
  /\ None \notin {"OK", "FAILED"} /\ "OK" # "FAILED"
BY DEF None, ReadSizeName, EraseAllName, EraseSectorName, ReadButtons, ByMasterName, ByBackupName

\* The main window leaves what is the flash window's alone.
MainSends ==
  \E requests \in Seq(Requests) :
    PcSends(requests) /\ \A k \in 1 .. Len(requests) : requests[k].cmd \in MainCmds

LEMMA MainSendsKeep ==
  ASSUME IspType, ProgrammerClick
  PROVE  Kept(FlashCmds, FlashStatuses) /\ UNCHANGED nor
<1>1. PICK r \in Requests : PcSends(<<r>>) /\ r.cmd \in MainCmds BY ProgrammerClickMoves
<1>2. UNCHANGED toPC /\ UNCHANGED nor
  BY ProgrammerClickMoves DEF ProgrammerClick, memories
<1>3. <<r>> \in Seq(Requests) /\ Len(<<r>>) = 1 /\ <<r>>[1] = r OBVIOUS
<1>4. r.cmd \notin FlashCmds BY <1>1 DEF MainCmds, FlashCmds
<1>5. \A k \in 1 .. Len(<<r>>) : <<r>>[k].cmd \notin FlashCmds BY <1>3, <1>4
<1>6. Kept(FlashCmds, FlashStatuses)
  BY <1>1, <1>2, <1>3, <1>5, SendExchange DEF IspType, Kept
<1>7. QED BY <1>2, <1>6

LEMMA MainTakes ==
  ASSUME IspType, ProgrammerParsed
  PROVE  /\ UNCHANGED nor /\ PcTakes /\ toPC[1].status \in MainStatuses /\ LineType'
         /\ MainSends
<1>1. UNCHANGED nor BY DEF ProgrammerParsed, memories
<1>2. PcTakes /\ toPC[1].status \in MainStatuses
  <2>1. PcTakes BY OnOkMoves, OnFailedMoves, OnRomMoves DEF ProgrammerParsed
  <2>2. toPC[1].status \in {"OK", "PROGRAM_FAILED", "ERASE_PAGE_FAILED", "LDR_VERSION", "ROM"}
    BY ParsedMoves DEF ProgrammerParsed, OnOk, OnFailed, OnLdrVersion, OnRom
  <2>3. QED BY <2>1, <2>2 DEF MainStatuses
<1>3. \E requests \in Seq(Requests) :
        PcSends(requests) /\ \A k \in 1 .. Len(requests) : requests[k].cmd \in MainCmds
  <2>0. PICK none \in Seq(Requests) : none = <<>> /\ Len(none) = 0
    <3>1. <<>> \in Seq(Requests) /\ Len(<<>>) = 0 OBVIOUS
    <3>2. QED BY <3>1
  <2>1. CASE PcSends(<<>>)
    <3>1. PcSends(none) BY <2>0, <2>1
    <3>2. \A k \in 1 .. Len(none) : none[k].cmd \in MainCmds BY <2>0
    <3>3. QED BY <3>1, <3>2
  <2>2. CASE OnOk BY <2>2, OnOkMoves
  <2>3. CASE OnFailed \/ OnLdrVersion
    <3>1. PcSends(<<>>) BY <2>3, OnFailedMoves
    <3>2. QED BY <2>1, <3>1
  <2>4. CASE OnRom /\ ~PcSends(<<>>)
    <3>1. PcSends(<<ReadRomRequest(programmer')>>) /\ ProgrammerType' BY <2>4, OnRomMoves
    <3>2. PICK r \in Requests : r = ReadRomRequest(programmer') /\ r.cmd = "READ"
      BY <3>1, MainRequestFacts DEF ProgrammerType
    <3>3. <<r>> \in Seq(Requests) /\ Len(<<r>>) = 1 /\ <<r>>[1] = r OBVIOUS
    <3>4. r.cmd \in MainCmds BY <3>2 DEF MainCmds
    <3>5. \A k \in 1 .. Len(<<r>>) : <<r>>[k].cmd \in MainCmds BY <3>3, <3>4
    <3>6. PcSends(<<r>>) BY <3>1, <3>2
    <3>7. QED BY <3>3, <3>5, <3>6
  <2>5. QED BY <2>1, <2>2, <2>3, <2>4 DEF ProgrammerParsed
<1>4. LineType' BY OnOkMoves, OnFailedMoves, OnRomMoves DEF ProgrammerParsed
<1>5. QED BY <1>1, <1>2, <1>3, <1>4 DEF MainSends

LEMMA MainTakesKeep ==
  ASSUME IspType, ProgrammerParsed
  PROVE  Kept(FlashCmds, FlashStatuses) /\ UNCHANGED nor
<1>1. UNCHANGED nor BY MainTakes
<1>2. PcTakes /\ toPC[1].status \in MainStatuses BY MainTakes
<1>3. PICK requests \in Seq(Requests) :
        PcSends(requests) /\ \A k \in 1 .. Len(requests) : requests[k].cmd \in MainCmds
  BY MainTakes DEF MainSends
<1>4. /\ \A k \in 1 .. Len(requests) : requests[k].cmd \notin FlashCmds
      /\ toPC[1].status \notin FlashStatuses
  <2>1. \A c \in MainCmds : c \notin FlashCmds BY DEF FlashCmds, MainCmds
  <2>2. \A s \in MainStatuses : s \notin FlashStatuses BY DEF FlashStatuses, MainStatuses
  <2>3. QED BY <1>2, <1>3, <2>1, <2>2
<1>5. Kept(FlashCmds, FlashStatuses)
  BY <1>2, <1>3, <1>4, TakeExchange DEF IspType, Kept
<1>6. QED BY <1>1, <1>5

LEMMA FlashStays ==
  ASSUME FlashInv, UNCHANGED <<flash, nor>>, Kept(FlashCmds, FlashStatuses)
  PROVE  FlashInv'
<1>1. ASSUME ReadsFlash PROVE ReadsFlash'
  <2>1. FlashShown' BY <1>1 DEF ReadsFlash, FlashShown
  <2>2. \/ Quiet(FlashCmds, FlashStatuses)'
        \/ /\ flash.reading
           /\ \/ Asked(FlashCmds, FlashStatuses, ReadFlash(flash))'
              \/ \E a \in ToPC' : Answered(FlashCmds, FlashStatuses, a)' /\ DataAnswered(a)'
    <3>1. CASE Quiet(FlashCmds, FlashStatuses) BY <3>1 DEF Kept
    <3>2. CASE flash.reading /\ Asked(FlashCmds, FlashStatuses, ReadFlash(flash))
      <4>1. PICK r : r = ReadFlash(flash) OBVIOUS
      <4>2. Asked(FlashCmds, FlashStatuses, r)' \/ Quiet(FlashCmds, FlashStatuses)'
        BY <3>2, <4>1 DEF Kept
      <4>3. ReadFlash(flash') = ReadFlash(flash) OBVIOUS
      <4>4. QED BY <3>2, <4>1, <4>2, <4>3
    <3>3. CASE /\ flash.reading
               /\ \E a \in ToPC : Answered(FlashCmds, FlashStatuses, a) /\ DataAnswered(a)
      <4>1. PICK a \in ToPC : Answered(FlashCmds, FlashStatuses, a) /\ DataAnswered(a)
        BY <3>3
      <4>2. DataAnswered(a)' BY <4>1 DEF DataAnswered
      <4>3. Answered(FlashCmds, FlashStatuses, a)' \/ Quiet(FlashCmds, FlashStatuses)'
        BY <4>1 DEF Kept
      <4>4. Answered(FlashCmds, FlashStatuses, a)' => a \in ToPC' BY UnderWayPackets
      <4>5. QED BY <3>3, <4>2, <4>3, <4>4
    <3>4. QED BY <1>1, <3>1, <3>2, <3>3 DEF ReadsFlash
  <2>3. QED BY <1>1, <2>1, <2>2 DEF ReadsFlash
<1>2. ASSUME ReadsApp PROVE ReadsApp'
  <2>1. CheckDeserved' BY <1>2 DEF ReadsApp, CheckDeserved
  <2>2. QED BY <1>2, <2>1 DEF ReadsApp
<1>3. QED BY <1>1, <1>2 DEF FlashInv

LEMMA BoardKeepsFlash ==
  ASSUME IspType, FlashInv, isp_handle, UNCHANGED flash
  PROVE  FlashInv'
<1>1. toBoard # <<>> /\ toBoard[1] \in Requests /\ LineType BY BoardEffects DEF IspType
<1>2. PICK a \in Replies : BoardDoes(toBoard[1], a) BY BoardEffects
<1>3. PICK r1 \in Requests : r1 = toBoard[1] BY <1>1
<1>4. /\ BoardTakes(a)
      /\ r1.cmd \in FlashCmds <=> a.status \in FlashStatuses
      /\ r1.cmd \notin NorChanges => UNCHANGED nor
  BY <1>2, <1>3 DEF BoardDoes
<1>5. /\ Quiet(FlashCmds, FlashStatuses) => Quiet(FlashCmds, FlashStatuses)'
      /\ \A r : Asked(FlashCmds, FlashStatuses, r) =>
           \/ Asked(FlashCmds, FlashStatuses, r)' /\ r1.cmd \notin FlashCmds
           \/ Answered(FlashCmds, FlashStatuses, a)' /\ r = r1
      /\ \A b : Answered(FlashCmds, FlashStatuses, b) =>
           Answered(FlashCmds, FlashStatuses, b)' /\ r1.cmd \notin FlashCmds
  <2>1. BoardTakes(a) /\ (toBoard[1].cmd \in FlashCmds <=> a.status \in FlashStatuses)
    BY <1>3, <1>4
  <2>2. LineType BY <1>1
  <2>3. /\ Quiet(FlashCmds, FlashStatuses) => Quiet(FlashCmds, FlashStatuses)'
        /\ \A r : Asked(FlashCmds, FlashStatuses, r) =>
             \/ Asked(FlashCmds, FlashStatuses, r)' /\ toBoard[1].cmd \notin FlashCmds
             \/ Answered(FlashCmds, FlashStatuses, a)' /\ r = toBoard[1]
        /\ \A b : Answered(FlashCmds, FlashStatuses, b) =>
             Answered(FlashCmds, FlashStatuses, b)' /\ toBoard[1].cmd \notin FlashCmds
    BY <2>1, <2>2, BoardExchange
  <2>4. QED BY <1>3, <2>3
<1>6. CASE r1.cmd \notin FlashCmds
  <2>1. UNCHANGED nor BY <1>4, <1>6 DEF FlashCmds, NorChanges
  <2>2. \A r : Asked(FlashCmds, FlashStatuses, r) => r.cmd \in FlashCmds BY DEF Asked
  <2>3. Kept(FlashCmds, FlashStatuses) BY <1>5, <1>6, <2>2 DEF Kept
  <2>4. QED BY <2>1, <2>3, FlashStays
<1>7. CASE r1.cmd \in FlashCmds /\ flash.last \notin ReadButtons
  BY <1>7, FlashNames DEF FlashInv
<1>8. CASE r1.cmd \in FlashCmds /\ flash.last \in ReadButtons
  <2>1. ReadsFlash BY <1>8 DEF FlashInv
  <2>2. ~Quiet(FlashCmds, FlashStatuses)
    <3>1. 1 \in 1 .. Len(toBoard) BY <1>1 DEF LineType
    <3>2. QED BY <1>3, <1>8, <3>1 DEF Quiet, NoRequest
  <2>3. \A b : ~Answered(FlashCmds, FlashStatuses, b) BY <1>5, <1>8
  <2>4. flash.reading /\ Asked(FlashCmds, FlashStatuses, ReadFlash(flash))
    BY <2>1, <2>2, <2>3 DEF ReadsFlash
  <2>5. r1 = ReadFlash(flash) /\ Answered(FlashCmds, FlashStatuses, a)'
    <3>1. PICK r : r = ReadFlash(flash) OBVIOUS
    <3>2. Asked(FlashCmds, FlashStatuses, r) BY <2>4, <3>1
    <3>3. QED BY <1>5, <1>8, <3>1, <3>2
  <2>6. /\ r1.cmd = "READ_W25Q" /\ r1.addr = flash.leOffset + flash.e2recvd
        /\ r1.size = Min(flash.e2recv - flash.e2recvd, PKT_DAT_MAX_LEN)
        /\ flash \in Flashes
    BY <2>1, <2>5, FlashRequestFacts DEF IspType, FlashType, ReadsFlash
  <2>7. UNCHANGED nor BY <1>4, <2>6 DEF NorChanges
  <2>8. a.status = "W25Q_DATA" /\ a.addr = r1.addr /\ a.dat = norflash_read(r1.addr, r1.size)
    BY <1>2, <1>3, <2>6 DEF BoardDoes
  <2>9. r1.addr \in Nat /\ r1.size \in Nat BY DEF Requests
  <2>10. /\ Len(a.dat) = r1.size
         /\ \A k \in 1 .. r1.size : a.dat[k] = nor[(r1.addr + k - 1) % NorSize]
    BY <2>8, <2>9, ReadFacts DEF IspType
  <2>11. r1.size <= flash.e2recv - flash.e2recvd
    <3>1. flash.e2recv \in Nat /\ flash.e2recvd \in Nat BY <2>6 DEF Flashes
    <3>2. QED BY <2>6, <3>1, Sizes DEF Min
  <2>12. DataAnswered(a)' BY <2>6, <2>7, <2>8, <2>10, <2>11 DEF DataAnswered
  <2>13. a \in ToPC' BY <2>5, UnderWayPackets
  <2>14. ReadsFlash'
    <3>1. FlashShown' BY <2>1, <2>7 DEF ReadsFlash, FlashShown
    <3>2. QED BY <2>1, <2>4, <2>5, <2>12, <2>13, <3>1 DEF ReadsFlash
  <2>15. ReadsApp => ReadsApp'
    <3>1. CheckDeserved => CheckDeserved' BY <2>7 DEF CheckDeserved
    <3>2. QED BY <3>1 DEF ReadsApp
  <2>16. QED BY <2>14, <2>15 DEF FlashInv
<1>9. QED BY <1>6, <1>7, <1>8

\* What FlashInv says when an answer of the flash's is at the head and the
\* button pressed last reads.
LEMMA FlashHead ==
  ASSUME IspType, FlashInv, flash.last \in ReadButtons, toPC # <<>>,
         toPC[1].status \in FlashStatuses,
         NEW requests \in Seq(Requests), PcSends(requests), PcTakes
  PROVE  /\ ReadsFlash /\ flash.reading /\ DataAnswered(toPC[1])
         /\ requests = <<>> => Quiet(FlashCmds, FlashStatuses)'
         /\ \A r : requests = <<r>> /\ r.cmd \in FlashCmds => Asked(FlashCmds, FlashStatuses, r)'
<1>1. /\ ~Quiet(FlashCmds, FlashStatuses) /\ \A r : ~Asked(FlashCmds, FlashStatuses, r)
      /\ \A a : Answered(FlashCmds, FlashStatuses, a) =>
           /\ a = toPC[1]
           /\ (\A k \in 1 .. Len(requests) : requests[k].cmd \notin FlashCmds)
                => Quiet(FlashCmds, FlashStatuses)'
           /\ \A r : requests = <<r>> /\ r.cmd \in FlashCmds => Asked(FlashCmds, FlashStatuses, r)'
  BY TakeExchange DEF IspType
<1>2. requests = <<>> => \A k \in 1 .. Len(requests) : requests[k].cmd \notin FlashCmds
  <2>1. Len(<<>>) = 0 OBVIOUS
  <2>2. QED BY <2>1
<1>3. ReadsFlash BY DEF FlashInv
<1>4. flash.reading /\ Answered(FlashCmds, FlashStatuses, toPC[1]) /\ DataAnswered(toPC[1])
  BY <1>1, <1>3 DEF ReadsFlash
<1>5. QED BY <1>1, <1>2, <1>3, <1>4

\* An address below the size of the memory does not wrap.
LEMMA SmallMod == ASSUME NEW q \in Nat, NEW z \in Nat, q < z PROVE q % z = q
OBVIOUS

\* A window shows n bytes of the memory from o on; a packet copies those from at on.
ShowsNor(e2, o, n) == \A k \in 1 .. n : e2[o + k] = nor[o + k - 1]
CopiesNor(dat, at) == \A k \in 1 .. Len(dat) : dat[k] = nor[(at + k - 1) % NorSize]

\* The bytes of an answer, put where they belong.
LEMMA FilledShows ==
  ASSUME IspType, ReadsFlash, NEW a \in Replies, DataAnswered(a),
         a.addr + Len(a.dat) <= Len(flash.e2),
         NEW f \in Flashes, f = Filled(flash, a.dat, a.addr)
  PROVE  /\ f.e2recvd = flash.e2recvd + Len(a.dat) /\ f.e2recvd <= f.e2recv
         /\ Len(f.e2) = Len(flash.e2)
         /\ \A k \in 1 .. f.e2recvd :
              f.leOffset + k <= Len(f.e2) /\ f.e2[f.leOffset + k] = nor[f.leOffset + k - 1]
         /\ \A k \in 1 .. flash.leOffset : k <= Len(f.e2) => f.e2[k] = flash.e2[k]
         /\ f.open = flash.open /\ f.last = flash.last /\ f.leOffset = flash.leOffset
         /\ f.e2recv = flash.e2recv /\ f.reading = flash.reading
         /\ f.readingMaster = flash.readingMaster /\ f.check = flash.check
<1>1. /\ flash \in Flashes /\ flash.e2 \in Seq(Byte) /\ flash.leOffset \in Nat
      /\ flash.e2recv \in Nat /\ flash.e2recvd \in Nat /\ Len(flash.e2) <= NorSize
  BY DEF IspType, FlashType, Flashes
<1>2. PICK old \in Seq(Byte), o \in Nat, n \in Nat, dat \in Seq(Byte), m \in Nat :
        /\ old = flash.e2 /\ o = flash.leOffset /\ n = flash.e2recvd
        /\ dat = a.dat /\ m = Len(dat)
  <2>1. PICK dat \in Seq(Byte) : dat = a.dat BY DEF Replies
  <2>2. Len(dat) \in Nat OBVIOUS
  <2>3. QED BY <1>1, <2>1, <2>2
<1>3. PICK at \in Nat : at = a.addr BY DEF Replies
<1>4. at = o + n /\ m <= flash.e2recv - n BY <1>2, <1>3 DEF DataAnswered
<1>5. CopiesNor(dat, o + n) BY <1>2, <1>3, <1>4 DEF DataAnswered, CopiesNor
<1>6. Len(old) \in Nat OBVIOUS
<1>7. at + m <= Len(old) /\ at <= Len(old) BY <1>2, <1>3, <1>6
<1>8. ShowsNor(old, o, n) BY <1>2 DEF ReadsFlash, FlashShown, ShowsNor
<1>9. /\ f.e2 = Put(old, at, dat) /\ f.e2recvd = n + m
      /\ f.open = flash.open /\ f.last = flash.last /\ f.leOffset = flash.leOffset
      /\ f.e2recv = flash.e2recv /\ f.reading = flash.reading
      /\ f.readingMaster = flash.readingMaster /\ f.check = flash.check
  <2>1. at <= Len(flash.e2) /\ f = Filled(flash, dat, at) BY <1>2, <1>3, <1>7
  <2>2. QED BY <1>1, <1>2, <2>1, FilledFacts
<1>10. /\ Len(Put(old, at, dat)) = Len(old)
       /\ \A k \in 1 .. n + m : o + k <= Len(old) /\ Put(old, at, dat)[o + k] = nor[o + k - 1]
       /\ \A k \in 1 .. o : k <= Len(old) => Put(old, at, dat)[k] = old[k]
  <2>1. at = o + n /\ m = Len(dat) BY <1>2, <1>4
  <2>2. PICK new : new = Put(old, at, dat) OBVIOUS
  <2>3. PICK len \in Nat : len = Len(old) BY <1>6
  <2>4. at + m <= len /\ at <= len /\ len <= NorSize BY <1>1, <1>2, <1>7, <2>3
  <2>5. /\ Len(new) = IF at + m > len THEN at + m ELSE len
        /\ \A k \in 1 .. Len(new) : new[k] = IF k \in at + 1 .. at + m THEN dat[k - at] ELSE old[k]
    <3>1. at <= Len(old) BY <2>3, <2>4
    <3>2. Len(Put(old, at, dat)) = IF at + Len(dat) > Len(old) THEN at + Len(dat) ELSE Len(old)
      BY <3>1, PutFacts
    <3>3. \A k \in 1 .. Len(Put(old, at, dat)) :
            Put(old, at, dat)[k] = IF k \in at + 1 .. at + Len(dat) THEN dat[k - at] ELSE old[k]
      BY <3>1, PutFacts
    <3>4. QED BY <2>1, <2>2, <2>3, <3>2, <3>3
  <2>6. Len(new) = len BY <2>4, <2>5
  <2>7. \A k \in 1 .. len : new[k] = IF k \in at + 1 .. at + m THEN dat[k - at] ELSE old[k]
    BY <2>5, <2>6
  <2>8. ASSUME NEW k \in 1 .. n + m PROVE o + k <= len /\ new[o + k] = nor[o + k - 1]
    <3>1. k \in Nat /\ 1 <= k /\ k <= n + m OBVIOUS
    <3>2. PICK p \in Nat : p = o + k BY <3>1
    <3>3. p \in 1 .. len BY <2>1, <2>4, <3>1, <3>2
    <3>4. CASE k <= n
      <4>1. k \in 1 .. n BY <3>1, <3>4
      <4>2. p \notin at + 1 .. at + m BY <2>1, <3>1, <3>2, <3>4
      <4>3. new[p] = old[p] BY <2>7, <3>3, <4>2
      <4>4. old[p] = nor[o + k - 1] BY <1>8, <3>2, <4>1 DEF ShowsNor
      <4>5. QED BY <3>2, <3>3, <4>3, <4>4
    <3>5. CASE k > n
      <4>1. PICK j \in Nat : j = k - n BY <3>1, <3>5
      <4>2. j \in 1 .. m BY <3>1, <3>5, <4>1
      <4>3. p \in at + 1 .. at + m /\ p - at = j BY <2>1, <3>1, <3>2, <3>5, <4>1
      <4>4. new[p] = dat[j] BY <2>7, <3>3, <4>3
      <4>5. o + n + j - 1 = p - 1 BY <3>1, <3>2, <4>1
      <4>6. dat[j] = nor[(p - 1) % NorSize] BY <1>5, <2>1, <4>2, <4>5 DEF CopiesNor
      <4>7. p - 1 \in 0 .. NorSize - 1 BY <2>4, <3>3, Sizes
      <4>8. PICK q \in Nat, z \in Nat : q = p - 1 /\ z = NorSize /\ q < z BY <4>7, Sizes
      <4>9. (p - 1) % NorSize = p - 1
        <5>1. q % z = q BY <4>8, SmallMod
        <5>2. QED BY <4>8, <5>1
      <4>10. p - 1 = o + k - 1 BY <3>2
      <4>11. QED BY <3>2, <3>3, <4>4, <4>6, <4>9, <4>10
    <3>6. QED BY <3>1, <3>4, <3>5
  <2>9. ASSUME NEW k \in 1 .. o, k <= len PROVE new[k] = old[k]
    <3>1. k \in 1 .. len /\ k \notin at + 1 .. at + m BY <2>1, <2>9
    <3>2. QED BY <2>7, <3>1
  <2>10. QED BY <2>1, <2>2, <2>3, <2>6, <2>8, <2>9
<1>11. n + m <= flash.e2recv BY <1>1, <1>2, <1>4
<1>12. /\ f.e2recvd = flash.e2recvd + Len(a.dat) /\ f.e2recvd <= f.e2recv
       /\ Len(f.e2) = Len(flash.e2)
  BY <1>2, <1>9, <1>10, <1>11
<1>13. \A k \in 1 .. f.e2recvd :
         f.leOffset + k <= Len(f.e2) /\ f.e2[f.leOffset + k] = nor[f.leOffset + k - 1]
  BY <1>2, <1>9, <1>10
<1>14. \A k \in 1 .. flash.leOffset : k <= Len(f.e2) => f.e2[k] = flash.e2[k]
  BY <1>2, <1>9, <1>10
<1>15. QED BY <1>9, <1>12, <1>13, <1>14

\* The record that a read is checked by lies before what is read.
LEMMA RecordStays ==
  ASSUME NEW f \in Flashes, NEW g \in Flashes, f.leOffset \in AppAddresses,
         g.leOffset = f.leOffset, g.readingMaster = f.readingMaster,
         Len(f.e2) = NorSize,
         \A k \in 1 .. f.leOffset : k <= NorSize => g.e2[k] = f.e2[k]
  PROVE  ExpectedInfo(g) = ExpectedInfo(f) /\ ExpectedInfo(f).size \in Nat
<1>1. /\ f.leOffset \in NorAddresses
      /\ NORFLASH_OTA_MASTER_ADDR \in NorAddresses /\ NORFLASH_OTA_BACKUP_ADDR \in NorAddresses
      /\ NORFLASH_OTA_MASTER_ADDR < f.leOffset /\ NORFLASH_OTA_BACKUP_ADDR < f.leOffset
  BY FlashWindowAssumption
<1>2. /\ NORFLASH_OTA_MASTER_ADDR + 1 \in 1 .. f.leOffset
      /\ NORFLASH_OTA_MASTER_ADDR + 1 <= NorSize
      /\ NORFLASH_OTA_BACKUP_ADDR + 1 \in 1 .. f.leOffset
      /\ NORFLASH_OTA_BACKUP_ADDR + 1 <= NorSize
  BY <1>1, Sizes DEF NorAddresses
<1>3. /\ g.e2[NORFLASH_OTA_MASTER_ADDR + 1] = f.e2[NORFLASH_OTA_MASTER_ADDR + 1]
      /\ g.e2[NORFLASH_OTA_BACKUP_ADDR + 1] = f.e2[NORFLASH_OTA_BACKUP_ADDR + 1]
  BY <1>2
<1>4. ExpectedInfo(g) = ExpectedInfo(f) BY <1>3 DEF ExpectedInfo, ShownInfo
<1>5. f.readingMaster \in BOOLEAN BY DEF Flashes
<1>6. ExpectedInfo(f).size \in Nat BY <1>5, ShownInfoFacts DEF ExpectedInfo
<1>7. QED BY <1>4, <1>6

LEMMA DataKeepsFlash ==
  ASSUME IspType, FlashInv, OnData, UNCHANGED memories
  PROVE  FlashInv'
<1>1. /\ toPC # <<>> /\ toPC[1].status = "W25Q_DATA" /\ toPC[1] \in Replies /\ PcTakes
      /\ UNCHANGED nor /\ flash \in Flashes
  BY ParsedMoves, OnDataMoves DEF OnData, memories, IspType, FlashType
<1>2. toPC[1].status \in FlashStatuses BY <1>1 DEF FlashStatuses
<1>3. PICK a \in Replies : a = toPC[1] BY <1>1
<1>4. PICK none \in Seq(Requests) : none = <<>>
  <2>1. <<>> \in Seq(Requests) OBVIOUS
  <2>2. QED BY <2>1
<1>5. CASE UNCHANGED flash /\ PcSends(<<>>)
  <2>1. CASE flash.last \notin ReadButtons BY <1>5, <2>1, FlashNames DEF FlashInv
  <2>2. CASE flash.last \in ReadButtons
    <3>1. ReadsFlash /\ flash.reading /\ Quiet(FlashCmds, FlashStatuses)'
      BY <1>1, <1>2, <1>4, <1>5, <2>2, FlashHead
    <3>2. FlashShown' BY <1>1, <1>5, <3>1 DEF ReadsFlash, FlashShown
    <3>3. ReadsFlash' BY <1>5, <3>1, <3>2 DEF ReadsFlash
    <3>4. ReadsApp => ReadsApp'
      <4>1. CheckDeserved => CheckDeserved' BY <1>1, <1>5 DEF CheckDeserved
      <4>2. QED BY <1>5, <4>1 DEF ReadsApp
    <3>5. QED BY <1>5, <3>3, <3>4 DEF FlashInv
  <2>3. QED BY <2>1, <2>2
<1>6. CASE \E f \in Flashes :
             /\ flash.open /\ toPC[1].addr + Len(toPC[1].dat) <= Len(flash.e2)
             /\ f = Filled(flash, toPC[1].dat, toPC[1].addr)
             /\ \/ /\ f.e2recvd < f.e2recv /\ flash' = f
                   /\ PcSends(<<ReadFlash(flash')>>) /\ ReadFlash(flash') \in Requests
                \/ ~(f.e2recvd < f.e2recv) /\ flash' = ReadOver(f) /\ PcSends(<<>>)
  <2>1. PICK f \in Flashes :
             /\ flash.open /\ a.addr + Len(a.dat) <= Len(flash.e2)
             /\ f = Filled(flash, a.dat, a.addr)
             /\ \/ /\ f.e2recvd < f.e2recv /\ flash' = f
                   /\ PcSends(<<ReadFlash(flash')>>) /\ ReadFlash(flash') \in Requests
                \/ ~(f.e2recvd < f.e2recv) /\ flash' = ReadOver(f) /\ PcSends(<<>>)
    BY <1>3, <1>6
  <2>2. /\ f.open = flash.open /\ f.last = flash.last /\ f.leOffset = flash.leOffset
        /\ f.e2recv = flash.e2recv /\ f.reading = flash.reading
        /\ f.readingMaster = flash.readingMaster /\ f.check = flash.check
    <3>1. PICK at \in Nat, dat \in Seq(Byte), old \in Seq(Byte) :
            at = a.addr /\ dat = a.dat /\ old = flash.e2
      BY <1>1 DEF Replies, Flashes
    <3>2. Len(dat) \in Nat /\ Len(old) \in Nat OBVIOUS
    <3>3. at <= Len(old) BY <2>1, <3>1, <3>2
    <3>4. at <= Len(flash.e2) /\ f = Filled(flash, dat, at) BY <2>1, <3>1, <3>3
    <3>5. QED BY <1>1, <3>4, FilledFacts
  <2>3. /\ flash'.last = flash.last /\ flash' \in Flashes /\ flash'.e2 = f.e2
        /\ flash'.leOffset = f.leOffset /\ flash'.readingMaster = f.readingMaster
        /\ flash'.e2recv = f.e2recv /\ flash'.e2recvd = f.e2recvd /\ flash'.open = f.open
        /\ flash' = f \/ ~flash'.reading
    BY <2>1, <2>2, ReadOverFacts
  <2>4. CASE flash.last \notin ReadButtons BY <2>3, <2>4, FlashNames DEF FlashInv
  <2>5. CASE flash.last \in ReadButtons
    <3>1. PICK requests \in Seq(Requests) :
            /\ PcSends(requests)
            /\ \/ /\ f.e2recvd < f.e2recv /\ flash' = f
                  /\ \E r \in Requests : r = ReadFlash(flash') /\ requests = <<r>>
               \/ ~(f.e2recvd < f.e2recv) /\ flash' = ReadOver(f) /\ requests = <<>>
      <4>1. CASE /\ f.e2recvd < f.e2recv /\ flash' = f
                 /\ PcSends(<<ReadFlash(flash')>>) /\ ReadFlash(flash') \in Requests
        <5>1. PICK r \in Requests : r = ReadFlash(flash') BY <4>1
        <5>2. <<r>> \in Seq(Requests) /\ PcSends(<<r>>) BY <4>1, <5>1
        <5>3. QED BY <4>1, <5>1, <5>2
      <4>2. CASE ~(f.e2recvd < f.e2recv) /\ flash' = ReadOver(f) /\ PcSends(<<>>)
        BY <1>4, <4>2
      <4>3. QED BY <2>1, <4>1, <4>2
    <3>2. /\ ReadsFlash /\ flash.reading /\ DataAnswered(a)
          /\ requests = <<>> => Quiet(FlashCmds, FlashStatuses)'
          /\ \A r : requests = <<r>> /\ r.cmd \in FlashCmds
                      => Asked(FlashCmds, FlashStatuses, r)'
      BY <1>1, <1>2, <1>3, <2>5, <3>1, FlashHead
    <3>3. /\ f.e2recvd <= f.e2recv /\ Len(f.e2) = Len(flash.e2)
          /\ \A k \in 1 .. f.e2recvd :
               f.leOffset + k <= Len(f.e2) /\ f.e2[f.leOffset + k] = nor[f.leOffset + k - 1]
          /\ \A k \in 1 .. flash.leOffset : k <= Len(f.e2) => f.e2[k] = flash.e2[k]
      BY <2>1, <3>2, FilledShows
    <3>4. FlashShown' BY <1>1, <2>3, <3>3 DEF FlashShown
    <3>5. f.e2recvd \in Nat /\ f.e2recv \in Nat BY DEF Flashes
    <3>6. flash.check = None BY <3>2 DEF ReadsFlash
    <3>7. ReadsFlash'
      <4>1. CASE f.e2recvd < f.e2recv /\ flash' = f
        <5>1. PICK r \in Requests : r = ReadFlash(flash') /\ requests = <<r>>
          BY <3>1, <3>5, <4>1
        <5>2. r.cmd = "READ_W25Q" BY <2>3, <3>3, <5>1, FlashRequestFacts
        <5>3. Asked(FlashCmds, FlashStatuses, r)' BY <3>2, <5>1, <5>2 DEF FlashCmds
        <5>4. Asked(FlashCmds, FlashStatuses, ReadFlash(flash))' BY <5>1, <5>3
        <5>5. flash'.reading /\ flash'.check = None BY <2>2, <3>2, <3>6, <4>1
        <5>6. flash'.e2recvd <= flash'.e2recv BY <2>3, <3>3
        <5>7. flash'.open BY <2>1, <2>2, <4>1
        <5>8. QED BY <3>4, <5>4, <5>5, <5>6, <5>7 DEF ReadsFlash
      <4>2. CASE ~(f.e2recvd < f.e2recv) /\ flash' = ReadOver(f) /\ requests = <<>>
        <5>1. Quiet(FlashCmds, FlashStatuses)' BY <3>2, <4>2
        <5>2. ~flash'.reading BY <4>2, ReadOverFacts
        <5>3. flash'.e2recvd = flash'.e2recv BY <2>3, <3>3, <3>5, <4>2
        <5>4. flash'.e2recvd <= flash'.e2recv BY <2>3, <3>3
        <5>5. flash'.open BY <2>1, <2>2, <2>3
        <5>6. QED BY <3>4, <5>1, <5>2, <5>3, <5>4, <5>5 DEF ReadsFlash
      <4>3. QED BY <3>1, <4>1, <4>2
    <3>8. ASSUME flash.last \in {ByMasterName, ByBackupName} PROVE ReadsApp'
      <4>1. ReadsApp BY <3>8 DEF FlashInv
      <4>2. /\ flash.leOffset \in AppAddresses /\ Len(flash.e2) = NorSize
            /\ flash.e2recv = ExpectedInfo(flash).size
            /\ flash.readingMaster = (flash.last = ByMasterName)
        BY <4>1 DEF ReadsApp
      <4>3. \A k \in 1 .. flash.leOffset : k <= NorSize => f.e2[k] = flash.e2[k]
        BY <3>3, <4>2
      <4>4. /\ ExpectedInfo(f) = ExpectedInfo(flash) /\ ExpectedInfo(flash') = ExpectedInfo(flash)
            /\ ExpectedInfo(flash).size \in Nat
        <5>1. ExpectedInfo(f) = ExpectedInfo(flash) /\ ExpectedInfo(flash).size \in Nat
          BY <1>1, <2>2, <4>2, <4>3, RecordStays
        <5>2. ExpectedInfo(flash') = ExpectedInfo(f) BY <2>3 DEF ExpectedInfo, ShownInfo
        <5>3. QED BY <5>1, <5>2
      <4>5. PICK info : info = ExpectedInfo(flash) OBVIOUS
      <4>6. CheckDeserved'
        <5>1. CASE flash'.check = None BY <5>1 DEF CheckDeserved
        <5>2. CASE flash'.check # None
          <6>1. flash' = ReadOver(f) /\ ~(f.e2recvd < f.e2recv) BY <2>2, <3>1, <3>6, <5>2
          <6>2. /\ ~(f.leOffset + info.size > Len(f.e2))
                /\ flash'.check = IF Crc(Mid(f.e2, f.leOffset, info.size)) = info.crc
                                  THEN "OK" ELSE "FAILED"
            BY <2>2, <3>6, <4>4, <4>5, <5>2, <6>1, ReadOverFacts
          <6>3. info.size \in Nat /\ f.e2recvd = info.size
            BY <2>2, <3>3, <3>5, <4>2, <4>4, <4>5, <6>1
          <6>4. f.e2 \in Seq(Byte) /\ f.leOffset \in Nat BY DEF Flashes
          <6>5. Mid(f.e2, f.leOffset, info.size)
                  = [k \in 1 .. info.size |-> nor[f.leOffset + k - 1]]
            <7>1. PICK e2 \in Seq(Byte), o \in Nat, n \in Nat :
                    e2 = f.e2 /\ o = f.leOffset /\ n = info.size
              BY <6>3, <6>4
            <7>2. o + n <= Len(e2)
              <8>1. Len(e2) \in Nat OBVIOUS
              <8>2. QED BY <6>2, <7>1, <8>1
            <7>3. \A k \in 1 .. n : e2[o + k] = nor[o + k - 1] BY <3>3, <6>3, <7>1
            <7>4. Mid(e2, o, n) = SubSeq(e2, o + 1, o + n) BY <7>2 DEF Mid, Min
            <7>5. SubSeq(e2, o + 1, o + n) = [k \in 1 .. n |-> e2[o + k]]
              <8>1. SubSeq(e2, o + 1, o + n) = [k \in 1 .. (o + n) - (o + 1) + 1 |-> e2[k + (o + 1) - 1]]
                BY <7>2
              <8>2. 1 .. (o + n) - (o + 1) + 1 = 1 .. n OBVIOUS
              <8>3. \A k \in 1 .. n : k + (o + 1) - 1 = o + k OBVIOUS
              <8>4. QED BY <8>1, <8>2, <8>3
            <7>6. [k \in 1 .. n |-> e2[o + k]] = [k \in 1 .. n |-> nor[o + k - 1]]
              BY <7>3
            <7>7. QED BY <7>1, <7>4, <7>5, <7>6
          <6>6. (flash'.check = "OK") =
                  (Crc([k \in 1 .. info.size |-> nor[f.leOffset + k - 1]]) = info.crc)
            BY <6>2, <6>5, FlashNames
          <6>7. info = ExpectedInfo(flash') BY <4>4, <4>5
          <6>8. QED BY <1>1, <2>3, <6>6, <6>7 DEF CheckDeserved
        <5>3. QED BY <5>1, <5>2
      <4>7. /\ (flash.readingMaster = (flash.last = ByMasterName))'
            /\ (Len(flash.e2) = NorSize)' /\ (flash.leOffset \in AppAddresses)'
            /\ (flash.e2recv = ExpectedInfo(flash).size)'
        BY <2>2, <2>3, <3>3, <4>2, <4>4
      <4>8. QED BY <4>6, <4>7 DEF ReadsApp
    <3>9. QED BY <2>3, <3>7, <3>8 DEF FlashInv
  <2>6. QED BY <2>4, <2>5
<1>7. QED BY <1>5, <1>6, OnDataMoves

\* Nothing is under way that a button of the window would find there.
LEMMA IdleIsQuiet ==
  ASSUME IspType, FlashIdle PROVE Quiet(FlashCmds, FlashStatuses)
<1>1. DOMAIN toBoard = 1 .. Len(toBoard) /\ DOMAIN toPC = 1 .. Len(toPC)
  BY DEF IspType, LineType
<1>2. ~UnderWay(FlashCmds, FlashStatuses) BY DEF FlashIdle, FlashCmds, FlashStatuses
<1>3. QED BY <1>1, <1>2 DEF UnderWay, Quiet, NoRequest, NoAnswer

\* A read that starts, or is asked for again, on a quiet line.
LEMMA ReadAsked ==
  ASSUME IspType, Quiet(FlashCmds, FlashStatuses), flash' \in Flashes,
         flash'.e2recvd <= flash'.e2recv, PcSends(<<ReadFlash(flash')>>), UNCHANGED toPC
  PROVE  Asked(FlashCmds, FlashStatuses, ReadFlash(flash))'
<1>1. ReadFlash(flash') \in Requests /\ ReadFlash(flash').cmd = "READ_W25Q"
  BY FlashRequestFacts
<1>2. PICK r \in Requests : r = ReadFlash(flash') BY <1>1
<1>3. <<r>> \in Seq(Requests) /\ Len(<<r>>) = 1 /\ <<r>>[1] = r OBVIOUS
<1>4. PcSends(<<r>>) /\ r.cmd \in FlashCmds BY <1>1, <1>2 DEF FlashCmds
<1>5. Asked(FlashCmds, FlashStatuses, r)' BY <1>3, <1>4, SendExchange DEF IspType
<1>6. QED BY <1>2, <1>5

LEMMA ReadStarts ==
  ASSUME IspType, Quiet(FlashCmds, FlashStatuses), UNCHANGED toPC,
         NEW button, NEW offset, NEW n, StartsRead(button, offset, n)
  PROVE  ReadsFlash'
<1>1. /\ flash' \in Flashes /\ flash'.e2recvd = 0 /\ flash'.reading /\ flash'.open
      /\ flash'.check = None /\ PcSends(<<ReadFlash(flash')>>)
  BY DEF StartsRead
<1>2. flash'.e2recvd <= flash'.e2recv BY <1>1 DEF Flashes
<1>3. Asked(FlashCmds, FlashStatuses, ReadFlash(flash))' BY <1>1, <1>2, ReadAsked
<1>4. FlashShown' BY <1>1 DEF FlashShown
<1>5. QED BY <1>1, <1>2, <1>3, <1>4 DEF ReadsFlash

LEMMA FlashClickKeepsFlash ==
  ASSUME IspType, FlashInv, FlashClick
  PROVE  FlashInv'
<1>1. CASE slotOpenFlash \/ CloseFlash
  <2>1. flash'.last = None BY <1>1, OpenMoves, OpenedType
  <2>2. QED BY <2>1, FlashNames DEF FlashInv
<1>2. CASE slotReadFlashSize \/ FlashEraseAll \/ FlashEraseSector
  BY <1>2, CommandMoves, FlashNames DEF FlashInv
<1>3. CASE generateData BY <1>3, GenerateMoves, FlashNames DEF FlashInv
<1>4. CASE FlashProgram BY <1>4, FlashProgramMoves, FlashNames DEF FlashInv
<1>5. CASE FlashRead
  <2>1. Quiet(FlashCmds, FlashStatuses) BY <1>5, IdleIsQuiet DEF FlashRead
  <2>2. PICK offset \in Nat, size \in Nat : StartsRead("Read", offset, size)
    BY <1>5, FlashReadMoves
  <2>3. UNCHANGED toPC BY <1>5, FlashReadMoves
  <2>4. ReadsFlash' BY <2>1, <2>2, <2>3, ReadStarts
  <2>5. flash'.last = "Read" BY <2>2 DEF StartsRead
  <2>6. QED BY <2>4, <2>5, FlashNames DEF FlashInv
<1>6. CASE ReadAppAndCalcCrc32
  <2>1. Quiet(FlashCmds, FlashStatuses) BY <1>6, IdleIsQuiet DEF ReadAppAndCalcCrc32
  <2>2. PICK byMaster \in BOOLEAN, offset \in AppAddresses :
          /\ StartsRead(ByRecord(byMaster), offset, ShownInfo(flash, byMaster, offset).size)
          /\ flash'.readingMaster = byMaster /\ Len(flash.e2) = NorSize
    BY <1>6, ReadAppMoves
  <2>3. UNCHANGED toPC BY <1>6, ReadAppMoves
  <2>4. PICK n : n = ShownInfo(flash, byMaster, offset).size OBVIOUS
  <2>5. StartsRead(ByRecord(byMaster), offset, n) BY <2>2, <2>4
  <2>6. PICK button : button = ByRecord(byMaster) OBVIOUS
  <2>7. StartsRead(button, offset, n) BY <2>5, <2>6
  <2>8. ReadsFlash' BY <2>1, <2>3, <2>7, ReadStarts
  <2>9. /\ flash'.last = ByRecord(byMaster) /\ flash'.leOffset = offset /\ flash'.e2recv = n
        /\ flash'.e2 = flash.e2 /\ flash'.check = None
    BY <2>5 DEF StartsRead
  <2>10. ReadsApp'
    <3>1. flash'.readingMaster = (flash'.last = ByMasterName)
      BY <2>2, <2>9, FlashNames DEF ByRecord
    <3>2. Len(flash'.e2) = NorSize /\ flash'.leOffset \in AppAddresses BY <2>2, <2>9
    <3>3. flash'.e2recv = ExpectedInfo(flash').size
      BY <2>2, <2>4, <2>9 DEF ExpectedInfo, ShownInfo
    <3>4. CheckDeserved' BY <2>9 DEF CheckDeserved
    <3>5. QED BY <3>1, <3>2, <3>3, <3>4 DEF ReadsApp
  <2>11. QED BY <2>8, <2>10 DEF FlashInv
<1>7. QED BY <1>1, <1>2, <1>3, <1>4, <1>5, <1>6 DEF FlashClick

\* Answers that no read waits for.
LEMMA OthersKeepFlash ==
  ASSUME IspType, FlashInv, OnSize \/ OnErased \/ OnProgrammed, UNCHANGED memories
  PROVE  FlashInv'
<1>1. /\ PcTakes /\ toPC[1].status \in FlashStatuses /\ toPC[1].status # "W25Q_DATA"
      /\ flash'.last = flash.last
  <2>1. flash \in Flashes BY DEF IspType, FlashType
  <2>2. CASE OnSize
    <3>1. /\ PcTakes /\ toPC[1].status = "W25Q_SIZE"
          /\ \/ UNCHANGED flash
             \/ flash' = [flash EXCEPT !.e2 = AllBlank(NorSize)]
      BY <2>2, OnSizeMoves
    <3>2. flash'.last = flash.last BY <2>1, <3>1 DEF Flashes
    <3>3. QED BY <3>1, <3>2 DEF FlashStatuses
  <2>3. CASE OnErased BY <2>3, OnErasedMoves DEF FlashStatuses
  <2>4. CASE OnProgrammed
    <3>1. /\ PcTakes /\ toPC[1].status = "W25Q_PROGRAM_RES"
          /\ \/ UNCHANGED flash
             \/ flash' = [flash EXCEPT !.e2sent = flash'.e2sent, !.counted = flash'.counted]
      BY <2>4, OnProgrammedMoves
    <3>2. flash'.last = flash.last BY <2>1, <3>1 DEF Flashes
    <3>3. QED BY <3>1, <3>2 DEF FlashStatuses
  <2>5. QED BY <2>2, <2>3, <2>4
<1>2. toPC # <<>> BY <1>1 DEF PcTakes
<1>3. PICK requests \in Seq(Requests) : PcSends(requests)
  <2>1. CASE OnSize \/ OnErased
    <3>1. <<>> \in Seq(Requests) OBVIOUS
    <3>2. QED BY <2>1, <3>1, OnSizeMoves, OnErasedMoves
  <2>2. CASE OnProgrammed
    <3>1. FlashParsed => FlashSends BY FlashParsedMoves
    <3>2. PcSends(<<>>) \/ \E r \in Requests : PcSends(<<r>>) BY <2>2, OnProgrammedMoves
    <3>3. <<>> \in Seq(Requests) /\ \A r \in Requests : <<r>> \in Seq(Requests) OBVIOUS
    <3>4. QED BY <3>2, <3>3
  <2>3. QED BY <2>1, <2>2
<1>4. CASE flash.last \in ReadButtons
  <2>1. DataAnswered(toPC[1]) BY <1>1, <1>2, <1>3, <1>4, FlashHead
  <2>2. QED BY <1>1, <2>1 DEF DataAnswered
<1>5. CASE flash.last \notin ReadButtons BY <1>1, <1>5, FlashNames DEF FlashInv
<1>6. QED BY <1>4, <1>5

LEMMA TimerKeepsFlash ==
  ASSUME IspType, FlashInv, timerEvent
  PROVE  FlashInv'
<1>1. /\ UNCHANGED <<flash, nor, toPC>> /\ flash.reading
      /\ ~UnderWay({"READ_W25Q"}, {"W25Q_DATA"})
      /\ PcSends(<<ReadFlash(flash)>>)
  BY TimerMoves DEF timerEvent, memories
<1>2. flash \in Flashes BY DEF IspType, FlashType
<1>3. ASSUME ReadsFlash PROVE ReadsFlash'
  <2>1. flash.e2recvd <= flash.e2recv BY <1>3 DEF ReadsFlash
  <2>2. DOMAIN toBoard = 1 .. Len(toBoard) /\ DOMAIN toPC = 1 .. Len(toPC)
    BY DEF IspType, LineType
  <2>3. ~Asked(FlashCmds, FlashStatuses, ReadFlash(flash))
    <3>1. ReadFlash(flash).cmd = "READ_W25Q" BY <1>2, <2>1, FlashRequestFacts
    <3>2. QED BY <1>1, <2>2, <3>1 DEF Asked, UnderWay
  <2>4. ~(\E a \in ToPC : Answered(FlashCmds, FlashStatuses, a) /\ DataAnswered(a))
    BY <1>1, <2>2 DEF Answered, DataAnswered, UnderWay
  <2>5. Quiet(FlashCmds, FlashStatuses) BY <1>3, <2>3, <2>4 DEF ReadsFlash
  <2>6. Asked(FlashCmds, FlashStatuses, ReadFlash(flash))'
    BY <1>1, <1>2, <2>1, <2>5, ReadAsked
  <2>7. FlashShown' BY <1>1, <1>3 DEF ReadsFlash, FlashShown
  <2>8. QED BY <1>1, <1>3, <2>6, <2>7 DEF ReadsFlash
<1>4. ASSUME ReadsApp PROVE ReadsApp'
  <2>1. CheckDeserved' BY <1>1, <1>4 DEF ReadsApp, CheckDeserved
  <2>2. QED BY <1>1, <1>4, <2>1 DEF ReadsApp
<1>5. QED BY <1>1, <1>3, <1>4 DEF FlashInv

LEMMA InitFlash ==
  ASSUME Init PROVE FlashInv
<1>1. flash.last = None BY OpenedType DEF Init, FlashInit
<1>2. QED BY <1>1, FlashNames DEF FlashInv

LEMMA NextFlash ==
  ASSUME IspType, FlashInv, [Next]_vars PROVE FlashInv'
<1>1. CASE Board BY <1>1, BoardKeepsFlash DEF Board
<1>2. CASE Operator
  <2>1. CASE ProgrammerClick /\ UNCHANGED flash BY <2>1, MainSendsKeep, FlashStays
  <2>2. CASE FlashClick BY <2>2, FlashClickKeepsFlash
  <2>3. QED BY <1>2, <2>1, <2>2 DEF Operator
<1>3. CASE Answers
  <2>1. CASE ProgrammerParsed /\ UNCHANGED flash BY <2>1, MainTakesKeep, FlashStays
  <2>2. CASE FlashParsed
    <3>1. UNCHANGED memories BY <2>2 DEF FlashParsed
    <3>2. QED BY <2>2, <3>1, OthersKeepFlash, DataKeepsFlash DEF FlashParsed
  <2>3. QED BY <1>3, <2>1, <2>2 DEF Answers
<1>4. CASE timerEvent BY <1>4, TimerKeepsFlash
<1>5. CASE Line
  <2>1. Kept(FlashCmds, FlashStatuses) BY <1>5, LoseExchange DEF IspType, Kept, Line
  <2>2. UNCHANGED <<flash, nor>> BY <1>5 DEF Line, Lose, memories
  <2>3. QED BY <2>1, <2>2, FlashStays
<1>6. CASE UNCHANGED vars
  <2>1. UNCHANGED <<flash, nor, toBoard, toPC>> BY <1>6 DEF vars, memories, line
  <2>2. Kept(FlashCmds, FlashStatuses)
    BY <2>1 DEF Kept, Quiet, Asked, Answered, NoRequest, NoAnswer
  <2>3. QED BY <2>1, <2>2, FlashStays
<1>7. QED BY <1>1, <1>2, <1>3, <1>4, <1>5, <1>6 DEF Next

\* "Flash read OK" is the truth: every byte asked for is shown as the flash
\* holds it, although answers are counted by their length alone and the timer
\* asks again for what was lost.  The timer waits until nothing is under way:
\* a second answer to one question would be counted twice.
THEOREM ReadsWholeRange == Spec => []ReadOkMeansShown
<1>1. Init => IspType /\ FlashInv BY InitType, InitFlash
<1>2. IspType /\ FlashInv /\ [Next]_vars => (IspType /\ FlashInv)' BY NextType, NextFlash
<1>3. IspType /\ FlashInv => ReadOkMeansShown
  <2>1. SUFFICES ASSUME IspType, FlashInv, flash.last = "Read", ~flash.reading,
                        NEW a \in flash.leOffset .. flash.leOffset + flash.e2recv - 1
                 PROVE  a + 1 \in DOMAIN flash.e2 /\ flash.e2[a + 1] = nor[a]
    BY DEF ReadOkMeansShown
  <2>2. flash.e2recvd = flash.e2recv /\ FlashShown
    BY <2>1 DEF FlashInv, ReadsFlash, ReadButtons
  <2>3. PICK e2 \in Seq(Byte), o \in Nat, n \in Nat :
          e2 = flash.e2 /\ o = flash.leOffset /\ n = flash.e2recv
    BY <2>1 DEF IspType, FlashType, Flashes
  <2>4. a \in Nat /\ o <= a /\ a <= o + n - 1 BY <2>3
  <2>5. PICK k \in 1 .. n : k = a - o + 1 BY <2>3, <2>4
  <2>6. o + k <= Len(e2) /\ e2[o + k] = nor[o + k - 1]
    BY <2>2, <2>3 DEF FlashShown
  <2>7. o + k = a + 1 /\ o + k - 1 = a BY <2>4, <2>5
  <2>8. a + 1 <= Len(e2) /\ e2[a + 1] = nor[a] BY <2>6, <2>7
  <2>9. a + 1 \in DOMAIN e2 BY <2>4, <2>8
  <2>10. QED BY <2>3, <2>8, <2>9
<1>4. QED BY <1>1, <1>2, <1>3, PTL DEF Spec

\* The check of an application's CRC says what the bytes in the flash deserve
\* by the record whose button was pressed, for every CRC and every record,
\* however often the read had to ask again.
THEOREM ChecksWhatIsThere == Spec => []CheckTellsFlash
<1>1. Init => IspType /\ FlashInv BY InitType, InitFlash
<1>2. IspType /\ FlashInv /\ [Next]_vars => (IspType /\ FlashInv)' BY NextType, NextFlash
<1>3. FlashInv => CheckTellsFlash
  <2>1. SUFFICES ASSUME FlashInv, flash.last \in {ByMasterName, ByBackupName},
                        flash.check # None
                 PROVE  LET info == ShownInfo(flash, flash.last = ByMasterName, flash.leOffset)
                        IN  (flash.check = "OK") =
                              (Crc([k \in 1 .. info.size |-> nor[flash.leOffset + k - 1]])
                                 = info.crc)
    BY DEF CheckTellsFlash, ByMasterName, ByBackupName, None
  <2>2. flash.readingMaster = (flash.last = ByMasterName) /\ CheckDeserved
    BY <2>1 DEF FlashInv, ReadsApp
  <2>3. ExpectedInfo(flash) = ShownInfo(flash, flash.last = ByMasterName, flash.leOffset)
    BY <2>2 DEF ExpectedInfo
  <2>4. QED BY <2>1, <2>2, <2>3 DEF CheckDeserved
<1>4. QED BY <1>1, <1>2, <1>3, PTL DEF Spec

-----------------------------------------------------------------------------
(***************************************************************************)
(* What the flash window counts as programmed stays in the NOR flash       *)
(* (CountedIsProgrammed), for memories, packets and ranges of every size.  *)
(* The operator may press Program while the last program goes on, close    *)
(* the window and open it again, so several programs, erases and answers   *)
(* of windows that are gone may be under way at once.  What saves the      *)
(* count is the order of the packets on the line: what comes behind an     *)
(* answer that is counted never erases, and programs over what was counted *)
(* only bytes that change nothing there.                                   *)
(***************************************************************************)

\* The inductive invariant.

\* The memory that the programs under way will find: where an erase is still
\* ahead of them, the worst of it, a flash that is blank.
NoErase == \A r \in ToBoard : r.cmd \notin EraseCmds
Ahead   == IF NoErase THEN nor ELSE [x \in NorAddresses |-> Blank]

\* Programming b at x changes nothing in mem.
Settles(b, x, mem) == Programmed(mem[x], b) = mem[x]

\* What the window shows of a cell, what a program writes there, and the cells
\* of a packet; blank where there is nothing.
Shows(x)     == IF x < Len(flash.e2) THEN flash.e2[x + 1] ELSE Blank
Writes(r, x) == IF x \in r.addr .. r.addr + Len(r.dat) - 1 THEN r.dat[x - r.addr + 1] ELSE Blank
Cells(p, n)  == {x \in NorAddresses : p.addr <= x /\ x < p.addr + n}

\* What may come behind a program, on the line and behind its answer: no
\* erase, and of programs those that leave the program's cells as they are.
MayFollow(r, q, mem) ==
  r.cmd = "PROGRAM_W25Q" =>
    /\ q.cmd \notin EraseCmds
    /\ q.cmd = "PROGRAM_W25Q" =>
         \A x \in Cells(r, r.size) :
           Writes(q, x) = Writes(r, x) \/ Settles(Writes(q, x), x, mem)

MayBeAsked(a, q, mem) ==
  a.status = "W25Q_PROGRAM_RES" =>
    /\ q.cmd \notin EraseCmds
    /\ q.cmd = "PROGRAM_W25Q" =>
         \A x \in Cells(a, Len(a.dat)) : Settles(Writes(q, x), x, mem)

Ordered(mem) ==
  /\ \A i, j \in 1 .. Len(toBoard) : i < j => MayFollow(toBoard[i], toBoard[j], mem)
  /\ \A i \in 1 .. Len(toPC), j \in 1 .. Len(toBoard) : MayBeAsked(toPC[i], toBoard[j], mem)

\* A program under way carries what the window shows, or the window shows what
\* its cells are going to hold; an answer tells what its cells hold.
Carries(r, mem) ==
  r.cmd = "PROGRAM_W25Q" =>
    \A x \in Cells(r, r.size) : Shows(x) = Writes(r, x) \/ Settles(Shows(x), x, mem)

Tells(a, mem) ==
  a.status = "W25Q_PROGRAM_RES" =>
    \A x \in Cells(a, Len(a.dat)) :
      a.dat[x - a.addr + 1] = nor[x] /\ Settles(Shows(x), x, mem)

\* The cell holds b, and nothing under way or shown will change that.
Safe(x, b, mem) ==
  /\ x \in NorAddresses /\ nor[x] = b /\ Settles(Shows(x), x, mem)
  /\ \A r \in ToBoard : r.cmd = "PROGRAM_W25Q" => Settles(Writes(r, x), x, mem)

Counted(mem) ==
  flash.last = "Program" =>
    /\ Len(flash.counted) = flash.e2sent
    /\ NoErase \/ flash.e2sent = 0
    /\ \A k \in 1 .. flash.e2sent :
         \A x \in {flash.leOffset + k - 1}, b \in {flash.counted[k]} : Safe(x, b, mem)

ProgramInv(mem) ==
  /\ Ordered(mem)
  /\ \A r \in ToBoard : Carries(r, mem)
  /\ \A a \in ToPC : Tells(a, mem)
  /\ Counted(mem)

\* A read under way that the window does not wait for was asked for by a window
\* that is gone, and this one shows nothing yet.
IsBlank     == \A k \in 1 .. Len(flash.e2) : flash.e2[k] = Blank
Harmless(r) == \A k \in 1 .. Len(r.dat) : r.dat[k] = Blank

ReadCmds     == {"READ_W25Q"}
ReadStatuses == {"W25Q_DATA"}

ReadInv ==
  \/ Quiet(ReadCmds, ReadStatuses)
  \/ /\ NoErase /\ \A r \in ToBoard : r.cmd = "PROGRAM_W25Q" => Harmless(r)
     /\ flash.reading \/ IsBlank
     /\ \/ \E r \in ToBoard : Asked(ReadCmds, ReadStatuses, r)
        \/ \E a \in ToPC : Answered(ReadCmds, ReadStatuses, a) /\ CopiesNor(a.dat, a.addr)

CountInv == (\E mem \in {Ahead} : ProgramInv(mem)) /\ ReadInv

\* A read goes on only while the window waits for its bytes.
WindowInv ==
  /\ flash.reading => flash.last \in ReadButtons
  /\ ~flash.reading => ~(flash.e2recvd < flash.e2recv)

-----------------------------------------------------------------------------
\* How the steps of the line keep the order.

LEMMA BoardOrders ==
  ASSUME LineType, NEW a \in Replies, BoardTakes(a), NEW mem, Ordered(mem),
         \A q \in Requests : MayFollow(toBoard[1], q, mem) => MayBeAsked(a, q, mem)
  PROVE  Ordered(mem)'
<1>1. PICK n \in Nat, m \in Nat : n = Len(toBoard) /\ m = Len(toPC) BY DEF LineType
<1>2. /\ n > 0 /\ Len(toBoard') = n - 1 /\ Len(toPC') = m + 1
      /\ \A k \in 1 .. n - 1 : toBoard'[k] = toBoard[k + 1]
      /\ \A k \in 1 .. m : toPC'[k] = toPC[k]
      /\ toPC'[m + 1] = a
  <2>1. n > 0 BY <1>1 DEF LineType, BoardTakes
  <2>2. QED BY <1>1, <2>1 DEF BoardTakes
<1>3. /\ \A k \in 1 .. n : toBoard[k] \in Requests
      /\ \A k \in 1 .. m : toPC[k] \in Replies
  BY <1>1 DEF LineType
<1>4. /\ \A i, j \in 1 .. n : i < j => MayFollow(toBoard[i], toBoard[j], mem)
      /\ \A i \in 1 .. m, j \in 1 .. n : MayBeAsked(toPC[i], toBoard[j], mem)
  BY <1>1 DEF Ordered
<1>5. ASSUME NEW i \in 1 .. n - 1, NEW j \in 1 .. n - 1, i < j
      PROVE  MayFollow(toBoard'[i], toBoard'[j], mem)
  <2>1. i + 1 \in 1 .. n /\ j + 1 \in 1 .. n /\ i + 1 < j + 1 BY <1>2, <1>5
  <2>2. QED BY <1>2, <1>4, <2>1
<1>6. ASSUME NEW i \in 1 .. m + 1, NEW j \in 1 .. n - 1
      PROVE  MayBeAsked(toPC'[i], toBoard'[j], mem)
  <2>1. j + 1 \in 1 .. n /\ 1 \in 1 .. n /\ 1 < j + 1 BY <1>2
  <2>2. i \in 1 .. m \/ i = m + 1 OBVIOUS
  <2>3. CASE i \in 1 .. m BY <1>2, <1>4, <2>1, <2>3
  <2>4. CASE i = m + 1
    <3>1. MayFollow(toBoard[1], toBoard[j + 1], mem) BY <1>4, <2>1
    <3>2. toBoard[j + 1] \in Requests BY <1>3, <2>1
    <3>3. MayBeAsked(a, toBoard[j + 1], mem) BY <3>1, <3>2
    <3>4. toPC'[i] = a /\ toBoard'[j] = toBoard[j + 1] BY <1>2, <2>4
    <3>5. QED BY <3>3, <3>4
  <2>5. QED BY <2>2, <2>3, <2>4
<1>7. QED BY <1>2, <1>5, <1>6 DEF Ordered

LEMMA SendOrders ==
  ASSUME LineType, NEW requests \in Seq(Requests), PcSends(requests),
         UNCHANGED toPC \/ PcTakes, NEW mem, Ordered(mem),
         \A k \in 1 .. Len(requests) :
           /\ \A r \in ToBoard : MayFollow(r, requests[k], mem)
           /\ \A a \in ToPC : MayBeAsked(a, requests[k], mem)
           /\ \A l \in 1 .. Len(requests) : k < l => MayFollow(requests[k], requests[l], mem)
  PROVE  Ordered(mem)'
<1>1. PICK n \in Nat, m \in Nat, s \in Nat :
        n = Len(toBoard) /\ m = Len(toPC) /\ s = Len(requests)
  BY DEF LineType
<1>2. /\ Len(toBoard') = n + s
      /\ \A k \in 1 .. n : toBoard'[k] = toBoard[k]
      /\ \A k \in 1 .. s : toBoard'[n + k] = requests[k]
  BY <1>1 DEF PcSends
<1>3. PICK d \in {0, 1} : /\ d <= m /\ Len(toPC') = m - d
                          /\ \A k \in 1 .. m - d : toPC'[k] = toPC[k + d]
  <2>1. CASE UNCHANGED toPC
    <3>1. \A k \in 1 .. m - 0 : toPC'[k] = toPC[k + 0] BY <2>1
    <3>2. Len(toPC') = m - 0 /\ 0 <= m BY <1>1, <2>1
    <3>3. QED BY <3>1, <3>2
  <2>2. CASE PcTakes
    <3>1. m > 0 BY <1>1, <2>2 DEF PcTakes, LineType
    <3>2. QED BY <1>1, <2>2, <3>1 DEF PcTakes
  <2>3. QED BY <2>1, <2>2
<1>4. /\ \A i, j \in 1 .. n : i < j => MayFollow(toBoard[i], toBoard[j], mem)
      /\ \A i \in 1 .. m, j \in 1 .. n : MayBeAsked(toPC[i], toBoard[j], mem)
  BY <1>1 DEF Ordered
<1>5. /\ \A i \in 1 .. n, k \in 1 .. s : MayFollow(toBoard[i], requests[k], mem)
      /\ \A i \in 1 .. m, k \in 1 .. s : MayBeAsked(toPC[i], requests[k], mem)
      /\ \A k, l \in 1 .. s : k < l => MayFollow(requests[k], requests[l], mem)
  BY <1>1 DEF ToBoard, ToPC
<1>6. \A j \in 1 .. n + s : j \in 1 .. n \/ \E k \in 1 .. s : j = n + k
  <2>1. ASSUME NEW j \in 1 .. n + s, j \notin 1 .. n PROVE \E k \in 1 .. s : j = n + k
    <3>1. j - n \in 1 .. s /\ j = n + (j - n) BY <2>1
    <3>2. QED BY <3>1
  <2>2. QED BY <2>1
<1>7. ASSUME NEW i \in 1 .. n + s, NEW j \in 1 .. n + s, i < j
      PROVE  MayFollow(toBoard'[i], toBoard'[j], mem)
  <2>1. CASE j \in 1 .. n
    <3>1. i \in 1 .. n BY <1>7, <2>1
    <3>2. QED BY <1>2, <1>4, <1>7, <2>1, <3>1
  <2>2. CASE \E k \in 1 .. s : j = n + k
    <3>1. PICK k \in 1 .. s : j = n + k BY <2>2
    <3>2. CASE i \in 1 .. n
      <4>1. toBoard'[i] = toBoard[i] /\ toBoard'[j] = requests[k] BY <1>2, <3>1, <3>2
      <4>2. QED BY <1>5, <3>1, <3>2, <4>1, Zenon
    <3>3. CASE \E l \in 1 .. s : i = n + l
      <4>1. PICK l \in 1 .. s : i = n + l BY <3>3
      <4>2. l < k BY <1>7, <3>1, <4>1
      <4>3. QED BY <1>2, <1>5, <3>1, <4>1, <4>2
    <3>4. QED BY <1>6, <3>2, <3>3
  <2>3. QED BY <1>6, <2>1, <2>2
<1>8. ASSUME NEW i \in 1 .. m - d, NEW j \in 1 .. n + s
      PROVE  MayBeAsked(toPC'[i], toBoard'[j], mem)
  <2>1. i + d \in 1 .. m BY <1>3
  <2>2. CASE j \in 1 .. n BY <1>2, <1>3, <1>4, <2>1, <2>2
  <2>3. CASE \E k \in 1 .. s : j = n + k BY <1>2, <1>3, <1>5, <2>1, <2>3
  <2>4. QED BY <1>6, <2>2, <2>3
<1>9. QED BY <1>2, <1>3, <1>7, <1>8 DEF Ordered

LEMMA LoseOrders ==
  ASSUME LineType, Lose, NEW mem, Ordered(mem)
  PROVE  Ordered(mem)' /\ ToBoard' \subseteq ToBoard /\ ToPC' \subseteq ToPC
<1>1. CASE /\ UNCHANGED toPC /\ toBoard # <<>> /\ Len(toBoard') = Len(toBoard) - 1
           /\ \A k \in 1 .. Len(toBoard') : toBoard'[k] = toBoard[k + 1]
  <2>1. PICK n \in Nat : n = Len(toBoard) BY DEF LineType
  <2>2. Len(toBoard') = n - 1 /\ \A k \in 1 .. n - 1 : toBoard'[k] = toBoard[k + 1]
    BY <1>1, <2>1
  <2>3. \A k \in 1 .. n - 1 : k + 1 \in 1 .. n OBVIOUS
  <2>4. ToBoard' \subseteq ToBoard BY <2>1, <2>2, <2>3 DEF ToBoard
  <2>5. \A i, j \in 1 .. n - 1 : i < j => i + 1 < j + 1 OBVIOUS
  <2>6. \A i, j \in 1 .. n - 1 : i < j => MayFollow(toBoard'[i], toBoard'[j], mem)
    BY <2>1, <2>2, <2>3, <2>5 DEF Ordered
  <2>7. \A i \in 1 .. Len(toPC), j \in 1 .. n - 1 : MayBeAsked(toPC[i], toBoard'[j], mem)
    BY <2>1, <2>2, <2>3 DEF Ordered
  <2>8. Ordered(mem)' BY <1>1, <2>2, <2>6, <2>7 DEF Ordered
  <2>9. QED BY <1>1, <2>4, <2>8 DEF ToPC
<1>2. CASE PcTakes /\ UNCHANGED toBoard
  <2>0. PICK none \in Seq(Requests) : none = <<>> /\ Len(none) = 0
    <3>1. <<>> \in Seq(Requests) /\ Len(<<>>) = 0 OBVIOUS
    <3>2. QED BY <3>1
  <2>1. Len(toBoard) \in Nat BY DEF LineType
  <2>2. \A k \in 1 .. Len(none) : FALSE
    <3>1. \A k \in 1 .. 0 : FALSE OBVIOUS
    <3>2. QED BY <2>0, <3>1, Zenon
  <2>3. PcSends(none)
    <3>1. \A k \in Nat : k = k + 0 OBVIOUS
    <3>2. Len(toBoard') = Len(toBoard) + Len(none) BY <1>2, <2>0, <2>1, <3>1, Zenon
    <3>3. QED BY <1>2, <2>2, <3>2, Zenon DEF PcSends
  <2>4. Ordered(mem)'
    <3>1. UNCHANGED toPC \/ PcTakes BY <1>2
    <3>2. \A k \in 1 .. Len(none) :
            /\ \A r \in ToBoard : MayFollow(r, none[k], mem)
            /\ \A a \in ToPC : MayBeAsked(a, none[k], mem)
            /\ \A l \in 1 .. Len(none) : k < l => MayFollow(none[k], none[l], mem)
      BY <2>2
    <3>3. QED BY <2>3, <3>1, <3>2, SendOrders, Zenon
  <2>5. PICK m \in Nat : m = Len(toPC) BY DEF LineType
  <2>6. Len(toPC') = m - 1 /\ \A k \in 1 .. m - 1 : toPC'[k] = toPC[k + 1] /\ k + 1 \in 1 .. m
    BY <1>2, <2>5 DEF PcTakes
  <2>7. ToPC' \subseteq ToPC BY <2>5, <2>6 DEF ToPC
  <2>8. QED BY <1>2, <2>4, <2>7 DEF ToBoard
<1>3. QED BY <1>1, <1>2, LoseMoves

\* Which packets are under way after a step.
LEMMA BoardPackets ==
  ASSUME LineType, NEW a, BoardTakes(a)
  PROVE  /\ ToBoard' \subseteq ToBoard /\ ToPC' \subseteq ToPC \cup {a}
         /\ toBoard[1] \in ToBoard /\ toBoard[1] \in Requests
         /\ \A mem : Ordered(mem) =>
              /\ \A q \in ToBoard' : MayFollow(toBoard[1], q, mem)
              /\ \A p \in ToPC : MayBeAsked(p, toBoard[1], mem)
<1>1. PICK n \in Nat, m \in Nat : n = Len(toBoard) /\ m = Len(toPC) BY DEF LineType
<1>2. n > 0 BY <1>1 DEF LineType, BoardTakes
<1>3. /\ Len(toBoard') = n - 1 /\ \A k \in 1 .. n - 1 : toBoard'[k] = toBoard[k + 1]
      /\ Len(toPC') = m + 1 /\ \A k \in 1 .. m : toPC'[k] = toPC[k]
      /\ toPC'[m + 1] = a
  BY <1>1, <1>2 DEF BoardTakes
<1>4. \A k \in 1 .. n - 1 : k + 1 \in 1 .. n OBVIOUS
<1>5. ToBoard' \subseteq ToBoard BY <1>1, <1>3, <1>4 DEF ToBoard
<1>6. \A k \in 1 .. m + 1 : k \in 1 .. m \/ k = m + 1 OBVIOUS
<1>7. ToPC' \subseteq ToPC \cup {a} BY <1>1, <1>3, <1>6 DEF ToPC
<1>8. 1 \in 1 .. n BY <1>2
<1>9. toBoard[1] \in ToBoard BY <1>1, <1>8 DEF ToBoard
<1>10. toBoard[1] \in Requests BY <1>1, <1>8 DEF LineType
<1>11. ASSUME NEW mem, Ordered(mem)
       PROVE  /\ \A q \in ToBoard' : MayFollow(toBoard[1], q, mem)
              /\ \A p \in ToPC : MayBeAsked(p, toBoard[1], mem)
  <2>1. \A k \in 1 .. n - 1 : 1 < k + 1 OBVIOUS
  <2>2. \A k \in 1 .. n - 1 : MayFollow(toBoard[1], toBoard[k + 1], mem)
    BY <1>1, <1>4, <1>8, <1>11, <2>1 DEF Ordered
  <2>3. \A q \in ToBoard' : MayFollow(toBoard[1], q, mem) BY <1>3, <2>2 DEF ToBoard
  <2>4. \A p \in ToPC : MayBeAsked(p, toBoard[1], mem) BY <1>1, <1>8, <1>11 DEF Ordered, ToPC
  <2>5. QED BY <2>3, <2>4
<1>12. QED BY <1>5, <1>7, <1>9, <1>10, <1>11

LEMMA SendPackets ==
  ASSUME LineType, NEW requests \in Seq(Requests), PcSends(requests)
  PROVE  ToBoard' \subseteq ToBoard \cup {requests[k] : k \in 1 .. Len(requests)}
<1>1. PICK n \in Nat, s \in Nat : n = Len(toBoard) /\ s = Len(requests) BY DEF LineType
<1>2. /\ Len(toBoard') = n + s
      /\ \A k \in 1 .. n : toBoard'[k] = toBoard[k]
      /\ \A k \in 1 .. s : toBoard'[n + k] = requests[k]
  BY <1>1 DEF PcSends
<1>3. ASSUME NEW j \in 1 .. n + s
      PROVE  toBoard'[j] \in ToBoard \cup {requests[k] : k \in 1 .. Len(requests)}
  <2>1. CASE j \in 1 .. n BY <1>1, <1>2, <2>1 DEF ToBoard
  <2>2. CASE j \notin 1 .. n
    <3>1. j - n \in 1 .. s /\ j = n + (j - n) BY <2>2
    <3>2. PICK k \in 1 .. s : j = n + k BY <3>1
    <3>3. QED BY <1>1, <1>2, <3>2
  <2>3. QED BY <2>1, <2>2
<1>4. ToBoard' = {toBoard'[j] : j \in 1 .. n + s} BY <1>2 DEF ToBoard
<1>5. QED BY <1>3, <1>4

LEMMA TakePackets ==
  ASSUME LineType, PcTakes
  PROVE  /\ ToPC' \subseteq ToPC /\ toPC[1] \in ToPC /\ toPC[1] \in Replies
         /\ \A mem : Ordered(mem) => \A q \in ToBoard : MayBeAsked(toPC[1], q, mem)
<1>1. PICK m \in Nat : m = Len(toPC) BY DEF LineType
<1>2. m > 0 BY <1>1 DEF PcTakes, LineType
<1>3. Len(toPC') = m - 1 /\ \A k \in 1 .. m - 1 : toPC'[k] = toPC[k + 1] /\ k + 1 \in 1 .. m
  BY <1>1, <1>2 DEF PcTakes
<1>4. 1 \in 1 .. m BY <1>2
<1>5. ToPC' \subseteq ToPC BY <1>1, <1>3 DEF ToPC
<1>6. toPC[1] \in ToPC /\ toPC[1] \in Replies BY <1>1, <1>4 DEF ToPC, LineType
<1>7. \A mem : Ordered(mem) => \A q \in ToBoard : MayBeAsked(toPC[1], q, mem)
  BY <1>1, <1>4 DEF Ordered, ToBoard
<1>8. QED BY <1>5, <1>6, <1>7

\* What is settled in one memory is settled in a later one.
Later(m, n) == \A x \in NorAddresses : \A b : Settles(b, x, m) => Settles(b, x, n)

LEMMA LaterOrders ==
  ASSUME NEW m, NEW n, Ordered(m), Later(m, n)
  PROVE  Ordered(n)
<1>1. \A r, q : MayFollow(r, q, m) => MayFollow(r, q, n) BY DEF MayFollow, Later, Cells
<1>2. \A a, q : MayBeAsked(a, q, m) => MayBeAsked(a, q, n) BY DEF MayBeAsked, Later, Cells
<1>3. QED BY <1>1, <1>2 DEF Ordered

\* One request is sent, or none, or those of the main window.
LEMMA OneOrders ==
  ASSUME LineType, UNCHANGED toPC \/ PcTakes, NEW r \in Requests, PcSends(<<r>>),
         NEW mem, Ordered(mem),
         \A q \in ToBoard : MayFollow(q, r, mem), \A a \in ToPC : MayBeAsked(a, r, mem)
  PROVE  Ordered(mem)' /\ ToBoard' \subseteq ToBoard \cup {r} /\ ToPC' \subseteq ToPC
<1>1. PICK requests \in Seq(Requests) : requests = <<r>> /\ Len(requests) = 1 /\ requests[1] = r
  <2>1. <<r>> \in Seq(Requests) /\ Len(<<r>>) = 1 /\ <<r>>[1] = r OBVIOUS
  <2>2. QED BY <2>1
<1>2. PcSends(requests) BY <1>1
<1>3. \A k \in 1 .. Len(requests) : k = 1 BY <1>1
<1>4. \A k \in 1 .. Len(requests) :
        /\ \A q \in ToBoard : MayFollow(q, requests[k], mem)
        /\ \A a \in ToPC : MayBeAsked(a, requests[k], mem)
        /\ \A l \in 1 .. Len(requests) : k < l => MayFollow(requests[k], requests[l], mem)
  BY <1>1, <1>3
<1>5. Ordered(mem)' BY <1>2, <1>4, SendOrders
<1>6. ToBoard' \subseteq ToBoard \cup {requests[k] : k \in 1 .. Len(requests)}
  BY <1>2, SendPackets
<1>7. ToPC' \subseteq ToPC BY TakePackets DEF ToPC
<1>8. QED BY <1>1, <1>3, <1>5, <1>6, <1>7

LEMMA OthersOrder ==
  ASSUME LineType, UNCHANGED toPC \/ PcTakes, NEW requests \in Seq(Requests), PcSends(requests),
         \A k \in 1 .. Len(requests) : requests[k].cmd \notin FlashCmds,
         NEW mem, Ordered(mem)
  PROVE  /\ Ordered(mem)' /\ ToPC' \subseteq ToPC
         /\ \A r \in ToBoard' : r \in ToBoard \/ r.cmd \notin FlashCmds
<1>1. \A k \in 1 .. Len(requests) : requests[k].cmd \notin EraseCmds \cup {"PROGRAM_W25Q"}
  BY DEF FlashCmds, EraseCmds
<1>2. \A k \in 1 .. Len(requests) :
        /\ \A r \in ToBoard : MayFollow(r, requests[k], mem)
        /\ \A a \in ToPC : MayBeAsked(a, requests[k], mem)
        /\ \A l \in 1 .. Len(requests) : k < l => MayFollow(requests[k], requests[l], mem)
  BY <1>1 DEF MayFollow, MayBeAsked
<1>3. Ordered(mem)' BY <1>2, SendOrders
<1>4. ToBoard' \subseteq ToBoard \cup {requests[k] : k \in 1 .. Len(requests)} BY SendPackets
<1>5. ToPC' \subseteq ToPC BY TakePackets DEF ToPC
<1>6. QED BY <1>3, <1>4, <1>5

LEMMA NoneOrders ==
  ASSUME LineType, UNCHANGED toPC \/ PcTakes, PcSends(<<>>), NEW mem, Ordered(mem)
  PROVE  Ordered(mem)' /\ ToPC' \subseteq ToPC /\ ToBoard' \subseteq ToBoard
<1>1. PICK none \in Seq(Requests) : none = <<>> /\ Len(none) = 0
  <2>1. <<>> \in Seq(Requests) /\ Len(<<>>) = 0 OBVIOUS
  <2>2. QED BY <2>1
<1>2. PcSends(none) BY <1>1
<1>3. \A k \in 1 .. Len(none) : FALSE BY <1>1
<1>4. \A k \in 1 .. Len(none) : none[k].cmd \notin FlashCmds BY <1>3
<1>5. Ordered(mem)' /\ ToPC' \subseteq ToPC BY <1>2, <1>4, OthersOrder
<1>6. ToBoard' \subseteq ToBoard \cup {none[k] : k \in 1 .. Len(none)} BY <1>2, SendPackets
<1>7. QED BY <1>3, <1>5, <1>6

-----------------------------------------------------------------------------
\* The window's part of the invariant.

LEMMA PressesKeep ==
  ASSUME IspType,
         \/ slotReadFlashSize \/ FlashEraseAll \/ FlashEraseSector
         \/ generateData \/ FlashProgram
  PROVE  flash'.e2recv = flash.e2recv /\ flash'.e2recvd = flash.e2recvd
<1>1. flash \in Flashes /\ flash.leOffset \in Nat BY DEF IspType, FlashType, Flashes
<1>2. \A button \in FlashButtons, offset \in Nat :
        /\ Pressed(button, offset) \in Flashes
        /\ Pressed(button, offset).e2recv = flash.e2recv
        /\ Pressed(button, offset).e2recvd = flash.e2recvd
  BY <1>1, PressedFacts
<1>3. CASE FlashEraseAll
  <2>1. flash' = Pressed(EraseAllName, flash.leOffset) BY <1>3 DEF FlashEraseAll, EraseAllName
  <2>2. EraseAllName \in FlashButtons BY Names
  <2>3. QED BY <1>1, <1>2, <2>1, <2>2
<1>4. CASE slotReadFlashSize
  <2>1. flash' = Pressed(ReadSizeName, flash.leOffset) BY <1>4 DEF slotReadFlashSize, ReadSizeName
  <2>2. ReadSizeName \in FlashButtons BY Names
  <2>3. QED BY <1>1, <1>2, <2>1, <2>2
<1>5. CASE FlashEraseSector
  <2>1. PICK range \in NorRanges : flash' = Pressed(EraseSectorName, range[1])
    BY <1>5 DEF FlashEraseSector, EraseSectorName
  <2>2. EraseSectorName \in FlashButtons BY Names
  <2>3. QED BY <1>2, <2>1, <2>2, RangeFacts
<1>6. CASE generateData
  <2>0. PICK range \in NorRanges :
          flash' = [Pressed("Generate", range[1]) EXCEPT
                      !.e2 = [k \in DOMAIN flash.e2 |->
                                IF k \in range[1] + 1 .. range[1] + range[2]
                                THEN (k - range[1] - 1) % 256 ELSE flash.e2[k]]]
    BY <1>6 DEF generateData
  <2>1. PICK e2 : flash' = [Pressed("Generate", range[1]) EXCEPT !.e2 = e2] BY <2>0
  <2>2. "Generate" \in FlashButtons BY Names
  <2>3. PICK f \in Flashes : /\ f = Pressed("Generate", range[1])
                             /\ f.e2recv = flash.e2recv /\ f.e2recvd = flash.e2recvd
    BY <1>2, <2>2, RangeFacts
  <2>4. flash' = [f EXCEPT !.e2 = e2] BY <2>1, <2>3
  <2>5. QED BY <2>3, <2>4 DEF Flashes
<1>7. CASE FlashProgram
  <2>1. PICK range \in NorRanges :
          LET f == [Pressed("Program", range[1]) EXCEPT !.e2send = range[2]]
          IN  \/ flash' = [f EXCEPT !.last = "Refused"]
              \/ flash' = [f EXCEPT !.e2sent = 0, !.counted = <<>>]
    BY <1>7 DEF FlashProgram
  <2>2. "Program" \in FlashButtons BY Names
  <2>3. PICK f \in Flashes : /\ f = Pressed("Program", range[1])
                             /\ f.e2recv = flash.e2recv /\ f.e2recvd = flash.e2recvd
    BY <1>2, <2>2, RangeFacts
  <2>4. \/ flash' = [[f EXCEPT !.e2send = range[2]] EXCEPT !.last = "Refused"]
        \/ flash' = [[f EXCEPT !.e2send = range[2]] EXCEPT !.e2sent = 0, !.counted = <<>>]
    BY <2>1, <2>3
  <2>5. QED BY <2>3, <2>4 DEF Flashes
<1>8. QED BY <1>3, <1>4, <1>5, <1>6, <1>7

LEMMA DataKeepsWindow ==
  ASSUME IspType, WindowInv, OnData PROVE WindowInv'
<1>1. flash \in Flashes BY DEF IspType, FlashType
<1>2. CASE UNCHANGED flash BY <1>2 DEF WindowInv
<1>3. CASE ~UNCHANGED flash
  <2>1. PICK f \in Flashes :
          /\ toPC[1].addr + Len(toPC[1].dat) <= Len(flash.e2)
          /\ f = Filled(flash, toPC[1].dat, toPC[1].addr)
          /\ \/ f.e2recvd < f.e2recv /\ flash' = f
             \/ ~(f.e2recvd < f.e2recv) /\ flash' = ReadOver(f)
    BY <1>3, OnDataMoves
  <2>2. PICK old \in Seq(Byte), dat \in Seq(Byte), at \in Nat :
          old = flash.e2 /\ dat = toPC[1].dat /\ at = toPC[1].addr
    <3>1. toPC[1] \in Replies BY OnDataMoves, ParsedMoves DEF OnData
    <3>2. QED BY <1>1, <3>1 DEF Flashes, Replies
  <2>3. Len(dat) \in Nat /\ Len(old) \in Nat OBVIOUS
  <2>4. at + Len(dat) <= Len(old) /\ at <= Len(old) BY <2>1, <2>2, <2>3
  <2>5. /\ f.e2recvd = flash.e2recvd + Len(dat)
        /\ f.last = flash.last /\ f.e2recv = flash.e2recv /\ f.reading = flash.reading
    <3>1. at <= Len(flash.e2) /\ f = Filled(flash, dat, at) BY <2>1, <2>2, <2>4
    <3>2. QED BY <1>1, <2>2, <3>1, FilledFacts
  <2>6. flash.e2recvd \in Nat /\ flash.e2recv \in Nat BY <1>1 DEF Flashes
  <2>7. CASE f.e2recvd < f.e2recv /\ flash' = f
    <3>1. ~(flash.e2recvd < flash.e2recv) => ~(f.e2recvd < f.e2recv) BY <2>3, <2>5, <2>6
    <3>2. QED BY <2>5, <2>7, <3>1, Zenon DEF WindowInv
  <2>8. CASE ~(f.e2recvd < f.e2recv) /\ flash' = ReadOver(f)
    <3>1. ~flash'.reading /\ flash'.e2recvd = f.e2recvd /\ flash'.e2recv = f.e2recv
      BY <2>8, ReadOverFacts
    <3>2. QED BY <2>8, <3>1, Zenon DEF WindowInv
  <2>9. QED BY <2>1, <2>7, <2>8
<1>4. QED BY <1>2, <1>3

LEMMA NextWindow ==
  ASSUME IspType, WindowInv, [Next]_vars PROVE WindowInv'
<1>1. flash \in Flashes BY DEF IspType, FlashType
<1>2. CASE UNCHANGED flash BY <1>2 DEF WindowInv
<1>3. CASE FlashClick
  <2>1. CASE slotOpenFlash \/ CloseFlash
    <3>1. PICK isOpen \in BOOLEAN : flash' = Opened(isOpen) BY <2>1, OpenMoves
    <3>2. Opened(isOpen).e2recvd = 0 /\ Opened(isOpen).e2recv = 0 BY DEF Opened
    <3>3. QED BY <3>1, <3>2, OpenedType DEF WindowInv
  <2>2. CASE slotReadFlashSize \/ FlashEraseAll \/ FlashEraseSector
    <3>1. ~flash.reading
      BY <2>2 DEF slotReadFlashSize, FlashEraseAll, FlashEraseSector, ClickInFlash
    <3>2. QED BY <2>2, <3>1, CommandMoves, PressesKeep DEF WindowInv
  <2>3. CASE generateData
    <3>1. ~flash.reading BY <2>3 DEF generateData, ClickInFlash
    <3>2. QED BY <2>3, <3>1, GenerateMoves, PressesKeep, Zenon DEF WindowInv
  <2>4. CASE FlashProgram
    <3>1. ~flash.reading BY <2>4 DEF FlashProgram, ClickInFlash
    <3>2. QED BY <2>4, <3>1, FlashProgramMoves, PressesKeep DEF WindowInv
  <2>5. CASE FlashRead
    <3>1. PICK offset \in Nat, size \in Nat : StartsRead("Read", offset, size)
      BY <2>5, FlashReadMoves
    <3>2. QED BY <3>1 DEF StartsRead, WindowInv, ReadButtons
  <2>6. CASE ReadAppAndCalcCrc32
    <3>1. PICK byMaster \in BOOLEAN, offset \in AppAddresses :
            StartsRead(ByRecord(byMaster), offset, ShownInfo(flash, byMaster, offset).size)
      BY <2>6, ReadAppMoves
    <3>2. flash'.last = ByRecord(byMaster) /\ flash'.reading
      BY <3>1 DEF StartsRead
    <3>3. QED BY <3>2 DEF WindowInv, ReadButtons, ByRecord
  <2>7. QED BY <1>3, <2>1, <2>2, <2>3, <2>4, <2>5, <2>6 DEF FlashClick
<1>4. CASE FlashParsed
  <2>1. CASE OnSize
    <3>1. CASE flash' = [flash EXCEPT !.e2 = AllBlank(NorSize)]
      BY <1>1, <3>1 DEF WindowInv, Flashes
    <3>2. QED BY <1>2, <2>1, <3>1, OnSizeMoves
  <2>2. CASE OnErased BY <1>2, <2>2, OnErasedMoves
  <2>3. CASE OnData BY <2>3, DataKeepsWindow
  <2>4. CASE OnProgrammed
    <3>1. CASE flash' = [flash EXCEPT !.e2sent = flash'.e2sent, !.counted = flash'.counted]
      BY <1>1, <3>1 DEF WindowInv, Flashes
    <3>2. QED BY <1>2, <2>4, <3>1, OnProgrammedMoves
  <2>5. QED BY <1>4, <2>1, <2>2, <2>3, <2>4 DEF FlashParsed
<1>5. QED BY <1>2, <1>3, <1>4 DEF Next, Board, Operator, Answers, timerEvent, Line, vars

LEMMA InitWindow ==
  ASSUME Init PROVE WindowInv
<1>1. flash = Opened(FALSE) BY DEF Init, FlashInit
<1>2. Opened(FALSE).e2recvd = 0 /\ Opened(FALSE).e2recv = 0 BY DEF Opened
<1>3. PICK b \in BOOLEAN : flash = Opened(b) BY <1>1
<1>4. flash.e2recvd = 0 /\ flash.e2recv = 0 BY <1>1, <1>2
<1>5. ~flash.reading BY <1>3, OpenedType
<1>6. QED BY <1>4, <1>5 DEF WindowInv

-----------------------------------------------------------------------------
\* While a read button was the last, nothing of a program is under way.

\* With no program under way and no count, there is nothing to keep.
LEMMA AloneCounts ==
  ASSUME \A r \in ToBoard' : r.cmd # "PROGRAM_W25Q",
         \A a \in ToPC' : a.status # "W25Q_PROGRAM_RES",
         flash'.last # "Program"
  PROVE  (\E mem \in {Ahead} : ProgramInv(mem))'
<1>1. PICK mem : mem = Ahead' OBVIOUS
<1>2. Ordered(mem)'
  <2>1. \A i \in 1 .. Len(toBoard') : toBoard'[i].cmd # "PROGRAM_W25Q" BY DEF ToBoard
  <2>2. \A i \in 1 .. Len(toPC') : toPC'[i].status # "W25Q_PROGRAM_RES" BY DEF ToPC
  <2>3. QED BY <2>1, <2>2 DEF Ordered, MayFollow, MayBeAsked
<1>3. \A r \in ToBoard' : Carries(r, mem)' BY DEF Carries
<1>4. \A a \in ToPC' : Tells(a, mem)' BY DEF Tells
<1>5. Counted(mem)' BY DEF Counted
<1>6. ProgramInv(mem)' BY <1>2, <1>3, <1>4, <1>5 DEF ProgramInv
<1>7. QED BY <1>1, <1>6

LEMMA ReadsAlone ==
  ASSUME ReadsFlash'
  PROVE  /\ \A r \in ToBoard' : r.cmd \in FlashCmds => r.cmd = "READ_W25Q" /\ flash'.reading
         /\ \A a \in ToPC' : a.status \in FlashStatuses =>
              a.status = "W25Q_DATA" /\ flash'.reading
<1>1. CASE Quiet(FlashCmds, FlashStatuses)'
  BY <1>1 DEF Quiet, NoRequest, NoAnswer, ToBoard, ToPC
<1>2. CASE flash'.reading /\ Asked(FlashCmds, FlashStatuses, ReadFlash(flash))'
  <2>1. ReadFlash(flash').cmd = "READ_W25Q" BY DEF ReadFlash, Request
  <2>2. QED BY <1>2, <2>1 DEF Asked, NoAnswer, ToBoard, ToPC
<1>3. CASE /\ flash'.reading
           /\ \E a \in ToPC' : Answered(FlashCmds, FlashStatuses, a)' /\ DataAnswered(a)'
  BY <1>3 DEF Answered, DataAnswered, NoRequest, ToBoard, ToPC
<1>4. QED BY <1>1, <1>2, <1>3 DEF ReadsFlash

LEMMA ReadingCounts ==
  ASSUME IspType', FlashInv', WindowInv', flash'.last \in ReadButtons
  PROVE  CountInv'
<1>1. ReadsFlash' BY DEF FlashInv
<1>2. /\ \A r \in ToBoard' :
           /\ r.cmd \notin EraseCmds \cup {"PROGRAM_W25Q"}
           /\ r.cmd = "READ_W25Q" => flash'.reading
      /\ \A a \in ToPC' : a.status # "W25Q_PROGRAM_RES"
  BY <1>1, ReadsAlone DEF FlashCmds, FlashStatuses, EraseCmds
<1>3. flash'.last # "Program" BY FlashNames
<1>4. (\E mem \in {Ahead} : ProgramInv(mem))' BY <1>2, <1>3, AloneCounts
<1>5. ReadInv'
  <2>1. ReadCmds \subseteq FlashCmds /\ ReadStatuses \subseteq FlashStatuses
    BY DEF ReadCmds, ReadStatuses, FlashCmds, FlashStatuses
  <2>2. CASE Quiet(FlashCmds, FlashStatuses)'
    <3>1. Quiet(ReadCmds, ReadStatuses)' BY <2>1, <2>2 DEF Quiet, NoRequest, NoAnswer
    <3>2. QED BY <3>1 DEF ReadInv
  <2>3. CASE flash'.reading /\ Asked(FlashCmds, FlashStatuses, ReadFlash(flash))'
    <3>1. PICK r : r = ReadFlash(flash') OBVIOUS
    <3>2. r.cmd = "READ_W25Q" BY <3>1 DEF ReadFlash, Request
    <3>3. Asked(FlashCmds, FlashStatuses, r)' BY <2>3, <3>1
    <3>4. Asked(ReadCmds, ReadStatuses, r)' BY <2>1, <3>2, <3>3 DEF Asked, NoAnswer, ReadCmds
    <3>5. r \in ToBoard' BY <3>4, UnderWayPackets
    <3>6. NoErase' BY <1>2 DEF NoErase
    <3>7. QED BY <1>2, <2>3, <3>4, <3>5, <3>6 DEF ReadInv
  <2>4. CASE /\ flash'.reading
             /\ \E a \in ToPC' : Answered(FlashCmds, FlashStatuses, a)' /\ DataAnswered(a)'
    <3>1. PICK a \in ToPC' : Answered(FlashCmds, FlashStatuses, a)' /\ DataAnswered(a)' BY <2>4
    <3>2. a.status = "W25Q_DATA" /\ CopiesNor(a.dat, a.addr)'
      BY <3>1 DEF DataAnswered, CopiesNor
    <3>3. Answered(ReadCmds, ReadStatuses, a)'
      BY <2>1, <3>1, <3>2 DEF Answered, NoRequest, ReadStatuses
    <3>4. NoErase' BY <1>2 DEF NoErase
    <3>5. QED BY <1>2, <2>4, <3>1, <3>2, <3>3, <3>4 DEF ReadInv
  <2>5. QED BY <1>1, <2>2, <2>3, <2>4 DEF ReadsFlash
<1>6. QED BY <1>4, <1>5 DEF CountInv

-----------------------------------------------------------------------------
\* What the board answers to the flash window.

FlashAnswer(r, a) ==
  /\ r.cmd = "READ_W25Q" <=> a.status = "W25Q_DATA"
  /\ r.cmd = "PROGRAM_W25Q" <=> a.status = "W25Q_PROGRAM_RES"
  /\ r.cmd \notin NorChanges => UNCHANGED nor
  /\ r.cmd = "READ_W25Q" => a.addr = r.addr /\ a.dat = norflash_read(r.addr, r.size)
  /\ r.cmd = "PROGRAM_W25Q" =>
       /\ nor' = Written(nor, r.addr, r.dat) /\ a.addr = r.addr /\ Len(a.dat) = r.size
       /\ \A k \in 1 .. r.size : a.dat[k] = nor'[(r.addr + k - 1) % NorSize]

LEMMA BoardOnFlash ==
  ASSUME IspType, isp_handle
  PROVE  \E a \in Replies : BoardTakes(a) /\ FlashAnswer(toBoard[1], a)
<1>1. /\ toBoard # <<>> /\ rx = toBoard[1] /\ rx \in Requests /\ LineType
      /\ rx.size \in Nat
  BY HeadsType DEF IspType, isp_handle, Connect, ReadLdrVersion, ReadRom, Program, EraseAppArea,
     ErasePage, ReadW25QSize, EraseW25QAll, EraseW25QSector, ReadW25Q, ProgramW25Q, Rx
<1>2. PICK a \in Replies : BoardDoes(toBoard[1], a) BY BoardEffects
<1>3. BoardTakes(a) /\ (rx.cmd \notin NorChanges => UNCHANGED nor) BY <1>1, <1>2 DEF BoardDoes
<1>4. ASSUME NEW s, NEW n, NEW d, Answer(s, n, d)
      PROVE  a.status = s /\ a.addr = n /\ a.dat = d
  <2>1. BoardTakes(Reply(s, n, d)) BY <1>1, <1>4, AnswerMoves
  <2>2. a = Reply(s, n, d) BY <1>3, <2>1 DEF BoardTakes
  <2>3. QED BY <2>2 DEF Reply
<1>5. CASE Connect \/ ReadLdrVersion \/ ReadRom
  <2>1. PICK s \in {"OK", "LDR_VERSION", "ROM"} :
          \E d : Answer(s, 0, d) /\ rx.cmd \in {"CONNECT", "READ_LDR_VERSION", "READ"}
    BY <1>5 DEF Connect, ReadLdrVersion, ReadRom, Rx, rx
  <2>2. a.status = s BY <1>4, <2>1
  <2>3. QED BY <1>1, <1>3, <2>1, <2>2 DEF FlashAnswer
<1>6. CASE Program \/ EraseAppArea \/ ErasePage
  <2>1. PICK s \in {"OK", "PROGRAM_FAILED", "ERASE_PAGE_FAILED"} :
          \E d : Answer(s, 0, d) /\ rx.cmd \in {"PROGRAM", "ERASE_APP_AREA", "ERASE_PAGE"}
    BY <1>6 DEF Program, EraseAppArea, ErasePage, Rx, rx
  <2>2. a.status = s BY <1>4, <2>1
  <2>3. QED BY <1>1, <1>3, <2>1, <2>2 DEF FlashAnswer
<1>7. CASE ReadW25QSize
  <2>1. PICK d : Answer("W25Q_SIZE", 0, d) /\ rx.cmd = "READ_W25Q_SIZE"
    BY <1>7 DEF ReadW25QSize, Rx, rx
  <2>2. a.status = "W25Q_SIZE" BY <1>4, <2>1
  <2>3. QED BY <1>1, <1>3, <2>1, <2>2 DEF FlashAnswer
<1>8. CASE EraseW25QAll \/ EraseW25QSector
  <2>1. PICK s \in {"W25Q_ERASE_ALL_RES", "W25Q_ERASE_SECTOR_RES"} :
          \E n, d : Answer(s, n, d) /\ rx.cmd \in EraseCmds
    BY <1>8 DEF EraseW25QAll, EraseW25QSector, Rx, rx, EraseCmds
  <2>2. a.status = s BY <1>4, <2>1
  <2>3. QED BY <1>1, <1>3, <2>1, <2>2 DEF FlashAnswer, EraseCmds
<1>9. CASE ReadW25Q
  <2>1. PICK n, d : Answer("W25Q_DATA", n, d) /\ rx.cmd = "READ_W25Q"
    BY <1>9 DEF ReadW25Q, Rx, rx
  <2>2. a.status = "W25Q_DATA" BY <1>4, <2>1
  <2>3. a.addr = rx.addr /\ a.dat = norflash_read(rx.addr, rx.size)
    BY <1>1, <1>2, <2>1 DEF BoardDoes
  <2>4. QED BY <1>1, <1>3, <2>1, <2>2, <2>3 DEF FlashAnswer
<1>10. CASE ProgramW25Q
  <2>1. PICK n, d :
          /\ Answer("W25Q_PROGRAM_RES", n, d) /\ rx.cmd = "PROGRAM_W25Q"
          /\ nor' = Written(nor, rx.addr, rx.dat) /\ n = rx.addr
          /\ d = [k \in 1 .. rx.size |-> nor'[(rx.addr + k - 1) % NorSize]]
    BY <1>10 DEF ProgramW25Q, Rx, rx
  <2>2. a.status = "W25Q_PROGRAM_RES" /\ a.addr = rx.addr /\ a.dat = d BY <1>4, <2>1
  <2>3. Len(d) = rx.size /\ \A k \in 1 .. rx.size : d[k] = nor'[(rx.addr + k - 1) % NorSize]
    BY <1>1, <2>1
  <2>4. QED BY <1>1, <1>3, <2>1, <2>2, <2>3 DEF FlashAnswer
<1>11. QED
  BY <1>5, <1>6, <1>7, <1>8, <1>9, <1>10 DEF isp_handle

-----------------------------------------------------------------------------
\* What programs make of a cell, and how a step keeps what is settled.

LEMMA ProgrammedFacts ==
  /\ \A c : Programmed(c, Blank) = c /\ Programmed(c, c) = c
  /\ \A c, b : Programmed(Programmed(c, b), b) = Programmed(c, b)
  /\ \A c, b, d : Programmed(c, b) = c => Programmed(Programmed(c, d), b) = Programmed(c, d)
  /\ \A b : Programmed(Blank, b) = Blank => b = Blank
<1>0. Torn # Blank BY DEF Torn, Blank
<1>1. \A c : Programmed(c, Blank) = c /\ Programmed(c, c) = c BY DEF Programmed
<1>2. ASSUME NEW c, NEW b PROVE Programmed(Programmed(c, b), b) = Programmed(c, b)
  <2>1. CASE b = Blank BY <2>1 DEF Programmed
  <2>2. CASE b # Blank /\ c \in {Blank, b}
    <3>1. Programmed(c, b) = b /\ Programmed(b, b) = b BY <2>2 DEF Programmed
    <3>2. QED BY <3>1
  <2>3. CASE b # Blank /\ c \notin {Blank, b}
    <3>1. Programmed(c, b) = Torn BY <2>3 DEF Programmed
    <3>2. Programmed(Torn, b) = Torn BY <1>0, <2>3 DEF Programmed
    <3>3. QED BY <3>1, <3>2
  <2>4. QED BY <2>1, <2>2, <2>3
<1>3. ASSUME NEW c, NEW b, NEW d, Programmed(c, b) = c
      PROVE  Programmed(Programmed(c, d), b) = Programmed(c, d)
  <2>1. CASE b = Blank BY <2>1 DEF Programmed
  <2>2. CASE d = Blank
    <3>1. Programmed(c, d) = c BY <2>2 DEF Programmed
    <3>2. QED BY <1>3, <3>1
  <2>3. CASE b # Blank /\ d # Blank
    <3>1. c # Blank /\ (c = b \/ c = Torn) BY <1>3, <2>3 DEF Programmed
    <3>2. CASE d = c
      <4>1. Programmed(c, d) = c BY <1>1, <3>2
      <4>2. QED BY <1>3, <4>1
    <3>3. CASE d # c
      <4>1. Programmed(c, d) = Torn BY <2>3, <3>1, <3>3 DEF Programmed
      <4>2. Programmed(Torn, b) = Torn BY <1>0, <2>3 DEF Programmed
      <4>3. QED BY <4>1, <4>2
    <3>4. QED BY <3>2, <3>3
  <2>4. QED BY <2>1, <2>2, <2>3
<1>4. \A b : Programmed(Blank, b) = Blank => b = Blank BY DEF Programmed
<1>5. QED BY <1>1, <1>2, <1>3, <1>4

LEMMA BlankSettles ==
  \A x, m : Settles(Blank, x, m)
BY ProgrammedFacts DEF Settles

\* What is ahead only changes by programs, or when it was the worst that could
\* be.
LEMMA AheadGoesOn ==
  ASSUME NEW m \in {Ahead}, NEW n, n = Ahead', NoErase => NoErase',
         NoErase => \A x \in NorAddresses :
           nor'[x] = nor[x] \/ \E d : nor'[x] = Programmed(nor[x], d)
  PROVE  Later(m, n)
<1>1. SUFFICES ASSUME NEW x \in NorAddresses, NEW b, Settles(b, x, m)
               PROVE  Settles(b, x, n)
  BY DEF Later
<1>2. CASE NoErase
  <2>1. m = nor /\ n = nor' BY <1>2 DEF Ahead
  <2>2. Programmed(nor[x], b) = nor[x] BY <1>1, <2>1 DEF Settles
  <2>3. Programmed(nor'[x], b) = nor'[x] BY <1>2, <2>2, ProgrammedFacts
  <2>4. QED BY <2>1, <2>3 DEF Settles
<1>3. CASE ~NoErase
  <2>1. m[x] = Blank BY <1>3 DEF Ahead
  <2>2. b = Blank BY <1>1, <2>1, ProgrammedFacts DEF Settles
  <2>3. QED BY <2>2, BlankSettles
<1>4. QED BY <1>2, <1>3

\* A program that is new on the line carries what the window shows.
NewProgram(q) ==
  q.cmd = "PROGRAM_W25Q" =>
    \A x \in NorAddresses :
      /\ Writes(q, x) \in {Shows(x), Blank}
      /\ x \in Cells(q, q.size) => Writes(q, x) = Shows(x)

\* What a step does to the window's bytes and the packets.
StepsOn(m, n) ==
  /\ Later(m, n)
  /\ \A x \in NorAddresses : Shows(x)' = Shows(x) \/ Settles(Shows(x)', x, n)
  /\ \A q \in ToBoard' : q \in ToBoard \/ NewProgram(q)'

LEMMA SafeStays ==
  ASSUME NEW m, NEW n, StepsOn(m, n), NEW x, NEW b, Safe(x, b, m), nor'[x] = nor[x]
  PROVE  Safe(x, b, n)'
<1>1. x \in NorAddresses /\ nor[x] = b /\ Settles(Shows(x), x, m) BY DEF Safe
<1>2. Settles(Shows(x)', x, n) BY <1>1 DEF StepsOn, Later
<1>3. ASSUME NEW r \in ToBoard', r.cmd = "PROGRAM_W25Q" PROVE Settles(Writes(r, x), x, n)
  <2>1. CASE r \in ToBoard BY <1>1, <1>3, <2>1 DEF Safe, StepsOn, Later
  <2>2. CASE NewProgram(r)'
    <3>1. Writes(r, x) = Shows(x)' \/ Writes(r, x) = Blank
      BY <1>1, <1>3, <2>2 DEF NewProgram, NorAddresses
    <3>2. QED BY <1>2, <3>1, BlankSettles
  <2>3. QED BY <2>1, <2>2 DEF StepsOn
<1>4. x \in NorAddresses' BY <1>1 DEF NorAddresses
<1>5. nor'[x] = b BY <1>1
<1>6. QED BY <1>2, <1>3, <1>4, <1>5 DEF Safe

LEMMA CountedStays ==
  ASSUME NEW m, NEW n, Counted(m), StepsOn(m, n), NoErase => NoErase',
         flash'.last = flash.last, flash'.counted = flash.counted,
         flash'.e2sent = flash.e2sent, flash'.leOffset = flash.leOffset,
         flash \in Flashes,
         flash.e2sent = 0 \/ \A x, b : Safe(x, b, m) => nor'[x] = nor[x]
  PROVE  Counted(n)'
<1>1. CASE flash'.last # "Program" BY <1>1 DEF Counted
<1>2. CASE flash'.last = "Program"
  <2>1. /\ Len(flash.counted) = flash.e2sent
        /\ NoErase \/ flash.e2sent = 0
        /\ \A k \in 1 .. flash.e2sent :
             \A x \in {flash.leOffset + k - 1}, b \in {flash.counted[k]} : Safe(x, b, m)
    BY <1>2 DEF Counted
  <2>2. ASSUME NEW k \in 1 .. flash.e2sent, NEW x, NEW b,
               x = flash.leOffset + k - 1, b = flash.counted[k]
        PROVE  Safe(x, b, n)'
    <3>1. Safe(x, b, m) BY <2>1, <2>2
    <3>2. flash.e2sent # 0 BY <2>2 DEF Flashes
    <3>3. QED BY <3>1, <3>2, SafeStays
  <2>3. QED BY <1>2, <2>1, <2>2 DEF Counted
<1>3. QED BY <1>1, <1>2

\* A step that keeps the order and the count keeps the rest.
LEMMA StepPrograms ==
  ASSUME NEW m, NEW n, ProgramInv(m), StepsOn(m, n), Ordered(n)', Counted(n)',
         \A a \in ToPC' :
           \/ Tells(a, n)'
           \/ a \in ToPC /\ (a.status = "W25Q_PROGRAM_RES" =>
                               \A x \in Cells(a, Len(a.dat)) : nor'[x] = nor[x])
  PROVE  ProgramInv(n)'
<1>1. ASSUME NEW r \in ToBoard' PROVE Carries(r, n)'
  <2>1. CASE r \in ToBoard
    <3>1. SUFFICES ASSUME r.cmd = "PROGRAM_W25Q", NEW x \in Cells(r, r.size)
                   PROVE  Shows(x)' = Writes(r, x) \/ Settles(Shows(x)', x, n)
      BY DEF Carries, Cells, NorAddresses
    <3>2. x \in NorAddresses BY <3>1 DEF Cells
    <3>3. Shows(x) = Writes(r, x) \/ Settles(Shows(x), x, m)
      BY <2>1, <3>1 DEF ProgramInv, Carries
    <3>4. QED BY <3>2, <3>3 DEF StepsOn, Later
  <2>2. CASE NewProgram(r)' BY <2>2 DEF NewProgram, Carries, Cells, NorAddresses
  <2>3. QED BY <2>1, <2>2 DEF StepsOn
<1>2. ASSUME NEW a \in ToPC' PROVE Tells(a, n)'
  <2>1. CASE Tells(a, n)' BY <2>1
  <2>2. CASE a \in ToPC /\ (a.status = "W25Q_PROGRAM_RES" =>
                              \A x \in Cells(a, Len(a.dat)) : nor'[x] = nor[x])
    <3>1. SUFFICES ASSUME a.status = "W25Q_PROGRAM_RES", NEW x \in Cells(a, Len(a.dat))
                   PROVE  a.dat[x - a.addr + 1] = nor'[x] /\ Settles(Shows(x)', x, n)
      BY DEF Tells, Cells, NorAddresses
    <3>2. x \in NorAddresses BY <3>1 DEF Cells
    <3>3. a.dat[x - a.addr + 1] = nor[x] /\ Settles(Shows(x), x, m)
      BY <2>2, <3>1 DEF ProgramInv, Tells
    <3>4. QED BY <2>2, <3>1, <3>2, <3>3 DEF StepsOn, Later
  <2>3. QED BY <2>1, <2>2
<1>3. QED BY <1>1, <1>2 DEF ProgramInv

-----------------------------------------------------------------------------
\* What the board does keeps the invariant.

\* A read that nobody waits for stays one, when the memory is left alone.
LEMMA ReadStays ==
  ASSUME ReadInv, Kept(ReadCmds, ReadStatuses), UNCHANGED nor, NoErase => NoErase',
         flash.reading \/ IsBlank => flash'.reading \/ IsBlank',
         \A r \in ToBoard' : r \in ToBoard \/ (r.cmd = "PROGRAM_W25Q" =>
           (flash.reading \/ IsBlank => Harmless(r)))
  PROVE  ReadInv'
<1>1. CASE Quiet(ReadCmds, ReadStatuses)
  <2>1. Quiet(ReadCmds, ReadStatuses)' BY <1>1 DEF Kept
  <2>2. QED BY <2>1 DEF ReadInv
<1>2. CASE /\ NoErase /\ \A r \in ToBoard : r.cmd = "PROGRAM_W25Q" => Harmless(r)
           /\ flash.reading \/ IsBlank
           /\ \/ \E r \in ToBoard : Asked(ReadCmds, ReadStatuses, r)
              \/ \E a \in ToPC : Answered(ReadCmds, ReadStatuses, a) /\ CopiesNor(a.dat, a.addr)
  <2>1. /\ NoErase' /\ (flash.reading \/ IsBlank)'
        /\ \A r \in ToBoard' : r.cmd = "PROGRAM_W25Q" => Harmless(r)
    BY <1>2
  <2>2. CASE Quiet(ReadCmds, ReadStatuses)' BY <2>2 DEF ReadInv
  <2>3. CASE \E r : Asked(ReadCmds, ReadStatuses, r)'
    BY <2>1, <2>3, UnderWayPackets DEF ReadInv
  <2>4. CASE \E a : Answered(ReadCmds, ReadStatuses, a)' /\ CopiesNor(a.dat, a.addr)
    <3>1. PICK a : Answered(ReadCmds, ReadStatuses, a)' /\ CopiesNor(a.dat, a.addr) BY <2>4
    <3>2. CopiesNor(a.dat, a.addr)' BY <3>1 DEF CopiesNor
    <3>3. a \in ToPC' BY <3>1, UnderWayPackets
    <3>4. QED BY <2>1, <3>1, <3>2, <3>3 DEF ReadInv
  <2>5. QED BY <1>2, <2>2, <2>3, <2>4 DEF Kept
<1>3. QED BY <1>1, <1>2 DEF ReadInv

\* A program changes its range, to what the bytes make of it.
LEMMA ProgramWrites ==
  ASSUME IspType, toBoard[1] \in Requests, nor' = Written(nor, toBoard[1].addr, toBoard[1].dat),
         NEW x \in NorAddresses
  PROVE  nor'[x] = Programmed(nor[x], Writes(toBoard[1], x))
<1>1. PICK addr \in Nat, dat \in Seq(Byte), mem \in [NorAddresses -> Byte] :
        addr = toBoard[1].addr /\ dat = toBoard[1].dat /\ mem = nor
  BY DEF Requests, IspType, MemoryType
<1>2. DOMAIN mem = NorAddresses BY DEF NorAddresses
<1>3. Written(mem, addr, dat)[x] =
        IF x \in addr .. addr + Len(dat) - 1 THEN Programmed(mem[x], dat[x - addr + 1]) ELSE mem[x]
  BY <1>2 DEF Written
<1>4. nor' = Written(mem, addr, dat) BY <1>1
<1>5. CASE x \in addr .. addr + Len(dat) - 1 BY <1>1, <1>3, <1>4, <1>5 DEF Writes
<1>6. CASE x \notin addr .. addr + Len(dat) - 1
  <2>1. Writes(toBoard[1], x) = Blank BY <1>1, <1>6 DEF Writes
  <2>2. nor'[x] = nor[x] BY <1>1, <1>3, <1>4, <1>6
  <2>3. QED BY <2>1, <2>2, ProgrammedFacts
<1>7. QED BY <1>5, <1>6

LEMMA HarmlessWrites ==
  ASSUME NEW r \in Requests, Harmless(r), NEW x \in NorAddresses
  PROVE  Writes(r, x) = Blank
<1>1. PICK addr \in Nat, dat \in Seq(Byte) : addr = r.addr /\ dat = r.dat BY DEF Requests
<1>2. x \in Int BY Sizes DEF NorAddresses
<1>3. ASSUME x \in addr .. addr + Len(dat) - 1 PROVE dat[x - addr + 1] = Blank
  <2>1. x - addr + 1 \in 1 .. Len(dat) BY <1>2, <1>3
  <2>2. QED BY <1>1, <2>1 DEF Harmless
<1>4. QED BY <1>1, <1>3 DEF Writes

LEMMA BoardKeepsRead ==
  ASSUME IspType, IspType', ReadInv, UNCHANGED flash, NEW a \in Replies, BoardTakes(a),
         FlashAnswer(toBoard[1], a)
  PROVE  ReadInv'
<1>1. toBoard[1].cmd \in ReadCmds <=> a.status \in ReadStatuses
  BY DEF FlashAnswer, ReadCmds, ReadStatuses
<1>2. /\ ToBoard' \subseteq ToBoard /\ ToPC' \subseteq ToPC \cup {a}
      /\ toBoard[1] \in ToBoard /\ toBoard[1] \in Requests
  BY BoardPackets DEF IspType
<1>3. CASE Quiet(ReadCmds, ReadStatuses)
  <2>1. Quiet(ReadCmds, ReadStatuses)' BY <1>1, <1>3, BoardExchange DEF IspType
  <2>2. QED BY <2>1 DEF ReadInv
<1>4. CASE /\ NoErase /\ \A r \in ToBoard : r.cmd = "PROGRAM_W25Q" => Harmless(r)
           /\ flash.reading \/ IsBlank
           /\ \/ \E r \in ToBoard : Asked(ReadCmds, ReadStatuses, r)
              \/ \E p \in ToPC : Answered(ReadCmds, ReadStatuses, p) /\ CopiesNor(p.dat, p.addr)
  <2>1. /\ NoErase' /\ (flash.reading \/ IsBlank)'
        /\ \A r \in ToBoard' : r.cmd = "PROGRAM_W25Q" => Harmless(r)
    BY <1>2, <1>4 DEF NoErase, IsBlank
  <2>2. UNCHANGED nor
    <3>1. CASE toBoard[1].cmd = "PROGRAM_W25Q"
      <4>1. nor' = Written(nor, toBoard[1].addr, toBoard[1].dat) BY <3>1 DEF FlashAnswer
      <4>2. Harmless(toBoard[1]) BY <1>2, <1>4, <3>1
      <4>3. \A x \in NorAddresses : nor'[x] = nor[x]
        BY <1>2, <4>1, <4>2, ProgramWrites, HarmlessWrites, ProgrammedFacts
      <4>4. nor \in [NorAddresses -> Byte] /\ nor' \in [NorAddresses -> Byte]
        BY DEF IspType, MemoryType, NorAddresses, Byte, Torn
      <4>5. QED BY <4>3, <4>4
    <3>2. CASE toBoard[1].cmd # "PROGRAM_W25Q"
      BY <1>2, <1>4, <3>2 DEF FlashAnswer, NorChanges, NoErase, EraseCmds
    <3>3. QED BY <3>1, <3>2
  <2>3. ASSUME NEW p, Answered(ReadCmds, ReadStatuses, p)', CopiesNor(p.dat, p.addr)
        PROVE  ReadInv'
    <3>1. CopiesNor(p.dat, p.addr)' BY <2>2, <2>3 DEF CopiesNor
    <3>2. p \in ToPC' BY <2>3, UnderWayPackets
    <3>3. QED BY <2>1, <2>3, <3>1, <3>2 DEF ReadInv
  <2>4. CASE \E r \in ToBoard : Asked(ReadCmds, ReadStatuses, r)
    <3>1. PICK r \in ToBoard : Asked(ReadCmds, ReadStatuses, r) BY <2>4
    <3>2. \/ Asked(ReadCmds, ReadStatuses, r)'
          \/ Answered(ReadCmds, ReadStatuses, a)' /\ r = toBoard[1]
      BY <1>1, <3>1, BoardExchange DEF IspType
    <3>3. CASE Asked(ReadCmds, ReadStatuses, r)'
      BY <2>1, <3>3, UnderWayPackets DEF ReadInv
    <3>4. CASE Answered(ReadCmds, ReadStatuses, a)' /\ r = toBoard[1]
      <4>1. r.cmd = "READ_W25Q" BY <3>1 DEF Asked, ReadCmds
      <4>2. PICK addr \in Nat, size \in Nat :
              /\ addr = r.addr /\ size = r.size /\ a.addr = addr
              /\ a.dat = norflash_read(addr, size)
        BY <1>2, <3>4, <4>1 DEF FlashAnswer, Requests
      <4>3. CopiesNor(norflash_read(addr, size), addr) BY ReadFacts DEF CopiesNor, IspType
      <4>4. CopiesNor(a.dat, a.addr) BY <4>2, <4>3
      <4>5. QED BY <2>3, <3>4, <4>4
    <3>5. QED BY <3>2, <3>3, <3>4
  <2>5. CASE \E p \in ToPC : Answered(ReadCmds, ReadStatuses, p) /\ CopiesNor(p.dat, p.addr)
    <3>1. PICK p : Answered(ReadCmds, ReadStatuses, p) /\ CopiesNor(p.dat, p.addr) BY <2>5
    <3>2. Answered(ReadCmds, ReadStatuses, p)' BY <1>1, <3>1, BoardExchange DEF IspType
    <3>3. QED BY <2>3, <3>1, <3>2
  <2>6. QED BY <1>4, <2>4, <2>5
<1>5. QED BY <1>3, <1>4 DEF ReadInv

\* An erase: no answer to a program is on its way back, nothing is counted.
LEMMA EraseKeepsPrograms ==
  ASSUME IspType, NEW m \in {Ahead}, ProgramInv(m), UNCHANGED flash,
         NEW a \in Replies, BoardTakes(a), FlashAnswer(toBoard[1], a),
         toBoard[1].cmd \in EraseCmds
  PROVE  (\E mem \in {Ahead} : ProgramInv(mem))'
<1>1. PICK n : n = Ahead' OBVIOUS
<1>2. /\ ToBoard' \subseteq ToBoard /\ ToPC' \subseteq ToPC \cup {a}
      /\ toBoard[1] \in ToBoard
      /\ \A p \in ToPC : MayBeAsked(p, toBoard[1], m)
  BY BoardPackets DEF IspType, ProgramInv
<1>3. ~NoErase BY <1>2 DEF NoErase
<1>4. Later(m, n) BY <1>1, <1>3, AheadGoesOn
<1>5. \A p \in ToPC' : p.status # "W25Q_PROGRAM_RES"
  <2>1. a.status # "W25Q_PROGRAM_RES" BY DEF FlashAnswer, EraseCmds
  <2>2. \A p \in ToPC : p.status # "W25Q_PROGRAM_RES" BY <1>2 DEF MayBeAsked
  <2>3. QED BY <1>2, <2>1, <2>2
<1>6. Ordered(n)'
  <2>1. LineType /\ Ordered(n) BY <1>4, LaterOrders DEF IspType, ProgramInv
  <2>2. \A q \in Requests : MayFollow(toBoard[1], q, n) => MayBeAsked(a, q, n)
    BY DEF MayBeAsked, FlashAnswer, EraseCmds
  <2>3. QED BY <2>1, <2>2, BoardOrders
<1>7. StepsOn(m, n)
  <2>1. \A x : Shows(x)' = Shows(x) BY DEF Shows
  <2>2. QED BY <1>2, <1>4, <2>1 DEF StepsOn
<1>8. Counted(n)'
  <2>1. CASE flash'.last # "Program" BY <2>1 DEF Counted
  <2>2. CASE flash'.last = "Program"
    <3>1. flash.e2sent = 0 BY <1>3, <2>2 DEF ProgramInv, Counted
    <3>2. flash \in Flashes BY DEF IspType, FlashType
    <3>3. QED BY <1>3, <1>7, <3>1, <3>2, CountedStays DEF ProgramInv
  <2>3. QED BY <2>1, <2>2
<1>9. ProgramInv(n)'
  <2>1. \A p \in ToPC' : Tells(p, n)' BY <1>5 DEF Tells
  <2>2. QED BY <1>6, <1>7, <1>8, <2>1, StepPrograms
<1>10. QED BY <1>1, <1>9

\* The answer to a program tells what its cells hold.
LEMMA AnswerTells ==
  ASSUME IspType, toBoard[1] \in Requests, NEW a \in Replies, FlashAnswer(toBoard[1], a),
         toBoard[1].cmd = "PROGRAM_W25Q", NEW x \in Cells(a, Len(a.dat))
  PROVE  x \in Cells(toBoard[1], toBoard[1].size) /\ a.dat[x - a.addr + 1] = nor'[x]
<1>1. PICK addr \in Nat, size \in Nat :
        /\ addr = toBoard[1].addr /\ size = toBoard[1].size
        /\ a.addr = addr /\ Len(a.dat) = size
        /\ \A k \in 1 .. size : a.dat[k] = nor'[(addr + k - 1) % NorSize]
  BY DEF FlashAnswer, Requests
<1>2. x \in Nat /\ x < NorSize /\ addr <= x /\ x < addr + size
  BY <1>1, Sizes DEF Cells, NorAddresses
<1>3. PICK k \in 1 .. size : k = x - addr + 1 BY <1>2
<1>4. addr + k - 1 = x BY <1>2, <1>3
<1>5. x % NorSize = x BY <1>2, SmallMod, Sizes
<1>6. a.dat[k] = nor'[x] BY <1>1, <1>4, <1>5
<1>7. QED BY <1>1, <1>3, <1>6, <1>2 DEF Cells

LEMMA ProgramKeepsPrograms ==
  ASSUME IspType, NEW m \in {Ahead}, ProgramInv(m), UNCHANGED flash,
         NEW a \in Replies, BoardTakes(a), FlashAnswer(toBoard[1], a),
         toBoard[1].cmd = "PROGRAM_W25Q"
  PROVE  (\E mem \in {Ahead} : ProgramInv(mem))'
<1>1. PICK n : n = Ahead' OBVIOUS
<1>2. /\ ToBoard' \subseteq ToBoard /\ ToPC' \subseteq ToPC \cup {a}
      /\ toBoard[1] \in ToBoard /\ toBoard[1] \in Requests
      /\ \A q \in ToBoard' : MayFollow(toBoard[1], q, m)
  BY BoardPackets DEF IspType, ProgramInv
<1>3. NoErase' BY <1>2 DEF MayFollow, NoErase
<1>4. \A x \in NorAddresses : nor'[x] = Programmed(nor[x], Writes(toBoard[1], x))
  BY <1>2, ProgramWrites DEF FlashAnswer
<1>5. Later(m, n) BY <1>1, <1>3, <1>4, AheadGoesOn
<1>6. \A x \in NorAddresses : n[x] = nor'[x] /\ Settles(Writes(toBoard[1], x), x, n)
  BY <1>1, <1>3, <1>4, ProgrammedFacts DEF Ahead, Settles
<1>7. Ordered(n)'
  <2>1. LineType /\ Ordered(n) BY <1>5, LaterOrders DEF IspType, ProgramInv
  <2>2. ASSUME NEW q \in Requests, MayFollow(toBoard[1], q, n) PROVE MayBeAsked(a, q, n)
    <3>1. q.cmd \notin EraseCmds BY <2>2 DEF MayFollow
    <3>2. ASSUME q.cmd = "PROGRAM_W25Q", NEW x \in Cells(a, Len(a.dat))
          PROVE  Settles(Writes(q, x), x, n)
      <4>1. x \in Cells(toBoard[1], toBoard[1].size) BY <1>2, <3>2, AnswerTells
      <4>2. Writes(q, x) = Writes(toBoard[1], x) \/ Settles(Writes(q, x), x, n)
        BY <2>2, <3>2, <4>1 DEF MayFollow
      <4>3. x \in NorAddresses BY <3>2 DEF Cells
      <4>4. QED BY <1>6, <4>2, <4>3
    <3>3. QED BY <3>1, <3>2 DEF MayBeAsked
  <2>3. QED BY <2>1, <2>2, BoardOrders
<1>8. StepsOn(m, n)
  <2>1. \A x : Shows(x)' = Shows(x) BY DEF Shows
  <2>2. QED BY <1>2, <1>5, <2>1 DEF StepsOn
<1>9. \A x, b : Safe(x, b, m) /\ NoErase => nor'[x] = nor[x]
  <2>1. SUFFICES ASSUME NEW x, NEW b, Safe(x, b, m), NoErase PROVE nor'[x] = nor[x] OBVIOUS
  <2>2. m = nor BY <2>1 DEF Ahead
  <2>3. Settles(Writes(toBoard[1], x), x, nor) BY <1>2, <2>1, <2>2 DEF Safe
  <2>4. x \in NorAddresses BY <2>1 DEF Safe
  <2>5. QED BY <1>4, <2>3, <2>4 DEF Settles
<1>10. Counted(n)'
  <2>1. CASE flash'.last # "Program" BY <2>1 DEF Counted
  <2>2. CASE flash'.last = "Program"
    <3>1. flash.e2sent = 0 \/ NoErase BY <2>2 DEF ProgramInv, Counted
    <3>2. flash \in Flashes BY DEF IspType, FlashType
    <3>3. flash.e2sent = 0 \/ \A x, b : Safe(x, b, m) => nor'[x] = nor[x] BY <1>9, <3>1
    <3>4. QED BY <1>3, <1>8, <3>2, <3>3, CountedStays DEF ProgramInv
  <2>3. QED BY <2>1, <2>2
<1>11. Tells(a, n)'
  <2>1. SUFFICES ASSUME NEW x \in Cells(a, Len(a.dat))
                 PROVE  a.dat[x - a.addr + 1] = nor'[x] /\ Settles(Shows(x)', x, n)
    BY DEF Tells, Cells, NorAddresses
  <2>2. x \in Cells(toBoard[1], toBoard[1].size) /\ a.dat[x - a.addr + 1] = nor'[x]
    BY <1>2, <2>1, AnswerTells
  <2>3. x \in NorAddresses BY <2>1 DEF Cells
  <2>4. Shows(x) = Writes(toBoard[1], x) \/ Settles(Shows(x), x, m)
    BY <1>2, <2>2 DEF ProgramInv, Carries
  <2>5. Settles(Shows(x), x, n) BY <1>5, <1>6, <2>3, <2>4 DEF Later
  <2>6. Shows(x)' = Shows(x) BY DEF Shows
  <2>7. QED BY <2>2, <2>5, <2>6
<1>12. ASSUME NEW p \in ToPC, p.status = "W25Q_PROGRAM_RES", NEW x \in Cells(p, Len(p.dat))
       PROVE  nor'[x] = nor[x]
  <2>1. \A q \in ToPC : MayBeAsked(q, toBoard[1], m) BY BoardPackets DEF IspType, ProgramInv
  <2>2. Settles(Writes(toBoard[1], x), x, m) BY <1>12, <2>1 DEF MayBeAsked
  <2>3. \A q \in ToBoard : q.cmd \notin EraseCmds
    <3>1. \A q \in ToBoard : MayBeAsked(p, q, m) BY <1>12 DEF ProgramInv, Ordered, ToBoard, ToPC
    <3>2. QED BY <1>12, <3>1 DEF MayBeAsked
  <2>4. m = nor BY <2>3 DEF Ahead, NoErase
  <2>5. x \in NorAddresses BY <1>12 DEF Cells
  <2>6. QED BY <1>4, <2>2, <2>4, <2>5 DEF Settles
<1>13. ProgramInv(n)'
  <2>1. \A p \in ToPC' :
          \/ Tells(p, n)'
          \/ p \in ToPC /\ (p.status = "W25Q_PROGRAM_RES" =>
                              \A x \in Cells(p, Len(p.dat)) : nor'[x] = nor[x])
    BY <1>2, <1>11, <1>12
  <2>2. QED BY <1>7, <1>8, <1>10, <2>1, StepPrograms
<1>14. QED BY <1>1, <1>13

\* Steps that leave the memory and the window's count alone.
LEMMA QuietStep ==
  ASSUME IspType, NEW m \in {Ahead}, ProgramInv(m), UNCHANGED nor, NoErase => NoErase',
         NEW n, n = Ahead', Ordered(m)',
         \A x \in NorAddresses : Shows(x)' = Shows(x) \/ Shows(x)' = Blank,
         \A q \in ToBoard' : q \in ToBoard \/ NewProgram(q)',
         \A a \in ToPC' : a \in ToPC \/ a.status # "W25Q_PROGRAM_RES",
         \/ flash'.last # "Program"
         \/ /\ flash'.last = flash.last /\ flash'.counted = flash.counted
            /\ flash'.e2sent = flash.e2sent /\ flash'.leOffset = flash.leOffset
         \/ Counted(n)'
  PROVE  (\E mem \in {Ahead} : ProgramInv(mem))'
<1>1. Later(m, n) BY AheadGoesOn
<1>2. Ordered(n)'
  <2>1. \A r, q : MayFollow(r, q, m) => MayFollow(r, q, n) BY <1>1 DEF MayFollow, Later, Cells
  <2>2. \A a, q : MayBeAsked(a, q, m) => MayBeAsked(a, q, n) BY <1>1 DEF MayBeAsked, Later, Cells
  <2>3. QED BY <2>1, <2>2 DEF Ordered
<1>3. StepsOn(m, n) BY <1>1, BlankSettles DEF StepsOn
<1>4. Counted(n)'
  <2>1. flash \in Flashes BY DEF IspType, FlashType
  <2>2. CASE flash'.last # "Program" BY <2>2 DEF Counted
  <2>3. CASE /\ flash'.last = flash.last /\ flash'.counted = flash.counted
             /\ flash'.e2sent = flash.e2sent /\ flash'.leOffset = flash.leOffset
    BY <1>3, <2>1, <2>3, CountedStays DEF ProgramInv
  <2>4. QED BY <2>2, <2>3
<1>5. \A a \in ToPC' :
        \/ Tells(a, n)'
        \/ a \in ToPC /\ (a.status = "W25Q_PROGRAM_RES" =>
                            \A x \in Cells(a, Len(a.dat)) : nor'[x] = nor[x])
  BY DEF Tells
<1>6. ProgramInv(n)' BY <1>2, <1>3, <1>4, <1>5, StepPrograms
<1>7. QED BY <1>6

LEMMA BoardKeepsCount ==
  ASSUME IspType, IspType', CountInv, isp_handle, UNCHANGED flash
  PROVE  CountInv'
<1>1. PICK a \in Replies : BoardTakes(a) /\ FlashAnswer(toBoard[1], a) BY BoardOnFlash
<1>2. PICK m \in {Ahead} : ProgramInv(m) BY DEF CountInv
<1>3. ReadInv' BY <1>1, BoardKeepsRead DEF CountInv
<1>4. CASE toBoard[1].cmd \in EraseCmds BY <1>1, <1>2, <1>3, <1>4, EraseKeepsPrograms DEF CountInv
<1>5. CASE toBoard[1].cmd = "PROGRAM_W25Q"
  BY <1>1, <1>2, <1>3, <1>5, ProgramKeepsPrograms DEF CountInv
<1>6. CASE toBoard[1].cmd \notin EraseCmds \cup {"PROGRAM_W25Q"}
  <2>1. UNCHANGED nor /\ a.status # "W25Q_PROGRAM_RES"
    BY <1>1, <1>6 DEF FlashAnswer, NorChanges, EraseCmds
  <2>2. ToBoard' \subseteq ToBoard /\ ToPC' \subseteq ToPC \cup {a} /\ LineType
    BY <1>1, BoardPackets DEF IspType
  <2>3. NoErase => NoErase' BY <2>2 DEF NoErase
  <2>4. \A q \in Requests : MayFollow(toBoard[1], q, m) => MayBeAsked(a, q, m)
    BY <2>1 DEF MayBeAsked
  <2>5. Ordered(m)' BY <1>1, <1>2, <2>2, <2>4, BoardOrders DEF ProgramInv
  <2>6. \A x : Shows(x)' = Shows(x) BY DEF Shows
  <2>7. PICK n : n = Ahead' OBVIOUS
  <2>8. (\E mem \in {Ahead} : ProgramInv(mem))'
    <3>1. \A q \in ToBoard' : q \in ToBoard \/ NewProgram(q)' BY <2>2
    <3>2. \A p \in ToPC' : p \in ToPC \/ p.status # "W25Q_PROGRAM_RES" BY <2>1, <2>2
    <3>3. QED BY <1>2, <2>1, <2>3, <2>5, <2>6, <2>7, <3>1, <3>2, QuietStep
  <2>9. QED BY <1>3, <2>8 DEF CountInv
<1>7. QED BY <1>4, <1>5, <1>6

-----------------------------------------------------------------------------
\* What the windows and the line do keeps the invariant.

\* Packets of the main window's, and answers that the flash window ignores.
LEMMA OthersKeepCount ==
  ASSUME IspType, CountInv, UNCHANGED <<nor, flash>>,
         UNCHANGED toPC \/ (PcTakes /\ toPC[1].status \notin ReadStatuses),
         NEW requests \in Seq(Requests), PcSends(requests),
         \A k \in 1 .. Len(requests) : requests[k].cmd \notin FlashCmds
  PROVE  CountInv'
<1>1. PICK m \in {Ahead} : ProgramInv(m) BY DEF CountInv
<1>2. /\ Ordered(m)' /\ ToPC' \subseteq ToPC
      /\ \A r \in ToBoard' : r \in ToBoard \/ r.cmd \notin FlashCmds
  BY <1>1, OthersOrder DEF IspType, ProgramInv
<1>3. \A r \in ToBoard' : r \in ToBoard \/ r.cmd \notin EraseCmds \cup {"PROGRAM_W25Q"}
  BY <1>2 DEF FlashCmds, EraseCmds
<1>4. NoErase => NoErase' BY <1>3 DEF NoErase
<1>5. Kept(ReadCmds, ReadStatuses)
  <2>1. \A k \in 1 .. Len(requests) : requests[k].cmd \notin ReadCmds
    BY DEF FlashCmds, ReadCmds
  <2>2. CASE UNCHANGED toPC BY <2>1, <2>2, SendExchange DEF IspType, Kept
  <2>3. CASE PcTakes /\ toPC[1].status \notin ReadStatuses
    BY <2>1, <2>3, TakeExchange DEF IspType, Kept
  <2>4. QED BY <2>2, <2>3
<1>6. ReadInv'
  <2>1. flash.reading \/ IsBlank => flash'.reading \/ IsBlank' BY DEF IsBlank
  <2>2. QED BY <1>3, <1>4, <1>5, <2>1, ReadStays DEF CountInv
<1>7. (\E mem \in {Ahead} : ProgramInv(mem))'
  <2>1. PICK n : n = Ahead' OBVIOUS
  <2>2. \A x \in NorAddresses : Shows(x)' = Shows(x) BY DEF Shows
  <2>3. \A q \in ToBoard' : q \in ToBoard \/ NewProgram(q)' BY <1>3 DEF NewProgram
  <2>4. QED BY <1>1, <1>2, <1>4, <2>1, <2>2, <2>3, QuietStep
<1>8. QED BY <1>6, <1>7 DEF CountInv

LEMMA MainKeepsCount ==
  ASSUME IspType, CountInv, ProgrammerClick \/ ProgrammerParsed, UNCHANGED flash
  PROVE  CountInv'
<1>1. \A c \in MainCmds : c \notin FlashCmds BY DEF MainCmds, FlashCmds
<1>2. CASE ProgrammerClick
  <2>1. PICK r \in Requests : PcSends(<<r>>) /\ r.cmd \in MainCmds BY <1>2, ProgrammerClickMoves
  <2>2. UNCHANGED toPC /\ UNCHANGED nor
    BY <1>2, ProgrammerClickMoves DEF ProgrammerClick, memories
  <2>3. PICK requests \in Seq(Requests) :
          requests = <<r>> /\ Len(requests) = 1 /\ requests[1] = r
    <3>1. <<r>> \in Seq(Requests) /\ Len(<<r>>) = 1 /\ <<r>>[1] = r OBVIOUS
    <3>2. QED BY <3>1
  <2>4. PcSends(requests) /\ \A k \in 1 .. Len(requests) : requests[k].cmd \notin FlashCmds
    BY <1>1, <2>1, <2>3
  <2>5. QED BY <2>2, <2>4, OthersKeepCount
<1>3. CASE ProgrammerParsed
  <2>1. UNCHANGED nor /\ PcTakes /\ toPC[1].status \in MainStatuses BY <1>3, MainTakes
  <2>2. PICK requests \in Seq(Requests) :
          PcSends(requests) /\ \A k \in 1 .. Len(requests) : requests[k].cmd \in MainCmds
    BY <1>3, MainTakes DEF MainSends
  <2>3. toPC[1].status \notin ReadStatuses BY <2>1 DEF MainStatuses, ReadStatuses
  <2>4. QED BY <1>1, <2>1, <2>2, <2>3, OthersKeepCount
<1>4. QED BY <1>2, <1>3

\* The answer of a read that nobody waits for tells what the flash holds.
LEMMA LateAnswer ==
  ASSUME IspType, ReadInv, PcTakes, toPC[1].status \in ReadStatuses,
         NEW requests \in Seq(Requests), PcSends(requests),
         \A k \in 1 .. Len(requests) : requests[k].cmd \notin ReadCmds
  PROVE  /\ Quiet(ReadCmds, ReadStatuses)'
         /\ NoErase /\ (flash.reading \/ IsBlank)
         /\ CopiesNor(toPC[1].dat, toPC[1].addr)
<1>1. /\ ~Quiet(ReadCmds, ReadStatuses) /\ \A r : ~Asked(ReadCmds, ReadStatuses, r)
      /\ \A a : Answered(ReadCmds, ReadStatuses, a) =>
           /\ a = toPC[1]
           /\ (\A k \in 1 .. Len(requests) : requests[k].cmd \notin ReadCmds)
                => Quiet(ReadCmds, ReadStatuses)'
           /\ \A r : requests = <<r>> /\ r.cmd \in ReadCmds => Asked(ReadCmds, ReadStatuses, r)'
  BY TakeExchange DEF IspType
<1>2. QED BY <1>1 DEF ReadInv

LEMMA TakesKeepCount ==
  ASSUME IspType, CountInv, UNCHANGED <<nor, flash>>, PcTakes, PcSends(<<>>)
  PROVE  CountInv'
<1>1. PICK none \in Seq(Requests) : none = <<>> /\ Len(none) = 0
  <2>1. <<>> \in Seq(Requests) /\ Len(<<>>) = 0 OBVIOUS
  <2>2. QED BY <2>1
<1>2. PcSends(none) /\ \A k \in 1 .. Len(none) : none[k].cmd \notin FlashCmds BY <1>1
<1>3. CASE toPC[1].status \notin ReadStatuses BY <1>2, <1>3, OthersKeepCount
<1>4. CASE toPC[1].status \in ReadStatuses
  <2>1. ReadInv'
    <3>1. \A k \in 1 .. Len(none) : none[k].cmd \notin ReadCmds BY <1>1
    <3>2. QED BY <1>2, <1>4, <3>1, LateAnswer DEF ReadInv, CountInv
  <2>2. PICK m \in {Ahead} : ProgramInv(m) BY DEF CountInv
  <2>3. Ordered(m)' /\ ToPC' \subseteq ToPC /\ ToBoard' \subseteq ToBoard
    BY <2>2, NoneOrders DEF IspType, ProgramInv
  <2>4. NoErase => NoErase' BY <2>3 DEF NoErase
  <2>5. \A x \in NorAddresses : Shows(x)' = Shows(x) BY DEF Shows
  <2>6. PICK n : n = Ahead' OBVIOUS
  <2>7. /\ \A q \in ToBoard' : q \in ToBoard
        /\ \A a \in ToPC' : a \in ToPC
    BY <2>3
  <2>8. (\E mem \in {Ahead} : ProgramInv(mem))' BY <2>2, <2>3, <2>4, <2>5, <2>6, <2>7, QuietStep
  <2>9. QED BY <2>1, <2>8 DEF CountInv
<1>5. QED BY <1>3, <1>4

\* What is lost, or left alone.
LEMMA LoseKeepsCount ==
  ASSUME IspType, CountInv, UNCHANGED <<nor, flash>>, Lose \/ UNCHANGED <<toBoard, toPC>>
  PROVE  CountInv'
<1>1. PICK m \in {Ahead} : ProgramInv(m) BY DEF CountInv
<1>2. Ordered(m)' /\ ToBoard' \subseteq ToBoard /\ ToPC' \subseteq ToPC
  <2>1. CASE Lose BY <1>1, <2>1, LoseOrders DEF IspType, ProgramInv
  <2>2. CASE UNCHANGED <<toBoard, toPC>>
    BY <1>1, <2>2 DEF ProgramInv, Ordered, MayFollow, MayBeAsked, ToBoard, ToPC, Settles, Writes,
       Cells, NorAddresses
  <2>3. QED BY <2>1, <2>2
<1>3. Kept(ReadCmds, ReadStatuses)
  <2>1. CASE Lose BY <2>1, LoseExchange DEF IspType, Kept
  <2>2. CASE UNCHANGED <<toBoard, toPC>>
    BY <2>2 DEF Kept, Quiet, Asked, Answered, NoRequest, NoAnswer
  <2>3. QED BY <2>1, <2>2
<1>4. NoErase => NoErase' BY <1>2 DEF NoErase
<1>5. ReadInv'
  <2>1. flash.reading \/ IsBlank => flash'.reading \/ IsBlank' BY DEF IsBlank
  <2>2. \A r \in ToBoard' : r \in ToBoard BY <1>2
  <2>3. QED BY <1>3, <1>4, <2>1, <2>2, ReadStays DEF CountInv
<1>6. (\E mem \in {Ahead} : ProgramInv(mem))'
  <2>1. \A x \in NorAddresses : Shows(x)' = Shows(x) BY DEF Shows
  <2>2. PICK n : n = Ahead' OBVIOUS
  <2>3. /\ \A q \in ToBoard' : q \in ToBoard
        /\ \A a \in ToPC' : a \in ToPC
    BY <1>2
  <2>4. QED BY <1>1, <1>2, <1>4, <2>1, <2>2, <2>3, QuietStep
<1>7. QED BY <1>5, <1>6 DEF CountInv

\* The window opens, closes or learns the flash's size: it shows nothing.
LEMMA BlankKeepsCount ==
  ASSUME IspType, CountInv, UNCHANGED nor, flash' \in Flashes,
         NEW size \in Nat, flash'.e2 = AllBlank(size),
         \A m : Ordered(m) =>
           /\ Ordered(m)' /\ ToPC' \subseteq ToPC
           /\ \A r \in ToBoard' : r \in ToBoard \/ r.cmd = "READ_W25Q_SIZE",
         Kept(ReadCmds, ReadStatuses),
         \/ flash'.last = None
         \/ /\ flash'.last = flash.last /\ flash'.counted = flash.counted
            /\ flash'.e2sent = flash.e2sent /\ flash'.leOffset = flash.leOffset
  PROVE  CountInv'
<1>1. PICK m \in {Ahead} : ProgramInv(m) BY DEF CountInv
<1>2. /\ Ordered(m)' /\ ToPC' \subseteq ToPC
      /\ \A r \in ToBoard' : r \in ToBoard \/ r.cmd \notin EraseCmds \cup {"PROGRAM_W25Q"}
  BY <1>1 DEF ProgramInv, EraseCmds
<1>3. NoErase => NoErase' BY <1>2 DEF NoErase
<1>4. \A k \in 1 .. Len(flash'.e2) : flash'.e2[k] = Blank
  <2>1. AllBlank(size) \in Seq(Byte) /\ Len(AllBlank(size)) = size
    <3>1. TRUE \in BOOLEAN OBVIOUS
    <3>2. QED BY <3>1, OpenedType
  <2>2. \A k \in 1 .. size : AllBlank(size)[k] = Blank BY DEF AllBlank
  <2>3. QED BY <2>1, <2>2
<1>5. IsBlank' BY <1>4 DEF IsBlank
<1>6. \A x \in NorAddresses : Shows(x)' = Blank
  <2>1. SUFFICES ASSUME NEW x \in NorAddresses, x < Len(flash'.e2) PROVE flash'.e2[x + 1] = Blank
    BY DEF Shows
  <2>2. x \in Nat BY Sizes DEF NorAddresses
  <2>3. PICK e2 \in Seq(Byte) : e2 = flash'.e2 BY DEF Flashes
  <2>4. x + 1 \in 1 .. Len(e2) BY <2>1, <2>2, <2>3
  <2>5. QED BY <1>4, <2>3, <2>4
<1>7. ReadInv' BY <1>2, <1>3, <1>5, ReadStays DEF CountInv
<1>8. (\E mem \in {Ahead} : ProgramInv(mem))'
  <2>1. PICK n : n = Ahead' OBVIOUS
  <2>2. \A q \in ToBoard' : q \in ToBoard \/ NewProgram(q)' BY <1>2 DEF NewProgram
  <2>3. \A a \in ToPC' : a \in ToPC BY <1>2
  <2>4. flash'.last = None => flash'.last # "Program" BY NamesDiffer
  <2>5. QED BY <1>1, <1>2, <1>3, <1>6, <2>1, <2>2, <2>3, <2>4, QuietStep
<1>9. QED BY <1>7, <1>8 DEF CountInv

LEMMA OpenKeepsCount ==
  ASSUME IspType, CountInv, slotOpenFlash \/ CloseFlash, UNCHANGED nor
  PROVE  CountInv'
<1>1. UNCHANGED toPC BY OpenMoves
<1>2. PICK isOpen \in BOOLEAN : flash' = Opened(isOpen) BY OpenMoves
<1>3. /\ flash' \in Flashes /\ flash'.last = None
      /\ flash'.e2 = AllBlank(FLASH_EMPTY_SIZE) /\ FLASH_EMPTY_SIZE \in Nat
  BY <1>2, OpenedType, FlashWindowAssumption
<1>4. CASE UNCHANGED toBoard
  <2>1. \A m : Ordered(m) =>
          /\ Ordered(m)' /\ ToPC' \subseteq ToPC
          /\ \A r \in ToBoard' : r \in ToBoard \/ r.cmd = "READ_W25Q_SIZE"
    BY <1>1, <1>4 DEF Ordered, MayFollow, MayBeAsked, ToBoard, ToPC, Settles, Writes, Cells,
       NorAddresses
  <2>2. Kept(ReadCmds, ReadStatuses)
    BY <1>1, <1>4 DEF Kept, Quiet, Asked, Answered, NoRequest, NoAnswer
  <2>3. QED BY <1>3, <2>1, <2>2, BlankKeepsCount
<1>5. CASE \E r \in Requests : r.cmd = "READ_W25Q_SIZE" /\ PcSends(<<r>>)
  <2>1. PICK r \in Requests : r.cmd = "READ_W25Q_SIZE" /\ PcSends(<<r>>) BY <1>5
  <2>2. ASSUME NEW m, Ordered(m)
        PROVE  /\ Ordered(m)' /\ ToPC' \subseteq ToPC
               /\ \A q \in ToBoard' : q \in ToBoard \/ q.cmd = "READ_W25Q_SIZE"
    <3>1. /\ \A q \in ToBoard : MayFollow(q, r, m)
          /\ \A a \in ToPC : MayBeAsked(a, r, m)
      BY <2>1 DEF MayFollow, MayBeAsked, EraseCmds
    <3>2. Ordered(m)' /\ ToBoard' \subseteq ToBoard \cup {r} /\ ToPC' \subseteq ToPC
      BY <1>1, <2>1, <2>2, <3>1, OneOrders DEF IspType
    <3>3. QED BY <2>1, <3>2
  <2>3. Kept(ReadCmds, ReadStatuses)
    <3>1. PICK requests \in Seq(Requests) :
            requests = <<r>> /\ Len(requests) = 1 /\ requests[1] = r
      <4>1. <<r>> \in Seq(Requests) /\ Len(<<r>>) = 1 /\ <<r>>[1] = r OBVIOUS
      <4>2. QED BY <4>1
    <3>2. PcSends(requests) /\ \A k \in 1 .. Len(requests) : requests[k].cmd \notin ReadCmds
      BY <2>1, <3>1 DEF ReadCmds
    <3>3. QED BY <1>1, <3>2, SendExchange DEF IspType, Kept
  <2>4. QED BY <1>3, <2>2, <2>3, BlankKeepsCount
<1>6. QED BY <1>4, <1>5, OpenMoves

LEMMA SizeKeepsCount ==
  ASSUME IspType, CountInv, OnSize, UNCHANGED nor
  PROVE  CountInv'
<1>1. PcTakes /\ PcSends(<<>>) /\ toPC[1].status = "W25Q_SIZE" /\ FlashType' BY OnSizeMoves
<1>2. CASE UNCHANGED flash BY <1>1, <1>2, TakesKeepCount
<1>3. CASE flash' = [flash EXCEPT !.e2 = AllBlank(NorSize)]
  <2>1. /\ flash'.e2 = AllBlank(NorSize) /\ flash'.last = flash.last
        /\ flash'.counted = flash.counted /\ flash'.e2sent = flash.e2sent
        /\ flash'.leOffset = flash.leOffset
    BY <1>3 DEF IspType, FlashType, Flashes
  <2>2. flash' \in Flashes BY <1>1 DEF FlashType, Flashes
  <2>3. \A m : Ordered(m) =>
          /\ Ordered(m)' /\ ToPC' \subseteq ToPC
          /\ \A r \in ToBoard' : r \in ToBoard \/ r.cmd = "READ_W25Q_SIZE"
    BY <1>1, NoneOrders DEF IspType
  <2>4. Kept(ReadCmds, ReadStatuses)
    <3>1. PICK none \in Seq(Requests) : none = <<>> /\ Len(none) = 0
      <4>1. <<>> \in Seq(Requests) /\ Len(<<>>) = 0 OBVIOUS
      <4>2. QED BY <4>1
    <3>2. PcSends(none) /\ \A k \in 1 .. Len(none) : none[k].cmd \notin ReadCmds BY <1>1, <3>1
    <3>3. toPC[1].status \notin ReadStatuses BY <1>1 DEF ReadStatuses
    <3>4. QED BY <1>1, <3>2, <3>3, TakeExchange DEF IspType, Kept
  <2>5. NorSize \in Nat BY Sizes
  <2>6. QED BY <2>1, <2>2, <2>3, <2>4, <2>5, BlankKeepsCount
<1>4. QED BY <1>2, <1>3, OnSizeMoves

\* Buttons that wait until the line is quiet.
LEMMA IdleKeepsCount ==
  ASSUME IspType, slotReadFlashSize \/ FlashEraseAll \/ FlashEraseSector \/ generateData
  PROVE  CountInv'
<1>1. Quiet(FlashCmds, FlashStatuses)
  BY IdleIsQuiet DEF slotReadFlashSize, FlashEraseAll, FlashEraseSector, generateData
<1>2. /\ \A k \in 1 .. Len(toBoard) : toBoard[k].cmd \notin FlashCmds
      /\ \A k \in 1 .. Len(toPC) : toPC[k].status \notin FlashStatuses
  BY <1>1 DEF Quiet, NoRequest, NoAnswer
<1>3. UNCHANGED toPC BY CommandMoves, GenerateMoves DEF line
<1>4. flash'.last # "Program"
  <2>1. flash'.last \in {ReadSizeName, EraseAllName, EraseSectorName, "Generate"}
    BY CommandMoves, GenerateMoves
  <2>2. QED BY <2>1 DEF ReadSizeName, EraseAllName, EraseSectorName
<1>5. \A r \in ToBoard' : r.cmd \notin {"PROGRAM_W25Q", "READ_W25Q"}
  <2>1. \A r \in ToBoard : r.cmd \notin {"PROGRAM_W25Q", "READ_W25Q"}
    BY <1>2 DEF ToBoard, FlashCmds
  <2>2. CASE UNCHANGED toBoard BY <2>1, <2>2 DEF ToBoard
  <2>3. CASE \E r \in Requests :
               r.cmd \in EraseCmds \cup {"READ_W25Q_SIZE"} /\ PcSends(<<r>>)
    <3>1. PICK r \in Requests : r.cmd \in EraseCmds \cup {"READ_W25Q_SIZE"} /\ PcSends(<<r>>)
      BY <2>3
    <3>2. PICK requests \in Seq(Requests) :
            requests = <<r>> /\ Len(requests) = 1 /\ requests[1] = r
      <4>1. <<r>> \in Seq(Requests) /\ Len(<<r>>) = 1 /\ <<r>>[1] = r OBVIOUS
      <4>2. QED BY <4>1
    <3>3. ToBoard' \subseteq ToBoard \cup {requests[k] : k \in 1 .. Len(requests)}
      BY <3>1, <3>2, SendPackets DEF IspType
    <3>4. \A k \in 1 .. Len(requests) : k = 1 BY <3>2
    <3>5. \A q \in ToBoard' : q \in ToBoard \/ q = r BY <3>2, <3>3, <3>4
    <3>6. QED BY <2>1, <3>1, <3>5 DEF EraseCmds
  <2>4. QED BY <2>2, <2>3, CommandMoves, GenerateMoves DEF line
<1>6. \A a \in ToPC' : a.status \notin {"W25Q_PROGRAM_RES", "W25Q_DATA"}
  BY <1>2, <1>3 DEF ToPC, FlashStatuses
<1>7. (\E mem \in {Ahead} : ProgramInv(mem))' BY <1>4, <1>5, <1>6, AloneCounts
<1>8. Quiet(ReadCmds, ReadStatuses)'
  BY <1>5, <1>6 DEF Quiet, NoRequest, NoAnswer, ReadCmds, ReadStatuses, ToBoard, ToPC
<1>9. QED BY <1>7, <1>8 DEF CountInv, ReadInv

\* A program that the window makes fits what is under way.
LEMMA ProgramFollows ==
  ASSUME IspType, NEW m, ProgramInv(m), NEW f \in Flashes, f.e2 = flash.e2,
         f.e2sent <= f.e2send
  PROVE  \E r \in Requests :
           /\ r = ProgramFlash(f) /\ r.cmd = "PROGRAM_W25Q"
           /\ NewProgram(r) /\ (IsBlank => Harmless(r))
           /\ \A q \in ToBoard : MayFollow(q, r, m)
           /\ \A a \in ToPC : MayBeAsked(a, r, m)
<1>1. PICK r \in Requests :
        /\ r = ProgramFlash(f) /\ r.cmd = "PROGRAM_W25Q"
        /\ r.addr = f.leOffset + f.e2sent
        /\ r.dat = Mid(f.e2, f.leOffset + f.e2sent, r.size)
  BY FlashRequestFacts
<1>2. PICK e2 \in Seq(Byte), addr \in Nat, size \in Nat, dat \in Seq(Byte), l \in Nat :
        /\ e2 = flash.e2 /\ addr = r.addr /\ size = r.size /\ dat = r.dat
        /\ l = Len(e2)
  BY DEF Flashes, Requests
<1>3. dat = Mid(e2, addr, size) BY <1>1, <1>2
<1>4. /\ addr <= l => Len(dat) = Min(size, l - addr)
      /\ \A k \in 1 .. Len(dat) : addr + k <= l /\ dat[k] = e2[addr + k]
  <2>1. addr <= Len(e2) => Len(Mid(e2, addr, size)) = Min(size, Len(e2) - addr) BY MidFacts
  <2>2. \A k \in 1 .. Len(Mid(e2, addr, size)) :
          addr + k <= Len(e2) /\ Mid(e2, addr, size)[k] = e2[addr + k]
    BY MidFacts
  <2>3. PICK mid : mid = Mid(e2, addr, size) OBVIOUS
  <2>4. QED BY <1>2, <1>3, <2>1, <2>2, <2>3
<1>5. PICK d \in Nat : d = Len(dat) OBVIOUS
<1>6. ASSUME NEW x \in NorAddresses
      PROVE  /\ Writes(r, x) \in {Shows(x), Blank}
             /\ x \in Cells(r, r.size) => Writes(r, x) = Shows(x)
  <2>1. x \in Nat BY Sizes DEF NorAddresses
  <2>2. ASSUME x \in addr .. addr + d - 1 PROVE Writes(r, x) = Shows(x)
    <3>1. PICK k \in 1 .. d : k = x - addr + 1 BY <2>1, <2>2
    <3>2. addr + k = x + 1 BY <2>1, <3>1
    <3>3. x + 1 <= l /\ dat[k] = e2[x + 1] BY <1>4, <1>5, <3>1, <3>2
    <3>4. x < Len(flash.e2) BY <1>2, <2>1, <3>3
    <3>5. Shows(x) = e2[x + 1] BY <1>2, <3>4 DEF Shows
    <3>6. x \in r.addr .. r.addr + Len(r.dat) - 1 BY <1>2, <1>5, <2>2
    <3>7. Writes(r, x) = dat[k] BY <1>2, <3>1, <3>6 DEF Writes
    <3>8. QED BY <3>3, <3>5, <3>7
  <2>3. ASSUME x \notin addr .. addr + d - 1 PROVE Writes(r, x) = Blank
    BY <1>2, <1>5, <2>3 DEF Writes
  <2>4. ASSUME x \notin addr .. addr + d - 1, x \in Cells(r, r.size) PROVE Shows(x) = Blank
    <3>1. addr <= x /\ x < addr + size BY <1>2, <2>4 DEF Cells
    <3>2. ~(x < addr + d) BY <2>1, <2>4, <3>1
    <3>3. ~(x < l)
      <4>1. ASSUME x < l PROVE FALSE
        <5>1. addr <= l BY <2>1, <3>1, <4>1
        <5>2. d = size \/ d = l - addr BY <1>4, <1>5, <5>1 DEF Min
        <5>3. QED BY <2>1, <3>1, <3>2, <4>1, <5>2
      <4>2. QED BY <4>1
    <3>4. QED BY <1>2, <3>3 DEF Shows
  <2>5. QED BY <2>2, <2>3, <2>4
<1>7. IsBlank => Harmless(r)
  <2>1. SUFFICES ASSUME IsBlank, NEW k \in 1 .. Len(dat) PROVE dat[k] = Blank
    BY <1>2 DEF Harmless
  <2>2. addr + k \in 1 .. l /\ dat[k] = e2[addr + k] BY <1>4, <1>5
  <2>3. QED BY <1>2, <2>1, <2>2 DEF IsBlank
<1>8. r.cmd \notin EraseCmds BY <1>1 DEF EraseCmds
<1>9. ASSUME NEW q \in ToBoard PROVE MayFollow(q, r, m)
  <2>1. SUFFICES ASSUME q.cmd = "PROGRAM_W25Q", NEW x \in Cells(q, q.size)
                 PROVE  Writes(r, x) = Writes(q, x) \/ Settles(Writes(r, x), x, m)
    BY <1>8 DEF MayFollow
  <2>2. Shows(x) = Writes(q, x) \/ Settles(Shows(x), x, m)
    BY <2>1 DEF ProgramInv, Carries
  <2>3. x \in NorAddresses BY <2>1 DEF Cells
  <2>4. Writes(r, x) = Shows(x) \/ Writes(r, x) = Blank BY <1>6, <2>3
  <2>5. QED BY <2>2, <2>4, BlankSettles
<1>10. ASSUME NEW a \in ToPC PROVE MayBeAsked(a, r, m)
  <2>1. SUFFICES ASSUME a.status = "W25Q_PROGRAM_RES", NEW x \in Cells(a, Len(a.dat))
                 PROVE  Settles(Writes(r, x), x, m)
    BY <1>8 DEF MayBeAsked
  <2>2. Settles(Shows(x), x, m) BY <2>1 DEF ProgramInv, Tells
  <2>3. x \in NorAddresses BY <2>1 DEF Cells
  <2>4. Writes(r, x) = Shows(x) \/ Writes(r, x) = Blank BY <1>6, <2>3
  <2>5. QED BY <2>2, <2>4, BlankSettles
<1>11. NewProgram(r) BY <1>6 DEF NewProgram
<1>12. QED BY <1>1, <1>7, <1>9, <1>10, <1>11

LEMMA ProgramClickKeepsCount ==
  ASSUME IspType, CountInv, FlashProgram, UNCHANGED nor
  PROVE  CountInv'
<1>1. PICK m \in {Ahead} : ProgramInv(m) BY DEF CountInv
<1>2. /\ FlashType' /\ UNCHANGED toPC /\ flash'.e2 = flash.e2
      /\ \/ flash'.last = "Refused" /\ UNCHANGED line
         \/ /\ flash'.e2sent = 0 /\ flash'.counted = <<>>
            /\ PcSends(<<ProgramFlash(flash')>>)
  BY FlashProgramMoves
<1>3. PICK f \in Flashes : f = flash' BY <1>2 DEF FlashType, Flashes
<1>4. ~flash.reading BY DEF FlashProgram, ClickInFlash
<1>5. flash.reading \/ IsBlank => flash'.reading \/ IsBlank' BY <1>2, <1>4 DEF IsBlank
<1>6. \A x \in NorAddresses : Shows(x)' = Shows(x) BY <1>2 DEF Shows
<1>7. CASE flash'.last = "Refused" /\ UNCHANGED line
  <2>1. UNCHANGED <<toBoard, toPC>> BY <1>7 DEF line
  <2>2. ToBoard' = ToBoard /\ ToPC' = ToPC BY <2>1 DEF ToBoard, ToPC
  <2>3. Ordered(m)'
    BY <1>1, <2>1 DEF ProgramInv, Ordered, MayFollow, MayBeAsked, Settles, Writes, Cells,
       NorAddresses
  <2>4. Kept(ReadCmds, ReadStatuses)
    BY <2>1 DEF Kept, Quiet, Asked, Answered, NoRequest, NoAnswer
  <2>5. NoErase => NoErase' BY <2>2 DEF NoErase
  <2>6. /\ \A q \in ToBoard' : q \in ToBoard
        /\ \A a \in ToPC' : a \in ToPC
    BY <2>2
  <2>7. ReadInv' BY <1>5, <2>4, <2>5, <2>6, ReadStays DEF CountInv
  <2>8. PICK n : n = Ahead' OBVIOUS
  <2>9. flash'.last # "Program" BY <1>7
  <2>10. (\E mem \in {Ahead} : ProgramInv(mem))'
    BY <1>1, <1>6, <2>3, <2>5, <2>6, <2>8, <2>9, QuietStep
  <2>11. QED BY <2>7, <2>10 DEF CountInv
<1>8. CASE /\ flash'.e2sent = 0 /\ flash'.counted = <<>>
           /\ PcSends(<<ProgramFlash(flash')>>)
  <2>1. f.e2sent <= f.e2send /\ f.e2 = flash.e2 BY <1>2, <1>3, <1>8 DEF Flashes
  <2>2. PICK r \in Requests :
          /\ r = ProgramFlash(f) /\ r.cmd = "PROGRAM_W25Q"
          /\ NewProgram(r) /\ (IsBlank => Harmless(r))
          /\ \A q \in ToBoard : MayFollow(q, r, m)
          /\ \A a \in ToPC : MayBeAsked(a, r, m)
    BY <1>1, <2>1, ProgramFollows
  <2>3. PcSends(<<r>>) BY <1>3, <1>8, <2>2
  <2>4. Ordered(m)' /\ ToBoard' \subseteq ToBoard \cup {r} /\ ToPC' \subseteq ToPC
    BY <1>1, <1>2, <2>2, <2>3, OneOrders DEF IspType, ProgramInv
  <2>5. NoErase => NoErase' BY <2>2, <2>4 DEF NoErase, EraseCmds
  <2>6. NewProgram(r)' BY <1>6, <2>2 DEF NewProgram, Writes, Cells, NorAddresses
  <2>7. \A q \in ToBoard' : q \in ToBoard \/ NewProgram(q)' BY <2>4, <2>6
  <2>8. Kept(ReadCmds, ReadStatuses)
    <3>1. PICK requests \in Seq(Requests) :
            requests = <<r>> /\ Len(requests) = 1 /\ requests[1] = r
      <4>1. <<r>> \in Seq(Requests) /\ Len(<<r>>) = 1 /\ <<r>>[1] = r OBVIOUS
      <4>2. QED BY <4>1
    <3>2. PcSends(requests) /\ \A k \in 1 .. Len(requests) : requests[k].cmd \notin ReadCmds
      BY <2>2, <2>3, <3>1 DEF ReadCmds
    <3>3. QED BY <1>2, <3>2, SendExchange DEF IspType, Kept
  <2>9. \A q \in ToBoard' : q \in ToBoard \/ (q.cmd = "PROGRAM_W25Q" =>
          (flash.reading \/ IsBlank => Harmless(q)))
    BY <1>4, <2>2, <2>4
  <2>10. ReadInv' BY <1>5, <2>5, <2>8, <2>9, ReadStays DEF CountInv
  <2>11. PICK n : n = Ahead' OBVIOUS
  <2>12. Counted(n)'
    <3>1. Len(<<>>) = 0 /\ \A k \in 1 .. 0 : FALSE OBVIOUS
    <3>2. QED BY <1>8, <3>1 DEF Counted
  <2>13. \A a \in ToPC' : a \in ToPC BY <2>4
  <2>14. (\E mem \in {Ahead} : ProgramInv(mem))'
    BY <1>1, <1>6, <2>4, <2>5, <2>7, <2>11, <2>12, <2>13, QuietStep
  <2>15. QED BY <2>10, <2>14 DEF CountInv
<1>9. QED BY <1>2, <1>7, <1>8

\* The answer of a read comes to a window that does not read: it shows, of its
\* cells, what the flash holds.
LEMMA DataKeepsCount ==
  ASSUME IspType, IspType', WindowInv, CountInv, OnData, UNCHANGED nor,
         flash'.last \notin ReadButtons
  PROVE  CountInv'
<1>1. PcTakes /\ toPC[1].status = "W25Q_DATA" BY OnDataMoves
<1>2. CASE UNCHANGED flash /\ PcSends(<<>>) BY <1>1, <1>2, TakesKeepCount
<1>3. CASE ~(UNCHANGED flash /\ PcSends(<<>>))
  <2>1. PICK f \in Flashes :
          /\ toPC[1].addr + Len(toPC[1].dat) <= Len(flash.e2)
          /\ f = Filled(flash, toPC[1].dat, toPC[1].addr)
          /\ \/ f.e2recvd < f.e2recv /\ flash' = f
             \/ ~(f.e2recvd < f.e2recv) /\ flash' = ReadOver(f) /\ PcSends(<<>>)
    BY <1>3, OnDataMoves
  <2>2. PICK old \in Seq(Byte), dat \in Seq(Byte), at \in Nat, l \in Nat, d \in Nat :
          /\ old = flash.e2 /\ dat = toPC[1].dat /\ at = toPC[1].addr
          /\ l = Len(old) /\ d = Len(dat)
    <3>1. toPC[1] \in Replies BY <1>1, TakePackets DEF IspType
    <3>2. PICK dat \in Seq(Byte), at \in Nat : dat = toPC[1].dat /\ at = toPC[1].addr
      BY <3>1 DEF Replies
    <3>3. PICK old \in Seq(Byte) : old = flash.e2 BY DEF IspType, FlashType, Flashes
    <3>4. Len(dat) \in Nat /\ Len(old) \in Nat OBVIOUS
    <3>5. QED BY <3>2, <3>3, <3>4
  <2>3. at + d <= l /\ at <= l BY <2>1, <2>2
  <2>4. /\ f.e2 = Put(flash.e2, at, dat) /\ f.e2recvd = flash.e2recvd + d
        /\ f.last = flash.last /\ f.e2recv = flash.e2recv /\ f.reading = flash.reading
        /\ f.counted = flash.counted /\ f.e2sent = flash.e2sent /\ f.leOffset = flash.leOffset
    <3>1. at <= Len(flash.e2) /\ f = Filled(flash, dat, at) BY <2>1, <2>2, <2>3
    <3>2. flash \in Flashes BY DEF IspType, FlashType
    <3>3. QED BY <2>2, <3>1, <3>2, FilledFacts
  <2>5. /\ flash'.e2 = f.e2 /\ flash'.last = flash.last /\ flash'.counted = flash.counted
        /\ flash'.e2sent = flash.e2sent /\ flash'.leOffset = flash.leOffset
    BY <2>1, <2>4, ReadOverFacts
  <2>6. ~flash.reading /\ ~(flash.e2recvd < flash.e2recv) BY <2>5 DEF WindowInv
  <2>7. PcSends(<<>>)
    <3>1. flash.e2recvd \in Nat /\ flash.e2recv \in Nat BY DEF IspType, FlashType, Flashes
    <3>2. ~(f.e2recvd < f.e2recv) BY <2>4, <2>6, <3>1
    <3>3. QED BY <2>1, <3>2
  <2>8. Quiet(ReadCmds, ReadStatuses)' /\ NoErase /\ CopiesNor(dat, at)
    <3>1. PICK none \in Seq(Requests) : none = <<>> /\ Len(none) = 0
      <4>1. <<>> \in Seq(Requests) /\ Len(<<>>) = 0 OBVIOUS
      <4>2. QED BY <4>1
    <3>2. PcSends(none) /\ \A k \in 1 .. Len(none) : none[k].cmd \notin ReadCmds BY <2>7, <3>1
    <3>3. toPC[1].status \in ReadStatuses BY <1>1 DEF ReadStatuses
    <3>4. QED BY <1>1, <2>2, <3>2, <3>3, LateAnswer DEF CountInv
  <2>9. PICK m \in {Ahead} : ProgramInv(m) BY DEF CountInv
  <2>10. Ordered(m)' /\ ToPC' \subseteq ToPC /\ ToBoard' \subseteq ToBoard
    BY <1>1, <2>7, <2>9, NoneOrders DEF IspType, ProgramInv
  <2>11. NoErase' BY <2>8, <2>10 DEF NoErase
  <2>12. PICK n : n = Ahead' OBVIOUS
  <2>13. m = nor /\ n = nor BY <2>8, <2>11, <2>12 DEF Ahead
  <2>14. \A x \in NorAddresses : Shows(x)' = Shows(x) \/ Settles(Shows(x)', x, n)
    <3>1. SUFFICES ASSUME NEW x \in NorAddresses, Shows(x)' # Shows(x)
                   PROVE  Settles(Shows(x)', x, n)
      OBVIOUS
    <3>2. x \in Nat /\ x < NorSize /\ NorSize \in Nat BY Sizes DEF NorAddresses
    <3>3. PICK e2 \in Seq(Byte) : e2 = flash'.e2 BY DEF IspType, FlashType, Flashes
    <3>4. /\ Len(e2) = l
          /\ \A k \in 1 .. l : e2[k] = IF k \in at + 1 .. at + d THEN dat[k - at] ELSE old[k]
      <4>1. e2 = Put(old, at, dat) BY <2>2, <2>4, <2>5, <3>3
      <4>2. at <= Len(old) BY <2>2, <2>3
      <4>3. /\ Len(e2) = IF at + d > l THEN at + d ELSE l
            /\ \A k \in 1 .. Len(e2) :
                 e2[k] = IF k \in at + 1 .. at + d THEN dat[k - at] ELSE old[k]
        <5>1. Len(Put(old, at, dat)) = IF at + Len(dat) > Len(old) THEN at + Len(dat) ELSE Len(old)
          BY <4>2, PutFacts
        <5>2. \A k \in 1 .. Len(Put(old, at, dat)) :
                Put(old, at, dat)[k] = IF k \in at + 1 .. at + Len(dat) THEN dat[k - at] ELSE old[k]
          BY <4>2, PutFacts
        <5>3. QED BY <2>2, <4>1, <5>1, <5>2
      <4>4. ~(at + d > l) BY <2>3
      <4>5. QED BY <4>3, <4>4
    <3>5. CASE x < l
      <4>1. PICK j \in 1 .. l : j = x + 1 BY <3>2, <3>5
      <4>2. Shows(x)' = e2[j] /\ Shows(x) = old[j] BY <2>2, <3>3, <3>4, <3>5, <4>1 DEF Shows
      <4>3. j \in at + 1 .. at + d /\ e2[j] = dat[j - at]
        <5>1. e2[j] = IF j \in at + 1 .. at + d THEN dat[j - at] ELSE old[j] BY <3>4
        <5>2. e2[j] # old[j] BY <3>1, <4>2
        <5>3. QED BY <5>1, <5>2
      <4>4. PICK k \in 1 .. d : k = j - at BY <4>3
      <4>5. at + k - 1 = x /\ x % NorSize = x
        <5>1. at + k - 1 = x BY <3>2, <4>1, <4>4
        <5>2. x % NorSize = x BY <3>2, SmallMod
        <5>3. QED BY <5>1, <5>2
      <4>6. dat[k] = nor[x] BY <2>2, <2>8, <4>4, <4>5 DEF CopiesNor
      <4>7. Shows(x)' = n[x] BY <2>13, <4>2, <4>3, <4>4, <4>6
      <4>8. QED BY <4>7, ProgrammedFacts DEF Settles
    <3>6. CASE ~(x < l)
      <4>1. Shows(x)' = Blank BY <3>3, <3>4, <3>6 DEF Shows
      <4>2. QED BY <4>1, BlankSettles
    <3>7. QED BY <3>5, <3>6
  <2>15. Later(m, n) BY <2>13 DEF Later
  <2>16. StepsOn(m, n) BY <2>10, <2>14, <2>15 DEF StepsOn
  <2>17. Ordered(n)' BY <2>10, <2>13
  <2>18. Counted(n)'
    <3>1. flash \in Flashes BY DEF IspType, FlashType
    <3>2. NoErase => NoErase' BY <2>11
    <3>3. QED BY <2>5, <2>9, <2>16, <3>1, <3>2, CountedStays DEF ProgramInv
  <2>19. \A a \in ToPC' :
           a \in ToPC /\ (a.status = "W25Q_PROGRAM_RES" =>
                            \A x \in Cells(a, Len(a.dat)) : nor'[x] = nor[x])
    BY <2>10
  <2>20. ProgramInv(n)' BY <2>9, <2>16, <2>17, <2>18, <2>19, StepPrograms
  <2>21. QED BY <2>8, <2>12, <2>20 DEF CountInv, ReadInv
<1>4. QED BY <1>2, <1>3

LEMMA ProgrammedKeepsCount ==
  ASSUME IspType, IspType', WindowInv, CountInv, OnProgrammed, UNCHANGED nor,
         flash'.last \notin ReadButtons
  PROVE  CountInv'
<1>1. PcTakes /\ toPC[1].status = "W25Q_PROGRAM_RES" BY OnProgrammedMoves
<1>2. CASE UNCHANGED flash /\ PcSends(<<>>) BY <1>1, <1>2, TakesKeepCount
<1>3. CASE ~(UNCHANGED flash /\ PcSends(<<>>))
  <2>1. /\ toPC[1].addr = flash.leOffset + flash.e2sent
        /\ toPC[1].dat = Mid(flash.e2, toPC[1].addr, Len(toPC[1].dat))
        /\ flash'.e2sent = flash.e2sent + Len(toPC[1].dat)
        /\ flash'.counted = flash.counted \o toPC[1].dat
        /\ flash' = [flash EXCEPT !.e2sent = flash'.e2sent, !.counted = flash'.counted]
        /\ \/ PcSends(<<>>)
           \/ flash'.e2sent < flash.e2send /\ PcSends(<<ProgramFlash(flash')>>)
    BY <1>3, OnProgrammedMoves
  <2>2. /\ flash'.e2 = flash.e2 /\ flash'.reading = flash.reading /\ flash'.last = flash.last
        /\ flash'.leOffset = flash.leOffset /\ flash'.e2send = flash.e2send
    BY <2>1 DEF IspType, FlashType, Flashes
  <2>3. ~flash.reading BY <2>2 DEF WindowInv
  <2>4. PICK m \in {Ahead} : ProgramInv(m) BY DEF CountInv
  <2>5. /\ ToPC' \subseteq ToPC /\ toPC[1] \in ToPC /\ toPC[1] \in Replies
        /\ \A q \in ToBoard : MayBeAsked(toPC[1], q, m)
    BY <1>1, <2>4, TakePackets DEF IspType, ProgramInv
  <2>6. NoErase BY <1>1, <2>5 DEF NoErase, MayBeAsked
  <2>7. /\ Ordered(m)'
        /\ \A q \in ToBoard' :
             q \in ToBoard \/ (q.cmd = "PROGRAM_W25Q" /\ NewProgram(q) /\ (IsBlank => Harmless(q)))
    <3>1. CASE PcSends(<<>>) BY <1>1, <2>4, <3>1, NoneOrders DEF IspType, ProgramInv
    <3>2. CASE flash'.e2sent < flash.e2send /\ PcSends(<<ProgramFlash(flash')>>)
      <4>1. PICK f \in Flashes : f = flash' BY DEF IspType, FlashType
      <4>2. f.e2sent <= f.e2send /\ f.e2 = flash.e2 BY <2>2, <3>2, <4>1 DEF Flashes
      <4>3. PICK r \in Requests :
              /\ r = ProgramFlash(f) /\ r.cmd = "PROGRAM_W25Q"
              /\ NewProgram(r) /\ (IsBlank => Harmless(r))
              /\ \A q \in ToBoard : MayFollow(q, r, m)
              /\ \A a \in ToPC : MayBeAsked(a, r, m)
        BY <2>4, <4>2, ProgramFollows
      <4>4. PcSends(<<r>>) BY <3>2, <4>1, <4>3
      <4>5. Ordered(m)' /\ ToBoard' \subseteq ToBoard \cup {r}
        BY <1>1, <2>4, <4>3, <4>4, OneOrders DEF IspType, ProgramInv
      <4>6. QED BY <4>3, <4>5
    <3>3. QED BY <2>1, <3>1, <3>2
  <2>8. NoErase' BY <2>6, <2>7 DEF NoErase, EraseCmds
  <2>9. PICK n : n = Ahead' OBVIOUS
  <2>10. m = nor /\ n = nor BY <2>6, <2>8, <2>9 DEF Ahead
  <2>11. \A x \in NorAddresses : Shows(x)' = Shows(x) BY <2>2 DEF Shows
  <2>12. ASSUME NEW q \in ToBoard' PROVE q \in ToBoard \/ NewProgram(q)'
    <3>1. NewProgram(q) => NewProgram(q)' BY <2>11 DEF NewProgram, Writes, Cells, NorAddresses
    <3>2. QED BY <2>7, <3>1
  <2>13. StepsOn(m, n) BY <2>10, <2>11, <2>12 DEF StepsOn, Later
  <2>14. Kept(ReadCmds, ReadStatuses)
    <3>1. toPC[1].status \notin ReadStatuses BY <1>1 DEF ReadStatuses
    <3>2. \E requests \in Seq(Requests) :
            PcSends(requests) /\ \A k \in 1 .. Len(requests) : requests[k].cmd \notin ReadCmds
      <4>1. CASE PcSends(<<>>)
        <5>1. <<>> \in Seq(Requests) /\ Len(<<>>) = 0 OBVIOUS
        <5>2. PICK none \in Seq(Requests) : none = <<>> /\ Len(none) = 0 BY <5>1
        <5>3. PcSends(none) /\ \A k \in 1 .. Len(none) : none[k].cmd \notin ReadCmds
          BY <4>1, <5>2
        <5>4. QED BY <5>3
      <4>2. CASE flash'.e2sent < flash.e2send /\ PcSends(<<ProgramFlash(flash')>>)
        <5>1. PICK f \in Flashes : f = flash' BY DEF IspType, FlashType
        <5>2. f.e2sent <= f.e2send BY <2>2, <4>2, <5>1 DEF Flashes
        <5>3. PICK r \in Requests : r = ProgramFlash(f) /\ r.cmd = "PROGRAM_W25Q"
          BY <5>2, FlashRequestFacts
        <5>4. <<r>> \in Seq(Requests) /\ Len(<<r>>) = 1 /\ <<r>>[1] = r OBVIOUS
        <5>5. PICK requests \in Seq(Requests) :
                requests = <<r>> /\ Len(requests) = 1 /\ requests[1] = r
          BY <5>4
        <5>6. PcSends(requests) /\ \A k \in 1 .. Len(requests) : requests[k].cmd \notin ReadCmds
          BY <4>2, <5>1, <5>3, <5>5 DEF ReadCmds
        <5>7. QED BY <5>6
      <4>3. QED BY <2>1, <4>1, <4>2
    <3>3. QED BY <1>1, <3>1, <3>2, TakeExchange DEF IspType, Kept
  <2>15. ReadInv'
    <3>1. flash.reading \/ IsBlank => flash'.reading \/ IsBlank' BY <2>2 DEF IsBlank
    <3>2. \A q \in ToBoard' : q \in ToBoard \/ (q.cmd = "PROGRAM_W25Q" =>
            (flash.reading \/ IsBlank => Harmless(q)))
      BY <2>3, <2>7
    <3>3. QED BY <2>8, <2>14, <3>1, <3>2, ReadStays DEF CountInv
  <2>16. Counted(n)'
    <3>1. SUFFICES ASSUME flash'.last = "Program"
                   PROVE  /\ Len(flash'.counted) = flash'.e2sent
                          /\ \A k \in 1 .. flash'.e2sent :
                               \A x \in {flash'.leOffset + k - 1}, b \in {flash'.counted[k]} :
                                 Safe(x, b, n)'
      BY <2>8 DEF Counted
    <3>2. /\ Len(flash.counted) = flash.e2sent
          /\ \A k \in 1 .. flash.e2sent :
               \A x \in {flash.leOffset + k - 1}, b \in {flash.counted[k]} : Safe(x, b, m)
      BY <2>2, <2>4, <3>1 DEF ProgramInv, Counted
    <3>3. PICK e2 \in Seq(Byte), old \in Seq(Byte), o \in Nat, s \in Nat :
            e2 = flash.e2 /\ old = flash.counted /\ o = flash.leOffset /\ s = flash.e2sent
      BY DEF IspType, FlashType, Flashes
    <3>4. PICK dat \in Seq(Byte), at \in Nat : dat = toPC[1].dat /\ at = toPC[1].addr
      BY <2>5 DEF Replies
    <3>5. PICK d \in Nat, l \in Nat : d = Len(dat) /\ l = Len(e2) OBVIOUS
    <3>6. /\ at = o + s /\ dat = Mid(e2, at, d) /\ flash'.e2sent = s + d
          /\ flash'.counted = old \o dat /\ flash'.leOffset = o
      BY <2>1, <2>2, <3>3, <3>4, <3>5
    <3>7. /\ Len(old \o dat) = s + d
          /\ \A k \in 1 .. s : (old \o dat)[k] = old[k]
          /\ \A j \in 1 .. d : (old \o dat)[s + j] = dat[j]
      <4>1. Len(old) = s /\ Len(dat) = d BY <3>2, <3>3, <3>5
      <4>2. Len(old \o dat) = Len(old) + Len(dat) OBVIOUS
      <4>3. \A k \in 1 .. Len(old) + Len(dat) :
              (old \o dat)[k] = IF k <= Len(old) THEN old[k] ELSE dat[k - Len(old)]
        OBVIOUS
      <4>4. ASSUME NEW k \in 1 .. s PROVE (old \o dat)[k] = old[k]
        <5>1. k \in 1 .. s + d /\ k <= s OBVIOUS
        <5>2. QED BY <4>1, <4>3, <5>1
      <4>5. ASSUME NEW j \in 1 .. d PROVE (old \o dat)[s + j] = dat[j]
        <5>1. PICK k \in 1 .. s + d : k = s + j OBVIOUS
        <5>2. ~(k <= s) /\ k - s = j BY <5>1
        <5>3. (old \o dat)[k] = dat[j] BY <4>1, <4>3, <5>2
        <5>4. QED BY <5>1, <5>3
      <4>6. QED BY <4>1, <4>2, <4>4, <4>5
    <3>8. \A j \in 1 .. d : at + j <= l
      <4>1. \A k \in 1 .. Len(Mid(e2, at, d)) : at + k <= Len(e2) BY MidFacts
      <4>2. QED BY <3>5, <3>6, <4>1
    <3>9. ASSUME NEW k \in 1 .. s PROVE Safe(o + k - 1, (old \o dat)[k], m)
      BY <3>2, <3>3, <3>7
    <3>10. ASSUME NEW j \in 1 .. d, NEW x, x = at + j - 1 PROVE Safe(x, dat[j], m)
      <4>1. l <= NorSize BY <3>3, <3>5 DEF IspType, FlashType
      <4>2. at + j <= l BY <3>8
      <4>3. x \in NorAddresses /\ at <= x /\ x < at + d BY <3>10, <4>1, <4>2, Sizes DEF NorAddresses
      <4>4. x \in Cells(toPC[1], Len(toPC[1].dat)) BY <3>4, <3>5, <4>3 DEF Cells
      <4>5. toPC[1].dat[x - toPC[1].addr + 1] = nor[x] /\ Settles(Shows(x), x, m)
        BY <1>1, <2>4, <2>5, <4>4 DEF ProgramInv, Tells
      <4>6. x - at + 1 = j BY <3>10
      <4>7. dat[j] = nor[x] BY <3>4, <4>5, <4>6
      <4>8. \A r \in ToBoard : r.cmd = "PROGRAM_W25Q" => Settles(Writes(r, x), x, m)
        BY <1>1, <2>5, <4>4 DEF MayBeAsked
      <4>9. QED BY <4>3, <4>5, <4>7, <4>8 DEF Safe
    <3>11. ASSUME NEW k \in 1 .. s + d PROVE Safe(o + k - 1, (old \o dat)[k], m)
      <4>1. CASE k \in 1 .. s BY <3>9, <4>1
      <4>2. CASE k \notin 1 .. s
        <5>1. PICK j \in 1 .. d : j = k - s BY <4>2
        <5>2. k = s + j /\ o + k - 1 = at + j - 1 BY <3>6, <5>1
        <5>3. (old \o dat)[k] = dat[j] BY <3>7, <5>2
        <5>4. QED BY <3>10, <5>2, <5>3
      <4>3. QED BY <4>1, <4>2
    <3>12. ASSUME NEW k \in 1 .. s + d, NEW x, NEW b, x = o + k - 1, b = (old \o dat)[k]
           PROVE  Safe(x, b, n)'
      <4>1. Safe(x, b, m) BY <3>11, <3>12
      <4>2. QED BY <2>13, <4>1, SafeStays
    <3>13. QED BY <3>6, <3>7, <3>12
  <2>17. ProgramInv(n)'
    <3>1. Ordered(n)' BY <2>7, <2>10
    <3>2. \A a \in ToPC' :
            a \in ToPC /\ (a.status = "W25Q_PROGRAM_RES" =>
                             \A x \in Cells(a, Len(a.dat)) : nor'[x] = nor[x])
      BY <2>5
    <3>3. QED BY <2>4, <2>13, <2>16, <3>1, <3>2, StepPrograms
  <2>18. QED BY <2>9, <2>15, <2>17 DEF CountInv
<1>4. QED BY <1>2, <1>3

-----------------------------------------------------------------------------
\* The invariant is inductive, and says what the window's count is worth.

LEMMA InitCount ==
  ASSUME Init PROVE CountInv
<1>1. toBoard = <<>> /\ toPC = <<>> /\ flash = Opened(FALSE) BY DEF Init, BoardInit, FlashInit
<1>2. PICK isOpen \in BOOLEAN : flash = Opened(isOpen) BY <1>1
<1>3. flash.last = None BY <1>2, OpenedType
<1>4. flash.last # "Program" BY <1>3, NamesDiffer
<1>5. \A i \in 1 .. Len(toBoard) : FALSE BY <1>1
<1>6. \A i \in 1 .. Len(toPC) : FALSE BY <1>1
<1>7. PICK m : m = Ahead OBVIOUS
<1>8. Ordered(m) BY <1>5, <1>6 DEF Ordered
<1>9. (\A r \in ToBoard : FALSE) /\ \A a \in ToPC : FALSE BY <1>5, <1>6 DEF ToBoard, ToPC
<1>10. Counted(m) BY <1>4 DEF Counted
<1>11. ProgramInv(m) BY <1>8, <1>9, <1>10 DEF ProgramInv
<1>12. Quiet(ReadCmds, ReadStatuses) BY <1>5, <1>6 DEF Quiet, NoRequest, NoAnswer
<1>13. QED BY <1>7, <1>11, <1>12 DEF CountInv, ReadInv

LEMMA NextCount ==
  ASSUME IspType, IspType', WindowInv, WindowInv', FlashInv', CountInv, [Next]_vars
  PROVE  CountInv'
<1>1. CASE flash'.last \in ReadButtons BY <1>1, ReadingCounts
<1>2. CASE flash'.last \notin ReadButtons
  <2>1. CASE Board BY <2>1, BoardKeepsCount DEF Board
  <2>2. CASE Operator
    <3>1. CASE ProgrammerClick /\ UNCHANGED flash BY <3>1, MainKeepsCount
    <3>2. CASE FlashClick
      <4>1. UNCHANGED nor BY <3>2 DEF FlashClick, memories
      <4>2. CASE FlashRead
        <5>1. PICK offset \in Nat, size \in Nat : StartsRead("Read", offset, size)
          BY <4>2, FlashReadMoves
        <5>2. QED BY <1>2, <5>1 DEF StartsRead, ReadButtons
      <4>3. CASE ReadAppAndCalcCrc32
        <5>1. PICK byMaster \in BOOLEAN, offset \in AppAddresses :
                StartsRead(ByRecord(byMaster), offset, ShownInfo(flash, byMaster, offset).size)
          BY <4>3, ReadAppMoves
        <5>2. flash'.last = ByRecord(byMaster) BY <5>1 DEF StartsRead
        <5>3. QED BY <1>2, <5>2 DEF ByRecord, ReadButtons
      <4>4. QED BY <3>2, <4>1, <4>2, <4>3, OpenKeepsCount, IdleKeepsCount, ProgramClickKeepsCount
              DEF FlashClick
    <3>3. QED BY <2>2, <3>1, <3>2 DEF Operator
  <2>3. CASE Answers
    <3>1. CASE ProgrammerParsed /\ UNCHANGED flash BY <3>1, MainKeepsCount
    <3>2. CASE FlashParsed
      <4>1. UNCHANGED nor BY <3>2 DEF FlashParsed, memories
      <4>2. CASE OnErased
        <5>1. UNCHANGED flash /\ PcTakes /\ PcSends(<<>>) BY <4>2, OnErasedMoves
        <5>2. QED BY <4>1, <5>1, TakesKeepCount
      <4>3. QED BY <1>2, <3>2, <4>1, <4>2, SizeKeepsCount, DataKeepsCount, ProgrammedKeepsCount
              DEF FlashParsed
    <3>3. QED BY <2>3, <3>1, <3>2 DEF Answers
  <2>4. CASE timerEvent BY <1>2, <2>4, TimerMoves DEF WindowInv
  <2>5. CASE Line BY <2>5, LoseKeepsCount DEF Line, Lose, memories
  <2>6. CASE UNCHANGED vars BY <2>6, LoseKeepsCount DEF vars, memories, line
  <2>7. QED BY <2>1, <2>2, <2>3, <2>4, <2>5, <2>6 DEF Next
<1>3. QED BY <1>1, <1>2

\* What the flash window has counted as programmed stays in the flash, as the
\* window showed it then, for every size of packet, memory and window, every
\* range typed and every number of clicks and losses: whatever else is under
\* way when an answer is counted, no erase comes behind it and no program that
\* changes a byte it covers.
THEOREM CountsWhatIsThere == Spec => []CountedIsProgrammed
<1> DEFINE Inv == IspType /\ FlashInv /\ WindowInv /\ CountInv
<1>1. Init => Inv BY InitType, InitFlash, InitWindow, InitCount
<1>2. Inv /\ [Next]_vars => Inv'
  <2>1. SUFFICES ASSUME Inv, [Next]_vars PROVE Inv' OBVIOUS
  <2>2. IspType' BY <2>1, NextType
  <2>3. FlashInv' BY <2>1, NextFlash
  <2>4. WindowInv' BY <2>1, NextWindow
  <2>5. CountInv' BY <2>1, <2>2, <2>3, <2>4, NextCount
  <2>6. QED BY <2>2, <2>3, <2>4, <2>5
<1>3. Inv => CountedIsProgrammed
  BY DEF CountInv, ProgramInv, Counted, Safe, CountedIsProgrammed
<1> HIDE DEF Inv
<1>4. QED BY <1>1, <1>2, <1>3, PTL DEF Spec
=============================================================================
