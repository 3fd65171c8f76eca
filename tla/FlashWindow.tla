---------------------------- MODULE FlashWindow -----------------------------
(***************************************************************************)
(* The programmer's flash window, a dialog that programs and reads the NOR *)
(* flash over the same line.  A program goes on only when the answer       *)
(* carries the address expected and the bytes sent; a read that hears      *)
(* nothing for three seconds asks again.  A read of an application that    *)
(* one of the two records names ends with a check of its CRC.              *)
(***************************************************************************)
EXTENDS ProgrammerWindow

CONSTANTS
  NorRanges,         \* offsets and sizes typed
  NORFLASH_OTA_MASTER_ADDR, NORFLASH_OTA_BACKUP_ADDR,
  OtaInfoSize,       \* size of a record; its first byte stands for all of it
  AppAddresses,      \* where the applications are
  AppInfo(_, _),     \* size and CRC that a record has for an application
  Crc(_),
  FLASH_EMPTY_SIZE   \* bytes shown before the size of the flash is known

ASSUME FlashWindowAssumption ==
  /\ NorRanges \subseteq NorAddresses \X (1 .. NorSize)
  /\ {NORFLASH_OTA_MASTER_ADDR, NORFLASH_OTA_BACKUP_ADDR} \cup AppAddresses \subseteq NorAddresses
  /\ FLASH_EMPTY_SIZE \in 1 .. NorSize /\ OtaInfoSize \in Nat \ {0}
  /\ \A a \in AppAddresses : NORFLASH_OTA_MASTER_ADDR < a /\ NORFLASH_OTA_BACKUP_ADDR < a
  /\ \A r \in 0 .. 256, a \in AppAddresses : AppInfo(r, a).size \in Nat

VARIABLE flash  \* the members of class flash that take part; reading says
                \* whether its timer runs, last is the button pressed last;
                \* counted, a history, is what the window showed of each byte
                \* of a program when it counted it as sent

AllBlank(n) == [k \in 1 .. n |-> Blank]

Opened(isOpen) ==
  [open |-> isOpen, e2 |-> AllBlank(FLASH_EMPTY_SIZE), leOffset |-> 0, e2send |-> 0,
   e2sent |-> 0, counted |-> <<>>, e2recv |-> 0, e2recvd |-> 0, reading |-> FALSE,
   last |-> "", readingMaster |-> TRUE, check |-> ""]

FlashInit == flash = Opened(FALSE)

-----------------------------------------------------------------------------
\* The next packet of a program and of a read.
ProgramFlash(f) ==
  LET size == Min(f.e2send - f.e2sent, PKT_DAT_MAX_LEN)
      at   == f.leOffset + f.e2sent
  IN  Request("PROGRAM_W25Q", at, size, Mid(f.e2, at, size))

\* Mutant: the next packet starts where the first one did.
SameChunk(f) ==
  Request("READ_W25Q", f.leOffset, Min(f.e2recv - f.e2recvd, PKT_DAT_MAX_LEN), <<>>)

ReadFlash(f) ==
  Request("READ_W25Q", f.leOffset + f.e2recvd,
          Min(f.e2recv - f.e2recvd, PKT_DAT_MAX_LEN), <<>>)

-----------------------------------------------------------------------------
FlashIdle ==
  ~UnderWay({"READ_W25Q_SIZE", "ERASE_W25Q_ALL", "ERASE_W25Q_SECTOR", "READ_W25Q", "PROGRAM_W25Q"},
            {"W25Q_SIZE", "W25Q_ERASE_ALL_RES", "W25Q_ERASE_SECTOR_RES", "W25Q_DATA",
             "W25Q_PROGRAM_RES"})

ClickInFlash ==
  /\ flash.open /\ ~flash.reading
  /\ clicks < MaxClicks /\ clicks' = clicks + 1

Pressed(button, offset) ==
  [flash EXCEPT !.last = button, !.leOffset = offset, !.check = ""]

slotOpenFlash ==
  /\ ~flash.open /\ clicks < MaxClicks /\ clicks' = clicks + 1
  /\ flash' = Opened(TRUE)
  /\ Send(<<Request("READ_W25Q_SIZE", 0, 0, <<>>)>>)

\* The dialog may be closed at any time; its timer goes with it.
CloseFlash ==
  /\ flash.open /\ flash' = Opened(FALSE)
  /\ UNCHANGED <<line, clicks>>

slotReadFlashSize ==
  /\ ClickInFlash /\ FlashIdle /\ flash' = Pressed("Read Size", flash.leOffset)
  /\ Send(<<Request("READ_W25Q_SIZE", 0, 0, <<>>)>>)

FlashEraseAll ==
  /\ ClickInFlash /\ FlashIdle /\ flash' = Pressed("Erase All", flash.leOffset)
  /\ Send(<<Request("ERASE_W25Q_ALL", 0, 0, <<>>)>>)

FlashEraseSector ==
  /\ ClickInFlash /\ FlashIdle
  /\ \E range \in NorRanges :
       /\ flash' = Pressed("Erase Sector", range[1])
       /\ Send(<<Request("ERASE_W25Q_SECTOR", range[1], 0, <<>>)>>)

generateData ==
  /\ ClickInFlash /\ FlashIdle
  /\ \E range \in NorRanges :
       flash' = [Pressed("Generate", range[1]) EXCEPT
                   !.e2 = [k \in DOMAIN flash.e2 |->
                             IF k \in range[1] + 1 .. range[1] + range[2] THEN (k - range[1] - 1) % 256
                             ELSE flash.e2[k]]]
  /\ UNCHANGED line

\* The operator may be in a hurry here: Program is pressed again, for the
\* same range or another, while the last program still goes on.
FlashProgram ==
  /\ ClickInFlash
  /\ \E range \in NorRanges :
       LET f == [Pressed("Program", range[1]) EXCEPT !.e2send = range[2]]
       IN  IF Len(f.e2) < range[1] + range[2]
           THEN flash' = [f EXCEPT !.last = "Refused"] /\ UNCHANGED line
           ELSE LET g == [f EXCEPT !.e2sent = 0, !.counted = <<>>]
                IN  flash' = g /\ Send(<<ProgramFlash(g)>>)

Reading(button, offset, size) ==
  [Pressed(button, offset) EXCEPT !.e2recv = size, !.e2recvd = 0, !.reading = TRUE]

\* A range that is typed, or one of the records.
FlashRead ==
  /\ ClickInFlash /\ FlashIdle
  /\ \E range \in NorRanges \cup
          {NORFLASH_OTA_MASTER_ADDR, NORFLASH_OTA_BACKUP_ADDR} \X {OtaInfoSize} :
       LET f == Reading("Read", range[1], range[2])
       IN  flash' = f /\ Send(<<ReadFlash(f)>>)

\* The record as the window shows it.
ShownInfo(f, byMaster, offset) ==
  AppInfo(f.e2[(IF byMaster THEN NORFLASH_OTA_MASTER_ADDR ELSE NORFLASH_OTA_BACKUP_ADDR) + 1],
          offset)

\* slotReadFactoryAndCalcCrc32ByMaster and its five siblings.  The record is
\* looked at once the flash's size is known: before, it is beyond the buffer.
ReadAppAndCalcCrc32 ==
  /\ ClickInFlash /\ FlashIdle
  /\ Len(flash.e2) = NorSize
  /\ \E byMaster \in BOOLEAN, offset \in AppAddresses :
       LET size == ShownInfo(flash, byMaster, offset).size
           f == [Reading(IF byMaster THEN "By Master" ELSE "By Backup", offset, size)
                   EXCEPT !.readingMaster = byMaster]
       IN  flash' = f /\ Send(<<ReadFlash(f)>>)

FlashClick ==
  /\ slotOpenFlash \/ CloseFlash \/ slotReadFlashSize \/ FlashEraseAll \/ FlashEraseSector
     \/ generateData \/ FlashProgram \/ FlashRead \/ ReadAppAndCalcCrc32
  /\ UNCHANGED <<memories, counts, programmer>>

\* Three seconds are long: a packet not lost is answered within them.
timerEvent ==
  /\ flash.reading /\ ~UnderWay({"READ_W25Q"}, {"W25Q_DATA"})
  /\ Send(<<ReadFlash(flash)>>)
  /\ UNCHANGED <<memories, counts, programmer, clicks, flash>>

-----------------------------------------------------------------------------
\* flash::slot_serial_parsed; a dialog that is closed handles nothing.
OnSize ==
  /\ Parsed("W25Q_SIZE")
  /\ flash' = IF flash.open THEN [flash EXCEPT !.e2 = AllBlank(NorSize)] ELSE flash
  /\ Handled(<<>>)

OnErased ==
  /\ Parsed("W25Q_ERASE_ALL_RES") \/ Parsed("W25Q_ERASE_SECTOR_RES")
  /\ UNCHANGED flash /\ Handled(<<>>)

\* Mutant: the timer is stopped by every answer.
StopsTimer(f) == [f EXCEPT !.reading = FALSE]

\* A read that has not got all its bytes goes on.
GoesOn(f) == f

\* Mutant: the record in the master's place, whatever button was pressed.
AlwaysByMaster(f) == ShownInfo(f, TRUE, f.leOffset)

ExpectedInfo(f) == ShownInfo(f, f.readingMaster, f.leOffset)

\* The end of a read.  One of as many bytes as a record has is taken for one;
\* one that starts at an application is checked, in the size of the record.
ReadOver(f) ==
  LET stopped == [f EXCEPT !.reading = FALSE]
      info    == ExpectedInfo(f)
  IN  IF f.e2recv = OtaInfoSize \/ f.leOffset \notin AppAddresses
         \/ f.leOffset + info.size > Len(f.e2)
      THEN stopped
      ELSE [stopped EXCEPT !.check =
              IF Crc(Mid(f.e2, f.leOffset, info.size)) = info.crc THEN "OK" ELSE "FAILED"]

OnData ==
  /\ Parsed("W25Q_DATA")
  /\ LET f == [flash EXCEPT !.e2 = Put(@, pkt.addr, pkt.dat), !.e2recvd = @ + Len(pkt.dat)]
     IN  IF ~flash.open \/ pkt.addr + Len(pkt.dat) > Len(flash.e2)
         THEN UNCHANGED flash /\ Handled(<<>>)
         ELSE IF f.e2recvd < f.e2recv
         THEN flash' = GoesOn(f) /\ Handled(<<ReadFlash(f)>>)
         ELSE flash' = ReadOver(f) /\ Handled(<<>>)

\* Mutant: what is read back is not compared.
Unverified == TRUE

Expected == pkt.addr = flash.leOffset + flash.e2sent
Verified == pkt.dat = Mid(flash.e2, pkt.addr, Len(pkt.dat))

OnProgrammed ==
  /\ Parsed("W25Q_PROGRAM_RES")
  /\ LET f == [flash EXCEPT !.e2sent = @ + Len(pkt.dat),
                           !.counted = @ \o Mid(flash.e2, pkt.addr, Len(pkt.dat))]
     IN  IF flash.open /\ Expected /\ Verified
         THEN /\ flash' = f
              /\ Handled(IF f.e2sent < f.e2send THEN <<ProgramFlash(f)>> ELSE <<>>)
         ELSE UNCHANGED flash /\ Handled(<<>>)

FlashParsed ==
  /\ OnSize \/ OnErased \/ OnData \/ OnProgrammed
  /\ UNCHANGED <<memories, counts, programmer, clicks>>
=============================================================================
