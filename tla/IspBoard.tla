------------------------------ MODULE IspBoard ------------------------------
(***************************************************************************)
(* The boot loader's ISP loop: the programmer's commands to read, erase    *)
(* and program the on-chip flash and the NOR flash, byte for byte, and the *)
(* two directions of the line.  Left out: REBOOT, which Device has, and    *)
(* the commands that only answer with a number, except the two that the    *)
(* programmer's windows react to.                                          *)
(***************************************************************************)
EXTENDS Integers, Sequences

CONSTANTS
  PKT_DAT_MAX_LEN,     \* data bytes in a packet
  IAP_ADDR_APP_START,  \* the application area, to the end of the chip
  IAP_PAGE_SIZE,
  STC_ROM_SIZE,        \* bytes of the chip
  SectorSize,          \* what the NOR flash erases at once
  NorSize,             \* bytes of the NOR flash
  DataBytes,           \* what a programmed byte may be
  OldBytes,            \* what either memory may be full of at first
  MaxLosses,           \* bound on the packets lost
  MaxFaults            \* bound on the failures of the on-chip flash

ASSUME IspBoardAssumption ==
  /\ {PKT_DAT_MAX_LEN, IAP_PAGE_SIZE, SectorSize, NorSize} \subseteq Nat \ {0}
  /\ {IAP_ADDR_APP_START, STC_ROM_SIZE, MaxLosses, MaxFaults} \subseteq Nat
  /\ IAP_ADDR_APP_START < STC_ROM_SIZE
  /\ DataBytes \subseteq 0 .. 255 /\ OldBytes \subseteq DataBytes \cup {255}

VARIABLES
  chip, nor,      \* the two memories
  toBoard, toPC,  \* packets on the line
  losses, faults  \* packets lost and bytes refused so far

memories == <<chip, nor>>
line     == <<toBoard, toPC>>
counts   == <<losses, faults>>

Blank == 255
Torn  == 256  \* programmed over something else

ChipAddresses == 0 .. STC_ROM_SIZE - 1
NorAddresses  == 0 .. NorSize - 1

Request(cmd, addr, size, dat) == [cmd |-> cmd, addr |-> addr, size |-> size, dat |-> dat]
Reply(status, addr, dat) == [status |-> status, addr |-> addr, dat |-> dat]

\* Either memory may hold something old.
BoardInit ==
  /\ \E old \in OldBytes :
       chip = [a \in ChipAddresses |-> IF a < IAP_ADDR_APP_START THEN Blank ELSE old]
  /\ \E old \in OldBytes : nor = [a \in NorAddresses |-> old]
  /\ toBoard = <<>> /\ toPC = <<>> /\ losses = 0 /\ faults = 0

-----------------------------------------------------------------------------
\* A bit is only ever cleared: a blank byte changes nothing.
Programmed(cell, b) == IF b = Blank THEN cell ELSE IF cell \in {Blank, b} THEN b ELSE Torn

\* The memory after dat was programmed at addr.
Written(mem, addr, dat) ==
  [a \in DOMAIN mem |->
     IF a \in addr .. addr + Len(dat) - 1 THEN Programmed(mem[a], dat[a - addr + 1])
     ELSE mem[a]]

Erased(mem, addr, unit) ==
  [a \in DOMAIN mem |-> IF a \div unit = addr \div unit THEN Blank ELSE mem[a]]

\* Addresses are cut off at the size of the memory.
iap_read_bytes(addr, size) == [k \in 1 .. size |-> chip[(addr + k - 1) % STC_ROM_SIZE]]
norflash_read(addr, size)  == [k \in 1 .. size |-> nor[(addr + k - 1) % NorSize]]

WriteChecks(addr, dat) ==
  \A k \in DOMAIN dat : Programmed(chip[addr + k - 1], dat[k]) = dat[k]

-----------------------------------------------------------------------------
Rx(cmd) == toBoard # <<>> /\ Head(toBoard).cmd = cmd
rx == Head(toBoard)

Answer(status, addr, dat) ==
  /\ toBoard' = Tail(toBoard)
  /\ toPC' = Append(toPC, Reply(status, addr, dat))

Fault == faults < MaxFaults /\ faults' = faults + 1

Connect ==
  /\ Rx("CONNECT") /\ Answer("OK", 0, <<Blank, Blank>>)
  /\ UNCHANGED <<memories, faults>>

ReadLdrVersion ==
  /\ Rx("READ_LDR_VERSION") /\ Answer("LDR_VERSION", 0, <<>>)
  /\ UNCHANGED <<memories, faults>>

ReadRom ==
  /\ Rx("READ") /\ Answer("ROM", 0, iap_read_bytes(rx.addr, rx.size))
  /\ UNCHANGED <<memories, faults>>

\* Byte by byte, each read back, up to the first that is wrong or refused.
Program ==
  /\ Rx("PROGRAM")
  /\ \E good \in 0 .. Len(rx.dat) :
       LET addr == IAP_ADDR_APP_START + rx.addr
           upTo(n) == SubSeq(rx.dat, 1, n)
       IN  /\ WriteChecks(addr, upTo(good))
           /\ \/ /\ good = Len(rx.dat) /\ Answer("OK", 0, <<>>)
                 /\ chip' = Written(chip, addr, rx.dat) /\ UNCHANGED faults
              \/ /\ good < Len(rx.dat) /\ Answer("PROGRAM_FAILED", 0, <<>>)
                 /\ \/ /\ ~WriteChecks(addr, upTo(good + 1))
                       /\ chip' = Written(chip, addr, upTo(good + 1)) /\ UNCHANGED faults
                    \/ /\ Fault /\ chip' = Written(chip, addr, upTo(good))
  /\ UNCHANGED nor

\* Page by page, up to the first that refuses.
EraseAppArea ==
  /\ Rx("ERASE_APP_AREA")
  /\ \/ /\ Answer("OK", 0, <<>>) /\ UNCHANGED faults
        /\ chip' = [a \in ChipAddresses |-> IF a < IAP_ADDR_APP_START THEN chip[a] ELSE Blank]
     \/ /\ Answer("PROGRAM_FAILED", 0, <<>>) /\ Fault
        /\ \E stop \in {a \in IAP_ADDR_APP_START .. STC_ROM_SIZE - 1 : a % IAP_PAGE_SIZE = 0} :
             chip' = [a \in ChipAddresses |->
                        IF a \in IAP_ADDR_APP_START .. stop - 1 THEN Blank ELSE chip[a]]
  /\ UNCHANGED nor

ErasePage ==
  /\ Rx("ERASE_PAGE")
  /\ \/ /\ Answer("OK", 0, <<>>) /\ chip' = Erased(chip, rx.addr, IAP_PAGE_SIZE)
        /\ UNCHANGED faults
     \/ /\ Answer("ERASE_PAGE_FAILED", 0, <<>>) /\ Fault /\ UNCHANGED chip
  /\ UNCHANGED nor

ReadW25QSize ==
  /\ Rx("READ_W25Q_SIZE") /\ Answer("W25Q_SIZE", 0, <<>>)
  /\ UNCHANGED <<memories, faults>>

EraseW25QAll ==
  /\ Rx("ERASE_W25Q_ALL") /\ Answer("W25Q_ERASE_ALL_RES", 0, <<>>)
  /\ nor' = [a \in NorAddresses |-> Blank] /\ UNCHANGED <<chip, faults>>

EraseW25QSector ==
  /\ Rx("ERASE_W25Q_SECTOR") /\ Answer("W25Q_ERASE_SECTOR_RES", rx.addr, <<>>)
  /\ nor' = Erased(nor, rx.addr, SectorSize) /\ UNCHANGED <<chip, faults>>

ReadW25Q ==
  /\ Rx("READ_W25Q") /\ Answer("W25Q_DATA", rx.addr, norflash_read(rx.addr, rx.size))
  /\ UNCHANGED <<memories, faults>>

\* Nothing is checked here: the answer carries what is read back.
ProgramW25Q ==
  /\ Rx("PROGRAM_W25Q")
  /\ nor' = Written(nor, rx.addr, rx.dat)
  /\ Answer("W25Q_PROGRAM_RES", rx.addr,
            [k \in 1 .. rx.size |-> nor'[(rx.addr + k - 1) % NorSize]])
  /\ UNCHANGED <<chip, faults>>

isp_handle ==
  /\ Connect \/ ReadLdrVersion \/ ReadRom \/ Program \/ EraseAppArea \/ ErasePage
     \/ ReadW25QSize \/ EraseW25QAll \/ EraseW25QSector \/ ReadW25Q \/ ProgramW25Q
  /\ UNCHANGED losses

\* A packet is damaged on the line, and the parser drops it.
Lose ==
  /\ losses < MaxLosses /\ losses' = losses + 1
  /\ \/ toBoard # <<>> /\ toBoard' = Tail(toBoard) /\ UNCHANGED toPC
     \/ toPC # <<>> /\ toPC' = Tail(toPC) /\ UNCHANGED toBoard
  /\ UNCHANGED <<memories, faults>>
=============================================================================
