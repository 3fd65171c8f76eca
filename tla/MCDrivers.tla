----------------------------- MODULE MCDrivers ------------------------------
(***************************************************************************)
(* What the programs are built on: the two halves of the UART driver, the  *)
(* packet parsers, the checksums, the calendar and the driver of the NOR   *)
(* flash.  They share no variable, so a behaviour is one of one of them    *)
(* with the others at rest.                                                *)
(***************************************************************************)
EXTENDS UartTx, MCPackets, Checksums, Calendar, NorDriver

CONSTANTS MaxBytes, Ahead

VARIABLES
  part, type,  \* which of them; the type of the NOR flash
  rx_buf, rx_r, rx_w, came, read, rx_pc, low, seen_r, seen_w, hit, paced, crossed

rxVars == <<rx_buf, rx_r, rx_w, came, read, rx_pc, low, seen_r, seen_w, hit, paced,
            crossed>>
driverVars == <<part, type, vars, rxVars, linkVars, crcVars, calendarVars, norVars>>

Rx == INSTANCE UartRx WITH r <- rx_r, w <- rx_w, pc <- rx_pc

\* Bytes with one bit, with several and with all.
MCTestBytes == {{}, {0}, {7}, {0, 2, 5, 7}, 0 .. 7}

\* 1 January 1970, a Thursday.
MCFirstDate == [y |-> 1970, m |-> 0, d |-> 1, yday |-> 1, wday |-> 4]

-----------------------------------------------------------------------------
Parts == {"tx", "rx", "link", "checksums", "calendar", "norflash"}

\* What is not looked at starts in one way only.
OneWire ==
  /\ kind = "isp"
  /\ wire = FlattenSeq([x \in 1 .. MaxSent |->
                          OnLine([packet |-> IspPacket(Bare(10)), cut |-> 0])])

DriverInit ==
  /\ part \in Parts /\ type \in Types
  /\ Init /\ Rx!Init /\ LinkInit /\ CrcInit /\ CalendarInit /\ NorInit
  /\ part # "rx" => paced
  /\ part # "link" => OneWire
  /\ part # "norflash" => type = "W25Q128"

At(p) == part = p /\ UNCHANGED <<part, type>>

OfTx(A)   == At("tx") /\ A
             /\ UNCHANGED <<rxVars, linkVars, crcVars, calendarVars, norVars>>
OfRx(A)   == At("rx") /\ A
             /\ UNCHANGED <<vars, linkVars, crcVars, calendarVars, norVars>>
OfLink(A) == At("link") /\ A
             /\ UNCHANGED <<vars, rxVars, crcVars, calendarVars, norVars>>
OfCrc(A)  == At("checksums") /\ A
             /\ UNCHANGED <<vars, rxVars, linkVars, calendarVars, norVars>>
OfDays(A) == At("calendar") /\ A
             /\ UNCHANGED <<vars, rxVars, linkVars, crcVars, norVars>>
OfNor(A)  == At("norflash") /\ A
             /\ UNCHANGED <<vars, rxVars, linkVars, crcVars, calendarVars>>

DriverNext ==
  \/ OfTx(Next) \/ OfRx(Rx!Next) \/ OfLink(LinkNext)
  \/ OfCrc(CrcNext) \/ OfDays(DayPasses) \/ OfNor(NorNext(type))

\* The main loop and the driver go on, pending interrupts are served, and the
\* UART and the chip end what they began.
GoesOn == \/ OfTx(uart1_send_raw) \/ OfRx(Rx!MainLoop) \/ OfLink(LoopTurn)
          \/ OfNor(Transaction \/ ReadId(type) \/ ReadSr3)

Ends == OfTx(ByteLeaves) \/ OfNor(Finish)

DriverSpec ==
  /\ DriverInit /\ [][DriverNext]_driverVars
  /\ WF_driverVars(GoesOn) /\ WF_driverVars(OfTx(uart1_isr)) /\ WF_driverVars(Ends)

-----------------------------------------------------------------------------
\* Until the interrupt skips a byte inside a read, the receive buffer is a
\* queue of bytes to the main loop that reads it; and a PC that keeps pace never
\* brings it to that.
BytesArrive == Rx!KeepsBytes /\ Rx!NeverCrossed

\* The checksums agree with polynomial division and each other; the times, with
\* the calendar.
CrcsAgree  == part = "checksums" => ChecksumsAgree
DatesAgree == part = "calendar" => TimesAreDates

\* Nobody is held up for ever: a send that waits for room returns, the main loop
\* reads every byte that came, a parser that waits for a length never reached gets
\* ready again, and a call of the NOR flash driver returns, also the one with which
\* a board starts while its chip is busy.
Waiting ==
  \/ part = "tx" /\ Sends
  \/ part = "rx" /\ Rx!ByteWaits
  \/ part = "link" /\ Parsing
  \/ part = "norflash" /\ Called

NobodyWaits == []<>~Waiting
=============================================================================
