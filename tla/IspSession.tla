----------------------------- MODULE IspSession -----------------------------
(***************************************************************************)
(* The programmer, with both its windows, and the boot loader in its ISP   *)
(* loop, over a line that loses packets.                                   *)
(***************************************************************************)
EXTENDS FlashWindow

vars == <<memories, line, counts, programmer, clicks, flash>>

Init == BoardInit /\ ProgrammerInit /\ FlashInit

Board == isp_handle /\ UNCHANGED <<programmer, clicks, flash>>

\* The flash window is modal: the main window takes no clicks meanwhile.
Operator ==
  \/ ProgrammerClick /\ ~flash.open /\ UNCHANGED flash
  \/ FlashClick

Answers == (ProgrammerParsed /\ UNCHANGED flash) \/ FlashParsed

Line == Lose /\ UNCHANGED <<programmer, clicks, flash>>

Next == Board \/ Operator \/ Answers \/ timerEvent \/ Line

\* The boot loader handles packets, the programmer answers and its timer.
Spec ==
  Init /\ [][Next]_vars /\ WF_vars(Board) /\ WF_vars(Answers) /\ WF_vars(timerEvent)

-----------------------------------------------------------------------------
\* "OK" as the last line after Program means that the chip holds the file:
\* no answer of the flash window's, no loss and no fault on the way can
\* make the main window skip a chunk.
OkMeansProgrammed ==
  programmer.last = "Program" /\ programmer.log = "OK" =>
    \A k \in DOMAIN programmer.e2 : chip[IAP_ADDR_APP_START + k - 1] = programmer.e2[k]

\* What Read ROM has received so far is what the chip holds from the offset
\* on, also when the rest it computes is negative.
RomShowsChip ==
  programmer.last = "Read ROM" =>
    \A k \in 1 .. programmer.e2recv :
      programmer.e2[k] = chip[(programmer.leReadOffset + k - 1) % STC_ROM_SIZE]

\* What the flash window has counted as programmed stays in the flash, byte
\* for byte as the window showed it when it counted it: however many programs
\* the operator's hurry sets going at once, also from a window that does not
\* know the flash's size yet, and whatever answers come late from a window
\* closed before.
CountedIsProgrammed ==
  flash.last = "Program" =>
    \A k \in 1 .. flash.e2sent : nor[flash.leOffset + k - 1] = flash.counted[k]

\* When a read of the flash is over ("Flash read OK"), every byte asked for
\* is shown, although answers are counted by their length alone.
ReadOkMeansShown ==
  flash.last = "Read" /\ ~flash.reading =>
    \A a \in flash.leOffset .. flash.leOffset + flash.e2recv - 1 :
      a + 1 \in DOMAIN flash.e2 /\ flash.e2[a + 1] = nor[a]

\* "CRC32 check OK" and "FAILED" after a read of an application say what the
\* bytes in the flash deserve by the record whose button was pressed, however
\* often the read had to ask again.
CheckTellsFlash ==
  flash.last \in {"By Master", "By Backup"} /\ flash.check # "" =>
    LET info == ShownInfo(flash, flash.last = "By Master", flash.leOffset)
    IN  (flash.check = "OK") =
          (Crc([k \in 1 .. info.size |-> nor[flash.leOffset + k - 1]]) = info.crc)

\* A read of the flash that fits the window gets all its bytes, whatever is
\* lost on the way, unless the window is closed: the timer asks again.
FlashReadEnds ==
  (flash.reading /\ flash.leOffset + flash.e2recv <= Len(flash.e2))
    ~> flash.e2recvd >= flash.e2recv

\* "OK" as the last line after Erase All means that the application area is
\* blank.
EraseAllErases ==
  programmer.last = "Erase All" /\ programmer.log = "OK" =>
    \A a \in IAP_ADDR_APP_START .. STC_ROM_SIZE - 1 : chip[a] = Blank
=============================================================================
