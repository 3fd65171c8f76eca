---------------------------- MODULE MCIspSession ----------------------------
(***************************************************************************)
(* Sessions for TLC: short ones with both windows, and longer ones with    *)
(* the flash window alone, where answers come late from windows closed     *)
(* before.                                                                 *)
(***************************************************************************)
EXTENDS IspSession

LOCAL INSTANCE Functions

CONSTANTS BothClicks, FlashLosses  \* bounds of the two kinds of session

VARIABLE session

MCDataBytes == 0 .. 4

\* Blank, or of another image.
MCOldBytes == {Blank, 4}

\* Two packets, the second one short.
MCFile == <<3, 1, 2>>

\* From the start of the chip; past the length, where the rest is negative; and
\* within it, where it reaches zero too early and the read asks for no bytes
\* for ever.
MCRomRanges == {<<0, 3>>, <<4, 2>>, <<1, 3>>}

\* Ranges that overlap, of more than one packet; the first one, like the
\* window's own defaults, fits what is shown before the size is known.
MCNorRanges == {<<0, 4>>, <<1, 4>>}

\* An application of two or three bytes behind the records.
MCAppAddresses == {2}
MCAppInfo(record, addr) ==
  [size |-> IF record >= Blank THEN 2 * NorSize ELSE 2 + (record % 2),
   crc  |-> (record \div 2) % 2]
MCCrc(bytes) == FoldFunction(LAMBDA a, b : (a + b) % 2, 0, bytes)

-----------------------------------------------------------------------------
\* The flash window knows nothing of the chip.
MCInit ==
  /\ Init /\ session \in {"both", "flash"}
  /\ session = "flash" => chip = [a \in ChipAddresses |-> Blank]

Choice ==
  /\ session = "both" => clicks' <= BothClicks
  /\ session = "flash" => UNCHANGED programmer /\ losses' <= FlashLosses /\ faults' = 0

MCSpec ==
  /\ MCInit /\ [][Next /\ Choice /\ UNCHANGED session]_<<vars, session>>
  /\ WF_vars(Board) /\ WF_vars(Answers) /\ WF_vars(timerEvent)
=============================================================================
