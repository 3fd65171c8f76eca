------------------------------ MODULE AnyStore ------------------------------
(***************************************************************************)
(* The boot loader on a board whose flash memories hold anything: records  *)
(* that name applications which are not there, slots with half an image,   *)
(* a chip with another image than any record says.  The board is started   *)
(* twice, without a mishap.                                                *)
(***************************************************************************)
EXTENDS Bootloader

CONSTANT MaxSeq  \* bound on the sequence numbers of the initial records

ASSUME AnyStoreAssumption == MaxSeq \in 0 .. SeqLimit - 2

VARIABLE boots   \* how many starts there have been

anyVars == <<boardVars, bootVars, boots>>

\* One image may be recorded anywhere, or nothing valid; dlstate is the
\* application's business, and so is info where no application is current.
AnyRecord ==
  {ErasedRecord}
  \cup [seq : 0 .. MaxSeq, current_app : Apps, dlstate : {"IDLE"},
        info : [Apps -> {1, ErasedInfo}]]
  \cup {[ErasedRecord EXCEPT !.seq = n] : n \in 0 .. MaxSeq}

AnyArea == {AreaOf(i) : i \in Images}
           \cup {BlankArea, [AreaOf(1) EXCEPT ![Size[1]] = Torn],
                 [AreaOf(1) EXCEPT ![1] = TornHead]}

AnyInit ==
  /\ recs \in [OtaIds -> AnyRecord]
  /\ slots \in [Apps -> {AreaOf(1), [AreaOf(1) EXCEPT ![Size[1]] = Torn]}]
  /\ chip \in AnyArea
  /\ meta \in {ErasedInfo} \cup {i \in {1} : Holds(chip, i)}
  /\ mode = "boot" /\ sysctx = NoContext /\ ota_info = ErasedRecord
  /\ mishaps = 0 /\ BootIdle /\ boots = 1

StartAgain ==
  /\ mode \in {"isp", "app", "lost"} /\ boots = 1
  /\ boots' = 2
  /\ mode' = "boot"
  /\ UNCHANGED <<flash, sysctx, ota_info, mishaps, bootVars>>

Stay == mode # "boot" /\ boots = 2 /\ UNCHANGED anyVars

AnyNext == (BootSteps /\ UNCHANGED boots) \/ StartAgain \/ Stay

AnySpec == AnyInit /\ [][AnyNext]_anyVars /\ WF_anyVars(BootSteps /\ UNCHANGED boots)

-----------------------------------------------------------------------------

Chosen == recs[Other(ChosenOldId)]

SomeLoadable(r) ==
  /\ r.current_app # BadApp
  /\ \E n \in 1 .. Len(BootOrder(r.current_app)) :
       LET a == BootOrder(r.current_app)[n] IN Holds(slots[a], r.info[a])

\* An application that was started although the record in charge knew of a
\* loadable one is the one this record calls current: check_ota has put both
\* right if they were not.
StartedIsCurrent ==
  (mode = "app" /\ SomeLoadable(Chosen)) =>
     Holds(chip, Chosen.info[Chosen.current_app])

\* The boot loader writes no record but the one that is not in charge, except
\* to set up a factory image, which makes both copies new.
SparesChosen ==
  [][ ~Holds(chip, meta) =>
        \A id \in OtaIds : recs'[id] # recs[id] => id = ChosenOldId ]_anyVars

\* A board that has booted once is settled: the next start copies nothing,
\* records nothing.
SecondBootWritesNothing == [][ boots = 2 => UNCHANGED flash ]_anyVars

\* No flash content keeps the boot loader from coming to an end.
BootEnds == mode = "boot" ~> mode # "boot"
=============================================================================
