------------------------------- MODULE Device -------------------------------
(***************************************************************************)
(* The whole over-the-air update: the board, its boot loader, its          *)
(* application, the serial link and the server, with power cuts, resets,   *)
(* lost packets and late answers between any two steps.                    *)
(***************************************************************************)
EXTENDS Bootloader, OtaClient

vars == <<boardVars, bootVars, clientVars>>

Init == BoardInit /\ BootIdle /\ ClientInit

Next ==
  \/ BootNext /\ UNCHANGED clientVars
  \/ ClientNext /\ UNCHANGED bootVars
  \/ Reflash /\ UNCHANGED <<bootVars, clientVars>>

Spec == Init /\ [][Next]_vars

\* No loop runs past an area or past the boot order, no download past the last
\* block of its image, and memories and link hold what the programs know.
TypeOK == BoardTypeOK /\ BootTypeOK /\ ClientTypeOK

-----------------------------------------------------------------------------
\* What a reset at this very moment would find in the NOR flash.

\* check_ota's choice of record, and the image its current_app names.
ChosenRecord == recs[Other(ChosenOldId)]
CurrentImage == ChosenRecord.info[ChosenRecord.current_app]

\* A factory image is on the chip, and the boot loader has not finished its
\* installation: it will do it, again if need be, before anything else.
FactoryPending == check_onchip_factory_metadata

\* A record's applications that a boot could load.
Loadable(r, a) == Holds(slots[a], r.info[a])

\* The application the record check_ota would choose calls current is in its
\* slot, whole.  Every update, every cut in it and every restart of the
\* factory copy keeps it so: a reset at any moment finds an application.
CurrentLoadable ==
  FactoryPending \/
  /\ ChosenRecord.current_app # BadApp
  /\ Loadable(ChosenRecord, ChosenRecord.current_app)

\* The factory application, the last resort of the boot order, stays whole.
FactoryLoadable ==
  FactoryPending \/ Loadable(ChosenRecord, FLASH_APP_ID_FACTORY)

\* common.h: the record with the smaller sequence number is safe to write.
\* A step that destroys or replaces a copy leaves the one that is in charge.
KeepsChosenRecord ==
  [][ ~FactoryPending =>
        \A id \in OtaIds : recs'[id] # recs[id] => id = ChosenOldId ]_vars

\* The running application is never its own download's target: no step
\* erases or programs a block of the application a reset would load.
KeepsCurrentSlot ==
  [][ (~FactoryPending /\ ChosenRecord.current_app # BadApp) =>
        slots'[ChosenRecord.current_app] = slots[ChosenRecord.current_app] ]_vars

\* APPLYING promises the new application on the next reboot.
AppliedIsChosen ==
  ota_state = "APPLYING" =>
    /\ ChosenRecord.current_app = appid_to_upgrade
    /\ Loadable(ChosenRecord, appid_to_upgrade)

\* A CPU is sent only into an image that is whole, unless the first bytes of
\* the chip fail the boot loader's own test (common.h:211-213), erased or half
\* erased: line 442 takes such a chip for one that needs no copy.
LostOnlyIfInvalid == mode = "lost" => ~is_valid_on_chip_app_program(chip)

\* Outside the moment between an update and the reset it asks for, what runs
\* is the image the chosen record calls current, bit for bit.
RunsCurrent ==
  (Running /\ ota_state # "APPLYING") => Holds(chip, CurrentImage)

\* The update is atomic: to whoever looks at what a reset would run, records,
\* slots and cuts do not exist.
Promise == INSTANCE AtomicUpdate WITH
  installed <- IF FactoryPending THEN meta ELSE CurrentImage,
  pending   <- FactoryPending

UpdatesAtomically == Promise!Spec

-----------------------------------------------------------------------------
\* What comments of the code say, and the code does not keep.

\* common.c:24, "backup invalid, backup is older".
ErasedBackupIsOlder ==
  ( /\ Running
    /\ recs[FLASH_OTA_ID_BACKUP] = ErasedRecord
    /\ recs[FLASH_OTA_ID_MASTER] # ErasedRecord ) =>
  sysctx.otaid = FLASH_OTA_ID_BACKUP

\* main.c:471, "Same as on-chip app, no need to copy": an application that
\* counts as loaded is on the chip.
LoadedIsOnChip ==
  (mode = "boot" /\ pc = "loaded") => Holds(chip, ota_info.info[Candidate])

-----------------------------------------------------------------------------
\* The main loops run for ever, the server answers, and somebody ends an ISP
\* session, restores power, and power-cycles a board that asks for it.
Fairness ==
  /\ WF_vars((PowerOn \/ BootSteps) /\ UNCHANGED clientVars)
  /\ WF_vars((IspReboot \/ PowerCycleLost) /\ UNCHANGED clientVars)
  /\ WF_vars(PowerCycle /\ UNCHANGED bootVars)
  /\ WF_vars(ota_start /\ UNCHANGED bootVars)
  /\ WF_vars(ota_1s_event /\ UNCHANGED bootVars)
  /\ WF_vars(ota_run /\ UNCHANGED bootVars)
  /\ WF_vars(isp_handle /\ UNCHANGED bootVars)
  /\ WF_vars(ServerSteps /\ UNCHANGED bootVars)

FairSpec == Spec /\ Fairness

\* Whatever the server offers is in the end what a reset runs, lost packets,
\* late answers, cuts and resets notwithstanding.
NewestArrives ==
  <>[](~FactoryPending /\ \A i \in catalog : Version[i] <= VersionOf(CurrentImage))

\* An application that was applied is in the end running.
AppliedRuns ==
  \A i \in Images :
    (ota_state = "APPLYING" /\ Upgrade = i) ~> (Running /\ Holds(chip, i))
=============================================================================
