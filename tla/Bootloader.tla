----------------------------- MODULE Bootloader -----------------------------
(***************************************************************************)
(* The boot loader from reset to its jump: the copy of a factory image to  *)
(* the NOR flash, the choice of the application to run, its copy to the    *)
(* chip.  Loops over sectors, pages and blocks take one step a round; a    *)
(* power cut may come between any two steps, and inside the ones that      *)
(* erase or program.                                                       *)
(***************************************************************************)
EXTENDS Board, Sequences

VARIABLES
  pc,     \* where main stands
  block,  \* the block a copy loop works on
  turn    \* the entry of the boot order that check_ota tries

bootVars == <<pc, block, turn>>

Pcs == {"reset", "eraseFactory", "copyFactory", "saveMaster", "saveBackup",
        "eraseMeta", "checkOta", "tryLoad", "eraseChip", "programChip",
        "loaded", "leave"}

BootTypeOK ==
  /\ pc \in Pcs
  /\ block \in Blocks
  /\ turn \in 1 .. 3

\* The values nobody reads any more.
BootIdle == pc = "reset" /\ block = 1 /\ turn = 1

GoTo(p) == pc' = p /\ UNCHANGED <<block, turn>>

\* One round of a loop over blocks 1 .. n, and where main goes after it.
NextBlock(n, p) ==
  /\ IF block < n THEN block' = block + 1 /\ pc' = pc
                  ELSE block' = 1 /\ pc' = p
  /\ UNCHANGED turn

LeaveLoops(p) == pc' = p /\ block' = 1 /\ turn' = 1

BootReset == LeaveLoops("reset")

BootPowerFails == PowerFails /\ BootReset

-----------------------------------------------------------------------------
\* Power comes back; nothing initialises dfu, and XDATA holds what it likes.
PowerOn ==
  /\ mode = "off"
  /\ mode' = "boot"
  /\ \E dfu \in BOOLEAN : sysctx' = [sysctx EXCEPT !.dfu = dfu]
  /\ UNCHANGED <<flash, ota_info, mishaps, bootVars>>

\* Where main goes when there is no factory image to copy: an image that was
\* asked to stay in the boot loader does not look at the NOR flash.
AfterFactory(ctx) == IF ctx.dfu THEN "leave" ELSE "checkOta"

\* The metadata page describes the application on the chip.
check_onchip_factory_metadata == Holds(chip, meta)

\* main up to the metadata check.
MainStart ==
  /\ mode = "boot" /\ pc = "reset"
  /\ LET ctx == [dfu |-> sysctx.dfu,
                 onchip_app_valid |-> is_valid_on_chip_app_program(chip),
                 appid |-> FLASH_APP_ID_FACTORY, otaid |-> FLASH_OTA_ID_MASTER]
     IN  /\ sysctx' = ctx
         /\ GoTo(IF ctx.onchip_app_valid /\ check_onchip_factory_metadata
                 THEN "eraseFactory" ELSE AfterFactory(ctx))
  /\ UNCHANGED <<flash, mode, ota_info, mishaps>>

-----------------------------------------------------------------------------
\* copy_onchip_factory_app_to_norflash.

\* 1.1: only the sectors the image needs.
EraseFactorySector ==
  /\ mode = "boot" /\ pc = "eraseFactory"
  /\ \/ /\ slots' = SetBlock(slots, FLASH_APP_ID_FACTORY, block, Blank)
        /\ NextBlock(Size[meta], "copyFactory")
        /\ UNCHANGED <<mode, sysctx, ota_info, mishaps>>
     \/ /\ slots' = SetBlock(slots, FLASH_APP_ID_FACTORY, block, Torn)
        /\ Mishap("cut")
        /\ BootPowerFails
  /\ UNCHANGED <<recs, chip, meta>>

\* 1.3: the comparison of the copy with the chip; a difference restarts the
\* board.  Mutant: it is not made.
TrustsCopy(area) == TRUE

CopyVerifies(area) == \A b \in 1 .. Size[meta] : area[b] = chip[b]

\* 1.2: the pages, and the comparison after the last one.
CopyFactoryPage ==
  /\ mode = "boot" /\ pc = "copyFactory"
  /\ LET copied == SetBlock(slots, FLASH_APP_ID_FACTORY, block,
                     Programmed(slots[FLASH_APP_ID_FACTORY][block], chip[block]))
         spoilt == SetBlock(slots, FLASH_APP_ID_FACTORY, block, Torn)
         Continue(s) == /\ slots' = s
                        /\ NextBlock(Size[meta],
                             IF CopyVerifies(s[FLASH_APP_ID_FACTORY]) THEN "saveMaster" ELSE "reset")
                        /\ UNCHANGED <<mode, sysctx, ota_info>>
     IN  \/ Continue(copied) /\ UNCHANGED mishaps
         \/ Continue(spoilt) /\ Mishap("norfault")
         \/ slots' = spoilt /\ Mishap("cut") /\ BootPowerFails
  /\ UNCHANGED <<recs, chip, meta>>

\* A copy of the record did not take all its bytes, and the read back shows it.
SpoiltCopy(id, r) ==
  /\ Mishap("norfault")
  /\ \E t \in TornRecords(r) : recs' = [recs EXCEPT ![id] = t]
  /\ GoTo("reset")

\* 2: the record of the factory image, first to the master copy.  The older
\* record that is read before has every field of it overwritten.  A copy that
\* reads back differently restarts the board.
SaveMaster ==
  /\ mode = "boot" /\ pc = "saveMaster"
  /\ \/ /\ ota_info' = FactoryRecord(meta)
        /\ sysctx' = [sysctx EXCEPT !.otaid = OlderId]
        /\ \/ /\ recs' = [recs EXCEPT ![FLASH_OTA_ID_MASTER] = FactoryRecord(meta)]
              /\ GoTo("saveBackup")
              /\ UNCHANGED mishaps
           \/ SpoiltCopy(FLASH_OTA_ID_MASTER, FactoryRecord(meta))
        /\ UNCHANGED <<slots, chip, meta, mode>>
     \/ StoreCut(FLASH_OTA_ID_MASTER, FactoryRecord(meta)) /\ BootReset /\ UNCHANGED slots

SaveBackup ==
  /\ mode = "boot" /\ pc = "saveBackup"
  /\ \/ /\ recs' = [recs EXCEPT ![FLASH_OTA_ID_BACKUP] = ota_info]
        /\ sysctx' = Toggled(sysctx)
        /\ GoTo("eraseMeta")
        /\ UNCHANGED <<slots, chip, meta, mode, ota_info, mishaps>>
     \/ /\ SpoiltCopy(FLASH_OTA_ID_BACKUP, ota_info)
        /\ UNCHANGED <<slots, chip, meta, mode, sysctx, ota_info>>
     \/ StoreCut(FLASH_OTA_ID_BACKUP, ota_info) /\ BootReset /\ UNCHANGED slots

\* 3: a page erase that fails restarts the board, and the copy with it - if
\* the failure shows: iap_erase_page_check reads the flag after iap_idle has
\* written the register that holds it.
EraseMeta ==
  /\ mode = "boot" /\ pc = "eraseMeta"
  /\ \/ /\ meta' = ErasedInfo
        /\ GoTo(AfterFactory(sysctx))
        /\ UNCHANGED mishaps
     \/ /\ Mishap("iapfault")
        /\ \E p \in {"reset", AfterFactory(sysctx)} : GoTo(p)
        /\ UNCHANGED meta
  /\ UNCHANGED <<recs, slots, chip, mode, sysctx, ota_info>>

-----------------------------------------------------------------------------
\* check_ota and try_load_flash_app.

BootOrder(current_app) ==
  IF current_app = FLASH_APP_ID_FACTORY THEN <<FLASH_APP_ID_FACTORY>>
  ELSE <<current_app,
         IF current_app = FLASH_APP_ID_APP1 THEN FLASH_APP_ID_APP2
                                            ELSE FLASH_APP_ID_APP1,
         FLASH_APP_ID_FACTORY>>

\* The copy of the record check_ota works with: the newer one, the other one
\* if that names no application.
ChosenOldId ==
  IF recs[Other(OlderId)].current_app = BadApp THEN Other(OlderId) ELSE OlderId

check_ota ==
  /\ mode = "boot" /\ pc = "checkOta"
  /\ LET chosen == recs[Other(ChosenOldId)]
     IN  /\ ota_info' = chosen
         /\ sysctx' = [sysctx EXCEPT !.otaid = ChosenOldId]
         /\ IF chosen.current_app = BadApp
            THEN GoTo("leave")
            ELSE GoTo("tryLoad")
  /\ UNCHANGED <<flash, mode, mishaps>>

\* The application whose turn it is; the next one, or no more to try.
Candidate == BootOrder(ota_info.current_app)[turn]

\* Mutant: the same one again.
RetriesSame == pc' = "tryLoad" /\ block' = 1 /\ turn' = turn

LoadFails ==
  IF turn < Len(BootOrder(ota_info.current_app))
  THEN pc' = "tryLoad" /\ block' = 1 /\ turn' = turn + 1
  ELSE LeaveLoops("leave")

\* Only a chip whose application looks valid is compared; otherwise the code
\* takes it that nothing needs copying.
\* Mutants: the flag negated, and only the first block compared.
CopiesIfErased(info) == ~sysctx.onchip_app_valid /\ ~Holds(chip, info)
ComparesOneBlock(info) == sysctx.onchip_app_valid /\ chip[1] # info

NeedCopyFlashToChip(info) ==
  sysctx.onchip_app_valid /\ ~Holds(chip, info)

TryLoad ==
  /\ mode = "boot" /\ pc = "tryLoad"
  /\ LET info == ota_info.info[Candidate]
     IN  IF ~Holds(slots[Candidate], info) THEN LoadFails
         ELSE IF NeedCopyFlashToChip(info) THEN GoTo("eraseChip")
         ELSE GoTo("loaded")
  /\ UNCHANGED <<flash, mode, sysctx, ota_info, mishaps>>

\* The whole application area, page by page; after the thirtieth failure
\* that shows, the next application is tried.
EraseChipPage ==
  /\ mode = "boot" /\ pc = "eraseChip"
  /\ \/ /\ chip' = [chip EXCEPT ![block] = Blank]
        /\ NextBlock(NumBlocks, "programChip")
        /\ UNCHANGED <<mode, sysctx, ota_info, mishaps>>
     \/ /\ Mishap("iapfault")
        /\ LoadFails \/ NextBlock(NumBlocks, "programChip")
        /\ UNCHANGED <<chip, mode, sysctx, ota_info>>
     \/ /\ Mishap("chipcut")
        /\ \E left \in TornCells(block) : chip' = [chip EXCEPT ![block] = left]
        /\ BootPowerFails
  /\ UNCHANGED <<recs, slots, meta>>

BlocksToProgram(info) == Size[info]

\* Every byte is read back: a block that was not erased does not take the
\* bytes of another image.
TakesBlock == chip[block] \in {Blank, slots[Candidate][block]}

ProgramChipPage ==
  /\ mode = "boot" /\ pc = "programChip"
  /\ \/ /\ TakesBlock
        /\ chip' = [chip EXCEPT ![block] = slots[Candidate][block]]
        /\ NextBlock(BlocksToProgram(ota_info.info[Candidate]), "loaded")
        /\ UNCHANGED <<mode, sysctx, ota_info, mishaps>>
     \/ /\ IF TakesBlock THEN Mishap("iapfault") ELSE UNCHANGED mishaps
        /\ \E left \in {chip[block]} \cup TornCells(block) :
             chip' = [chip EXCEPT ![block] = left]
        /\ LoadFails
        /\ UNCHANGED <<mode, sysctx, ota_info>>
     \/ /\ Mishap("chipcut")
        /\ \E left \in TornCells(block) : chip' = [chip EXCEPT ![block] = left]
        /\ BootPowerFails
  /\ UNCHANGED <<recs, slots, meta>>

\* The record after a boot of another application than the current one.
\* Mutant: it still names the one that did not load.
KeepsCurrentApp(r, app) == [r EXCEPT !.seq = @ + 1]

BootedRecord(r, app) == [r EXCEPT !.seq = @ + 1, !.current_app = app]

\* try_load_flash_app returned true.
Loaded ==
  /\ mode = "boot" /\ pc = "loaded"
  /\ LET ctx == [sysctx EXCEPT !.appid = Candidate, !.onchip_app_valid = TRUE]
         r   == BootedRecord(ota_info, Candidate)
     IN  IF ota_info.current_app = Candidate
         THEN /\ sysctx' = ctx
              /\ LeaveLoops("leave")
              /\ UNCHANGED <<flash, mode, ota_info, mishaps>>
         ELSE /\ ota_info.seq < SeqLimit
              /\ \/ /\ Store(r)
                    /\ ota_info' = r
                    /\ sysctx' = Toggled(ctx)
                    /\ LeaveLoops("leave")
                    /\ UNCHANGED <<slots, chip, meta, mode, mishaps>>
                 \/ StoreCut(sysctx.otaid, r) /\ BootReset /\ UNCHANGED slots

-----------------------------------------------------------------------------
\* The end of main: a jump to the application, or the ISP loop, which only
\* a reset leaves.
StaysInIsp == sysctx.dfu \/ ~sysctx.onchip_app_valid

EnterIsp ==
  /\ mode = "boot" /\ pc = "leave" /\ StaysInIsp
  /\ mode' = "isp"
  /\ sysctx' = [sysctx EXCEPT !.dfu = FALSE]
  /\ BootReset
  /\ UNCHANGED <<flash, ota_info, mishaps>>

\* A CPU sent into an area that holds no image is lost until a power cycle.
Jump ==
  /\ mode = "boot" /\ pc = "leave" /\ ~StaysInIsp
  /\ mode' = IF \E image \in Images : Holds(chip, image) THEN "app" ELSE "lost"
  /\ sysctx' = [sysctx EXCEPT !.dfu = FALSE]
  /\ BootReset
  /\ UNCHANGED <<flash, ota_info, mishaps>>

\* key_reboot, or ISP_CMD_REBOOT.
IspReboot ==
  /\ mode = "isp"
  /\ mode' = "boot"
  /\ UNCHANGED <<flash, sysctx, ota_info, mishaps, bootVars>>

PowerCutInBoot ==
  /\ mode \in {"boot", "isp"}
  /\ Mishap(IF pc \in {"eraseChip", "programChip"} THEN "chipcut" ELSE "cut")
  /\ BootPowerFails
  /\ UNCHANGED flash

\* Nothing else brings a lost CPU back.
PowerCycleLost ==
  /\ mode = "lost"
  /\ BootPowerFails
  /\ UNCHANGED <<flash, mishaps>>

\* What the boot loader does by itself, and what is done to it.
BootSteps ==
  \/ MainStart \/ EraseFactorySector \/ CopyFactoryPage \/ SaveMaster
  \/ SaveBackup \/ EraseMeta \/ check_ota \/ TryLoad \/ EraseChipPage
  \/ ProgramChipPage \/ Loaded \/ EnterIsp \/ Jump

BootNext == PowerOn \/ BootSteps \/ IspReboot \/ PowerCycleLost \/ PowerCutInBoot
=============================================================================
